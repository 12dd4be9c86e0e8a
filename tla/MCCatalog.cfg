CONSTANTS
    Tabs = {t1, t2}
    None = None
    MaxCats = 2
    MaxProps = 2
    MaxCrashes = 1
SYMMETRY MCSymmetry
SPECIFICATION Spec
INVARIANTS CategoryAsChosen ImportedIsSaved
PROPERTIES CategoryInUseStays
