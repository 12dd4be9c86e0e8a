----------------------------- MODULE MallProofs ----------------------------
(***************************************************************************)
(* Proofs about the two screens of the property mall: the list of          *)
(* properties (MallPage), for any properties, categories, keywords, page   *)
(* size and number of requests, and the form (PropertyForm), for any       *)
(* amounts, images, tabs, properties and number of changes.                *)
(***************************************************************************)
EXTENDS MallPage, PropertyForm, FiniteSetTheorems, SequenceTheorems, WellFoundedInduction, TLAPS

-----------------------------------------------------------------------------
(* Least numbers, orders and sequences.                                    *)

\* A set of numbers that is not empty has a least one.
LEMMA LeastNumber ==
    ASSUME NEW S \in SUBSET Nat, S # {}
    PROVE  \E m \in S : \A n \in S : m <= n
<1> DEFINE R == OpToRel(<, Nat)
<1>1. IsWellFoundedOn(R, Nat)
  BY NatLessThanWellFounded
<1>2. \A x, y \in Nat : <<y, x>> \in R <=> y < x
  BY DEF OpToRel
<1> HIDE DEF R
<1>3. PICK m \in S : \A n \in S : ~(<<n, m>> \in R)
  BY <1>1, WFMin
<1>4. \A n \in S : ~(n < m)
  BY <1>2, <1>3
<1> QED BY <1>4

\* R orders S strictly.
StrictOrder(S, R) ==
    /\ \A x \in S : ~(<<x, x>> \in R)
    /\ \A x, y, z \in S : <<x, y>> \in R /\ <<y, z>> \in R => <<x, z>> \in R
    /\ \A x, y \in S : x = y \/ <<x, y>> \in R \/ <<y, x>> \in R

\* The elements of S before x.
Behind(S, R, x) == {y \in S : <<y, x>> \in R}

\* In a finite set that R orders, the number of elements before an element is
\* its place: every place is taken, and by one element.
LEMMA Places ==
    ASSUME NEW S, IsFiniteSet(S), NEW R, StrictOrder(S, R)
    PROVE  /\ \A x \in S : Cardinality(Behind(S, R, x)) + 1 \in 1 .. Cardinality(S)
           /\ \A n \in 1 .. Cardinality(S) : \E x \in S : Cardinality(Behind(S, R, x)) = n - 1
           /\ \A x, z \in S : Cardinality(Behind(S, R, x)) = Cardinality(Behind(S, R, z)) => x = z
           /\ \A x, z \in S : <<x, z>> \in R => Cardinality(Behind(S, R, x)) < Cardinality(Behind(S, R, z))
<1> DEFINE Below(x) == Behind(S, R, x)
           N == Cardinality(S)
           place == [x \in S |-> Cardinality(Below(x)) + 1]
<1>1. N \in Nat
  BY FS_CardinalityType
<1>2. \A x \in S : IsFiniteSet(Below(x)) /\ Cardinality(Below(x)) \in Nat
  BY FS_Subset, FS_CardinalityType DEF Behind
<1>3. ASSUME NEW x \in S PROVE Cardinality(Below(x)) < N
  <2>1. IsFiniteSet(S \ {x}) /\ Cardinality(S \ {x}) = N - 1
    BY FS_RemoveElement
  <2>2. Below(x) \subseteq S \ {x}
    BY DEF Behind, StrictOrder
  <2>3. Cardinality(Below(x)) <= Cardinality(S \ {x})
    BY <2>1, <2>2, FS_Subset
  <2> QED BY <1>1, <1>2, <2>1, <2>3
<1>4. ASSUME NEW x \in S, NEW z \in S, <<x, z>> \in R
      PROVE  Cardinality(Below(x)) < Cardinality(Below(z))
  <2>1. Below(x) \subseteq Below(z) /\ x \in Below(z) /\ x \notin Below(x)
    BY <1>4 DEF Behind, StrictOrder
  <2>2. Cardinality(Below(x)) <= Cardinality(Below(z)) /\ Cardinality(Below(x)) # Cardinality(Below(z))
    BY <1>2, <2>1, FS_Subset
  <2> QED BY <1>2, <2>2
<1> HIDE DEF Below, N
<1>5. ASSUME NEW x \in S, NEW z \in S, Cardinality(Below(x)) = Cardinality(Below(z))
      PROVE  x = z
  <2>1. ~(Cardinality(Below(x)) < Cardinality(Below(z))) /\ ~(Cardinality(Below(z)) < Cardinality(Below(x)))
    BY <1>2, <1>5
  <2> QED BY <1>4, <2>1 DEF StrictOrder
<1>6. \A x \in S : place[x] = Cardinality(Below(x)) + 1 /\ place[x] \in 1 .. N
  BY <1>1, <1>2, <1>3
<1>7. place \in Injection(S, 1 .. N)
  <2>1. \A x, z \in S : place[x] = place[z] => x = z
    BY <1>2, <1>5
  <2>2. place \in [S -> 1 .. N] /\ DOMAIN place = S
    BY <1>6
  <2> HIDE DEF place
  <2>3. IsInjective(place)
    BY <2>1, <2>2 DEF IsInjective
  <2> QED BY <2>2, <2>3 DEF Injection
<1>8. IsFiniteSet(1 .. N) /\ Cardinality(1 .. N) = N
  <2>1. IsFiniteSet(1 .. N) /\ Cardinality(1 .. N) = IF 1 > N THEN 0 ELSE N - 1 + 1
    <3>1. 1 \in Int /\ N \in Int
      BY <1>1
    <3> QED BY <3>1, FS_Interval
  <2> QED BY <1>1, <2>1
<1> HIDE DEF place
<1>9. place \in Surjection(S, 1 .. N)
  <2>1. Cardinality(S) = Cardinality(1 .. N) <=> place \in Surjection(S, 1 .. N)
    BY <1>7, <1>8, FS_Injection
  <2> QED BY <1>8, <2>1 DEF N
<1>10. \A n \in 1 .. N : \E x \in S : place[x] = n
  BY <1>9 DEF Surjection
<1>11. \A n \in 1 .. N : \E x \in S : Cardinality(Below(x)) = n - 1
  <2> SUFFICES ASSUME NEW n \in 1 .. N PROVE \E x \in S : Cardinality(Below(x)) = n - 1
    OBVIOUS
  <2>1. PICK x \in S : place[x] = n
    BY <1>10
  <2>2. Cardinality(Below(x)) + 1 = n /\ Cardinality(Below(x)) \in Nat
    BY <1>2, <1>6, <2>1
  <2>3. Cardinality(Below(x)) = n - 1
    BY <1>1, <2>2
  <2> QED BY <2>3
<1>12. \A x \in S : Cardinality(Below(x)) + 1 \in 1 .. N
  BY <1>6
<1> USE DEF Below, N
<1> QED BY <1>4, <1>5, <1>11, <1>12

\* Taking one element out of a sequence.
LEMMA Removed ==
    ASSUME NEW S, NEW s \in Seq(S), NEW k \in 1 .. Len(s)
    PROVE  /\ RemoveAt(s, k) \in Seq(S) /\ Len(RemoveAt(s, k)) = Len(s) - 1
           /\ Range(RemoveAt(s, k)) \cup {s[k]} = Range(s)
           /\ \A i \in 1 .. Len(s) - 1 : RemoveAt(s, k)[i] = IF i < k THEN s[i] ELSE s[i + 1]
<1> DEFINE a == SubSeq(s, 1, k - 1)
           b == SubSeq(s, k + 1, Len(s))
<1>1. Len(s) \in Nat /\ k \in Nat /\ \A i \in 1 .. Len(s) : s[i] \in S
  BY LenProperties, ElementOfSeq
<1>2. a \in Seq(S) /\ Len(a) = k - 1 /\ \A i \in 1 .. k - 1 : a[i] = s[i]
  BY <1>1
<1>3. b \in Seq(S) /\ Len(b) = Len(s) - k /\ \A i \in 1 .. Len(s) - k : b[i] = s[k + i]
  BY <1>1
<1>4. RemoveAt(s, k) = a \o b
  BY DEF RemoveAt
<1> HIDE DEF a, b
<1>5. a \o b \in Seq(S) /\ Len(a \o b) = Len(s) - 1
  <2>1. a \o b \in Seq(S) /\ Len(a \o b) = Len(a) + Len(b)
    BY <1>2, <1>3, ConcatProperties
  <2>2. (k - 1) + (Len(s) - k) = Len(s) - 1
    BY <1>1
  <2> QED BY <1>2, <1>3, <2>1, <2>2
<1>6. ASSUME NEW i \in 1 .. Len(s) - 1 PROVE (a \o b)[i] = IF i < k THEN s[i] ELSE s[i + 1]
  <2>1. (a \o b)[i] = IF i <= Len(a) THEN a[i] ELSE b[i - Len(a)]
    BY <1>1, <1>2, <1>3, ConcatProperties
  <2>2. CASE i < k
    BY <1>1, <1>2, <2>1, <2>2
  <2>3. CASE ~(i < k)
    <3>1. i - (k - 1) \in 1 .. Len(s) - k /\ k + (i - (k - 1)) = i + 1 /\ ~(i <= k - 1)
      BY <1>1, <2>3
    <3> QED BY <1>2, <1>3, <2>1, <2>3, <3>1
  <2> QED BY <2>2, <2>3
<1>7. Range(a \o b) \cup {s[k]} = Range(s)
  <2>1. Range(s) = {s[i] : i \in 1 .. Len(s)} /\ Range(a \o b) = {(a \o b)[i] : i \in 1 .. Len(s) - 1}
    BY <1>5, RangeEquality
  <2> DEFINE t == a \o b
  <2>2. \A i \in 1 .. Len(s) - 1 : t[i] = IF i < k THEN s[i] ELSE s[i + 1]
    BY <1>6
  <2> HIDE DEF t
  <2>3. \A i \in 1 .. Len(s) - 1 : t[i] \in {s[j] : j \in 1 .. Len(s)}
    BY <1>1, <2>2
  <2>4. ASSUME NEW j \in 1 .. Len(s), j # k PROVE \E i \in 1 .. Len(s) - 1 : t[i] = s[j]
    <3>1. CASE j < k
      BY <1>1, <2>2, <3>1
    <3>2. CASE k < j
      <4>1. j - 1 \in 1 .. Len(s) - 1 /\ ~(j - 1 < k) /\ (j - 1) + 1 = j
        BY <1>1, <3>2
      <4> QED BY <2>2, <4>1
    <3> QED BY <1>1, <2>4, <3>1, <3>2
  <2>5. {t[i] : i \in 1 .. Len(s) - 1} \cup {s[k]} = {s[j] : j \in 1 .. Len(s)}
    BY <2>3, <2>4
  <2> QED BY <2>1, <2>5 DEF t
<1> QED BY <1>4, <1>5, <1>6, <1>7

\* Putting an element in.
LEMMA Inserted ==
    ASSUME NEW S, NEW s \in Seq(S), NEW k \in 1 .. Len(s) + 1, NEW e \in S
    PROVE  /\ InsertAt(s, k, e) \in Seq(S) /\ Len(InsertAt(s, k, e)) = Len(s) + 1
           /\ Range(InsertAt(s, k, e)) = Range(s) \cup {e}
<1> DEFINE a == SubSeq(s, 1, k - 1)
           b == SubSeq(s, k, Len(s))
<1>1. Len(s) \in Nat /\ k \in Nat /\ \A i \in 1 .. Len(s) : s[i] \in S
  BY LenProperties, ElementOfSeq
<1>2. a \in Seq(S) /\ Len(a) = k - 1
  BY <1>1
<1>3. b \in Seq(S) /\ Len(b) = Len(s) - k + 1
  BY <1>1
<1>4. InsertAt(s, k, e) = (a \o <<e>>) \o b
  BY DEF InsertAt
<1>5. <<e>> \in Seq(S) /\ Len(<<e>>) = 1 /\ Range(<<e>>) = {e}
  BY DEF Range
<1>0. a \o b = s
  <2>1. /\ 1 \in 1 .. Len(s) + 1 /\ k - 1 \in 1 - 1 .. Len(s) /\ Len(s) \in k - 1 .. Len(s)
        /\ (k - 1) + 1 = k
    BY <1>1
  <2>2. SubSeq(s, 1, k - 1) \o SubSeq(s, (k - 1) + 1, Len(s)) = SubSeq(s, 1, Len(s))
    BY <2>1, ConcatAdjacentSubSeq
  <2> QED BY <2>1, <2>2, SubSeqFull
<1> HIDE DEF a, b
<1>6. a \o <<e>> \in Seq(S) /\ Len(a \o <<e>>) = k
  <2>1. a \o <<e>> \in Seq(S) /\ Len(a \o <<e>>) = Len(a) + Len(<<e>>)
    BY <1>2, <1>5, ConcatProperties
  <2> QED BY <1>1, <1>2, <1>5, <2>1
<1>7. (a \o <<e>>) \o b \in Seq(S) /\ Len((a \o <<e>>) \o b) = Len(s) + 1
  <2>1. (a \o <<e>>) \o b \in Seq(S) /\ Len((a \o <<e>>) \o b) = Len(a \o <<e>>) + Len(b)
    BY <1>3, <1>6, ConcatProperties
  <2>2. k + (Len(s) - k + 1) = Len(s) + 1
    BY <1>1
  <2> QED BY <1>3, <1>6, <2>1, <2>2
<1>8. Range(s) = Range(a) \cup Range(b)
  BY ZenonT(40), <1>0, <1>2, <1>3, RangeConcatenation
<1>9. Range((a \o <<e>>) \o b) = Range(a) \cup {e} \cup Range(b)
  <2>1. Range((a \o <<e>>) \o b) = Range(a \o <<e>>) \cup Range(b)
    BY ZenonT(40), <1>3, <1>6, RangeConcatenation
  <2>2. Range(a \o <<e>>) = Range(a) \cup Range(<<e>>)
    <3> DEFINE one == <<e>>
    <3>1. one \in Seq(S)
      BY <1>5
    <3> HIDE DEF one
    <3>2. Range(a \o one) = Range(a) \cup Range(one)
      BY <1>2, <3>1, RangeConcatenation
    <3> QED BY <3>2 DEF one
  <2> QED BY <1>5, <2>1, <2>2
<1> QED BY <1>4, <1>7, <1>8, <1>9

\* Taking the first of the elements e out of a sequence.
LEMMA RemovedFirst ==
    ASSUME NEW S, NEW s \in Seq(S), NEW e
    PROVE  /\ RemoveFirst(s, e) \in Seq(S)
           /\ e \in Range(s) =>
                \E k \in 1 .. Len(s) : s[k] = e /\ RemoveFirst(s, e) = RemoveAt(s, k)
<1>0. DOMAIN s = 1 .. Len(s)
  BY LenProperties
<1>1. CASE ~ \E i \in 1 .. Len(s) : s[i] = e
  BY <1>0, <1>1 DEF RemoveFirst, Range
<1>2. CASE \E i \in 1 .. Len(s) : s[i] = e
  <2> DEFINE I == {i \in 1 .. Len(s) : s[i] = e}
  <2>1. RemoveFirst(s, e) = RemoveAt(s, SelectInSeq(s, LAMBDA v: v = e))
    BY <1>2 DEF RemoveFirst
  <2>2. SelectInSeq(s, LAMBDA v: v = e) = Min(I)
    BY <1>2 DEF SelectInSeq
  <2>3. I \in SUBSET Nat /\ I # {} /\ I \subseteq 1 .. Len(s)
    BY <1>2, LenProperties
  <2>4. \E m \in I : \A n \in I : m <= n
    BY <2>3, LeastNumber
  <2>5. Min(I) \in I
    BY <2>4 DEF Min
  <2> DEFINE m == Min(I)
  <2>6. m \in 1 .. Len(s) /\ s[m] = e /\ RemoveFirst(s, e) = RemoveAt(s, m)
    BY <2>1, <2>2, <2>3, <2>5
  <2> HIDE DEF m
  <2> QED BY <2>6, Removed
<1> QED BY <1>1, <1>2

\* A sequence without one of its places has the other ones, each once.
LEMMA RemovedPlace ==
    ASSUME NEW S, NEW s \in Seq(S), NEW k \in DOMAIN s
    PROVE  LET t == RemoveAt(s, k) IN
           /\ \A i \in DOMAIN t : \E j \in DOMAIN s \ {k} : t[i] = s[j]
           /\ \A j \in DOMAIN s \ {k} : \E i \in DOMAIN t : t[i] = s[j]
           /\ \A h, i \in DOMAIN t : h # i =>
                 \E g, j \in DOMAIN s \ {k} : g # j /\ t[h] = s[g] /\ t[i] = s[j]
<1> DEFINE t == RemoveAt(s, k)
           From(i) == IF i < k THEN i ELSE i + 1
<1>1. /\ Len(s) \in Nat /\ DOMAIN s = 1 .. Len(s) /\ k \in 1 .. Len(s)
      /\ t \in Seq(S) /\ Len(t) = Len(s) - 1
      /\ \A i \in 1 .. Len(s) - 1 : t[i] = IF i < k THEN s[i] ELSE s[i + 1]
  BY Removed, LenProperties
<1>2. DOMAIN t = 1 .. Len(s) - 1
  BY <1>1, LenProperties
<1> HIDE DEF t
<1>3. \A i \in DOMAIN t : From(i) \in DOMAIN s \ {k} /\ t[i] = s[From(i)]
  BY <1>1, <1>2
<1>4. \A h, i \in DOMAIN t : h # i => From(h) # From(i)
  BY <1>1, <1>2
<1>5. ASSUME NEW j \in DOMAIN s \ {k} PROVE \E i \in DOMAIN t : t[i] = s[j]
  <2>1. CASE j < k
    BY <1>1, <1>2, <2>1
  <2>2. CASE j > k
    <3>1. j - 1 \in DOMAIN t /\ ~(j - 1 < k) /\ (j - 1) + 1 = j
      BY <1>1, <1>2, <2>2
    <3> QED BY <1>1, <1>2, <3>1
  <2> QED BY <1>1, <2>1, <2>2
<1> HIDE DEF From
<1>6. /\ \A i \in DOMAIN t : \E j \in DOMAIN s \ {k} : t[i] = s[j]
      /\ \A h, i \in DOMAIN t : h # i =>
            \E g, j \in DOMAIN s \ {k} : g # j /\ t[h] = s[g] /\ t[i] = s[j]
  BY <1>3, <1>4
<1> QED BY <1>5, <1>6 DEF t

-----------------------------------------------------------------------------
(* MallPage.                                                               *)

First(f) == PageOf(f, 1)

\* The list is empty or the first page for some filter.
ListInv == list = <<>> \/ \E f \in Filters : list = First(f)

\* Requests ask for the first page, and the last one for what is selected.
RequestsInv ==
    /\ sent \in Nat /\ shown \in Nat /\ shown <= sent /\ page = 1
    /\ activeCategoryId \in Categories \cup {NoCategory}
    /\ keyword \in Keywords /\ asked \in Keywords
    /\ \A r \in requests : /\ r.filter \in Filters /\ r.page = 1 /\ ~r.more
                           /\ r.id \in 1 .. sent
                           /\ r.id = sent => r.filter = <<activeCategoryId, asked>>

\* What is on the page when it is the last answer.
ShownInv ==
    shown = sent =>
        LET f == <<activeCategoryId, asked>>
        IN  /\ list = First(f)
            /\ finished <=> (Len(list) >= Len(Results[f]) \/ Len(list) < PageSize)

PageInv == ListInv /\ RequestsInv /\ ShownInv /\ sent > 0

\* The order of the server: no two properties were created at the same time.
LEMMA ServerOrder ==
    LET R == {p \in Items \X Items : Precedes(p[1], p[2])} IN \A S \in SUBSET Items : StrictOrder(S, R)
<1> DEFINE R == {p \in Items \X Items : Precedes(p[1], p[2])}
<1>1. \A i \in Items : Rows[i].is_featured \in Nat /\ Rows[i].sort_order \in Nat /\ Rows[i].created_at \in Nat
                       /\ Rows[i].place \in Nat
  BY MallPageAssumption DEF Row
<1>2. \A i, j \in Items : Rows[i].place = Rows[j].place => i = j
  BY MallPageAssumption
<1>3. \A i, j \in Items : <<i, j>> \in R <=> Precedes(i, j)
  OBVIOUS
<1>4. \A i \in Items : ~Precedes(i, i)
  BY <1>1 DEF Precedes
<1>5. \A i, j, k \in Items : Precedes(i, j) /\ Precedes(j, k) => Precedes(i, k)
  BY <1>1 DEF Precedes
<1>6. \A i, j \in Items : i = j \/ Precedes(i, j) \/ Precedes(j, i)
  BY <1>1, <1>2 DEF Precedes
<1> HIDE DEF R
<1>7. \A S \in SUBSET Items : StrictOrder(S, R)
  BY <1>3, <1>4, <1>5, <1>6 DEF StrictOrder
<1> QED BY <1>7 DEF R

\* listMall answers with every property that the filter selects, each once, the
\* ones that the order puts first before the others.
THEOREM ResultsInOrder ==
    ASSUME NEW f \in Filters
    PROVE  LET found == {i \in Items : Selected(f, i)}
           IN  /\ Results[f] \in Seq(Items) /\ Len(Results[f]) = Cardinality(found)
               /\ Range(Results[f]) = found
               /\ \A m, n \in DOMAIN Results[f] : m < n => Precedes(Results[f][m], Results[f][n])
<1> DEFINE S == {i \in Items : Selected(f, i)}
           R == {p \in Items \X Items : Precedes(p[1], p[2])}
           N == Cardinality(S)
           Rank(i) == Cardinality({j \in S : Precedes(j, i)})
           at(n) == CHOOSE i \in S : Rank(i) = n - 1
<1>1. Results[f] = [n \in 1 .. N |-> at(n)]
  BY DEF Results
<1>2. IsFiniteSet(S) /\ S \subseteq Items
  BY FS_Subset, MallPageAssumption
<1>3. \A x, y \in S : <<x, y>> \in R <=> Precedes(x, y)
  BY <1>2
<1>4. \A x \in S : Behind(S, R, x) = {j \in S : Precedes(j, x)}
  BY <1>3 DEF Behind
<1>5. StrictOrder(S, R)
  BY <1>2, ServerOrder
<1>6. /\ \A x \in S : Rank(x) + 1 \in 1 .. N
      /\ \A n \in 1 .. N : \E x \in S : Rank(x) = n - 1
      /\ \A x, z \in S : Rank(x) = Rank(z) => x = z
      /\ \A x, z \in S : Precedes(x, z) => Rank(x) < Rank(z)
  <2> HIDE DEF S, R
  <2>1. /\ \A x \in S : Cardinality(Behind(S, R, x)) + 1 \in 1 .. Cardinality(S)
        /\ \A n \in 1 .. Cardinality(S) : \E x \in S : Cardinality(Behind(S, R, x)) = n - 1
        /\ \A x, z \in S : Cardinality(Behind(S, R, x)) = Cardinality(Behind(S, R, z)) => x = z
        /\ \A x, z \in S : <<x, z>> \in R => Cardinality(Behind(S, R, x)) < Cardinality(Behind(S, R, z))
    BY <1>2, <1>5, Places
  <2>2. \A x \in S : Cardinality(Behind(S, R, x)) = Rank(x)
    BY <1>4
  <2> HIDE DEF Rank
  <2> QED BY <1>3, <2>1, <2>2
<1>7. N \in Nat /\ \A x \in S : Rank(x) \in Nat
  <2>1. \A x \in S : IsFiniteSet({j \in S : Precedes(j, x)})
    BY <1>2, FS_Subset
  <2> QED BY <1>2, <2>1, FS_CardinalityType
<1>8. \A x, y \in S : x = y \/ Precedes(x, y) \/ Precedes(y, x)
  BY <1>3, <1>5 DEF StrictOrder
<1> HIDE DEF Rank, R, S, N
<1>9. \A n \in 1 .. N : at(n) \in S /\ Rank(at(n)) = n - 1
  BY <1>6
<1> HIDE DEF at
<1>10. Results[f] \in Seq(Items) /\ DOMAIN Results[f] = 1 .. N /\ \A n \in 1 .. N : Results[f][n] = at(n)
  <2>1. \A n \in 1 .. N : at(n) \in Items
    BY <1>2, <1>9
  <2>2. [n \in 1 .. N |-> at(n)] \in Seq(Items)
    BY <1>7, <2>1
  <2> QED BY <1>1, <2>2
<1>11. Len(Results[f]) = N
  <2>1. Len(Results[f]) \in Nat /\ DOMAIN Results[f] = 1 .. Len(Results[f])
    BY <1>10, LenProperties
  <2> QED BY <1>7, <1>10, <2>1
<1>12. Range(Results[f]) = S
  <2>1. \A i \in S : \E n \in 1 .. N : at(n) = i
    <3> SUFFICES ASSUME NEW i \in S PROVE \E n \in 1 .. N : at(n) = i
      OBVIOUS
    <3> DEFINE n == Rank(i) + 1
    <3>1. n \in 1 .. N
      BY <1>6
    <3>2. Rank(i) = n - 1
      BY <1>7
    <3> HIDE DEF n
    <3>3. at(n) \in S /\ Rank(at(n)) = n - 1
      BY <1>9, <3>1
    <3>4. at(n) = i
      BY <1>6, <3>2, <3>3
    <3> QED BY <3>1, <3>4
  <2> QED BY <1>9, <1>10, <2>1 DEF Range
<1>13. ASSUME NEW m \in 1 .. N, NEW n \in 1 .. N, m < n PROVE Precedes(at(m), at(n))
  <2>1. Rank(at(m)) < Rank(at(n)) /\ ~(Rank(at(n)) < Rank(at(m)))
    BY <1>7, <1>9, <1>13
  <2> QED BY <1>6, <1>7, <1>8, <1>9, <2>1
<1> QED BY <1>10, <1>11, <1>12, <1>13 DEF S, N

LEMMA ResultIsSequence ==
    ASSUME NEW f \in Filters PROVE \E T : Results[f] \in Seq(T)
BY ResultsInOrder

LEMMA Least ==
    ASSUME NEW a \in Nat, NEW b \in Nat
    PROVE  Min({a, b}) \in Nat /\ Min({a, b}) <= a /\ Min({a, b}) <= b
<1>1. \E x \in {a, b} : \A y \in {a, b} : x =< y
  <2>1. a =< b \/ b =< a
    OBVIOUS
  <2> QED BY <2>1
<1> QED BY <1>1 DEF Min

\* The first page is the part of a result that fits on it.
LEMMA FirstPage ==
    ASSUME NEW f \in Filters
    PROVE  /\ First(f) = Slice(Results[f], 1, PageSize)
           /\ Len(Results[f]) \in Nat /\ Len(First(f)) \in 0 .. Len(Results[f])
           /\ IsPrefix(First(f), Results[f])
<1> DEFINE R == Results[f]
           m == Min({PageSize, Len(R)})
<1>1. PICK T : R \in Seq(T)
  BY ResultIsSequence
<1>2. First(f) = SubSeq(R, 1, m) /\ First(f) = Slice(R, 1, PageSize)
  <2>1. (1 - 1) * PageSize + 1 = 1 /\ 1 + PageSize - 1 = PageSize
    BY MallPageAssumption
  <2> QED BY <2>1 DEF First, PageOf, Slice
<1> HIDE DEF R
<1>3. Len(R) \in Nat /\ PageSize \in Nat
  BY <1>1, MallPageAssumption
<1>4. m \in Nat /\ m <= Len(R)
  BY <1>3, Least
<1> HIDE DEF m
<1>5. SubSeq(R, 1, m) \in Seq(T) /\ Len(SubSeq(R, 1, m)) = m
  BY <1>1, <1>4
<1>6. SubSeq(SubSeq(R, 1, m), 1, m) = SubSeq(R, 1, m)
  BY <1>5, SubSeqFull
<1>7. IsPrefix(First(f), R)
  BY <1>2, <1>4, <1>5, <1>6 DEF IsPrefix
<1> QED BY <1>2, <1>3, <1>4, <1>5, <1>7 DEF R

LEMMA InitPage == Init => PageInv
<1> SUFFICES ASSUME Init PROVE PageInv
  OBVIOUS
<1>1. NoCategory \in Categories \cup {NoCategory} /\ NoKeyword \in Keywords
  BY MallPageAssumption
<1>2. requests = {[id |-> 1, filter |-> <<NoCategory, keyword>>, page |-> 1, more |-> FALSE]}
  BY DEF Init
<1>3. <<NoCategory, NoKeyword>> \in Filters
  BY <1>1 DEF Filters
<1>4. RequestsInv
  BY <1>1, <1>2, <1>3 DEF Init, RequestsInv
<1> QED BY <1>4 DEF Init, PageInv, ListInv, ShownInv

\* A search, a selection and a refresh send a request for what they select.
LEMMA RestartPage ==
    ASSUME PageInv, Restart(activeCategoryId'),
           activeCategoryId' \in Categories \cup {NoCategory}
    PROVE  PageInv'
<1>1. /\ sent' = sent + 1 /\ asked' = keyword /\ keyword' = keyword
      /\ page' = 1 /\ list' = <<>> /\ shown' = 0
      /\ requests' = requests \cup
            {[id |-> sent + 1, filter |-> <<activeCategoryId', keyword>>, page |-> 1,
              more |-> FALSE]}
  BY DEF Restart, FetchData
<1>2. sent \in Nat /\ keyword \in Keywords
  BY DEF PageInv, RequestsInv
<1>3. <<activeCategoryId', keyword>> \in Filters
  BY <1>2 DEF Filters
<1>4. ASSUME NEW r \in requests'
      PROVE  /\ r.filter \in Filters /\ r.page = 1 /\ ~r.more
             /\ r.id \in 1 .. sent'
             /\ r.id = sent' => r.filter = <<activeCategoryId', asked'>>
  <2>1. CASE r \in requests
    BY <1>1, <1>2, <2>1 DEF PageInv, RequestsInv
  <2>2. CASE r \notin requests
    BY <1>1, <1>2, <1>3, <2>2
  <2> QED BY <2>1, <2>2
<1>5. RequestsInv'
  BY <1>1, <1>2, <1>4 DEF RequestsInv
<1> QED BY <1>1, <1>2, <1>5 DEF PageInv, ListInv, ShownInv

\* An answer puts the first page of its own filter on the page.
LEMMA ReplyPage ==
    ASSUME PageInv, NEW r \in requests, Reply(r)
    PROVE  PageInv'
<1>1. /\ r.filter \in Filters /\ r.page = 1 /\ ~r.more /\ r.id \in 1 .. sent
      /\ r.id = sent => r.filter = <<activeCategoryId, asked>>
  BY DEF PageInv, RequestsInv
<1>2. /\ requests' \subseteq requests
      /\ UNCHANGED <<page, activeCategoryId, keyword, sent, asked>>
  BY DEF Reply, ReplyFailed
<1>3. CASE ReplyOk(r)
  <2>1. /\ list' = First(r.filter) /\ shown' = r.id
        /\ finished' = (Len(list') >= Len(Results[r.filter]) \/ Len(list') < PageSize)
    BY <1>1, <1>3 DEF ReplyOk, First
  <2>2. RequestsInv' /\ sent' > 0
    BY <1>1, <1>2, <2>1 DEF PageInv, RequestsInv
  <2>3. ListInv'
    BY <1>1, <2>1 DEF ListInv
  <2>4. ShownInv'
    BY <1>1, <1>2, <2>1 DEF ShownInv
  <2> QED BY <2>2, <2>3, <2>4 DEF PageInv
<1>4. CASE ReplyFailed(r)
  <2>1. UNCHANGED <<list, finished, shown>>
    BY <1>4 DEF ReplyFailed
  <2>2. RequestsInv' /\ sent' > 0
    BY <1>2, <2>1 DEF PageInv, RequestsInv
  <2> QED BY <1>2, <2>1, <2>2 DEF PageInv, ListInv, ShownInv
<1> QED BY <1>3, <1>4 DEF Reply

LEMMA NextPage == PageInv /\ [Next]_vars => PageInv'
<1> SUFFICES ASSUME PageInv, [Next]_vars PROVE PageInv'
  OBVIOUS
<1>1. activeCategoryId \in Categories \cup {NoCategory} /\ Enabled \subseteq Categories
  BY DEF PageInv, RequestsInv, Enabled
<1> DEFINE Page == <<list, activeCategoryId, asked, finished, page, requests, sent, shown>>
<1>2. ASSUME UNCHANGED Page, keyword' \in Keywords PROVE PageInv'
  BY <1>2 DEF PageInv, ListInv, RequestsInv, ShownInv
<1>3. keyword \in Keywords
  BY DEF PageInv, RequestsInv
<1>4. ASSUME NEW r \in requests, Reply(r) PROVE PageInv'
  BY <1>4, ReplyPage
<1>5. ASSUME NEW a \in {Enabled, {}}, CategoriesReply(a) PROVE PageInv'
  BY <1>2, <1>3, <1>5 DEF CategoriesReply
<1>6. ASSUME NEW k \in Keywords, Type(k) PROVE PageInv'
  BY <1>2, <1>6 DEF Type
<1>7. CASE OnSearch
  BY <1>1, <1>7, RestartPage DEF OnSearch
<1>8. CASE PullRefresh
  BY <1>1, <1>8, RestartPage DEF PullRefresh
<1>9. CASE Scroll
  BY <1>2, <1>3, <1>9 DEF Scroll
<1>10. CASE ListCheck
  BY <1>2, <1>3, <1>10 DEF ListCheck, OnLoad
<1>11. ASSUME NEW c \in Enabled, OnSelectCategory(c) PROVE PageInv'
  <2>1. activeCategoryId' \in Categories \cup {NoCategory}
    BY <1>1, <1>11 DEF OnSelectCategory
  <2> QED BY <1>11, <2>1, RestartPage DEF OnSelectCategory
<1>12. ASSUME NEW i \in Items, ImageDone(i) PROVE PageInv'
  BY <1>2, <1>3, <1>12 DEF ImageDone, images, cats
<1>13. CASE UNCHANGED vars
  BY <1>2, <1>3, <1>13 DEF vars
<1> QED BY <1>4, <1>5, <1>6, <1>7, <1>8, <1>9, <1>10, <1>11, <1>12, <1>13 DEF Next

THEOREM PageInvariant == Spec => []PageInv
<1> QED BY InitPage, NextPage, PTL DEF Spec

\* Whatever answers overtake each other, the list is a prefix of what the
\* server has for one filter (fetchData, onSearch, onSelectCategory).
THEOREM ListsArePrefixes == Spec => []ListIsPrefix
<1>1. ASSUME PageInv PROVE ListIsPrefix
  <2>1. CASE list = <<>>
    <3> DEFINE f == <<activeCategoryId, asked>>
    <3>1. f \in Filters
      BY <1>1 DEF PageInv, RequestsInv, Filters
    <3>2. Len(Results[f]) \in Nat /\ \E T : Results[f] \in Seq(T)
      BY <3>1, FirstPage, ResultIsSequence
    <3>3. IsPrefix(<<>>, Results[f])
      BY <3>2 DEF IsPrefix
    <3> QED BY <2>1, <3>1, <3>3 DEF ListIsPrefix
  <2>2. CASE \E f \in Filters : list = First(f)
    BY <2>2, FirstPage DEF ListIsPrefix
  <2> QED BY <1>1, <2>1, <2>2 DEF PageInv, ListInv
<1> QED BY <1>1, PageInvariant, PTL

\* When the last request is answered the page shows the selection of that
\* request, and "no more" exactly when it should (fetchData).
THEOREM AnswersFit == Spec => []AnswerIsForSelection
<1>1. ASSUME PageInv PROVE AnswerIsForSelection
  <2> DEFINE f == <<activeCategoryId, asked>>
  <2>1. f \in Filters
    BY <1>1 DEF PageInv, RequestsInv, Filters
  <2> HIDE DEF f
  <2>2. /\ First(f) = Slice(Results[f], 1, PageSize)
        /\ Len(Results[f]) \in Nat /\ Len(First(f)) \in 0 .. Len(Results[f])
    BY <2>1, FirstPage
  <2>3. page * PageSize = PageSize
    BY <1>1, MallPageAssumption DEF PageInv, RequestsInv
  <2>4. Len(First(f)) >= Len(Results[f]) <=> Len(First(f)) = Len(Results[f])
    BY <2>2
  <2>5. shown = sent =>
           /\ list = First(f)
           /\ finished <=> (Len(list) >= Len(Results[f]) \/ Len(list) < PageSize)
    BY <1>1 DEF PageInv, ShownInv, f
  <2>6. shown = sent =>
           /\ list = Slice(Results[f], 1, page * PageSize)
           /\ finished <=> (Len(list) = Len(Results[f]) \/ Len(list) < PageSize)
    BY <2>2, <2>3, <2>4, <2>5
  <2> QED BY <2>6 DEF AnswerIsForSelection, f
<1> QED BY <1>1, PageInvariant, PTL

\* A spinner over a cover never outlives the timer that stops it (fetchData,
\* handleImgLoad, handleImgError).
THEOREM SpinnersEnd == Spec => []SpinnerHasTimer
<1>1. Init => SpinnerHasTimer
  BY DEF Init, SpinnerHasTimer
<1>2. SpinnerHasTimer /\ [Next]_vars => SpinnerHasTimer'
  <2> SUFFICES ASSUME SpinnerHasTimer, [Next]_vars PROVE SpinnerHasTimer'
    OBVIOUS
  <2>1. ASSUME UNCHANGED images PROVE SpinnerHasTimer'
    BY <2>1 DEF images, SpinnerHasTimer
  <2>2. ASSUME NEW r \in requests, ReplyOk(r) PROVE SpinnerHasTimer'
    BY <2>2 DEF ReplyOk, ResetImages, SpinnerHasTimer
  <2>3. ASSUME NEW i \in Items, ImageDone(i) PROVE SpinnerHasTimer'
    BY <2>3 DEF ImageDone, SpinnerHasTimer
  <2>4. ASSUME NEW r \in requests, Reply(r) PROVE SpinnerHasTimer'
    BY <2>1, <2>2, <2>4 DEF Reply, ReplyFailed
  <2>5. ASSUME NEW a \in {Enabled, {}}, CategoriesReply(a) PROVE UNCHANGED images
    BY <2>5 DEF CategoriesReply
  <2>6. ASSUME NEW k \in Keywords, Type(k) PROVE UNCHANGED images
    BY <2>6 DEF Type
  <2>7. ASSUME NEW c \in Enabled, OnSelectCategory(c) PROVE UNCHANGED images
    BY <2>7 DEF OnSelectCategory, Restart
  <2>8. ASSUME OnSearch \/ PullRefresh \/ Scroll \/ ListCheck PROVE UNCHANGED images
    BY <2>8 DEF OnSearch, PullRefresh, Restart, Scroll, ListCheck
  <2>9. CASE UNCHANGED vars
    BY <2>1, <2>9 DEF vars, images
  <2> QED BY <2>1, <2>3, <2>4, <2>5, <2>6, <2>7, <2>8, <2>9 DEF Next
<1> QED BY <1>1, <1>2, PTL DEF Spec

\* What PageInv does not say about types.
MallTypes ==
    /\ categories \subseteq Enabled
    /\ {loading, refreshing, finished, catsAsked, atEnd} \subseteq BOOLEAN
    /\ spinners \subseteq Covers /\ timers \subseteq Covers
    /\ requests \subseteq Request
    /\ sent <= MaxRequests

\* The request that fetchData sends.
LEMMA RequestType ==
    ASSUME PageInv, sent < MaxRequests, NEW c \in Categories \cup {NoCategory}
    PROVE  [id |-> sent + 1, filter |-> <<c, keyword>>, page |-> 1, more |-> FALSE] \in Request
<1>1. sent + 1 \in 1 .. MaxRequests /\ <<c, keyword>> \in Filters
  BY MallPageAssumption DEF PageInv, RequestsInv, Filters
<1> QED BY <1>1 DEF Request

LEMMA RestartTypes ==
    ASSUME PageInv, MallTypes, Restart(activeCategoryId'),
           activeCategoryId' \in Categories \cup {NoCategory}, refreshing' \in BOOLEAN
    PROVE  MallTypes'
<1>1. /\ sent' = sent + 1 /\ sent < MaxRequests /\ loading' = TRUE /\ finished' = FALSE /\ atEnd' = TRUE
      /\ requests' = requests \cup
            {[id |-> sent + 1, filter |-> <<activeCategoryId', keyword>>, page |-> 1, more |-> FALSE]}
      /\ UNCHANGED <<spinners, timers, categories, catsAsked>>
  BY DEF Restart, FetchData, images, cats
<1>2. requests' \subseteq Request
  BY <1>1, RequestType DEF MallTypes
<1>3. sent' <= MaxRequests
  BY <1>1, MallPageAssumption DEF PageInv, RequestsInv
<1> QED BY <1>1, <1>2, <1>3 DEF MallTypes

LEMMA TypesOfPage == PageInv /\ MallTypes /\ [Next]_vars => MallTypes'
<1> SUFFICES ASSUME PageInv, MallTypes, [Next]_vars PROVE MallTypes'
  OBVIOUS
<1>1. activeCategoryId \in Categories \cup {NoCategory} /\ Enabled \subseteq Categories /\ refreshing \in BOOLEAN
  BY DEF PageInv, RequestsInv, Enabled, MallTypes
<1>2. ASSUME NEW r \in requests, Reply(r) PROVE MallTypes'
  <2>1. /\ requests' \subseteq requests /\ loading' = FALSE /\ refreshing' = FALSE
        /\ UNCHANGED <<categories, catsAsked, atEnd, sent>>
    BY <1>2 DEF Reply, ReplyFailed, cats
  <2>2. CASE ReplyOk(r)
    <3>1. finished' \in BOOLEAN
      BY <2>2 DEF ReplyOk
    <3>2. spinners' \subseteq Covers /\ timers' \subseteq Covers
      BY <2>2 DEF ReplyOk, ResetImages, Covered, MallTypes
    <3> QED BY <2>1, <3>1, <3>2 DEF MallTypes
  <2>3. CASE ReplyFailed(r)
    BY <2>1, <2>3 DEF ReplyFailed, images, MallTypes
  <2> QED BY <1>2, <2>2, <2>3 DEF Reply
<1>3. ASSUME NEW a \in {Enabled, {}}, CategoriesReply(a) PROVE MallTypes'
  BY <1>3 DEF CategoriesReply, images, MallTypes
<1>4. ASSUME NEW k \in Keywords, Type(k) PROVE MallTypes'
  BY <1>4 DEF Type, images, cats, MallTypes
<1>5. CASE OnSearch
  BY <1>1, <1>5, RestartTypes DEF OnSearch
<1>6. CASE PullRefresh
  BY <1>1, <1>6, RestartTypes DEF PullRefresh
<1>7. CASE Scroll
  BY <1>7 DEF Scroll, images, cats, MallTypes
<1>8. CASE ListCheck
  BY <1>8 DEF ListCheck, OnLoad, images, cats, MallTypes
<1>9. ASSUME NEW c \in Enabled, OnSelectCategory(c) PROVE MallTypes'
  <2>1. activeCategoryId' \in Categories \cup {NoCategory}
    BY <1>1, <1>9 DEF OnSelectCategory
  <2> QED BY <1>1, <1>9, <2>1, RestartTypes DEF OnSelectCategory
<1>10. ASSUME NEW i \in Items, ImageDone(i) PROVE MallTypes'
  BY <1>10 DEF ImageDone, cats, MallTypes
<1>11. CASE UNCHANGED vars
  BY <1>11 DEF vars, images, cats, MallTypes
<1> QED BY <1>2, <1>3, <1>4, <1>5, <1>6, <1>7, <1>8, <1>9, <1>10, <1>11 DEF Next

\* The type invariant of the home page: the list holds properties, requests are
\* numbered and within the bound, and only covers have spinners and timers.
THEOREM MallTypeCorrect == Spec => []TypeOK
<1>1. Init => MallTypes
  <2> SUFFICES ASSUME Init PROVE MallTypes
    OBVIOUS
  <2>1. <<NoCategory, NoKeyword>> \in Filters /\ 1 \in 1 .. MaxRequests
    BY MallPageAssumption DEF Filters
  <2>2. [id |-> 1, filter |-> <<NoCategory, NoKeyword>>, page |-> 1, more |-> FALSE] \in Request
    BY <2>1 DEF Request
  <2>3. requests \subseteq Request
    BY <2>2 DEF Init
  <2>4. /\ loading \in BOOLEAN /\ refreshing \in BOOLEAN /\ finished \in BOOLEAN /\ catsAsked \in BOOLEAN
        /\ atEnd \in BOOLEAN
    BY DEF Init
  <2>5. categories = {} /\ spinners = {} /\ timers = {} /\ sent = 1 /\ 1 <= MaxRequests
    BY <2>1, MallPageAssumption DEF Init
  <2> QED BY <2>3, <2>4, <2>5 DEF MallTypes
<1>2. ASSUME PageInv, MallTypes PROVE TypeOK
  <2>1. list \in Seq(Items)
    <3>1. CASE list = <<>>
      BY <3>1
    <3>2. ASSUME NEW f \in Filters, list = First(f) PROVE list \in Seq(Items)
      <4> DEFINE R == Results[f]
                 m == Min({PageSize, Len(R)})
      <4>1. R \in Seq(Items) /\ Len(R) \in Nat /\ PageSize \in Nat
        BY ResultsInOrder, LenProperties, MallPageAssumption
      <4>2. list = SubSeq(R, 1, m)
        BY <3>2, FirstPage DEF Slice
      <4> HIDE DEF R
      <4>3. m \in Nat /\ m <= Len(R)
        BY <4>1, Least
      <4> HIDE DEF m
      <4> QED BY <4>1, <4>2, <4>3
    <3> QED BY <1>2, <3>1, <3>2 DEF PageInv, ListInv
  <2>2. /\ <<activeCategoryId, keyword>> \in Filters /\ asked \in Keywords
        /\ sent \in 1 .. MaxRequests /\ shown \in 0 .. sent /\ page \in 1 .. MaxRequests
        /\ \A r \in requests : r.id <= sent
    BY <1>2, MallPageAssumption DEF PageInv, RequestsInv, MallTypes, Filters
  <2> QED BY <1>2, <2>1, <2>2 DEF MallTypes, TypeOK
<1>3. Spec => []MallTypes
  BY <1>1, PageInvariant, TypesOfPage, PTL DEF Spec
<1> QED BY <1>2, <1>3, PageInvariant, PTL

-----------------------------------------------------------------------------
(* PropertyForm: deleted properties.                                       *)

\* Ids are given out once: the ones of rows and of deleted rows are behind the
\* counter.
IdsInv ==
    /\ next \in Nat \ {0}
    /\ DOMAIN rows \subseteq 1 .. next - 1 /\ deleted \subseteq 1 .. next - 1
    /\ DeletedStays

\* What the steps do to the table.
LEMMA TableSteps ==
    ASSUME [FormNext]_formVars
    PROVE  \/ UNCHANGED <<rows, next, deleted>>
           \/ \E s \in InFlight : Stored(s) /\ deleted' = deleted
           \/ \E i \in DOMAIN rows : /\ rows' = [j \in DOMAIN rows \ {i} |-> rows[j]]
                                     /\ deleted' = deleted \cup {i} /\ next' = next
BY DEF FormNext, formVars, table, OpenNew, OpenEdit, Loaded, LoadFails, Leave, Edit, TypeAmount, TypeDerived,
       ChooseFile, UploadSuccess, UploadError, RemoveImage, ToggleTab, DragTab, Submit, SubmitDone,
       SubmitLost, SubmitFails, Delete

LEMMA NextIds == IdsInv /\ [FormNext]_formVars => IdsInv'
<1> SUFFICES ASSUME IdsInv, [FormNext]_formVars PROVE IdsInv'
  OBVIOUS
<1>1. CASE UNCHANGED <<rows, next, deleted>>
  BY <1>1 DEF IdsInv, DeletedStays
<1>2. ASSUME NEW s, Stored(s), deleted' = deleted PROVE IdsInv'
  <2>1. CASE s.id = 0
    <3>1. DOMAIN rows' = DOMAIN rows \cup {next} /\ next' = next + 1
      BY <1>2, <2>1 DEF Stored
    <3> QED BY <1>2, <3>1 DEF IdsInv, DeletedStays
  <2>2. CASE s.id # 0
    <3>1. DOMAIN rows' = DOMAIN rows /\ next' = next
      BY <1>2, <2>2 DEF Stored
    <3> QED BY <1>2, <3>1 DEF IdsInv, DeletedStays
  <2> QED BY <2>1, <2>2
<1>3. ASSUME NEW i \in DOMAIN rows, rows' = [j \in DOMAIN rows \ {i} |-> rows[j]],
             deleted' = deleted \cup {i}, next' = next
      PROVE  IdsInv'
  <2>1. DOMAIN rows' = DOMAIN rows \ {i}
    BY <1>3
  <2> QED BY <1>3, <2>1 DEF IdsInv, DeletedStays
<1> QED BY <1>1, <1>2, <1>3, TableSteps

\* A property that was deleted never comes back, whoever edits it and whatever
\* saves are in flight: PUT answers 404 for an id that is gone, and POST gives
\* out an id that no property ever had.
THEOREM DeletedStayAway == FormSpec => []DeletedStays
<1>1. FormInit => IdsInv
  <2> SUFFICES ASSUME FormInit PROVE IdsInv
    OBVIOUS
  <2>1. rows = <<>> \/ \E r : rows = <<r>>
    BY DEF FormInit
  <2>2. Len(rows) \in {0, 1} /\ DOMAIN rows = 1 .. Len(rows)
    BY <2>1
  <2> QED BY <2>2 DEF FormInit, IdsInv, DeletedStays
<1>2. IdsInv => DeletedStays
  BY DEF IdsInv
<1> QED BY <1>1, <1>2, NextIds, PTL DEF FormSpec

-----------------------------------------------------------------------------
(* PropertyForm: computed amounts.                                         *)

\* A computed amount depends on fields that its watcher watches, one at least.
LEMMA NeededAreWatched ==
    ASSUME NEW d \in Derived
    PROVE  Needed(d) \subseteq Watched[d] /\ Watched[d] \subseteq Inputs /\ Needed(d) # {}
<1>1. Watched[d] \subseteq Inputs
  BY DEF Inputs
<1>2. d \in {"starting_unit_price", "evaluation_unit_price", "loan", "market_unit_price", "deed_tax_amount",
             "vat_amount", "income_tax_amount", "profit_space"}
  BY DEF Derived, Watched
<1>3. Needed(d) \subseteq Watched[d] /\ Needed(d) # {}
  BY <1>2 DEF Needed, Watched
<1> QED BY <1>1, <1>3

\* What is computed depends on the watched fields alone.
LEMMA FormulaDepends ==
    ASSUME NEW d \in Derived, NEW x, NEW y, \A f \in Watched[d] : x[f] = y[f]
    PROVE  Formula(d, x) = Formula(d, y) /\ (Computable(d, x) <=> Computable(d, y))
<1>1. \A f \in Needed(d) : x[f] = y[f]
  BY NeededAreWatched
<1>2. [f \in Needed(d) |-> x[f]] = [f \in Needed(d) |-> y[f]]
  BY <1>1
<1>3. d = "profit_space" => (x["market_total_price"] = x["starting_price"] <=> y["market_total_price"] = y["starting_price"])
  BY DEF Watched
<1> QED BY <1>1, <1>2, <1>3 DEF Formula, Computable

\* What is computed is blank or made of amounts.
LEMMA FormulaType ==
    ASSUME NEW d \in Derived, NEW inputs \in [Inputs -> Amounts]
    PROVE  Formula(d, inputs) \in DerivedValue
<1>1. Needed(d) \subseteq Inputs
  BY NeededAreWatched
<1>2. [f \in Needed(d) |-> inputs[f]] \in [Needed(d) -> Amounts]
  BY <1>1
<1> HIDE DEF Derived
<1>3. [f \in Needed(d) |-> inputs[f]] \in UNION {[Needed(e) -> Amounts] : e \in Derived}
  BY <1>2
<1> QED BY <1>3 DEF Formula, DerivedValue

LEMMA RecomputedType ==
    ASSUME NEW derived \in [Derived -> DerivedValue], NEW inputs \in [Inputs -> Amounts], NEW changed
    PROVE  Recomputed(derived, inputs, changed) \in [Derived -> DerivedValue]
BY FormulaType DEF Recomputed

Fields == [inputs : [Inputs -> Amounts], derived : [Derived -> DerivedValue], cover : Images \cup {NoImage}]

LEMMA BlankFormType == BlankForm \in Fields
<1>1. Blank \in DerivedValue /\ 0 \in Amounts
  BY PropertyFormAssumption DEF DerivedValue
<1> QED BY <1>1 DEF BlankForm, Fields

\* One field of the form at a time.
LEMMA SetField ==
    ASSUME NEW fm \in Fields
    PROVE  /\ \A c \in Images \cup {NoImage} : [fm EXCEPT !.cover = c] \in Fields
           /\ \A ds \in [Derived -> DerivedValue] : [fm EXCEPT !.derived = ds] \in Fields
           /\ \A ins \in [Inputs -> Amounts], ds \in [Derived -> DerivedValue] :
                 [fm EXCEPT !.inputs = ins, !.derived = ds] \in Fields
BY DEF Fields

-----------------------------------------------------------------------------
(* PropertyForm: the type invariant, one group of variables at a time.     *)

TableType ==
    /\ DOMAIN rows \subseteq 1 .. MaxRows /\ next \in 1 .. MaxRows + 1 /\ id \in 0 .. MaxRows
    /\ \A i \in DOMAIN rows : i < next /\ IsRow(rows[i])
    /\ deleted \subseteq 1 .. MaxRows
    /\ \A s \in InFlight : s.id \in 0 .. MaxRows /\ IsRow(s.row)
PictureType ==
    /\ imageList \in Seq(Images) /\ uploads \subseteq Images /\ uploaded \subseteq Images
    /\ files \in Seq([url : Images \cup {Blank}, image : Images])
TabsType ==
    /\ moduleTabs \in Seq(Tab) /\ moduleTabs # <<>>
    /\ onScreen \in Seq(Range(Keys)) /\ Range(onScreen) = Range(KeysOf(moduleTabs))
    /\ Len(onScreen) = Len(moduleTabs)
RestType ==
    /\ view \in {"list", "loading", "form"} /\ typed \subseteq Derived
    /\ edits \in 0 .. MaxEdits /\ saves \in 0 .. MaxSaves

\* The parts of the type invariant, with the alphabet of the tabs on the screen.
TypeInv == TableType /\ PictureType /\ TabsType /\ RestType /\ form \in Fields

LEMMA PictureSteps ==
    ASSUME [FormNext]_formVars
    PROVE  \/ UNCHANGED pictures
           \/ imageList' = <<>> /\ files' = <<>> /\ uploads' = {} /\ uploaded' = {}
           \/ Loaded
           \/ \E u \in Images : ChooseFile(u) \/ UploadSuccess(u) \/ UploadError(u)
           \/ \E k \in DOMAIN files : RemoveImage(k)
BY DEF FormNext, formVars, pictures, OpenNew, OpenEdit, Fresh, LoadFails, Leave, TypeAmount, TypeDerived,
       ToggleTab, DragTab, Submit, SubmitDone, SubmitLost, SubmitFails, Delete

\* A property is shown with images and files of their types.
LEMMA ImagesOfType ==
    ASSUME NEW r, IsRow(r)
    PROVE  /\ ImagesOf(r) \in Seq(Images)
           /\ [i \in DOMAIN ImagesOf(r) |-> [url |-> ImagesOf(r)[i], image |-> ImagesOf(r)[i]]]
                 \in Seq([url : Images \cup {Blank}, image : Images])
<1> DEFINE s == ImagesOf(r)
           F == [url : Images \cup {Blank}, image : Images]
<1>1. s \in Seq(Images)
  BY DEF IsRow, ImagesOf
<1> HIDE DEF s
<1>2. DOMAIN s = 1 .. Len(s) /\ Len(s) \in Nat /\ \A i \in 1 .. Len(s) : s[i] \in Images
  BY <1>1, LenProperties, ElementOfSeq
<1>3. \A i \in 1 .. Len(s) : [url |-> s[i], image |-> s[i]] \in F
  BY <1>2
<1> HIDE DEF F
<1>4. [i \in DOMAIN s |-> [url |-> s[i], image |-> s[i]]] \in Seq(F)
  BY <1>2, <1>3
<1> QED BY <1>1, <1>4 DEF s, F

LEMMA PictureTypeStep == TypeInv /\ [FormNext]_formVars => PictureType'
<1> SUFFICES ASSUME TypeInv, [FormNext]_formVars PROVE PictureType'
  OBVIOUS
<1> DEFINE F == [url : Images \cup {Blank}, image : Images]
<1>0. /\ imageList \in Seq(Images) /\ uploads \subseteq Images /\ uploaded \subseteq Images
      /\ files \in Seq(F) /\ DOMAIN files = 1 .. Len(files)
  BY LenProperties DEF TypeInv, PictureType
<1>a. SUFFICES /\ imageList' \in Seq(Images) /\ uploads' \subseteq Images
               /\ uploaded' \subseteq Images /\ files' \in Seq(F)
  BY DEF PictureType
<1>1. CASE UNCHANGED pictures
  BY <1>0, <1>1 DEF pictures
<1>2. CASE imageList' = <<>> /\ files' = <<>> /\ uploads' = {} /\ uploaded' = {}
  BY <1>2
<1>3. CASE Loaded
  BY <1>0, <1>3, ImagesOfType DEF Loaded, TypeInv, TableType
<1>4. ASSUME NEW u \in Images, ChooseFile(u) PROVE PictureType'
  <2>1. [url |-> Blank, image |-> u] \in F
    OBVIOUS
  <2> HIDE DEF F
  <2>2. Append(files, [url |-> Blank, image |-> u]) \in Seq(F)
    BY <1>0, <2>1
  <2> QED BY <1>0, <1>4, <2>2 DEF ChooseFile, PictureType, F
<1>5. ASSUME NEW u \in Images, UploadSuccess(u) PROVE PictureType'
  BY <1>0, <1>5 DEF UploadSuccess, PictureType
<1>6. ASSUME NEW u \in Images, UploadError(u) PROVE PictureType'
  <2>1. PICK k \in 1 .. Len(files) : files' = RemoveAt(files, k)
    BY <1>0, <1>6 DEF UploadError
  <2>2. files' \in Seq(F)
    BY <1>0, <2>1, Removed
  <2> QED BY <1>0, <1>6, <2>2 DEF UploadError, PictureType
<1>7. ASSUME NEW k \in DOMAIN files, RemoveImage(k) PROVE PictureType'
  <2>1. files' \in Seq(F)
    BY <1>0, <1>7, Removed DEF RemoveImage
  <2>2. imageList' \in Seq(Images)
    BY <1>0, <1>7, RemovedFirst DEF RemoveImage
  <2> QED BY <1>0, <1>7, <2>1, <2>2 DEF RemoveImage, PictureType
<1> QED BY <1>1, <1>2, <1>3, <1>4, <1>5, <1>6, <1>7, PictureSteps DEF PictureType

LEMMA RestTypeStep == TypeInv /\ [FormNext]_formVars => RestType'
<1> SUFFICES ASSUME TypeInv, [FormNext]_formVars PROVE RestType'
  OBVIOUS
<1>1. RestType
  BY DEF TypeInv
<1>2. 0 \in 0 .. MaxEdits /\ MaxEdits \in Nat /\ MaxSaves \in Nat
  BY PropertyFormAssumption
<1>3. view' \in {"list", "loading", "form"} /\ typed' \subseteq Derived
  BY <1>1 DEF RestType, FormNext, formVars, fields, OpenNew, OpenEdit, Fresh, Loaded, LoadFails, Leave, Edit,
         TypeAmount, TypeDerived, ChooseFile, UploadSuccess, UploadError, RemoveImage, ToggleTab, DragTab, Submit,
         SubmitDone, SubmitLost, SubmitFails, Delete
<1>4. edits' = edits \/ edits' = 0 \/ (edits < MaxEdits /\ edits' = edits + 1)
  BY DEF FormNext, formVars, OpenNew, OpenEdit, Fresh, Loaded, LoadFails, Leave, Edit,
         TypeAmount, TypeDerived, ChooseFile, UploadSuccess, UploadError, RemoveImage, ToggleTab, DragTab, Submit,
         SubmitDone, SubmitLost, SubmitFails, Delete
<1>5. saves' = saves \/ (saves < MaxSaves /\ saves' = saves + 1)
  BY DEF FormNext, formVars, OpenNew, OpenEdit, Loaded, LoadFails, Leave, Edit,
         TypeAmount, TypeDerived, ChooseFile, UploadSuccess, UploadError, RemoveImage, ToggleTab, DragTab, Submit,
         SubmitDone, SubmitLost, SubmitFails, Delete
<1> QED BY <1>1, <1>2, <1>3, <1>4, <1>5 DEF RestType

\* What the steps do to the fields of the form.
LEMMA FieldSteps ==
    ASSUME [FormNext]_formVars
    PROVE  \/ UNCHANGED <<form, typed>>
           \/ form' = BlankForm /\ typed' = {}
           \/ Loaded
           \/ \E f \in Edited, a \in Amounts : TypeAmount(f, a)
           \/ \E d \in Derived : TypeDerived(d)
           \/ typed' = typed /\ form' = [form EXCEPT !.cover = CoverOf(imageList')]
BY DEF FormNext, formVars, fields, OpenNew, OpenEdit, Fresh, LoadFails, Leave, ChooseFile, UploadSuccess,
       UploadError, RemoveImage, ToggleTab, DragTab, Submit, SubmitDone, SubmitLost, SubmitFails, Delete

LEMMA CoverOfType ==
    ASSUME NEW s \in Seq(Images)
    PROVE  CoverOf(s) \in Images \cup {NoImage}
BY DEF CoverOf

LEMMA FieldsStep == TypeInv /\ [FormNext]_formVars => form' \in Fields
<1> SUFFICES ASSUME TypeInv, [FormNext]_formVars PROVE form' \in Fields
  OBVIOUS
<1>0. /\ form \in Fields /\ form.inputs \in [Inputs -> Amounts] /\ form.derived \in [Derived -> DerivedValue]
      /\ Edited \subseteq Inputs
  BY PropertyFormAssumption DEF TypeInv, Fields
<1>1. CASE UNCHANGED <<form, typed>>
  BY <1>0, <1>1
<1>2. CASE form' = BlankForm
  BY <1>2, BlankFormType
<1>3. CASE Loaded
  <2>1. IsRow(rows[id])
    BY <1>3 DEF Loaded, TypeInv, TableType
  <2> DEFINE filled == {f \in Inputs : rows[id].inputs[f] # form.inputs[f]}
  <2>2. form' = [inputs |-> rows[id].inputs, derived |-> Recomputed(rows[id].derived, rows[id].inputs, filled),
                 cover |-> rows[id].cover]
    BY <1>3 DEF Loaded
  <2>3. Recomputed(rows[id].derived, rows[id].inputs, filled) \in [Derived -> DerivedValue]
    BY <2>1, RecomputedType DEF IsRow
  <2> QED BY <2>1, <2>2, <2>3 DEF IsRow, Fields
<1>4. ASSUME NEW f \in Edited, NEW a \in Amounts, TypeAmount(f, a) PROVE form' \in Fields
  <2> DEFINE ins == [form.inputs EXCEPT ![f] = a]
             ds == Recomputed(form.derived, ins, {f})
  <2>1. form' = [form EXCEPT !.inputs = ins, !.derived = ds]
    BY <1>4 DEF TypeAmount
  <2>2. ins \in [Inputs -> Amounts]
    BY <1>0
  <2> HIDE DEF ins
  <2>3. ds \in [Derived -> DerivedValue]
    BY <1>0, <2>2, RecomputedType
  <2> HIDE DEF ds
  <2> QED BY <1>0, <2>1, <2>2, <2>3, SetField
<1>5. ASSUME NEW d \in Derived, TypeDerived(d) PROVE form' \in Fields
  <2> DEFINE ds == [form.derived EXCEPT ![d] = Typed]
  <2>1. form' = [form EXCEPT !.derived = ds]
    BY <1>0, <1>5 DEF TypeDerived, Fields
  <2>2. Typed \in DerivedValue
    BY DEF DerivedValue
  <2>3. ds \in [Derived -> DerivedValue]
    BY <1>0, <2>2
  <2> HIDE DEF ds
  <2> QED BY <1>0, <2>1, <2>3, SetField
<1>6. CASE form' = [form EXCEPT !.cover = CoverOf(imageList')]
  <2>1. CoverOf(imageList') \in Images \cup {NoImage}
    BY PictureTypeStep, CoverOfType DEF PictureType
  <2> QED BY <1>0, <1>6, <2>1, SetField
<1> QED BY <1>1, <1>2, <1>3, <1>4, <1>5, <1>6, FieldSteps

\* What is submitted is a property that the form can show.
LEMMA SubmittedType == TypeInv => IsRow(ToSave)
<1> SUFFICES ASSUME TypeInv PROVE IsRow(ToSave)
  OBVIOUS
<1>1. form \in Fields /\ imageList \in Seq(Images) /\ moduleTabs \in Seq(Tab) /\ moduleTabs # <<>>
  BY DEF TypeInv, PictureType, TabsType
<1>2. ToSave = [inputs |-> form.inputs, derived |-> form.derived, images |-> imageList,
                cover |-> IF imageList = <<>> THEN form.cover ELSE Head(imageList), tabs |-> moduleTabs]
  BY DEF ToSave
<1>3. (IF imageList = <<>> THEN form.cover ELSE Head(imageList)) \in Images \cup {NoImage}
  BY <1>1 DEF Fields
<1>4. form.inputs \in [Inputs -> Amounts] /\ form.derived \in [Derived -> DerivedValue]
  BY <1>1 DEF Fields
<1> QED BY <1>1, <1>2, <1>3, <1>4 DEF IsRow

\* Every save in flight was there before or has just been submitted.
LEMMA IdAndSaveSteps ==
    ASSUME [FormNext]_formVars
    PROVE  /\ id' = id \/ id' = 0 \/ id' \in 1 .. MaxRows
           /\ \A s \in InFlight' : s \in InFlight \/ (Submit /\ s.id = id /\ s.row = ToSave)
<1>1. id' = id \/ id' = 0 \/ id' \in 1 .. MaxRows
  BY DEF FormNext, formVars, fields, OpenNew, OpenEdit, Fresh, Loaded, LoadFails, Leave, Edit, TypeAmount,
         TypeDerived, ChooseFile, UploadSuccess, UploadError, RemoveImage, ToggleTab, DragTab, Submit,
         SubmitDone,
         SubmitLost, SubmitFails, Delete
<1>2. \/ UNCHANGED saving \/ Submit \/ Leave
      \/ \E s \in InFlight : SubmitDone(s) \/ GivenUp(s)
  BY DEF FormNext, formVars, saving, fields, OpenNew, OpenEdit, Fresh, Loaded, LoadFails, Edit, TypeAmount,
         TypeDerived, ChooseFile, UploadSuccess, UploadError, RemoveImage, ToggleTab, DragTab,
         SubmitLost, SubmitFails, Delete
<1>3. CASE UNCHANGED saving
  BY <1>1, <1>3 DEF saving, InFlight
<1>4. CASE Submit
  <2>1. /\ pending = Nothing /\ late' = late
        /\ pending' = [no |-> saves + 1, id |-> id, row |-> ToSave]
    BY <1>4 DEF Submit
  <2>2. pending'.id = id /\ pending'.row = ToSave
    BY <2>1
  <2>3. \A s \in InFlight' : s \in late \/ s = pending'
    BY <2>1 DEF InFlight
  <2> QED BY <1>1, <1>4, <2>2, <2>3 DEF InFlight
<1>5. CASE Leave
  BY <1>1, <1>5 DEF Leave, InFlight
<1>6. ASSUME NEW s \in InFlight, SubmitDone(s) \/ GivenUp(s) PROVE InFlight' \subseteq InFlight
  BY <1>6 DEF SubmitDone, GivenUp, InFlight
<1>7. \A s \in InFlight' : s \in InFlight \/ (Submit /\ s.id = id /\ s.row = ToSave)
  BY <1>2, <1>3, <1>4, <1>5, <1>6 DEF InFlight, saving
<1> QED BY <1>1, <1>7

LEMMA TableTypeStep == TypeInv /\ [FormNext]_formVars => TableType'
<1> SUFFICES ASSUME TypeInv, [FormNext]_formVars PROVE TableType'
  OBVIOUS
<1>0. TableType /\ MaxRows \in Nat
  BY PropertyFormAssumption DEF TypeInv
<1>1. id' \in 0 .. MaxRows /\ \A s \in InFlight' : s.id \in 0 .. MaxRows /\ IsRow(s.row)
  BY <1>0, IdAndSaveSteps, SubmittedType DEF TableType
<1> DEFINE RowsOK(rs, n, del) == /\ DOMAIN rs \subseteq 1 .. MaxRows /\ n \in 1 .. MaxRows + 1
                                 /\ \A i \in DOMAIN rs : i < n /\ IsRow(rs[i])
                                 /\ del \subseteq 1 .. MaxRows
<1>2. RowsOK(rows', next', deleted')
  <2>1. CASE UNCHANGED <<rows, next, deleted>>
    BY <1>0, <2>1 DEF TableType
  <2>2. ASSUME NEW s \in InFlight, Stored(s), deleted' = deleted PROVE RowsOK(rows', next', deleted')
    <3>0. IsRow(s.row)
      BY <1>0, <2>2 DEF TableType
    <3>1. CASE s.id = 0
      <4>1. /\ DOMAIN rows' = DOMAIN rows \cup {next} /\ next' = next + 1 /\ next <= MaxRows
            /\ \A i \in DOMAIN rows' : rows'[i] = IF i = next THEN s.row ELSE rows[i]
        BY <2>2, <3>1 DEF Stored
      <4>2. \A i \in DOMAIN rows' : i < next + 1 /\ IsRow(rows'[i])
        BY <1>0, <3>0, <4>1 DEF TableType
      <4> QED BY <1>0, <2>2, <4>1, <4>2 DEF TableType
    <3>2. CASE s.id # 0
      <4>1. /\ DOMAIN rows' = DOMAIN rows /\ next' = next
            /\ \A i \in DOMAIN rows' : rows'[i] = IF i = s.id THEN s.row ELSE rows[i]
        BY <2>2, <3>2 DEF Stored
      <4>2. \A i \in DOMAIN rows' : i < next /\ IsRow(rows'[i])
        BY <1>0, <3>0, <4>1 DEF TableType
      <4> QED BY <1>0, <2>2, <4>1, <4>2 DEF TableType
    <3> QED BY <3>1, <3>2
  <2>3. ASSUME NEW i \in DOMAIN rows, rows' = [j \in DOMAIN rows \ {i} |-> rows[j]],
               deleted' = deleted \cup {i}, next' = next
        PROVE  RowsOK(rows', next', deleted')
    <3>1. DOMAIN rows' = DOMAIN rows \ {i} /\ \A j \in DOMAIN rows' : rows'[j] = rows[j]
      BY <2>3
    <3>2. i \in 1 .. MaxRows
      BY <1>0 DEF TableType
    <3> QED BY <1>0, <2>3, <3>1, <3>2 DEF TableType
  <2> QED BY <2>1, <2>2, <2>3, TableSteps
<1> QED BY <1>1, <1>2 DEF TableType

\* Sorting places every tab once: nothing is lost, a visible tab least of all.
LEMMA SortedTabs ==
    ASSUME NEW ts \in Seq(Tab)
    PROVE  /\ Sorted(ts) \in Seq(Tab) /\ Len(Sorted(ts)) = Len(ts)
           /\ HasVisible(ts) => HasVisible(Sorted(ts))
<1> DEFINE D == 1 .. Len(ts)
           R == {p \in D \X D : Before(ts, p[1], p[2])}
           Rank(i) == Cardinality({j \in D : Before(ts, j, i)})
<1>1. Len(ts) \in Nat /\ DOMAIN ts = D /\ \A i \in D : ts[i] \in Tab /\ ts[i].order \in Nat
  <2>1. Len(ts) \in Nat /\ DOMAIN ts = D /\ \A i \in D : ts[i] \in Tab
    BY LenProperties, ElementOfSeq
  <2> QED BY <2>1 DEF Tab
<1>2. \A x, y \in D : <<x, y>> \in R <=> Before(ts, x, y)
  OBVIOUS
<1>3. IsFiniteSet(D) /\ Cardinality(D) = Len(ts)
  <2>1. 1 \in Int /\ Len(ts) \in Int
    BY <1>1
  <2>2. IsFiniteSet(D) /\ Cardinality(D) = IF 1 > Len(ts) THEN 0 ELSE Len(ts) - 1 + 1
    BY <2>1, FS_Interval
  <2> QED BY <1>1, <2>2
<1>4. /\ \A x \in D : ~ Before(ts, x, x)
      /\ \A x, y, z \in D : Before(ts, x, y) /\ Before(ts, y, z) => Before(ts, x, z)
      /\ \A x, y \in D : x = y \/ Before(ts, x, y) \/ Before(ts, y, x)
  <2>1. \A x \in D : x \in Nat /\ ts[x].order \in Nat
    BY <1>1
  <2> HIDE DEF D
  <2> QED BY <2>1 DEF Before
<1>5. \A x \in D : Behind(D, R, x) = {j \in D : Before(ts, j, x)}
  BY <1>2 DEF Behind
<1>6. /\ \A n \in 1 .. Len(ts) : \E x \in D : Rank(x) = n - 1
      /\ \A x, z \in D : Rank(x) = Rank(z) => x = z
      /\ \A x \in D : Rank(x) + 1 \in 1 .. Len(ts)
  <2>1. StrictOrder(D, R)
    BY <1>2, <1>4 DEF StrictOrder
  <2> HIDE DEF D, R
  <2>2. /\ \A n \in 1 .. Cardinality(D) : \E x \in D : Cardinality(Behind(D, R, x)) = n - 1
        /\ \A x, z \in D : Cardinality(Behind(D, R, x)) = Cardinality(Behind(D, R, z)) => x = z
        /\ \A x \in D : Cardinality(Behind(D, R, x)) + 1 \in 1 .. Cardinality(D)
    BY <1>3, <2>1, Places
  <2>3. \A x \in D : Cardinality(Behind(D, R, x)) = Rank(x)
    BY <1>5
  <2> HIDE DEF Rank
  <2> QED BY <1>3, <2>2, <2>3
<1>7. Sorted(ts) = [n \in D |-> ts[CHOOSE i \in D : Rank(i) = n - 1]]
  BY <1>1 DEF Sorted
<1> HIDE DEF Rank, R
<1>8. \A n \in D : (CHOOSE i \in D : Rank(i) = n - 1) \in D
  BY <1>6
<1>9. Sorted(ts) \in Seq(Tab) /\ DOMAIN Sorted(ts) = D /\ Len(Sorted(ts)) = Len(ts)
  <2> DEFINE e(n) == ts[CHOOSE i \in D : Rank(i) = n - 1]
  <2>1. \A n \in 1 .. Len(ts) : e(n) \in Tab
    BY <1>1, <1>8
  <2>2. Sorted(ts) = [n \in 1 .. Len(ts) |-> e(n)]
    BY <1>7
  <2> HIDE DEF e
  <2>3. [n \in 1 .. Len(ts) |-> e(n)] \in Seq(Tab)
    BY <1>1, <2>1
  <2>4. DOMAIN Sorted(ts) = 1 .. Len(ts) /\ Sorted(ts) \in Seq(Tab)
    BY <2>2, <2>3
  <2>5. Len(Sorted(ts)) \in Nat /\ DOMAIN Sorted(ts) = 1 .. Len(Sorted(ts))
    BY <2>4, LenProperties
  <2>6. Len(Sorted(ts)) = Len(ts)
    BY <1>1, <2>4, <2>5
  <2> QED BY <2>4, <2>6
<1>10. ASSUME NEW i \in D PROVE \E n \in D : Sorted(ts)[n] = ts[i]
  <2> DEFINE n == Rank(i) + 1
  <2>1. n \in D /\ Rank(i) = n - 1
    <3>1. n \in D /\ Rank(i) + 1 \in Nat
      BY <1>1, <1>6
    <3>2. \A x \in D : Rank(x) \in Nat
      BY FS_CardinalityType, FS_Subset, <1>3 DEF Rank
    <3> QED BY <3>1, <3>2
  <2>2. (CHOOSE x \in D : Rank(x) = n - 1) = i
    BY <1>6, <1>8, <2>1
  <2> HIDE DEF n
  <2> QED BY <1>7, <2>1, <2>2
<1>11. HasVisible(ts) => HasVisible(Sorted(ts))
  BY <1>1, <1>9, <1>10 DEF HasVisible
<1> QED BY <1>9, <1>11

LEMMA KeysOfTabs ==
    ASSUME NEW ts \in Seq(Tab)
    PROVE  /\ KeysOf(ts) \in Seq(Range(Keys)) /\ Len(KeysOf(ts)) = Len(ts)
           /\ DOMAIN KeysOf(ts) = 1 .. Len(ts) /\ \A i \in 1 .. Len(ts) : KeysOf(ts)[i] = ts[i].key
<1>1. Len(ts) \in Nat /\ DOMAIN ts = 1 .. Len(ts) /\ \A i \in 1 .. Len(ts) : ts[i] \in Tab
  BY LenProperties, ElementOfSeq
<1>2. \A i \in 1 .. Len(ts) : ts[i].key \in Range(Keys)
  BY <1>1 DEF Tab
<1>3. KeysOf(ts) = [i \in 1 .. Len(ts) |-> ts[i].key]
  BY <1>1 DEF KeysOf
<1>4. KeysOf(ts) \in Seq(Range(Keys))
  BY <1>1, <1>2, <1>3
<1>5. Len(KeysOf(ts)) \in Nat /\ DOMAIN KeysOf(ts) = 1 .. Len(KeysOf(ts))
  BY <1>4, LenProperties
<1> QED BY <1>1, <1>3, <1>4, <1>5

LEMMA DefaultTabsType ==
    /\ DefaultTabs \in Seq(Tab) /\ DefaultTabs # <<>> /\ HasVisible(DefaultTabs)
    /\ Len(DefaultTabs) = Len(Keys) /\ KeysOf(DefaultTabs) = Keys
<1>1. Keys \in Seq(Range(Keys)) /\ Keys # <<>>
  BY PropertyFormAssumption
<1>2. /\ Len(Keys) \in Nat \ {0} /\ DOMAIN Keys = 1 .. Len(Keys)
      /\ \A i \in 1 .. Len(Keys) : Keys[i] \in Range(Keys)
  BY <1>1, EmptySeq, LenProperties, ElementOfSeq
<1>3. \A i \in 1 .. Len(Keys) : [key |-> Keys[i], visible |-> TRUE, order |-> i] \in Tab
  BY <1>2 DEF Tab
<1>4. DefaultTabs = [i \in 1 .. Len(Keys) |-> [key |-> Keys[i], visible |-> TRUE, order |-> i]]
  BY <1>2 DEF DefaultTabs
<1>5. DefaultTabs \in Seq(Tab)
  BY <1>2, <1>3, <1>4
<1>6. Len(DefaultTabs) \in Nat /\ DOMAIN DefaultTabs = 1 .. Len(DefaultTabs)
  BY <1>5, LenProperties
<1>7. Len(DefaultTabs) = Len(Keys) /\ DefaultTabs # <<>>
  BY <1>2, <1>4, <1>6
<1>8. HasVisible(DefaultTabs)
  BY <1>2, <1>4 DEF HasVisible
<1>9. \A i \in 1 .. Len(Keys) : KeysOf(DefaultTabs)[i] = Keys[i]
  BY <1>4, <1>5, <1>7, KeysOfTabs
<1>10. KeysOf(DefaultTabs) \in Seq(Range(Keys)) /\ Len(KeysOf(DefaultTabs)) = Len(Keys)
  BY <1>5, <1>7, KeysOfTabs
<1>11. KeysOf(DefaultTabs) = Keys
  BY <1>1, <1>9, <1>10, SeqEqual
<1> QED BY <1>5, <1>7, <1>8, <1>11

\* The tabs that a property is shown with.
LEMMA TabsOfType ==
    ASSUME NEW r, IsRow(r)
    PROVE  /\ TabsOf(r) \in Seq(Tab) /\ TabsOf(r) # <<>>
           /\ (r.tabs = NoTabs \/ HasVisible(r.tabs)) => HasVisible(TabsOf(r))
<1>1. CASE r.tabs = NoTabs
  BY <1>1, DefaultTabsType DEF TabsOf
<1>2. CASE r.tabs # NoTabs
  <2>1. r.tabs \in Seq(Tab) /\ r.tabs # <<>> /\ TabsOf(r) = Sorted(r.tabs)
    BY <1>2 DEF IsRow, TabsOf
  <2>2. Sorted(r.tabs) \in Seq(Tab) /\ Len(Sorted(r.tabs)) = Len(r.tabs)
    BY <2>1, SortedTabs
  <2>3. Len(r.tabs) \in Nat \ {0}
    BY <2>1, EmptySeq
  <2>4. Sorted(r.tabs) # <<>>
    BY <2>2, <2>3, EmptySeq
  <2> QED BY <1>2, <2>1, <2>2, <2>4, SortedTabs
<1> QED BY <1>1, <1>2

LEMMA TabSteps ==
    ASSUME [FormNext]_formVars
    PROVE  \/ UNCHANGED tabs
           \/ moduleTabs' = DefaultTabs /\ onScreen' = Keys
           \/ Loaded
           \/ \E k \in DOMAIN moduleTabs : ToggleTab(k)
           \/ \E j, k \in DOMAIN moduleTabs : DragTab(j, k)
BY DEF FormNext, formVars, tabs, OpenNew, OpenEdit, Fresh, LoadFails, Leave, TypeAmount, TypeDerived,
       ChooseFile, UploadSuccess, UploadError, RemoveImage, Submit, SubmitDone, SubmitLost, SubmitFails, Delete

\* Switching a tab keeps them all, and leaves one visible.
LEMMA Toggled ==
    ASSUME moduleTabs \in Seq(Tab), moduleTabs # <<>>, NEW k \in DOMAIN moduleTabs, ToggleTab(k)
    PROVE  /\ moduleTabs' \in Seq(Tab) /\ Len(moduleTabs') = Len(moduleTabs)
           /\ HasVisible(moduleTabs')
           /\ \A i \in 1 .. Len(moduleTabs) : moduleTabs'[i].key = moduleTabs[i].key
<1> DEFINE n == Len(moduleTabs)
           new == [moduleTabs EXCEPT ![k].visible = ~@]
           last == [new EXCEPT ![Len(new)].visible = TRUE]
<1>1. n \in Nat \ {0} /\ DOMAIN moduleTabs = 1 .. n /\ \A i \in 1 .. n : moduleTabs[i] \in Tab
  BY EmptySeq, LenProperties, ElementOfSeq
<1>2. \A t \in Tab, b \in BOOLEAN : [t EXCEPT !.visible = b] \in Tab /\ [t EXCEPT !.visible = b].key = t.key
                                  /\ [t EXCEPT !.visible = b].visible = b
  BY DEF Tab
<1>3. \A t \in Tab : (~t.visible) \in BOOLEAN
  OBVIOUS
<1>4. new = [moduleTabs EXCEPT ![k] = [moduleTabs[k] EXCEPT !.visible = ~moduleTabs[k].visible]]
  OBVIOUS
<1>5. [moduleTabs[k] EXCEPT !.visible = ~moduleTabs[k].visible] \in Tab
  BY <1>1, <1>2, <1>3
<1>6. new \in Seq(Tab) /\ Len(new) = n /\ \A i \in 1 .. n : new[i].key = moduleTabs[i].key
  <2> DEFINE t == [moduleTabs[k] EXCEPT !.visible = ~moduleTabs[k].visible]
  <2>1. t \in Tab /\ t.key = moduleTabs[k].key
    BY <1>1, <1>2, <1>3
  <2>2. new = [moduleTabs EXCEPT ![k] = t]
    BY <1>4
  <2> HIDE DEF t, new
  <2> QED BY <1>1, <2>1, <2>2, ExceptSeq
<1>7. moduleTabs' = IF HasVisible(new) THEN new ELSE last
  BY DEF ToggleTab
<1> HIDE DEF new
<1>8. CASE HasVisible(new)
  BY <1>6, <1>7, <1>8
<1>9. CASE ~HasVisible(new)
  <2> DEFINE t == [new[n] EXCEPT !.visible = TRUE]
  <2>1. n \in 1 .. n /\ DOMAIN new = 1 .. n /\ new[n] \in Tab
    BY <1>1, <1>6, LenProperties, ElementOfSeq
  <2>2. t \in Tab /\ t.key = new[n].key /\ t.visible
    <3>1. TRUE \in BOOLEAN
      OBVIOUS
    <3> QED BY <1>2, <2>1, <3>1
  <2>3. last = [new EXCEPT ![n] = t]
    BY <1>6, <2>1
  <2> HIDE DEF t, last
  <2>4. last \in Seq(Tab) /\ Len(last) = n /\ \A i \in 1 .. n : last[i] = IF i = n THEN t ELSE new[i]
    BY <1>6, <2>1, <2>2, <2>3, ExceptSeq
  <2>5. DOMAIN last = 1 .. n /\ last[n].visible
    BY <2>1, <2>2, <2>4, LenProperties
  <2>6. HasVisible(last)
    BY <2>1, <2>5 DEF HasVisible
  <2>7. \A i \in 1 .. n : last[i].key = moduleTabs[i].key
    BY <1>6, <2>2, <2>4
  <2> QED BY <1>7, <1>9, <2>4, <2>6, <2>7
<1> QED BY <1>8, <1>9

\* Dragging numbers the tabs where they are: each keeps its key and its switch.
LEMMA Dragged ==
    ASSUME moduleTabs \in Seq(Tab), NEW j \in DOMAIN moduleTabs, NEW k \in DOMAIN moduleTabs, DragTab(j, k)
    PROVE  /\ moduleTabs' \in Seq(Tab) /\ Len(moduleTabs') = Len(moduleTabs)
           /\ \A i \in 1 .. Len(moduleTabs) : /\ moduleTabs'[i].key = moduleTabs[i].key
                                             /\ moduleTabs'[i].visible = moduleTabs[i].visible
<1> DEFINE n == Len(moduleTabs)
           e(i) == [moduleTabs[i] EXCEPT !.order = i]
<1>1. n \in Nat /\ DOMAIN moduleTabs = 1 .. n /\ \A i \in 1 .. n : moduleTabs[i] \in Tab
  BY LenProperties, ElementOfSeq
<1>2. \A t \in Tab, i \in Nat : /\ [t EXCEPT !.order = i] \in Tab /\ [t EXCEPT !.order = i].key = t.key
                              /\ [t EXCEPT !.order = i].visible = t.visible
  BY DEF Tab
<1>3. \A i \in 1 .. n : e(i) \in Tab /\ e(i).key = moduleTabs[i].key /\ e(i).visible = moduleTabs[i].visible
  BY <1>1, <1>2
<1>4. moduleTabs' = [i \in 1 .. n |-> e(i)]
  BY <1>1 DEF DragTab
<1> HIDE DEF e
<1>5. moduleTabs' \in Seq(Tab) /\ DOMAIN moduleTabs' = 1 .. n
  <2>1. [i \in 1 .. n |-> e(i)] \in Seq(Tab)
    BY <1>1, <1>3
  <2> QED BY <1>4, <2>1
<1>6. Len(moduleTabs') = n
  <2>1. Len(moduleTabs') \in Nat /\ DOMAIN moduleTabs' = 1 .. Len(moduleTabs')
    BY <1>5, LenProperties
  <2> QED BY <1>1, <1>5, <2>1
<1> QED BY <1>3, <1>4, <1>5, <1>6

LEMMA TabsTypeStep == TypeInv /\ [FormNext]_formVars => TabsType'
<1> SUFFICES ASSUME TypeInv, [FormNext]_formVars PROVE TabsType'
  OBVIOUS
<1> DEFINE K == Range(Keys)
           n == Len(moduleTabs)
<1>1. TabsType /\ n \in Nat \ {0} /\ DOMAIN moduleTabs = 1 .. n
  BY EmptySeq, LenProperties DEF TypeInv, TabsType
<1>2. CASE UNCHANGED tabs
  BY <1>1, <1>2 DEF tabs, TabsType, KeysOf
<1>3. CASE moduleTabs' = DefaultTabs /\ onScreen' = Keys
  <2>1. Keys \in Seq(Range(Keys))
    BY PropertyFormAssumption
  <2>2. KeysOf(moduleTabs') = Keys
    BY <1>3, DefaultTabsType
  <2> QED BY <1>3, <2>1, <2>2, DefaultTabsType DEF TabsType
<1>4. CASE Loaded
  <2>1. IsRow(rows[id]) /\ moduleTabs' = TabsOf(rows[id]) /\ onScreen' = KeysOf(moduleTabs')
    BY <1>4 DEF Loaded, TypeInv, TableType
  <2>2. moduleTabs' \in Seq(Tab) /\ moduleTabs' # <<>>
    BY <2>1, TabsOfType
  <2> QED BY <2>1, <2>2, KeysOfTabs DEF TabsType
<1>5. ASSUME NEW k \in DOMAIN moduleTabs, ToggleTab(k) PROVE TabsType'
  <2>1. /\ moduleTabs' \in Seq(Tab) /\ Len(moduleTabs') = n
        /\ \A i \in 1 .. n : moduleTabs'[i].key = moduleTabs[i].key
    BY <1>1, <1>5, Toggled DEF TabsType
  <2>2. KeysOf(moduleTabs') = KeysOf(moduleTabs)
    BY <1>1, <2>1, KeysOfTabs, SeqEqual DEF TabsType
  <2>3. moduleTabs' # <<>>
    BY <1>1, <2>1, EmptySeq
  <2>4. onScreen' = onScreen
    BY <1>5 DEF ToggleTab
  <2> QED BY <1>1, <2>1, <2>2, <2>3, <2>4 DEF TabsType
<1>6. ASSUME NEW j \in DOMAIN moduleTabs, NEW k \in DOMAIN moduleTabs, DragTab(j, k) PROVE TabsType'
  <2>1. /\ moduleTabs' \in Seq(Tab) /\ Len(moduleTabs') = n
        /\ \A i \in 1 .. n : moduleTabs'[i].key = moduleTabs[i].key
    BY <1>1, <1>6, Dragged DEF TabsType
  <2>2. KeysOf(moduleTabs') = KeysOf(moduleTabs)
    BY <1>1, <2>1, KeysOfTabs, SeqEqual DEF TabsType
  <2>3. moduleTabs' # <<>>
    BY <1>1, <2>1, EmptySeq
  <2> DEFINE rest == RemoveAt(onScreen, j)
             e == onScreen[j]
  <2>4. onScreen' = InsertAt(rest, k, e) /\ onScreen \in Seq(K) /\ Len(onScreen) = n /\ j \in 1 .. Len(onScreen)
    BY <1>1, <1>6 DEF DragTab, TabsType
  <2>5. rest \in Seq(K) /\ Len(rest) = n - 1 /\ Range(rest) \cup {e} = Range(onScreen)
    BY <2>4, Removed
  <2>6. e \in K /\ k \in 1 .. Len(rest) + 1
    <3>1. e \in K
      BY <2>4, ElementOfSeq
    <3>2. (n - 1) + 1 = n
      BY <1>1
    <3> QED BY <1>1, <2>5, <3>1, <3>2
  <2> HIDE DEF rest, e, K
  <2>7. /\ InsertAt(rest, k, e) \in Seq(K) /\ Len(InsertAt(rest, k, e)) = Len(rest) + 1
        /\ Range(InsertAt(rest, k, e)) = Range(rest) \cup {e}
    BY <2>5, <2>6, Inserted
  <2>8. Len(onScreen') = n /\ onScreen' \in Seq(K) /\ Range(onScreen') = Range(onScreen)
    BY <1>1, <2>4, <2>5, <2>7
  <2> QED BY <1>1, <2>1, <2>2, <2>3, <2>8 DEF TabsType, K
<1> QED BY <1>2, <1>3, <1>4, <1>5, <1>6, TabSteps

LEMMA InitType == FormInit => TypeInv
<1> SUFFICES ASSUME FormInit PROVE TypeInv
  OBVIOUS
<1>1. rows = <<>> \/ \E r \in FirstRows : rows = <<r>>
  BY DEF FormInit
<1>2. \A r \in FirstRows : IsRow(r)
  BY PropertyFormAssumption
<1>3. Len(rows) \in {0, 1} /\ DOMAIN rows = 1 .. Len(rows) /\ \A i \in DOMAIN rows : IsRow(rows[i])
  BY <1>1, <1>2
<1>4. MaxRows \in Nat /\ MaxRows > 0 /\ 0 \in 0 .. MaxEdits /\ 0 \in 0 .. MaxSaves /\ Keys \in Seq(Range(Keys))
  BY PropertyFormAssumption
<1>5. TableType
  <2>1. next = Len(rows) + 1 /\ deleted = {} /\ id = 0 /\ InFlight = {}
    BY DEF FormInit, InFlight
  <2>2. next \in 1 .. MaxRows + 1 /\ id \in 0 .. MaxRows /\ 1 .. Len(rows) \subseteq 1 .. MaxRows
    BY <1>3, <1>4, <2>1
  <2>3. \A i \in DOMAIN rows : i < next
    BY <1>3, <2>1
  <2> QED BY <1>3, <2>1, <2>2, <2>3 DEF TableType
<1>6. PictureType
  BY DEF FormInit, PictureType
<1>7. TabsType
  BY <1>4, DefaultTabsType DEF FormInit, TabsType
<1>8. RestType
  BY <1>4 DEF FormInit, RestType
<1>9. form \in Fields
  BY BlankFormType DEF FormInit
<1> QED BY <1>5, <1>6, <1>7, <1>8, <1>9 DEF TypeInv

LEMMA TypeStep == TypeInv /\ [FormNext]_formVars => TypeInv'
BY PictureTypeStep, TableTypeStep, TabsTypeStep, RestTypeStep, FieldsStep DEF TypeInv, TableType, PictureType, TabsType, RestType

LEMMA TypesAgree == TypeInv => FormTypeOK
BY DEF TypeInv, TableType, PictureType, TabsType, RestType, FormTypeOK, Fields

\* The type invariant of the form: what is stored and what is being saved is
\* always a property the form can show, and the tabs on the screen are the
\* configured ones, whatever was dragged.
THEOREM FormTypeCorrect == FormSpec => []FormTypeOK
BY InitType, TypeStep, TypesAgree, PTL DEF FormSpec

-----------------------------------------------------------------------------
(* PropertyForm: computed amounts, images and tabs.                        *)

\* The form is empty until a property is loaded, which is why loading triggers
\* every watcher that can compute.
AmountsInv ==
    /\ TypeInv
    /\ view = "loading" => form = BlankForm /\ typed = {}
    /\ DerivedAgrees

LEMMA BlankFormAgrees == \A d \in Derived : ~Computable(d, BlankForm.inputs)
<1> SUFFICES ASSUME NEW d \in Derived PROVE ~Computable(d, BlankForm.inputs)
  OBVIOUS
<1>1. PICK f \in Needed(d) : f \in Inputs
  BY NeededAreWatched
<1>2. BlankForm.inputs[f] = 0
  BY <1>1 DEF BlankForm
<1> QED BY <1>1, <1>2 DEF Computable

LEMMA ViewSteps ==
    ASSUME [FormNext]_formVars, view' = "loading"
    PROVE  UNCHANGED <<view, form, typed>> \/ (form' = BlankForm /\ typed' = {})
BY DEF FormNext, formVars, fields, OpenNew, OpenEdit, Fresh, Loaded, LoadFails, Leave, Edit, TypeAmount,
       TypeDerived, ChooseFile, UploadSuccess, UploadError, RemoveImage, ToggleTab, DragTab, Submit,
       SubmitDone, SubmitLost, SubmitFails, Delete

LEMMA AmountsStep == AmountsInv /\ [FormNext]_formVars => AmountsInv'
<1> SUFFICES ASSUME AmountsInv, [FormNext]_formVars PROVE AmountsInv'
  OBVIOUS
<1>0. TypeInv /\ TypeInv' /\ form \in Fields /\ form.inputs \in [Inputs -> Amounts] /\ form.derived \in [Derived -> DerivedValue]
  BY TypeStep DEF AmountsInv, TypeInv, Fields
<1>1. view' = "loading" => form' = BlankForm /\ typed' = {}
  BY ViewSteps DEF AmountsInv
<1>2. DerivedAgrees'
  <2>1. CASE UNCHANGED <<form, typed>>
    BY <2>1 DEF AmountsInv, DerivedAgrees
  <2>2. CASE form' = BlankForm
    BY <2>2, BlankFormAgrees DEF DerivedAgrees
  <2>3. CASE Loaded
    <3> DEFINE r == rows[id]
               filled == {f \in Inputs : r.inputs[f] # form.inputs[f]}
    <3>1. /\ IsRow(r) /\ form = BlankForm
          /\ form' = [inputs |-> r.inputs, derived |-> Recomputed(r.derived, r.inputs, filled), cover |-> r.cover]
      BY <1>0, <2>3 DEF Loaded, AmountsInv, TypeInv, TableType
    <3>2. ASSUME NEW d \in Derived, Computable(d, r.inputs)
          PROVE  Recomputed(r.derived, r.inputs, filled)[d] = Formula(d, r.inputs)
      <4>1. PICK f \in Needed(d) : f \in Watched[d] /\ f \in Inputs
        BY NeededAreWatched
      <4>2. r.inputs[f] > 0 /\ form.inputs[f] = 0
        BY <3>1, <3>2, <4>1 DEF Computable, BlankForm
      <4>3. r.inputs[f] # form.inputs[f]
        BY <4>2
      <4>4. Triggers(d, filled)
        BY <4>1, <4>3 DEF Triggers
      <4> HIDE DEF r, filled
      <4> QED BY <3>2, <4>4 DEF Recomputed
    <3> HIDE DEF r, filled
    <3>3. form'.inputs = r.inputs /\ form'.derived = Recomputed(r.derived, r.inputs, filled)
      BY <3>1
    <3> QED BY <3>2, <3>3 DEF DerivedAgrees
  <2>4. ASSUME NEW f \in Edited, NEW a \in Amounts, TypeAmount(f, a) PROVE DerivedAgrees'
    <3> DEFINE new == [form.inputs EXCEPT ![f] = a]
    <3>1. /\ form' = [form EXCEPT !.inputs = new, !.derived = Recomputed(form.derived, new, {f})]
          /\ typed' = {d \in typed : f \notin Watched[d]}
      BY <2>4 DEF TypeAmount
    <3>2. form'.inputs = new /\ form'.derived = Recomputed(form.derived, new, {f})
      BY <1>0, <3>1 DEF Fields
    <3>3. \A g \in Inputs \ {f} : new[g] = form.inputs[g]
      BY <1>0
    <3> HIDE DEF new
    <3>4. ASSUME NEW d \in Derived \ typed', Computable(d, new)
          PROVE  Recomputed(form.derived, new, {f})[d] = Formula(d, new)
      <4>1. CASE f \in Watched[d]
        BY <3>4, <4>1 DEF Recomputed, Triggers
      <4>2. CASE f \notin Watched[d]
        <5>1. \A g \in Watched[d] : new[g] = form.inputs[g]
          BY <3>3, <4>2, NeededAreWatched
        <5>2. Formula(d, new) = Formula(d, form.inputs) /\ Computable(d, form.inputs)
          BY <3>4, <5>1, FormulaDepends
        <5>3. d \notin typed
          BY <3>1, <3>4, <4>2
        <5>4. form.derived[d] = Formula(d, form.inputs)
          BY <5>2, <5>3 DEF AmountsInv, DerivedAgrees
        <5> QED BY <4>2, <5>2, <5>4 DEF Recomputed, Triggers
      <4> QED BY <4>1, <4>2
    <3> QED BY <3>2, <3>4 DEF DerivedAgrees
  <2>5. ASSUME NEW d \in Derived, TypeDerived(d) PROVE DerivedAgrees'
    <3>1. /\ form'.inputs = form.inputs /\ typed' = typed \cup {d}
          /\ \A e \in Derived \ {d} : form'.derived[e] = form.derived[e]
      BY <1>0, <2>5 DEF TypeDerived, Fields
    <3> QED BY <3>1 DEF AmountsInv, DerivedAgrees
  <2>6. CASE typed' = typed /\ form' = [form EXCEPT !.cover = CoverOf(imageList')]
    <3>1. form'.inputs = form.inputs /\ form'.derived = form.derived
      BY <1>0, <2>6 DEF Fields
    <3> QED BY <2>6, <3>1 DEF AmountsInv, DerivedAgrees
  <2> QED BY <2>1, <2>2, <2>3, <2>4, <2>5, <2>6, FieldSteps
<1> QED BY <1>0, <1>1, <1>2 DEF AmountsInv

\* The computed amounts agree with what they are computed from, in whatever
\* order fields are typed, loaded and computed, unless they were typed over.
THEOREM AmountsAgree == FormSpec => []DerivedAgrees
<1>1. FormInit => AmountsInv
  BY InitType, BlankFormAgrees DEF FormInit, AmountsInv, DerivedAgrees
<1>2. AmountsInv => DerivedAgrees
  BY DEF AmountsInv
<1> QED BY <1>1, <1>2, AmountsStep, PTL DEF FormSpec

\* A stored row was there before or comes from a save in flight.
LEMMA RowSteps ==
    ASSUME [FormNext]_formVars, NEW i \in DOMAIN rows'
    PROVE  \/ i \in DOMAIN rows /\ rows'[i] = rows[i]
           \/ \E s \in InFlight : rows'[i] = s.row
<1>1. ASSUME NEW s \in InFlight, Stored(s)
      PROVE  (i \in DOMAIN rows /\ rows'[i] = rows[i]) \/ rows'[i] = s.row
  <2>1. CASE s.id = 0
    <3>1. DOMAIN rows' = DOMAIN rows \cup {next} /\ rows'[i] = IF i = next THEN s.row ELSE rows[i]
      BY <1>1, <2>1 DEF Stored
    <3> QED BY <3>1
  <2>2. CASE s.id # 0
    <3>1. DOMAIN rows' = DOMAIN rows /\ rows'[i] = IF i = s.id THEN s.row ELSE rows[i]
      BY <1>1, <2>2 DEF Stored
    <3> QED BY <3>1
  <2> QED BY <2>1, <2>2
<1>2. ASSUME NEW j \in DOMAIN rows, rows' = [k \in DOMAIN rows \ {j} |-> rows[k]]
      PROVE  i \in DOMAIN rows /\ rows'[i] = rows[i]
  BY <1>2
<1> QED BY <1>1, <1>2, TableSteps

\* The urls that the list of the form shows; an image uploaded since the form
\* was opened has none there.
Shown == {files[k].url : k \in DOMAIN files} \ {Blank}

\* The list that will be saved holds the images that are shown and ones that
\* were uploaded since, none twice.
UrlsInv ==
    /\ IsInjective(imageList)
    /\ uploads \cap Range(imageList) = {}
    /\ \A j, k \in DOMAIN files : files[j].url = files[k].url /\ files[j].url # Blank => j = k
    /\ \A k \in DOMAIN files : files[k].url \in {Blank, files[k].image}
    /\ Shown \cap (uploads \cup uploaded) = {}
    /\ Range(imageList) \ uploaded = Shown

\* No stored property has an image twice, and the form keeps no cover once its
\* list of images is empty, so that a save cannot bring back an image that was
\* taken away.
ImagesInv ==
    /\ TypeInv
    /\ \A i \in DOMAIN rows : IsInjective(rows[i].images)
    /\ \A s \in InFlight : IsInjective(s.row.images)
    /\ imageList = <<>> => form.cover = NoImage
    /\ view = "loading" => uploads = {} /\ uploaded = {}
    /\ UrlsInv

\* The list without one of its files.
LEMMA FileRemoved ==
    ASSUME TypeInv, UrlsInv, NEW k \in DOMAIN files, files' = RemoveAt(files, k)
    PROVE  /\ \A i, j \in DOMAIN files' : files'[i].url = files'[j].url /\ files'[i].url # Blank => i = j
           /\ \A i \in DOMAIN files' : files'[i].url \in {Blank, files'[i].image}
           /\ Shown' = Shown \ {files[k].url}
<1> DEFINE t == RemoveAt(files, k)
<1>1. files \in Seq([url : Images \cup {Blank}, image : Images])
  BY DEF TypeInv, PictureType
<1>2. /\ \A i \in DOMAIN t : \E j \in DOMAIN files \ {k} : t[i] = files[j]
      /\ \A j \in DOMAIN files \ {k} : \E i \in DOMAIN t : t[i] = files[j]
      /\ \A h, i \in DOMAIN t : h # i =>
            \E g, j \in DOMAIN files \ {k} : g # j /\ t[h] = files[g] /\ t[i] = files[j]
  BY <1>1, RemovedPlace
<1>3. files' = t
  OBVIOUS
<1> HIDE DEF t
<1>4. \A i, j \in DOMAIN t : t[i].url = t[j].url /\ t[i].url # Blank => i = j
  BY <1>2 DEF UrlsInv
<1>5. \A i \in DOMAIN t : t[i].url \in {Blank, t[i].image}
  BY <1>2 DEF UrlsInv
<1>6. {t[i].url : i \in DOMAIN t} = {files[j].url : j \in DOMAIN files \ {k}}
  BY <1>2
<1>7. files[k].url # Blank => \A j \in DOMAIN files \ {k} : files[j].url # files[k].url
  BY DEF UrlsInv
<1>8. {files[j].url : j \in DOMAIN files \ {k}} \ {Blank} = Shown \ {files[k].url}
  BY <1>7 DEF Shown
<1>9. Shown' = {t[i].url : i \in DOMAIN t} \ {Blank}
  BY <1>3 DEF Shown
<1>10. Shown' = Shown \ {files[k].url}
  BY <1>6, <1>8, <1>9
<1> QED BY <1>3, <1>4, <1>5, <1>10

LEMMA UrlsStep == ImagesInv /\ [FormNext]_formVars => UrlsInv'
<1> SUFFICES ASSUME ImagesInv, [FormNext]_formVars PROVE UrlsInv'
  OBVIOUS
<1> DEFINE F == [url : Images \cup {Blank}, image : Images]
<1>0. /\ TypeInv /\ UrlsInv /\ imageList \in Seq(Images) /\ files \in Seq(F)
      /\ DOMAIN imageList = 1 .. Len(imageList) /\ DOMAIN files = 1 .. Len(files)
      /\ Len(imageList) \in Nat /\ Len(files) \in Nat /\ Blank \notin Images
      /\ Range(imageList) \subseteq Images
  <2>1. imageList \in Seq(Images) /\ files \in Seq(F)
    BY DEF ImagesInv, TypeInv, PictureType
  <2>2. \A i \in 1 .. Len(imageList) : imageList[i] \in Images
    BY <2>1, ElementOfSeq
  <2> QED BY <2>1, <2>2, LenProperties, PropertyFormAssumption DEF ImagesInv, Range
<1>1. CASE UNCHANGED pictures
  BY <1>0, <1>1 DEF pictures, UrlsInv, Shown
<1>2. CASE imageList' = <<>> /\ files' = <<>> /\ uploads' = {} /\ uploaded' = {}
  BY <1>2 DEF UrlsInv, Shown, IsInjective, Range
<1>3. CASE Loaded
  <2> DEFINE r == rows[id]
             s == ImagesOf(r)
  <2>1. /\ imageList' = s /\ uploads' = {} /\ uploaded' = {} /\ IsRow(r) /\ IsInjective(r.images)
        /\ files' = [i \in DOMAIN s |-> [url |-> s[i], image |-> s[i]]]
    BY <1>0, <1>3 DEF Loaded, ImagesInv, TypeInv, TableType
  <2>2. s \in Seq(Images) /\ DOMAIN s = 1 .. Len(s) /\ \A i \in DOMAIN s : s[i] \in Images
    BY <2>1, ImagesOfType, LenProperties, ElementOfSeq
  <2>3. IsInjective(s)
    BY <2>1 DEF ImagesOf, IsInjective
  <2> HIDE DEF s, r
  <2>4. /\ DOMAIN files' = DOMAIN s
        /\ \A i \in DOMAIN s : files'[i].url = s[i] /\ files'[i].image = s[i]
    BY <2>1
  <2>5. Shown' = Range(s)
    BY <1>0, <2>2, <2>4 DEF Shown, Range
  <2> QED BY <2>1, <2>3, <2>4, <2>5 DEF UrlsInv, IsInjective
<1>4. ASSUME NEW u \in Images, ChooseFile(u) PROVE UrlsInv'
  <2> DEFINE new == [url |-> Blank, image |-> u]
  <2>1. /\ files' = Append(files, new) /\ uploads' = uploads \cup {u}
        /\ imageList' = imageList /\ uploaded' = uploaded
        /\ u \notin Range(imageList) /\ \A i \in DOMAIN files : files[i].image # u
    BY <1>4 DEF ChooseFile
  <2>2. new.url = Blank /\ new.image = u /\ new \in F
    OBVIOUS
  <2> HIDE DEF new, F
  <2>3. /\ DOMAIN files' = 1 .. Len(files) + 1 /\ files'[Len(files) + 1] = new
        /\ \A i \in DOMAIN files : files'[i] = files[i]
    BY <1>0, <2>1, <2>2
  <2>4. \A i \in DOMAIN files' : (i \in DOMAIN files /\ files'[i] = files[i]) \/ (files'[i] = new /\ i = Len(files) + 1)
    BY <1>0, <2>3
  <2>5. DOMAIN files \subseteq DOMAIN files'
    BY <1>0, <2>3
  <2>6. Shown' = Shown
    BY <2>2, <2>3, <2>4, <2>5 DEF Shown
  <2>7. u \notin Shown
    BY <1>0, <2>1 DEF UrlsInv, Shown
  <2>8. /\ \A i, j \in DOMAIN files' : files'[i].url = files'[j].url /\ files'[i].url # Blank => i = j
        /\ \A i \in DOMAIN files' : files'[i].url \in {Blank, files'[i].image}
    BY <1>0, <2>2, <2>4 DEF UrlsInv
  <2> QED BY <1>0, <2>1, <2>6, <2>7, <2>8 DEF UrlsInv
<1>5. ASSUME NEW u \in Images, UploadSuccess(u) PROVE UrlsInv'
  <2>1. /\ imageList' = Append(imageList, u) /\ uploads' = uploads \ {u} /\ uploaded' = uploaded \cup {u}
        /\ files' = files /\ u \in uploads
    BY <1>5 DEF UploadSuccess
  <2>2. /\ DOMAIN imageList' = 1 .. Len(imageList) + 1 /\ imageList'[Len(imageList) + 1] = u
        /\ \A i \in DOMAIN imageList : imageList'[i] = imageList[i]
    BY <1>0, <2>1
  <2>3. Range(imageList') = Range(imageList) \cup {u}
    <3>1. DOMAIN imageList' = DOMAIN imageList \cup {Len(imageList) + 1}
      BY <1>0, <2>2
    <3> QED BY <2>2, <3>1 DEF Range
  <2>4. u \notin Range(imageList) /\ u \notin Shown
    BY <1>0, <2>1 DEF UrlsInv
  <2>5. IsInjective(imageList')
    <3>1. \A i \in DOMAIN imageList : imageList[i] # u
      BY <2>4 DEF Range
    <3>2. \A i \in DOMAIN imageList' : i \in DOMAIN imageList \/ i = Len(imageList) + 1
      BY <1>0, <2>2
    <3> QED BY <1>0, <2>2, <3>1, <3>2 DEF UrlsInv, IsInjective
  <2>6. Shown' = Shown
    BY <2>1 DEF Shown
  <2> QED BY <1>0, <2>1, <2>3, <2>4, <2>5, <2>6 DEF UrlsInv
<1>6. ASSUME NEW u \in Images, UploadError(u) PROVE UrlsInv'
  <2>1. PICK k \in DOMAIN files : files[k].image = u /\ files' = RemoveAt(files, k)
    BY <1>6 DEF UploadError
  <2>2. uploads' = uploads \ {u} /\ imageList' = imageList /\ uploaded' = uploaded /\ u \in uploads
    BY <1>6 DEF UploadError
  <2>3. files[k].url = Blank
    BY <1>0, <2>1, <2>2 DEF UrlsInv, Shown
  <2>4. /\ \A i, j \in DOMAIN files' : files'[i].url = files'[j].url /\ files'[i].url # Blank => i = j
        /\ \A i \in DOMAIN files' : files'[i].url \in {Blank, files'[i].image}
        /\ Shown' = Shown \ {files[k].url}
    BY <1>0, <2>1, FileRemoved
  <2>5. Shown' = Shown
    BY <2>3, <2>4 DEF Shown
  <2> QED BY <1>0, <2>2, <2>4, <2>5 DEF UrlsInv
<1>7. ASSUME NEW k \in DOMAIN files, RemoveImage(k) PROVE UrlsInv'
  <2> DEFINE url == files[k].url
  <2>1. /\ files' = RemoveAt(files, k) /\ uploads' \subseteq uploads /\ uploaded' = uploaded
        /\ IF url \in Range(imageList) THEN imageList' = RemoveFirst(imageList, url)
                                       ELSE imageList' = imageList
    BY <1>7 DEF RemoveImage
  <2>2. /\ \A i, j \in DOMAIN files' : files'[i].url = files'[j].url /\ files'[i].url # Blank => i = j
        /\ \A i \in DOMAIN files' : files'[i].url \in {Blank, files'[i].image}
        /\ Shown' = Shown \ {url}
    BY <1>0, <2>1, FileRemoved
  <2>3. CASE url = Blank
    <3>1. url \notin Range(imageList) /\ Shown' = Shown
      BY <1>0, <2>2, <2>3 DEF Shown
    <3> QED BY <1>0, <2>1, <2>2, <3>1 DEF UrlsInv
  <2>4. CASE url # Blank
    <3>1. url \in Shown /\ url \in Range(imageList)
      BY <1>0, <2>4 DEF UrlsInv, Shown
    <3>2. PICK m \in DOMAIN imageList : imageList[m] = url /\ imageList' = RemoveAt(imageList, m)
      BY <1>0, <2>1, <3>1, RemovedFirst
    <3>3. /\ \A i \in DOMAIN imageList' : \E j \in DOMAIN imageList \ {m} : imageList'[i] = imageList[j]
          /\ \A j \in DOMAIN imageList \ {m} : \E i \in DOMAIN imageList' : imageList'[i] = imageList[j]
          /\ \A h, i \in DOMAIN imageList' : h # i =>
                \E g, j \in DOMAIN imageList \ {m} :
                   g # j /\ imageList'[h] = imageList[g] /\ imageList'[i] = imageList[j]
      <4> DEFINE s == imageList
                 t == RemoveAt(s, m)
      <4>1. s \in Seq(Images) /\ m \in DOMAIN s
        BY <1>0
      <4> HIDE DEF s
      <4>2. /\ \A i \in DOMAIN t : \E j \in DOMAIN s \ {m} : t[i] = s[j]
            /\ \A j \in DOMAIN s \ {m} : \E i \in DOMAIN t : t[i] = s[j]
            /\ \A h, i \in DOMAIN t : h # i =>
                  \E g, j \in DOMAIN s \ {m} : g # j /\ t[h] = s[g] /\ t[i] = s[j]
        BY <4>1, RemovedPlace
      <4>3. imageList' = t
        BY <3>2 DEF s
      <4> HIDE DEF t
      <4> QED BY <4>2, <4>3 DEF s
    <3>4. \A g, j \in DOMAIN imageList : imageList[g] = imageList[j] => g = j
      BY <1>0 DEF UrlsInv, IsInjective
    <3>5. Range(imageList') = Range(imageList) \ {url}
      <4>1. Range(imageList') = {imageList[j] : j \in DOMAIN imageList \ {m}}
        BY <3>3 DEF Range
      <4>2. {imageList[j] : j \in DOMAIN imageList \ {m}} = Range(imageList) \ {url}
        BY <3>2, <3>4 DEF Range
      <4> QED BY <4>1, <4>2
    <3>6. IsInjective(imageList')
      BY <3>3, <3>4 DEF IsInjective
    <3> HIDE DEF url
    <3> QED BY <1>0, <2>1, <2>2, <3>5, <3>6 DEF UrlsInv
  <2> QED BY <2>3, <2>4
<1> QED BY <1>1, <1>2, <1>3, <1>4, <1>5, <1>6, <1>7, PictureSteps

LEMMA LoadingSteps ==
    ASSUME [FormNext]_formVars, view' = "loading"
    PROVE  UNCHANGED <<view, uploads, uploaded>> \/ (uploads' = {} /\ uploaded' = {})
BY DEF FormNext, formVars, pictures, OpenNew, OpenEdit, Fresh, Loaded, LoadFails, Leave, Edit, TypeAmount,
       TypeDerived, ChooseFile, UploadSuccess, UploadError, RemoveImage, ToggleTab, DragTab, Submit,
       SubmitDone, SubmitLost, SubmitFails, Delete

\* What the steps do to the images and the cover.
LEMMA CoverSteps ==
    ASSUME [FormNext]_formVars
    PROVE  \/ imageList' = imageList /\ (form' = form \/ (\E f \in Edited, a \in Amounts : TypeAmount(f, a))
                                                   \/ (\E d \in Derived : TypeDerived(d)))
           \/ imageList' = <<>> /\ form' = BlankForm
           \/ Loaded
           \/ form' = [form EXCEPT !.cover = CoverOf(imageList')]
BY DEF FormNext, formVars, fields, pictures, OpenNew, OpenEdit, Fresh, LoadFails, Leave, TypeAmount, TypeDerived,
       ChooseFile, UploadSuccess, UploadError, RemoveImage, ToggleTab, DragTab, Submit, SubmitDone, SubmitLost,
       SubmitFails, Delete

LEMMA ImagesStep == ImagesInv /\ [FormNext]_formVars => ImagesInv'
<1> SUFFICES ASSUME ImagesInv, [FormNext]_formVars PROVE ImagesInv'
  OBVIOUS
<1>0. TypeInv /\ TypeInv' /\ form \in Fields
  BY TypeStep DEF ImagesInv, TypeInv
<1>1. imageList' = <<>> => form'.cover = NoImage
  <2>1. CASE imageList' = imageList /\ form'.cover = form.cover
    BY <2>1 DEF ImagesInv
  <2>2. CASE form' = BlankForm
    BY <2>2 DEF BlankForm
  <2>3. CASE Loaded
    BY <2>3 DEF Loaded, ImagesOf
  <2>4. CASE form' = [form EXCEPT !.cover = CoverOf(imageList')]
    BY <1>0, <2>4 DEF Fields, CoverOf
  <2>5. ASSUME NEW f \in Edited, NEW a \in Amounts, TypeAmount(f, a) PROVE form'.cover = form.cover
    BY <1>0, <2>5 DEF TypeAmount, Fields
  <2>6. ASSUME NEW d \in Derived, TypeDerived(d) PROVE form'.cover = form.cover
    BY <1>0, <2>6 DEF TypeDerived, Fields
  <2> QED BY <2>1, <2>2, <2>3, <2>4, <2>5, <2>6, CoverSteps
<1>2. \A s \in InFlight' : IsInjective(s.row.images)
  <2>1. IsInjective(ToSave.images)
    BY DEF ToSave, ImagesInv, UrlsInv
  <2> QED BY <2>1, IdAndSaveSteps DEF ImagesInv
<1>3. \A i \in DOMAIN rows' : IsInjective(rows'[i].images)
  BY RowSteps DEF ImagesInv
<1>4. view' = "loading" => uploads' = {} /\ uploaded' = {}
  BY LoadingSteps DEF ImagesInv
<1> QED BY <1>0, <1>1, <1>2, <1>3, <1>4, UrlsStep DEF ImagesInv

\* Visitors see the images of the form's list, led by its cover: of those that
\* were there when it was opened, the ones that are still shown, for any images
\* and uploads that end in any order or fail.
THEOREM SavedImagesAreSeen == FormSpec => []VisitorsSeeImages
<1>1. FormInit => ImagesInv
  <2> SUFFICES ASSUME FormInit PROVE ImagesInv
    OBVIOUS
  <2>1. \A i \in DOMAIN rows : IsInjective(rows[i].images)
    <3>1. rows = <<>> \/ \E r \in FirstRows : rows = <<r>>
      BY DEF FormInit
    <3>2. \A r \in FirstRows : IsInjective(r.images)
      BY PropertyFormAssumption
    <3> QED BY <3>1, <3>2
  <2>2. UrlsInv
    BY DEF FormInit, UrlsInv, Shown, IsInjective, Range
  <2> QED BY <2>1, <2>2, InitType DEF FormInit, ImagesInv, InFlight, BlankForm
<1>2. ImagesInv => VisitorsSeeImages
  <2> SUFFICES ASSUME ImagesInv PROVE VisitorsSeeImages
    OBVIOUS
  <2>1. /\ ToSave.images = imageList
        /\ ToSave.cover = IF imageList = <<>> THEN form.cover ELSE Head(imageList)
    BY DEF ToSave
  <2>2. MallDetail(ToSave).images = imageList /\ MallDetail(ToSave).cover = ToSave.cover
    BY <2>1 DEF MallDetail
  <2>3. AllImages(MallDetail(ToSave)) = imageList
    BY <2>1, <2>2 DEF AllImages, ImagesInv
  <2> QED BY <2>1, <2>3 DEF VisitorsSeeImages, CoverOf, ImagesInv, UrlsInv, Shown
<1> QED BY <1>1, <1>2, ImagesStep, PTL DEF FormSpec

\* A configuration without a visible tab is never kept, sent or stored.
SwitchedOn(r) == r.tabs = NoTabs \/ HasVisible(r.tabs)

TabsInv ==
    /\ TypeInv
    /\ HasVisible(moduleTabs)
    /\ \A s \in InFlight : SwitchedOn(s.row)
    /\ \A i \in DOMAIN rows : SwitchedOn(rows[i])

LEMMA TabsStep == TabsInv /\ [FormNext]_formVars => TabsInv'
<1> SUFFICES ASSUME TabsInv, [FormNext]_formVars PROVE TabsInv'
  OBVIOUS
<1>0. TypeInv /\ TypeInv' /\ moduleTabs \in Seq(Tab) /\ moduleTabs # <<>>
  BY TypeStep DEF TabsInv, TypeInv, TabsType
<1>1. HasVisible(moduleTabs')
  <2>1. CASE UNCHANGED tabs
    BY <2>1 DEF TabsInv, tabs
  <2>2. CASE moduleTabs' = DefaultTabs
    BY <2>2, DefaultTabsType
  <2>3. CASE Loaded
    <3>1. IsRow(rows[id]) /\ SwitchedOn(rows[id]) /\ moduleTabs' = TabsOf(rows[id])
      BY <1>0, <2>3 DEF Loaded, TabsInv, TypeInv, TableType
    <3> QED BY <3>1, TabsOfType DEF SwitchedOn
  <2>4. ASSUME NEW k \in DOMAIN moduleTabs, ToggleTab(k) PROVE HasVisible(moduleTabs')
    BY <1>0, <2>4, Toggled
  <2>5. ASSUME NEW j \in DOMAIN moduleTabs, NEW k \in DOMAIN moduleTabs, DragTab(j, k) PROVE HasVisible(moduleTabs')
    <3>1. /\ moduleTabs' \in Seq(Tab) /\ Len(moduleTabs') = Len(moduleTabs)
          /\ \A i \in 1 .. Len(moduleTabs) : moduleTabs'[i].visible = moduleTabs[i].visible
      BY <1>0, <2>5, Dragged
    <3>2. DOMAIN moduleTabs' = 1 .. Len(moduleTabs) /\ DOMAIN moduleTabs = 1 .. Len(moduleTabs)
      BY <1>0, <3>1, LenProperties
    <3> QED BY <3>1, <3>2 DEF TabsInv, HasVisible
  <2> QED BY <2>1, <2>2, <2>3, <2>4, <2>5, TabSteps
<1>2. \A s \in InFlight' : SwitchedOn(s.row)
  <2>1. SwitchedOn(ToSave)
    BY DEF ToSave, TabsInv, SwitchedOn
  <2> QED BY <2>1, IdAndSaveSteps DEF TabsInv
<1>3. \A i \in DOMAIN rows' : SwitchedOn(rows'[i])
  BY RowSteps DEF TabsInv
<1> QED BY <1>0, <1>1, <1>2, <1>3 DEF TabsInv

\* Of the visible tabs one comes before the others.
LEMMA FirstVisible ==
    ASSUME NEW ts \in Seq(Tab), NEW V \in SUBSET DOMAIN ts, V # {}
    PROVE  \E i \in V : \A j \in V : ~Before(ts, j, i)
<1>1. \A i \in V : i \in Nat /\ ts[i].order \in Nat
  <2>1. Len(ts) \in Nat /\ DOMAIN ts = 1 .. Len(ts) /\ \A i \in 1 .. Len(ts) : ts[i] \in Tab
    BY LenProperties, ElementOfSeq
  <2> QED BY <2>1 DEF Tab
<1> DEFINE O == {ts[i].order : i \in V}
<1>2. O \in SUBSET Nat /\ O # {}
  BY <1>1
<1>3. PICK o \in O : \A n \in O : o <= n
  <2> HIDE DEF O
  <2> QED BY <1>2, LeastNumber
<1> DEFINE W == {i \in V : ts[i].order = o}
<1>4. W \in SUBSET Nat /\ W # {}
  BY <1>1
<1>5. PICK i \in W : \A n \in W : i <= n
  <2> HIDE DEF W
  <2> QED BY <1>4, LeastNumber
<1>6. ASSUME NEW j \in V PROVE ~Before(ts, j, i)
  <2>1. i \in V /\ ts[i].order = o /\ o <= ts[j].order /\ (ts[j].order = o => i <= j)
    BY <1>3, <1>5
  <2>2. i \in Nat /\ j \in Nat /\ ts[i].order \in Nat /\ ts[j].order \in Nat
    BY <1>1, <2>1
  <2> QED BY <2>1, <2>2 DEF Before
<1> QED BY <1>5, <1>6

\* A page with a visible tab opens on one.
LEMMA OpensOnSection ==
    ASSUME NEW p, p.tabs \in Seq(Tab), HasVisible(p.tabs)
    PROVE  ActiveTab(p) \in Sections(p)
<1> DEFINE V == VisibleTabs(p)
<1>1. V \in SUBSET DOMAIN p.tabs /\ V # {}
  BY DEF VisibleTabs, HasVisible
<1>2. \E i \in V : \A j \in V : ~Before(p.tabs, j, i)
  <2> HIDE DEF V
  <2> QED BY <1>1, FirstVisible
<1>3. (CHOOSE i \in V : \A j \in V : ~Before(p.tabs, j, i)) \in V
  BY <1>2
<1> QED BY <1>1, <1>3 DEF ActiveTab, Sections

\* Whatever was switched, dragged, saved and loaded again, the page of a
\* property opens on a section that it shows.
THEOREM PagesOpenOnSection == FormSpec => []PageOpensOnSection
<1>1. FormInit => TabsInv
  <2> SUFFICES ASSUME FormInit PROVE TabsInv
    OBVIOUS
  <2>1. rows = <<>> \/ \E r \in FirstRows : rows = <<r>>
    BY DEF FormInit
  <2>2. \A r \in FirstRows : SwitchedOn(r)
    BY PropertyFormAssumption DEF SwitchedOn
  <2>3. \A i \in DOMAIN rows : SwitchedOn(rows[i])
    BY <2>1, <2>2
  <2> QED BY <2>3, InitType, DefaultTabsType DEF FormInit, InFlight, TabsInv
<1>2. TabsInv => PageOpensOnSection
  <2> SUFFICES ASSUME TabsInv, NEW i \in DOMAIN rows
               PROVE  ActiveTab(MallDetail(rows[i])) \in Sections(MallDetail(rows[i]))
    BY DEF PageOpensOnSection
  <2> DEFINE p == MallDetail(rows[i])
  <2>1. IsRow(rows[i]) /\ SwitchedOn(rows[i])
    BY DEF TabsInv, TypeInv, TableType
  <2>2. p.tabs = IF rows[i].tabs = NoTabs THEN DefaultTabs ELSE rows[i].tabs
    BY DEF MallDetail
  <2>3. p.tabs \in Seq(Tab) /\ HasVisible(p.tabs)
    BY <2>1, <2>2, DefaultTabsType DEF IsRow, SwitchedOn
  <2> HIDE DEF p
  <2>4. ActiveTab(p) \in Sections(p)
    BY <2>3, OpensOnSection
  <2> QED BY <2>4 DEF p
<1> QED BY <1>1, <1>2, TabsStep, PTL DEF FormSpec

=============================================================================
