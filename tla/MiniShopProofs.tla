--------------------------- MODULE MiniShopProofs ---------------------------
(***************************************************************************)
(* Proofs about MiniShop for any lines, codes, quotes and prices, and for  *)
(* any number of pieces, checkout pages and orders.                        *)
(***************************************************************************)
EXTENDS MiniShop, FiniteSetTheorems, TLAPS

\* What the checkout page shows and what is being submitted is the welfare
\* product, with a code the input accepted, or lines of a cart.
OneKind ==
    /\ checkout.isWelfare <=> checkout.items = WelfareItem
    /\ \A s \in subs : /\ s.isWelfare <=> s.items = WelfareItem
                       /\ s.isWelfare => s.invite \in Codes

ShopInv == TypeOK /\ PriceFollowsVerdict /\ OneKind /\ PostedIsOneKind

LEMMA Kinds == Empty \in Lines /\ WelfareItem \notin Lines
<1>1. Empty \in Lines
  BY MiniShopAssumption DEF Empty, Lines
<1>2. Lines \subseteq [Keys -> Nat]
  BY MiniShopAssumption DEF Lines
<1> QED BY <1>1, <1>2, MiniShopAssumption

\* A line of the cart gets another quantity.
LEMMA LineSet ==
    ASSUME NEW f \in Lines, NEW k \in Keys, NEW q \in 0 .. MaxQty
    PROVE  [f EXCEPT ![k] = q] \in Lines
BY DEF Lines

\* onShow leaves a page of one kind.
LEMMA ShownPage ==
    ASSUME NEW c \in CheckoutPage, NEW a \in BOOLEAN, NEW lines \in Lines, Shown(c, a, lines),
           details \subseteq BOOLEAN, c.isWelfare <=> c.items = WelfareItem
    PROVE  /\ checkout' \in CheckoutPage /\ details' \subseteq BOOLEAN
           /\ checkout'.isWelfare <=> checkout'.items = WelfareItem
<1>1. FromCart(c, lines, a) \in CheckoutPage
  BY DEF FromCart, CheckoutPage, Items, Typed
<1>2. ~FromCart(c, lines, a).isWelfare /\ FromCart(c, lines, a).items # WelfareItem
  BY Kinds DEF FromCart, CheckoutPage
<1> QED BY <1>1, <1>2 DEF Shown

\* A page that is opened first has its type and is of neither kind.
LEMMA NewPages ==
    /\ FreshPage \in WelfarePage
    /\ FreshPage.display = IF FreshPage.valid THEN FreshPage.price ELSE ProductPrice
    /\ NoCheckout \in CheckoutPage /\ ~NoCheckout.isWelfare /\ NoCheckout.items # WelfareItem
<1>1. FreshPage \in WelfarePage /\ FreshPage.display = ProductPrice /\ ~FreshPage.valid
  BY MiniShopAssumption DEF FreshPage, WelfarePage
<1>2. NoCheckout \in CheckoutPage /\ ~NoCheckout.isWelfare /\ NoCheckout.items # WelfareItem
  BY Kinds DEF NoCheckout, CheckoutPage, Items, Typed, Pages
<1> QED BY <1>1, <1>2

\* A checkout page opens without items, on the product page or the cart page.
LEMMA OpenPage ==
    ASSUME ShopInv, NEW query \in Typed, NEW price \in Nat, NEW lines \in Lines,
           Open(query, price, lines)
    PROVE  /\ checkout' \in CheckoutPage /\ details' \subseteq BOOLEAN
           /\ checkout'.isWelfare <=> checkout'.items = WelfareItem
           /\ page' \in Pages
<1> DEFINE from == IF page = "cart" THEN page ELSE "product"
           c == [NoCheckout EXCEPT !.n = checkout.n + 1, !.query = query, !.price = price,
                                   !.from = from]
<1>1. checkout.n \in Nat /\ address \in BOOLEAN /\ details \subseteq BOOLEAN
  BY DEF ShopInv, TypeOK, CheckoutPage
<1>2. c \in CheckoutPage
  <2>1. from \in Pages
    BY DEF Pages
  <2>2. checkout.n + 1 \in Nat
    BY <1>1
  <2> HIDE DEF from
  <2> QED BY <2>1, <2>2, NewPages DEF CheckoutPage
<1>3. ~c.isWelfare /\ c.items # WelfareItem
  BY NewPages DEF CheckoutPage
<1>4. Shown(c, address, lines) /\ page' = "checkout"
  BY DEF Open
<1> HIDE DEF c
<1> QED BY <1>1, <1>2, <1>3, <1>4, ShownPage DEF Pages

-----------------------------------------------------------------------------
(* The handlers keep the invariant, one lemma for each part of the system. *)

\* What the invariant says of the parts that most handlers leave alone.
LEMMA Unchanged ==
    ASSUME ShopInv
    PROVE  /\ UNCHANGED <<subs, posted>> =>
                 /\ subs' \subseteq Submission /\ posted' \subseteq PostedOrder /\ IsFiniteSet(posted')
                 /\ PostedIsOneKind'
                 /\ \A s \in subs' : /\ s.isWelfare <=> s.items = WelfareItem
                                     /\ s.isWelfare => s.invite \in Codes
           /\ UNCHANGED <<left, redirects>> => left' \subseteq Nat /\ redirects' \subseteq Nat
           /\ UNCHANGED <<welfare, quotes>> =>
                 welfare' \in WelfarePage /\ quotes' \subseteq Codes /\ PriceFollowsVerdict'
           /\ UNCHANGED checkout =>
                 checkout' \in CheckoutPage /\ (checkout'.isWelfare <=> checkout'.items = WelfareItem)
           /\ UNCHANGED details => details' \subseteq BOOLEAN
           /\ UNCHANGED <<cart, shown, address>> =>
                 cart' \in Lines /\ shown' \in Lines /\ address' \in BOOLEAN
BY DEF ShopInv, TypeOK, OneKind, PostedIsOneKind, PriceFollowsVerdict

\* The parts together are the invariant.
LEMMA Together ==
    ASSUME page' \in Pages,
           welfare' \in WelfarePage, quotes' \subseteq Codes, PriceFollowsVerdict',
           cart' \in Lines, shown' \in Lines, address' \in BOOLEAN,
           checkout' \in CheckoutPage, checkout'.isWelfare <=> checkout'.items = WelfareItem,
           details' \subseteq BOOLEAN,
           subs' \subseteq Submission, posted' \subseteq PostedOrder, IsFiniteSet(posted'),
           PostedIsOneKind',
           \A s \in subs' : /\ s.isWelfare <=> s.items = WelfareItem
                            /\ s.isWelfare => s.invite \in Codes,
           left' \subseteq Nat, redirects' \subseteq Nat
    PROVE  ShopInv'
BY DEF ShopInv, TypeOK, OneKind

LEMMA InitShop == Init => ShopInv
<1> SUFFICES ASSUME Init PROVE ShopInv
  OBVIOUS
<1>1. page \in Pages /\ quotes \subseteq Codes /\ details \subseteq BOOLEAN
  BY DEF Init, Pages
<1>2. welfare \in WelfarePage /\ PriceFollowsVerdict
  BY NewPages DEF Init, PriceFollowsVerdict
<1>3. checkout \in CheckoutPage /\ OneKind
  BY NewPages DEF Init, OneKind
<1>4. cart \in Lines /\ shown \in Lines /\ address \in BOOLEAN
  BY Kinds DEF Init
<1>5. /\ subs \subseteq Submission /\ posted \subseteq PostedOrder /\ IsFiniteSet(posted)
      /\ PostedIsOneKind /\ left \subseteq Nat /\ redirects \subseteq Nat
  BY FS_EmptySet DEF Init, PostedIsOneKind
<1> QED BY <1>1, <1>2, <1>3, <1>4, <1>5 DEF ShopInv, TypeOK

\* The page of the welfare product: the price follows the verdict.
LEMMA WelfareSteps ==
    ASSUME ShopInv,
           \/ \E c \in Codes \cup {Short} : Type(c)
           \/ CheckWelfareCode
           \/ \E c \in Codes, ok \in BOOLEAN : QuoteArrives(c, ok)
    PROVE  ShopInv'
<1>1. /\ welfare \in WelfarePage /\ quotes \subseteq Codes /\ page \in Pages
      /\ welfare.display = IF welfare.valid THEN welfare.price ELSE ProductPrice
  BY DEF ShopInv, TypeOK, PriceFollowsVerdict
<1>2. ASSUME NEW w \in WelfarePage
      PROVE  /\ Priced(w) \in WelfarePage
             /\ Priced(w).display = IF Priced(w).valid THEN Priced(w).price ELSE ProductPrice
  BY MiniShopAssumption DEF Priced, WelfarePage
<1>3. ASSUME NEW w \in WelfarePage, NEW checked \in BOOLEAN
      PROVE  /\ Reset(w, checked) \in WelfarePage
             /\ Reset(w, checked).display =
                   IF Reset(w, checked).valid THEN Reset(w, checked).price ELSE ProductPrice
  <2> DEFINE v == [w EXCEPT !.checked = checked, !.valid = FALSE, !.price = 0]
  <2>1. v \in WelfarePage
    BY DEF WelfarePage
  <2> HIDE DEF v
  <2>2. Reset(w, checked) = Priced(v)
    BY DEF Reset, v
  <2> QED BY <1>2, <2>1, <2>2
<1>4. UNCHANGED <<page, cart, shown, address, checkout, details, subs, left, posted, redirects>>
  BY DEF Type, CheckWelfareCode, QuoteArrives
<1> DEFINE Agrees == /\ welfare' \in WelfarePage /\ quotes' \subseteq Codes
                     /\ welfare'.display = IF welfare'.valid THEN welfare'.price ELSE ProductPrice
<1>5. Agrees
  <2>1. ASSUME NEW c \in Codes \cup {Short}, Type(c) PROVE Agrees
    <3>1. CASE c = Short
      <4>1. [welfare EXCEPT !.code = c, !.timer = None] \in WelfarePage
        BY <1>1, <3>1 DEF WelfarePage
      <4>2. /\ welfare' = Reset([welfare EXCEPT !.code = c, !.timer = None], FALSE)
            /\ quotes' = quotes
        BY <2>1, <3>1 DEF Type
      <4> QED BY <1>1, <1>3, <4>1, <4>2
    <3>2. CASE c # Short
      <4>1. welfare' = [[welfare EXCEPT !.code = c] EXCEPT !.timer = c] /\ quotes' = quotes
        BY <2>1, <3>2 DEF Type, Armed
      <4> QED BY <1>1, <3>2, <4>1 DEF WelfarePage
    <3> QED BY <3>1, <3>2
  <2>2. CASE CheckWelfareCode
    BY <1>1, <2>2 DEF CheckWelfareCode, WelfarePage
  <2>3. ASSUME NEW c \in Codes, NEW ok \in BOOLEAN, QuoteArrives(c, ok) PROVE Agrees
    <3>1. CASE ok
      <4> DEFINE w == [welfare EXCEPT !.checked = TRUE, !.valid = TRUE, !.price = Quote[c]]
      <4>1. Quote[c] \in Nat
        BY <2>3, <3>1, MiniShopAssumption DEF QuoteArrives
      <4>2. w \in WelfarePage
        BY <1>1, <4>1 DEF WelfarePage
      <4>3. welfare' = Priced(w) /\ quotes' \subseteq quotes
        BY <2>3, <3>1 DEF QuoteArrives
      <4> HIDE DEF w
      <4> QED BY <1>1, <1>2, <4>2, <4>3
    <3>2. CASE ~ok
      <4>1. welfare' = Reset(welfare, TRUE) /\ quotes' \subseteq quotes
        BY <2>3, <3>2 DEF QuoteArrives
      <4> QED BY <1>1, <1>3, <4>1
    <3> QED BY <3>1, <3>2
  <2> QED BY <2>1, <2>2, <2>3
<1>6. PriceFollowsVerdict'
  BY <1>5 DEF PriceFollowsVerdict
<1> QED BY <1>1, <1>4, <1>5, <1>6, Unchanged, Together

\* The ordinary product page and the cart page.
LEMMA CartSteps ==
    ASSUME ShopInv,
           \/ \E k \in Keys, q \in 1 .. MaxQty : AddToCart(k, q)
           \/ \E k \in Keys : RemoveLine(k) \/ \E q \in 0 .. MaxQty : StepQty(k, q)
           \/ \E p \in Pages : GoTo(p)
    PROVE  ShopInv'
<1>1. cart \in Lines /\ shown \in Lines /\ page \in Pages /\ address \in BOOLEAN
  BY DEF ShopInv, TypeOK
<1>2. ASSUME NEW k \in Keys, NEW q \in 1 .. MaxQty, AddToCart(k, q) PROVE ShopInv'
  <2>1. /\ cart' \in Lines
        /\ UNCHANGED <<welfare, quotes, details, subs, left, posted, redirects, page, shown, address, checkout>>
    BY <1>2 DEF AddToCart, Untouched
  <2> QED BY <1>1, <2>1, Unchanged, Together
<1>3. ASSUME NEW k \in Keys, RemoveLine(k) PROVE ShopInv'
  <2>1. [cart EXCEPT ![k] = 0] \in Lines
    BY <1>1, MiniShopAssumption, LineSet
  <2>2. /\ cart' \in Lines /\ shown' = cart'
        /\ UNCHANGED <<welfare, quotes, details, subs, left, posted, redirects, page, address, checkout>>
    BY <1>3, <2>1 DEF RemoveLine, Untouched
  <2> QED BY <1>1, <2>2, Unchanged, Together
<1>4. ASSUME NEW k \in Keys, NEW q \in 0 .. MaxQty, StepQty(k, q) PROVE ShopInv'
  <2>1. /\ cart' = (IF q = 0 THEN [cart EXCEPT ![k] = 0] ELSE Updated(k, q)) /\ shown' = cart'
        /\ UNCHANGED <<welfare, quotes, details, subs, left, posted, redirects, page, address, checkout>>
    BY <1>4 DEF StepQty, Untouched
  <2>2. [cart EXCEPT ![k] = 0] \in Lines /\ [cart EXCEPT ![k] = q] \in Lines
    <3>1. 0 \in 0 .. MaxQty
      BY MiniShopAssumption
    <3> QED BY <1>1, <3>1, LineSet
  <2>3. cart' \in Lines
    BY <1>1, <2>1, <2>2 DEF Updated
  <2> QED BY <1>1, <2>1, <2>3, Unchanged, Together
<1>5. ASSUME NEW p \in Pages, GoTo(p) PROVE ShopInv'
  <2>1. /\ page' \in Pages /\ welfare' = FreshPage /\ quotes' = {} /\ shown' \in Lines
        /\ UNCHANGED <<cart, address, checkout, details, subs, left, posted, redirects>>
    BY <1>1, <1>5, Kinds DEF GoTo
  <2>2. PriceFollowsVerdict' /\ welfare' \in WelfarePage /\ quotes' \subseteq Codes
    BY <2>1, NewPages DEF PriceFollowsVerdict
  <2>3. cart' \in Lines /\ address' \in BOOLEAN
    BY <1>1, <2>1
  <2> QED BY <2>1, <2>2, <2>3, Unchanged, Together
<1> QED BY <1>2, <1>3, <1>4, <1>5

\* Opening, showing and leaving the checkout page and the address page.
LEMMA CheckoutSteps ==
    ASSUME ShopInv,
           \/ BuyWelfare \/ GoCheckout \/ Back
           \/ \E k \in Keys, q \in 1 .. MaxQty : BuyNow(k, q)
           \/ \E a, ok \in BOOLEAN : DetailArrives(a, ok)
           \/ GoEditAddress \/ ClearAddress \/ \E save \in BOOLEAN : CloseAddress(save)
    PROVE  ShopInv'
<1>1. /\ cart \in Lines /\ shown \in Lines /\ page \in Pages /\ address \in BOOLEAN
      /\ welfare \in WelfarePage /\ checkout \in CheckoutPage /\ details \subseteq BOOLEAN
      /\ left \subseteq Nat /\ redirects \subseteq Nat
      /\ checkout.isWelfare <=> checkout.items = WelfareItem
  BY DEF ShopInv, TypeOK, OneKind
<1>2. /\ {None, Short} \subseteq Typed /\ Codes \subseteq Typed
      /\ Empty \in Lines /\ checkout.n \in Nat /\ checkout.from \in Pages /\ checkout.query \in Typed
      /\ welfare.code \in Typed /\ welfare.price \in Nat
  BY <1>1, Kinds DEF Typed, CheckoutPage, WelfarePage
<1>3. CASE BuyWelfare
  <2>1. /\ Open(welfare.code, welfare.price, cart) /\ welfare' = FreshPage /\ quotes' = {}
        /\ UNCHANGED <<cart, shown, address, subs, left, posted, redirects>>
    BY <1>3 DEF BuyWelfare
  <2>2. PriceFollowsVerdict' /\ welfare' \in WelfarePage /\ quotes' \subseteq Codes
    BY <2>1, NewPages DEF PriceFollowsVerdict
  <2>3. /\ checkout' \in CheckoutPage /\ details' \subseteq BOOLEAN /\ page' \in Pages
        /\ checkout'.isWelfare <=> checkout'.items = WelfareItem
    BY <1>1, <1>2, <2>1, OpenPage
  <2> QED BY <2>1, <2>2, <2>3, Unchanged, Together
<1>4. CASE GoCheckout
  <2>1. /\ Open(None, 0, cart) /\ shown' \in Lines /\ cart' = cart /\ address' = address
        /\ UNCHANGED <<welfare, quotes, subs, left, posted, redirects>>
    BY <1>2, <1>4 DEF GoCheckout
  <2>2. /\ checkout' \in CheckoutPage /\ details' \subseteq BOOLEAN /\ page' \in Pages
        /\ checkout'.isWelfare <=> checkout'.items = WelfareItem
    BY <1>1, <1>2, <2>1, OpenPage
  <2> QED BY <1>1, <2>1, <2>2, Unchanged, Together
<1>5. CASE Back
  <2>1. /\ page' = checkout.from /\ shown' \in Lines /\ details' = {} /\ left' \subseteq Nat
        /\ cart' = cart /\ address' = address
        /\ UNCHANGED <<welfare, quotes, checkout, subs, posted, redirects>>
    BY <1>1, <1>2, <1>5 DEF Back
  <2> QED BY <1>1, <1>2, <2>1, Unchanged, Together
<1>6. ASSUME NEW k \in Keys, NEW q \in 1 .. MaxQty, BuyNow(k, q) PROVE ShopInv'
  <2>1. /\ Added(k, q) \in Lines /\ cart' = Added(k, q) /\ Open(None, 0, Added(k, q))
        /\ shown' = shown /\ address' = address
        /\ UNCHANGED <<welfare, quotes, subs, left, posted, redirects>>
    BY <1>6 DEF BuyNow
  <2>2. /\ checkout' \in CheckoutPage /\ details' \subseteq BOOLEAN /\ page' \in Pages
        /\ checkout'.isWelfare <=> checkout'.items = WelfareItem
    BY <1>1, <1>2, <2>1, OpenPage
  <2> QED BY <1>1, <2>1, <2>2, Unchanged, Together
<1>7. ASSUME NEW a \in BOOLEAN, NEW ok \in BOOLEAN, DetailArrives(a, ok) PROVE ShopInv'
  <2>1. FromCart(checkout, cart, a) \in CheckoutPage /\ FromWelfare(checkout, a) \in CheckoutPage
    BY <1>1 DEF FromCart, FromWelfare, CheckoutPage, Items, Typed
  <2>2. /\ ~FromCart(checkout, cart, a).isWelfare /\ FromCart(checkout, cart, a).items # WelfareItem
        /\ FromWelfare(checkout, a).isWelfare /\ FromWelfare(checkout, a).items = WelfareItem
    BY <1>1, Kinds DEF FromCart, FromWelfare, CheckoutPage
  <2>3. /\ checkout' \in CheckoutPage /\ (checkout'.isWelfare <=> checkout'.items = WelfareItem)
        /\ details' \subseteq BOOLEAN
        /\ UNCHANGED <<page, welfare, quotes, cart, shown, address, subs, left, posted, redirects>>
    BY <1>1, <1>7, <2>1, <2>2 DEF DetailArrives
  <2> QED BY <1>1, <2>3, Unchanged, Together
<1>8. CASE GoEditAddress \/ ClearAddress
  <2>1. /\ page' \in Pages /\ address' \in BOOLEAN
        /\ UNCHANGED <<welfare, quotes, details, subs, left, posted, redirects, cart, shown, checkout>>
    BY <1>1, <1>8 DEF GoEditAddress, ClearAddress, Untouched, Pages
  <2> QED BY <1>1, <2>1, Unchanged, Together
<1>9. ASSUME NEW save \in BOOLEAN, CloseAddress(save) PROVE ShopInv'
  <2>1. /\ page' \in Pages /\ address' \in BOOLEAN /\ Shown(checkout, address', cart)
        /\ cart' = cart /\ shown' = shown
        /\ UNCHANGED <<welfare, quotes, subs, left, posted, redirects>>
    BY <1>1, <1>9 DEF CloseAddress, Pages
  <2>2. ASSUME NEW a \in BOOLEAN, Shown(checkout, a, cart)
        PROVE  /\ checkout' \in CheckoutPage /\ details' \subseteq BOOLEAN
               /\ checkout'.isWelfare <=> checkout'.items = WelfareItem
    BY <1>1, <2>2, ShownPage
  <2>3. /\ checkout' \in CheckoutPage /\ details' \subseteq BOOLEAN
        /\ checkout'.isWelfare <=> checkout'.items = WelfareItem
    BY <2>1, <2>2
  <2> QED BY <1>1, <2>1, <2>3, Unchanged, Together
<1> QED BY <1>3, <1>4, <1>5, <1>6, <1>7, <1>8, <1>9

\* submitOrder, from the button to the payment.
LEMMA SubmitSteps ==
    ASSUME ShopInv,
           \/ SubmitOrder \/ \E s \in subs : Continuation(s)
           \/ \E id \in redirects : Redirect(id)
    PROVE  ShopInv'
<1>1. /\ cart \in Lines /\ page \in Pages /\ checkout \in CheckoutPage /\ details \subseteq BOOLEAN
      /\ checkout.isWelfare <=> checkout.items = WelfareItem
      /\ subs \subseteq Submission /\ posted \subseteq PostedOrder /\ IsFiniteSet(posted)
      /\ left \subseteq Nat /\ redirects \subseteq Nat
      /\ \A s \in subs : /\ s.isWelfare <=> s.items = WelfareItem
                         /\ s.isWelfare => s.invite \in Codes
      /\ \A o \in posted : (o.items = WelfareItem) <=> (o.invite # None)
      /\ Empty \in Lines
  BY Kinds DEF ShopInv, TypeOK, OneKind, PostedIsOneKind
<1> DEFINE NoOther == UNCHANGED <<page, welfare, quotes, cart, shown, address, details, left>>
           SubsKept == \A s \in subs' : /\ s.isWelfare <=> s.items = WelfareItem
                                        /\ s.isWelfare => s.invite \in Codes
           OrdersKept == /\ posted' \subseteq PostedOrder /\ IsFiniteSet(posted')
                         /\ \A o \in posted' : (o.items = WelfareItem) <=> (o.invite # None)
           CheckoutKept == /\ checkout' \in CheckoutPage
                           /\ checkout'.isWelfare <=> checkout'.items = WelfareItem
<1>2. CASE SubmitOrder
  <2> DEFINE s0 == [n |-> checkout.n, items |-> checkout.items, isWelfare |-> checkout.isWelfare,
                    invite |-> checkout.invite, phase |-> "login", id |-> 0]
  <2>1. s0 \in Submission /\ (s0.isWelfare <=> s0.items = WelfareItem)
    BY <1>1 DEF CheckoutPage, Submission
  <2>2. s0.isWelfare => s0.invite \in Codes
    BY <1>2 DEF SubmitOrder, SixDigits
  <2>3. /\ subs' = subs \cup {s0} /\ NoOther /\ UNCHANGED <<posted, redirects>>
        /\ checkout' = [checkout EXCEPT !.submitting = TRUE]
    BY <1>2 DEF SubmitOrder
  <2> HIDE DEF s0
  <2>4. CheckoutKept
    BY <1>1, <2>3 DEF CheckoutPage
  <2>5. subs' \subseteq Submission /\ SubsKept
    BY <1>1, <2>1, <2>2, <2>3
  <2>6. OrdersKept /\ PostedIsOneKind'
    BY <1>1, <2>3 DEF PostedIsOneKind
  <2> QED BY <1>1, <2>3, <2>4, <2>5, <2>6, Unchanged, Together
<1>3. ASSUME NEW s \in subs, LoggedIn(s) \/ Created(s) \/ CreatedUnknown(s) \/ Fails(s) \/ Paid(s)
      PROVE  ShopInv'
  <2>1. s \in Submission /\ (s.isWelfare <=> s.items = WelfareItem) /\ (s.isWelfare => s.invite \in Codes)
    BY <1>1
  <2>2. Posted(s) \in PostedOrder /\ ((Posted(s).items = WelfareItem) <=> (Posted(s).invite # None))
    <3>1. Cardinality(posted) + 1 \in Nat
      BY <1>1, FS_CardinalityType
    <3>2. Payload(s).items = s.items /\ Payload(s).invite = IF s.isWelfare THEN s.invite ELSE None
      BY DEF Payload
    <3>3. None \in Typed /\ None \notin Codes
      BY MiniShopAssumption DEF Typed
    <3>4. Payload(s).items \in Items /\ Payload(s).invite \in Typed
      BY <2>1, <3>2, <3>3 DEF Submission
    <3>5. s.n \in Nat
      BY <2>1 DEF Submission
    <3>6. Posted(s) \in PostedOrder
      BY <3>1, <3>4, <3>5 DEF Posted, PostedOrder
    <3>7. Posted(s).items = s.items /\ Posted(s).invite = Payload(s).invite
      BY <3>2 DEF Posted
    <3> QED BY <2>1, <3>2, <3>3, <3>6, <3>7
  <2>3. ASSUME posted' = posted \cup {Posted(s)} PROVE OrdersKept
    <3>1. IsFiniteSet(posted')
      BY <1>1, <2>3, FS_AddElement
    <3> QED BY <1>1, <2>2, <2>3, <3>1
  <2>4. ASSUME posted' = {IF o.id = s.id THEN [o EXCEPT !.paid = TRUE] ELSE o : o \in posted}
        PROVE  OrdersKept
    <3>1. IsFiniteSet(posted')
      <4> DEFINE paid == [o \in posted |-> IF o.id = s.id THEN [o EXCEPT !.paid = TRUE] ELSE o]
      <4>1. posted' = {paid[o] : o \in posted}
        BY <2>4
      <4>2. paid \in [posted -> posted'] /\ \A p \in posted' : \E o \in posted : paid[o] = p
        BY <2>4, <4>1
      <4>3. paid \in Surjection(posted, posted')
        BY <4>2 DEF Surjection
      <4> QED BY <1>1, <4>3, FS_Surjection
    <3>2. \A o \in posted : /\ [o EXCEPT !.paid = TRUE] \in PostedOrder
                            /\ [o EXCEPT !.paid = TRUE].items = o.items
                            /\ [o EXCEPT !.paid = TRUE].invite = o.invite
      BY <1>1 DEF PostedOrder
    <3>3. ASSUME NEW p \in posted' PROVE p \in PostedOrder /\ ((p.items = WelfareItem) <=> (p.invite # None))
      <4>1. PICK o \in posted : p = IF o.id = s.id THEN [o EXCEPT !.paid = TRUE] ELSE o
        BY <2>4
      <4>2. o \in PostedOrder
        BY <1>1
      <4>3. p \in PostedOrder /\ p.items = o.items /\ p.invite = o.invite
        BY <3>2, <4>1, <4>2
      <4> QED BY <1>1, <4>3
    <3> QED BY <3>1, <3>3
  <2>5. OrdersKept
    <3>1. CASE LoggedIn(s) \/ Fails(s)
      BY <1>1, <3>1 DEF LoggedIn, Fails
    <3>2. CASE Created(s) \/ CreatedUnknown(s)
      BY <2>3, <3>2 DEF Created, CreatedUnknown
    <3>3. CASE Paid(s)
      BY <2>4, <3>3 DEF Paid
    <3> QED BY <1>3, <3>1, <3>2, <3>3
  <2>6. ASSUME NEW phase \in {"create", "pay"}, NEW id \in Nat, Advance(s, phase, id)
        PROVE  subs' \subseteq Submission /\ SubsKept
    <3>1. /\ [s EXCEPT !.phase = phase, !.id = id] \in Submission
          /\ [s EXCEPT !.phase = phase, !.id = id].items = s.items
          /\ [s EXCEPT !.phase = phase, !.id = id].isWelfare = s.isWelfare
          /\ [s EXCEPT !.phase = phase, !.id = id].invite = s.invite
      BY <2>1 DEF Submission
    <3> QED BY <1>1, <2>1, <2>6, <3>1 DEF Advance
  <2>7. subs' \subseteq Submission /\ SubsKept
    <3>1. CASE LoggedIn(s)
      BY <2>6, <3>1 DEF LoggedIn
    <3>2. CASE Created(s)
      <4>1. Posted(s).id \in Nat
        BY <2>2 DEF PostedOrder
      <4> QED BY <2>6, <3>2, <4>1 DEF Created
    <3>3. CASE CreatedUnknown(s) \/ Fails(s) \/ Paid(s)
      BY <1>1, <3>3 DEF CreatedUnknown, Fails, Paid
    <3> QED BY <1>3, <3>1, <3>2, <3>3
  <2>8. CheckoutKept
    <3>1. checkout' = checkout \/ checkout' = [checkout EXCEPT !.submitting = FALSE]
      BY <1>3 DEF LoggedIn, Created, CreatedUnknown, Fails, Paid, Ended
    <3> QED BY <1>1, <3>1 DEF CheckoutPage
  <2>9. /\ cart' \in Lines /\ redirects' \subseteq Nat
        /\ UNCHANGED <<page, welfare, quotes, shown, address, details, left>>
    <3>1. s.id \in Nat
      BY <2>1 DEF Submission
    <3> QED
      BY <1>1, <1>3, <3>1
      DEF LoggedIn, Created, CreatedUnknown, Fails, Paid, AfterPayment, Quiet
  <2>10. shown' \in Lines /\ address' \in BOOLEAN /\ left' \subseteq Nat
    BY <2>9 DEF ShopInv, TypeOK
  <2>11. PostedIsOneKind'
    BY <2>5 DEF PostedIsOneKind
  <2> HIDE DEF SubsKept, OrdersKept, CheckoutKept
  <2> QED BY <1>1, <2>5, <2>7, <2>8, <2>9, <2>10, <2>11, Unchanged, Together
             DEF SubsKept, OrdersKept, CheckoutKept
<1>4. ASSUME NEW id \in redirects, Redirect(id) PROVE ShopInv'
  <2>1. checkout.n \in Nat
    BY <1>1 DEF CheckoutPage
  <2>2. /\ page' \in Pages /\ details' = {} /\ shown' \in Lines /\ left' \subseteq Nat
        /\ redirects' \subseteq Nat
        /\ UNCHANGED <<welfare, quotes, cart, address, checkout, subs, posted>>
    BY <1>1, <1>4, <2>1 DEF Redirect, Pages
  <2>3. cart' \in Lines /\ address' \in BOOLEAN
    BY <2>2 DEF ShopInv, TypeOK
  <2> QED BY <2>2, <2>3, Unchanged, Together
<1> QED BY <1>2, <1>3, <1>4 DEF Continuation

LEMMA NextShop == ShopInv /\ [Next]_vars => ShopInv'
<1> SUFFICES ASSUME ShopInv, [Next]_vars PROVE ShopInv'
  OBVIOUS
<1>1. CASE UNCHANGED vars
  BY <1>1 DEF vars, ShopInv, TypeOK, PriceFollowsVerdict, OneKind, PostedIsOneKind
<1>2. ASSUME Next PROVE ShopInv'
  <2>1. CASE Customer
    BY <2>1, WelfareSteps, CartSteps, CheckoutSteps, SubmitSteps DEF Customer
  <2> QED BY <1>2, <2>1, WelfareSteps, CheckoutSteps, SubmitSteps DEF Next
<1> QED BY <1>1, <1>2

THEOREM ShopInvariant == Spec => []ShopInv
<1> QED BY InitShop, NextShop, PTL DEF Spec

\* The pages, the cart in storage, what is sent and the orders keep their types.
THEOREM ShopTypeCorrect == Spec => []TypeOK
<1>1. ShopInv => TypeOK
  BY DEF ShopInv
<1> QED BY <1>1, ShopInvariant, PTL

\* The price of the welfare product is the quoted one exactly while the page
\* says the code is valid (onWelfareCodeInput, checkWelfareCode).
THEOREM PricesFollow == Spec => []PriceFollowsVerdict
<1>1. ShopInv => PriceFollowsVerdict
  BY DEF ShopInv
<1> QED BY <1>1, ShopInvariant, PTL

\* An order that the checkout page sends is the welfare product with a complete
\* code or lines of a cart without one, whatever the server makes of it
\* (loadData, submitOrder).
THEOREM OrdersAreOneKind == Spec => []PostedIsOneKind
<1>1. ShopInv => PostedIsOneKind
  BY DEF ShopInv
<1> QED BY <1>1, ShopInvariant, PTL

\* A server that answers order_no, as routes/api_v1/orders.ts does, is never
\* paid: submitOrder throws before it asks for the payment.
THEOREM WithoutOrderNoUnpaid ==
    ASSUME ~AnswersOrderNo
    PROVE  Spec => [](\A o \in posted : ~o.paid)
<1> DEFINE NoPayment == (\A s \in subs : s.phase \in {"login", "create"}) /\ (\A o \in posted : ~o.paid)
<1>1. Init => NoPayment
  BY DEF Init
<1>2. ShopInv /\ NoPayment /\ [Next]_vars => NoPayment'
  <2> SUFFICES ASSUME ShopInv, NoPayment, [Next]_vars PROVE NoPayment'
    OBVIOUS
  <2>1. CASE UNCHANGED <<subs, posted>>
    BY <2>1
  <2>2. CASE SubmitOrder
    BY <2>2 DEF SubmitOrder
  <2>3. ASSUME NEW s \in subs, Continuation(s) PROVE NoPayment'
    <3>1. CASE LoggedIn(s)
      <4>1. [s EXCEPT !.phase = "create", !.id = 0].phase = "create"
        BY <2>3 DEF ShopInv, TypeOK, Submission
      <4> QED BY <3>1, <4>1 DEF LoggedIn, Advance
    <3>2. CASE CreatedUnknown(s) \/ Fails(s)
      <4>1. Posted(s).paid = FALSE
        BY DEF Posted
      <4>2. posted' = posted \/ posted' = posted \cup {Posted(s)}
        BY <3>2 DEF CreatedUnknown, Fails
      <4> QED BY <3>2, <4>1, <4>2 DEF CreatedUnknown, Fails
    <3> QED BY <2>3, <3>1, <3>2 DEF Continuation, Created, Paid
  <2>4. UNCHANGED <<subs, posted>> \/ SubmitOrder \/ \E s \in subs : Continuation(s)
    BY DEF Next, vars, Customer, Type, AddToCart, BuyNow, RemoveLine, StepQty, BuyWelfare, GoCheckout, Back, GoTo,
           GoEditAddress, ClearAddress, CloseAddress, CheckWelfareCode, QuoteArrives, DetailArrives, Redirect, Untouched
  <2> QED BY <2>1, <2>2, <2>3, <2>4
<1>3. NoPayment => \A o \in posted : ~o.paid
  OBVIOUS
<1> QED BY <1>1, <1>2, <1>3, ShopInvariant, PTL DEF Spec

\* Lines come back into the cart only from the page of their product
\* (updateQty of the cart page after a payment).
THEOREM NothingRevives == Spec => NoRevival
<1>1. ASSUME ShopInv, [Next]_vars, NEW k \in Keys, cart[k] = 0, cart'[k] # 0
      PROVE  page = "product"
  <2>1. cart \in [Keys -> 0 .. MaxQty]
    BY <1>1 DEF ShopInv, TypeOK, Lines
  <2>2. ASSUME NEW j \in Keys, RemoveLine(j) \/ \E q \in 0 .. MaxQty : StepQty(j, q) PROVE FALSE
    <3>1. PICK q \in 0 .. MaxQty : cart' \in {cart, [cart EXCEPT ![j] = 0], Updated(j, q)}
      BY <2>2, MiniShopAssumption DEF RemoveLine, StepQty
    <3>2. cart[j] = 0 => Updated(j, q) = cart
      BY DEF Updated
    <3>3. cart[j] # 0 => j # k
      BY <1>1
    <3>4. Updated(j, q)[k] = 0 /\ [cart EXCEPT ![j] = 0][k] = 0
      BY <1>1, <2>1, <3>2, <3>3 DEF Updated
    <3> QED BY <1>1, <3>1, <3>4
  <2>3. ASSUME NEW s \in subs, Continuation(s) PROVE FALSE
    <3>1. cart' = cart \/ cart' = Empty
      BY <2>3 DEF Continuation, LoggedIn, Created, CreatedUnknown, Fails, Paid, AfterPayment
    <3> QED BY <1>1, <3>1 DEF Empty
  <2>4. cart' # cart
    BY <1>1
  <2>5. ASSUME Customer PROVE page = "product"
    <3>1. ASSUME NEW j \in Keys, NEW q \in 1 .. MaxQty, AddToCart(j, q) \/ BuyNow(j, q)
          PROVE  page = "product"
      BY <3>1 DEF AddToCart, BuyNow
    <3> QED
      BY <2>2, <2>4, <2>5, <3>1
      DEF Customer, Type, BuyWelfare, GoCheckout, Back, GoTo, GoEditAddress, ClearAddress,
          CloseAddress, SubmitOrder
  <2> QED
    BY <1>1, <2>3, <2>4, <2>5 DEF Next, CheckWelfareCode, QuoteArrives, DetailArrives, Redirect, vars
<1>2. ShopInv /\ [Next]_vars =>
         [\A k \in Keys : cart[k] = 0 /\ cart'[k] # 0 => page = "product"]_vars
  BY <1>1
<1> QED BY <1>2, ShopInvariant, PTL DEF Spec, NoRevival
-----------------------------------------------------------------------------
(* What a payment takes out of the cart.                                   *)

Front == {"checkout", "address"}

\* A checkout page has one submission at a time, and none from before it opened.
OneAtATime ==
    /\ \A s \in subs : s.n <= checkout.n
    /\ \A s, t \in subs : s.n = t.n => s = t
    /\ page \in Front /\ ~checkout.submitting => \A s \in subs : s.n # checkout.n

\* While the checkout page is open the cart stays as it was loaded, or a
\* payment has emptied it.
CartIsOrdered ==
    /\ page \in Front => checkout.isWelfare \/ checkout.items \in {Empty, cart} \/ cart = Empty
    /\ \A s \in subs : s.isWelfare \/ s.n \in left
                       \/ (page \in Front /\ s.n = checkout.n /\ (cart = Empty \/ s.items = cart))

\* Orders are numbered, and a payment is for the order of its submission.
Numbered ==
    /\ \A o \in posted : o.id \in 1 .. Cardinality(posted)
    /\ \A o, p \in posted : o.id = p.id => o = p
    /\ \A s \in subs : s.phase = "pay" => \E o \in posted : o.id = s.id /\ o.n = s.n /\ o.items = s.items

PayInv == OneAtATime /\ CartIsOrdered /\ Numbered

Serving == UNCHANGED <<subs, posted>>

\* The checkout page is in front, or is not, as before.
SamePage ==
    /\ Serving /\ left' = left /\ (page' \in Front <=> page \in Front)
    /\ checkout'.n = checkout.n /\ checkout'.submitting = checkout.submitting
    /\ page \in Front => /\ cart' = cart
                         /\ \/ checkout'.items = checkout.items /\ checkout'.isWelfare = checkout.isWelfare
                            \/ checkout'.isWelfare \/ checkout'.items = cart

\* A checkout page opens.
NewPage ==
    /\ Serving /\ left' = left /\ page \notin Front /\ page' \in Front
    /\ checkout'.n = checkout.n + 1 /\ ~checkout'.submitting /\ checkout'.items \in {Empty, cart'}

\* The customer leaves it, or an order page replaces it.
LeftPage ==
    /\ Serving /\ page \in Front /\ cart' = cart /\ checkout' = checkout
    /\ left' = IF checkout.submitting THEN left \cup {checkout.n} ELSE left

LEMMA OpenIsNewPage ==
    ASSUME ShopInv, NEW query \in Typed, NEW price \in Nat, NEW lines \in Lines, Open(query, price, lines), lines = cart',
           Serving, left' = left, page \notin Front
    PROVE  NewPage
<1> DEFINE from == IF page = "cart" THEN page ELSE "product"
           c == [NoCheckout EXCEPT !.n = checkout.n + 1, !.query = query, !.price = price, !.from = from]
<1>1. checkout.n \in Nat
  BY DEF ShopInv, TypeOK, CheckoutPage
<1>2. c.n = checkout.n + 1 /\ c.submitting = FALSE /\ c.items = Empty
  BY DEF NoCheckout
<1>3. c \in CheckoutPage
  <2>1. from \in Pages
    BY DEF Pages
  <2>2. checkout.n + 1 \in Nat
    BY <1>1
  <2> HIDE DEF from
  <2> QED BY <2>1, <2>2, NewPages DEF CheckoutPage
<1>4. page' = "checkout" /\ Shown(c, address, lines)
  BY DEF Open
<1> HIDE DEF c
<1>5. checkout' = c \/ checkout' = FromCart(c, lines, address)
  BY <1>4 DEF Shown
<1>6. /\ FromCart(c, lines, address).n = c.n /\ FromCart(c, lines, address).submitting = c.submitting
      /\ FromCart(c, lines, address).items = lines
  BY <1>3 DEF FromCart, CheckoutPage
<1> QED BY <1>2, <1>4, <1>5, <1>6 DEF NewPage, Front

LEMMA PagesOfSteps ==
    ASSUME ShopInv, [Next]_vars
    PROVE  SamePage \/ NewPage \/ LeftPage \/ SubmitOrder \/ \E s \in subs : Continuation(s)
<1>0. /\ page \in Pages /\ checkout \in CheckoutPage /\ cart \in Lines /\ welfare \in WelfarePage
      /\ {None, Short} \subseteq Typed /\ Codes \subseteq Typed
  BY DEF ShopInv, TypeOK, Typed
<1>1. UNCHANGED <<page, checkout, cart, left, subs, posted>> => SamePage
  BY DEF SamePage, Serving
<1>2. ASSUME page \notin Front, page' \notin Front, UNCHANGED <<checkout, left, subs, posted>> PROVE SamePage
  BY <1>2 DEF SamePage, Serving
<1>3. ASSUME NEW k \in Keys, NEW q \in 1 .. MaxQty, AddToCart(k, q) PROVE SamePage
  BY <1>2, <1>3 DEF AddToCart, Untouched, Front
<1>4. ASSUME NEW k \in Keys, RemoveLine(k) \/ \E q \in 0 .. MaxQty : StepQty(k, q) PROVE SamePage
  BY <1>2, <1>4 DEF RemoveLine, StepQty, Untouched, Front
<1>5. ASSUME NEW k \in Keys, NEW q \in 1 .. MaxQty, BuyNow(k, q) PROVE NewPage
  <2>1. /\ Open(None, 0, Added(k, q)) /\ Added(k, q) \in Lines /\ Added(k, q) = cart' /\ Serving /\ left' = left
        /\ page \notin Front
    BY <1>5 DEF BuyNow, Serving, Front
  <2>2. None \in Typed /\ 0 \in Nat
    BY <1>0
  <2> QED BY <2>1, <2>2, OpenIsNewPage
<1>6. CASE BuyWelfare
  <2>1. /\ Open(welfare.code, welfare.price, cart) /\ cart = cart' /\ Serving /\ left' = left /\ page \notin Front
    BY <1>6 DEF BuyWelfare, Serving, Front
  <2>2. welfare.code \in Typed /\ welfare.price \in Nat
    BY <1>0 DEF WelfarePage
  <2> QED BY <1>0, <2>1, <2>2, OpenIsNewPage
<1>7. CASE GoCheckout
  <2>1. Open(None, 0, cart) /\ cart = cart' /\ Serving /\ left' = left /\ page \notin Front
    BY <1>7 DEF GoCheckout, Serving, Front
  <2>2. None \in Typed /\ 0 \in Nat
    BY <1>0
  <2> QED BY <1>0, <2>1, <2>2, OpenIsNewPage
<1>8. CASE Back
  BY <1>8 DEF Back, LeftPage, Serving, Front
<1>9. ASSUME NEW p \in Pages, GoTo(p) PROVE SamePage
  BY <1>2, <1>9 DEF GoTo, Front
<1>10. GoEditAddress => SamePage
  BY DEF GoEditAddress, Untouched, SamePage, Serving, Front
<1>11. ASSUME NEW save \in BOOLEAN, CloseAddress(save) PROVE SamePage
  <2>1. page = "address" /\ page' = "checkout" /\ Serving /\ left' = left /\ cart' = cart /\ Shown(checkout, address', cart)
    BY <1>11 DEF CloseAddress, Serving
  <2>2. checkout' = checkout \/ checkout' = FromCart(checkout, cart, address')
    BY <2>1 DEF Shown
  <2>3. /\ FromCart(checkout, cart, address').n = checkout.n
        /\ FromCart(checkout, cart, address').submitting = checkout.submitting
        /\ FromCart(checkout, cart, address').items = cart
    BY <1>0 DEF FromCart, CheckoutPage
  <2> QED BY <2>1, <2>2, <2>3 DEF SamePage, Front
<1>12. ASSUME NEW a \in BOOLEAN, NEW ok \in BOOLEAN, DetailArrives(a, ok) PROVE SamePage
  <2>1. /\ FromCart(checkout, cart, a).n = checkout.n /\ FromCart(checkout, cart, a).items = cart
        /\ FromCart(checkout, cart, a).submitting = checkout.submitting
        /\ FromWelfare(checkout, a).n = checkout.n /\ FromWelfare(checkout, a).isWelfare
        /\ FromWelfare(checkout, a).submitting = checkout.submitting
    BY <1>0 DEF FromCart, FromWelfare, CheckoutPage
  <2> QED BY <1>12, <2>1 DEF DetailArrives, SamePage, Serving
<1>13. ASSUME NEW id \in redirects, Redirect(id) PROVE SamePage \/ LeftPage
  BY <1>2, <1>13 DEF Redirect, LeftPage, Serving, Front
<1>14. CASE Customer
  <2>1. Type(Short) \/ (\E c \in Codes : Type(c)) \/ ClearAddress => SamePage
    BY <1>1 DEF Type, ClearAddress, Untouched
  <2> QED BY <1>3, <1>4, <1>5, <1>6, <1>7, <1>8, <1>9, <1>10, <1>11, <1>14, <2>1 DEF Customer
<1>15. CheckWelfareCode \/ (\E c \in Codes, ok \in BOOLEAN : QuoteArrives(c, ok)) \/ UNCHANGED vars => SamePage
  BY <1>1 DEF CheckWelfareCode, QuoteArrives, vars
<1> QED BY <1>12, <1>13, <1>14, <1>15 DEF Next

LEMMA InitPay == Init => PayInv
<1> SUFFICES ASSUME Init PROVE PayInv
  OBVIOUS
<1>1. subs = {} /\ posted = {} /\ page \notin Front
  BY DEF Init, Front
<1> QED BY <1>1 DEF PayInv, OneAtATime, CartIsOrdered, Numbered

\* The customer and the pages: no submission advances.
LEMMA PagesKeepPay ==
    ASSUME ShopInv, PayInv, SamePage \/ NewPage \/ LeftPage
    PROVE  PayInv'
<1>1. checkout.n \in Nat /\ \A s \in subs : s.n \in Nat
  BY DEF ShopInv, TypeOK, CheckoutPage, Submission
<1>2. subs' = subs /\ posted' = posted
  BY DEF SamePage, NewPage, LeftPage, Serving
<1>3. Numbered'
  BY <1>2 DEF PayInv, Numbered
<1>4. CASE SamePage
  <2>1. OneAtATime'
    BY <1>2, <1>4 DEF PayInv, OneAtATime, SamePage
  <2>2. CartIsOrdered'
    BY <1>2, <1>4 DEF PayInv, CartIsOrdered, SamePage
  <2> QED BY <1>3, <2>1, <2>2 DEF PayInv
<1>5. CASE NewPage
  <2>1. OneAtATime'
    BY <1>1, <1>2, <1>5 DEF PayInv, OneAtATime, NewPage
  <2>2. CartIsOrdered'
    BY <1>2, <1>5 DEF PayInv, CartIsOrdered, NewPage
  <2> QED BY <1>3, <2>1, <2>2 DEF PayInv
<1>6. CASE LeftPage
  <2>1. OneAtATime'
    BY <1>2, <1>6 DEF PayInv, OneAtATime, LeftPage
  <2>2. CartIsOrdered'
    BY <1>2, <1>6 DEF PayInv, OneAtATime, CartIsOrdered, LeftPage
  <2> QED BY <1>3, <2>1, <2>2 DEF PayInv
<1> QED BY <1>4, <1>5, <1>6

LEMMA SubmitKeepsPay ==
    ASSUME ShopInv, PayInv, SubmitOrder
    PROVE  PayInv'
<1> DEFINE s0 == [n |-> checkout.n, items |-> checkout.items, isWelfare |-> checkout.isWelfare,
                  invite |-> checkout.invite, phase |-> "login", id |-> 0]
<1>1. checkout \in CheckoutPage /\ checkout.n \in Nat
  BY DEF ShopInv, TypeOK, CheckoutPage
<1>2. /\ page = "checkout" /\ ~checkout.submitting /\ checkout.items # Empty
      /\ subs' = subs \cup {s0} /\ checkout' = [checkout EXCEPT !.submitting = TRUE]
      /\ UNCHANGED <<page, cart, left, posted>>
  BY DEF SubmitOrder, MaySubmit
<1>3. /\ checkout'.n = checkout.n /\ checkout'.submitting /\ checkout'.items = checkout.items
      /\ checkout'.isWelfare = checkout.isWelfare
  BY <1>1, <1>2 DEF CheckoutPage
<1>4. s0.n = checkout.n /\ s0.items = checkout.items /\ s0.isWelfare = checkout.isWelfare /\ s0.phase = "login"
  OBVIOUS
<1> HIDE DEF s0
<1>5. OneAtATime'
  BY <1>1, <1>2, <1>3, <1>4 DEF PayInv, OneAtATime, Front
<1>6. CartIsOrdered'
  BY <1>2, <1>3, <1>4 DEF PayInv, CartIsOrdered, Front
<1>7. Numbered'
  BY <1>2, <1>4 DEF PayInv, Numbered
<1> QED BY <1>5, <1>6, <1>7 DEF PayInv

\* The server counts on: a new order has a number of its own.
LEMMA OrderIsNew ==
    ASSUME ShopInv, PayInv, NEW s \in subs, posted' = posted \cup {Posted(s)}
    PROVE  /\ Posted(s).id = Cardinality(posted) + 1 /\ Posted(s).n = s.n
           /\ Posted(s).items = s.items /\ ~Posted(s).paid
           /\ \A o \in posted : o.id # Posted(s).id
           /\ Cardinality(posted) \in Nat /\ Cardinality(posted') = Cardinality(posted) + 1
<1>1. /\ Posted(s).id = Cardinality(posted) + 1 /\ Posted(s).n = s.n
      /\ Posted(s).items = s.items /\ ~Posted(s).paid
  BY DEF Posted, Payload
<1>2. IsFiniteSet(posted) /\ Cardinality(posted) \in Nat
  BY FS_CardinalityType DEF ShopInv, TypeOK
<1>3. \A o \in posted : o.id # Posted(s).id
  BY <1>1, <1>2 DEF PayInv, Numbered
<1>4. Posted(s) \notin posted
  BY <1>3
<1> HIDE DEF Posted
<1> QED BY <1>1, <1>2, <1>3, <1>4, FS_AddElement

\* A payment changes one order into a paid one.
PaidOrder(s, o) == IF o.id = s.id THEN [o EXCEPT !.paid = TRUE] ELSE o

LEMMA OrderIsPaid ==
    ASSUME ShopInv, PayInv, NEW s \in subs, posted' = {PaidOrder(s, o) : o \in posted}
    PROVE  /\ \A o \in posted : /\ PaidOrder(s, o) \in posted' /\ PaidOrder(s, o).id = o.id
                                /\ PaidOrder(s, o).n = o.n /\ PaidOrder(s, o).items = o.items
           /\ Cardinality(posted') = Cardinality(posted)
<1>1. posted \subseteq PostedOrder /\ IsFiniteSet(posted)
  BY DEF ShopInv, TypeOK
<1>2. \A o \in posted : /\ PaidOrder(s, o) \in posted' /\ PaidOrder(s, o).id = o.id
                        /\ PaidOrder(s, o).n = o.n /\ PaidOrder(s, o).items = o.items
  BY <1>1 DEF PaidOrder, PostedOrder
<1> DEFINE f == [o \in posted |-> PaidOrder(s, o)]
<1>3. f \in [posted -> posted'] /\ \A o \in posted : f[o] = PaidOrder(s, o)
  BY <1>2
<1> HIDE DEF f
<1>4. ASSUME NEW o \in posted, NEW p \in posted, f[o] = f[p] PROVE o = p
  <2>1. PaidOrder(s, o) = PaidOrder(s, p)
    BY <1>3, <1>4
  <2>2. PaidOrder(s, o).id = o.id /\ PaidOrder(s, p).id = p.id
    BY <1>2
  <2>3. o.id = p.id
    BY <2>1, <2>2
  <2> QED BY <2>3 DEF PayInv, Numbered
<1>5. \A p \in posted' : \E o \in posted : f[o] = p
  BY <1>3
<1>6. f \in Bijection(posted, posted')
  BY <1>3, <1>4, <1>5 DEF Bijection, Injection, Surjection, IsInjective
<1>7. ExistsBijection(posted, posted')
  BY <1>6 DEF ExistsBijection
<1> QED BY <1>1, <1>2, <1>7, FS_Bijection

\* The submission that advances: the orders stay numbered.
LEMMA StepKeepsNumbers ==
    ASSUME ShopInv, PayInv, NEW s \in subs, Continuation(s)
    PROVE  Numbered'
<1>1. /\ subs \subseteq Submission /\ Numbered /\ s \in Submission
  BY DEF ShopInv, TypeOK, PayInv
<1>2. ASSUME NEW phase, NEW id, Advance(s, phase, id)
      PROVE  \A t \in subs' : t \in subs \/ (t.phase = phase /\ t.id = id /\ t.n = s.n /\ t.items = s.items)
  BY <1>1, <1>2 DEF Advance, Submission
<1>3. CASE LoggedIn(s)
  <2>1. posted' = posted /\ \A t \in subs' : t \in subs \/ t.phase = "create"
    BY <1>2, <1>3 DEF LoggedIn
  <2> QED BY <1>1, <2>1 DEF Numbered
<1>4. CASE Fails(s)
  <2>1. posted' = posted /\ subs' \subseteq subs
    BY <1>4 DEF Fails
  <2> QED BY <1>1, <2>1 DEF Numbered
<1>5. CASE Created(s) \/ CreatedUnknown(s)
  <2>1. /\ posted' = posted \cup {Posted(s)}
        /\ \A t \in subs' : t \in subs \/ (t.id = Posted(s).id /\ t.n = s.n /\ t.items = s.items)
    BY <1>2, <1>5 DEF Created, CreatedUnknown
  <2> HIDE DEF Posted
  <2>2. /\ Posted(s).id = Cardinality(posted) + 1 /\ Posted(s).n = s.n
        /\ Posted(s).items = s.items
        /\ \A o \in posted : o.id # Posted(s).id
        /\ Cardinality(posted) \in Nat /\ Cardinality(posted') = Cardinality(posted) + 1
    BY <2>1, OrderIsNew
  <2>3. \A o \in posted' : o.id \in 1 .. Cardinality(posted')
    BY <1>1, <2>1, <2>2 DEF Numbered
  <2>4. \A o, p \in posted' : o.id = p.id => o = p
    BY <1>1, <2>1, <2>2 DEF Numbered
  <2>5. ASSUME NEW t \in subs', t.phase = "pay"
        PROVE  \E o \in posted' : o.id = t.id /\ o.n = t.n /\ o.items = t.items
    BY <1>1, <2>1, <2>2, <2>5 DEF Numbered
  <2> QED BY <2>3, <2>4, <2>5 DEF Numbered
<1>6. CASE Paid(s)
  <2>1. posted' = {PaidOrder(s, o) : o \in posted} /\ subs' \subseteq subs
    BY <1>6 DEF Paid, PaidOrder
  <2>2. /\ \A o \in posted : /\ PaidOrder(s, o) \in posted' /\ PaidOrder(s, o).id = o.id
                             /\ PaidOrder(s, o).n = o.n /\ PaidOrder(s, o).items = o.items
        /\ Cardinality(posted') = Cardinality(posted)
    BY <2>1, OrderIsPaid
  <2>3. \A p \in posted' : \E o \in posted : p = PaidOrder(s, o)
    BY <2>1
  <2> HIDE DEF PaidOrder
  <2>4. \A o \in posted' : o.id \in 1 .. Cardinality(posted')
    BY <1>1, <2>2, <2>3 DEF Numbered
  <2>5. \A o, p \in posted' : o.id = p.id => o = p
    BY <1>1, <2>2, <2>3 DEF Numbered
  <2>6. ASSUME NEW t \in subs', t.phase = "pay"
        PROVE  \E o \in posted' : o.id = t.id /\ o.n = t.n /\ o.items = t.items
    <3>1. PICK o \in posted : o.id = t.id /\ o.n = t.n /\ o.items = t.items
      BY <1>1, <2>1, <2>6 DEF Numbered
    <3> QED BY <2>2, <3>1
  <2> QED BY <2>4, <2>5, <2>6 DEF Numbered
<1> QED BY <1>3, <1>4, <1>5, <1>6 DEF Continuation

\* The page of the submission that advances, and the cart.
LEMMA StepKeepsPay ==
    ASSUME ShopInv, PayInv, NEW s \in subs, Continuation(s)
    PROVE  PayInv'
<1>1. /\ subs \subseteq Submission /\ s \in Submission /\ checkout \in CheckoutPage
      /\ checkout.n \in Nat /\ \A t \in subs : t.n \in Nat
  BY DEF ShopInv, TypeOK, CheckoutPage, Submission
<1>2. UNCHANGED <<page, left>> /\ cart' \in {cart, Empty}
  BY DEF Continuation, LoggedIn, Created, CreatedUnknown, Fails, Paid, AfterPayment, Quiet
<1>3. /\ checkout'.n = checkout.n /\ checkout'.items = checkout.items
      /\ checkout'.isWelfare = checkout.isWelfare
      /\ \/ checkout'.submitting = checkout.submitting
         \/ checkout.n = s.n /\ subs' = subs \ {s}
  BY <1>1 DEF Continuation, LoggedIn, Created, CreatedUnknown, Fails, Paid, Ended, CheckoutPage
<1>4. \/ subs' = subs \ {s}
      \/ \E t : /\ subs' = (subs \ {s}) \cup {t} /\ t.n = s.n /\ t.items = s.items
                /\ t.isWelfare = s.isWelfare
  <2>1. ASSUME NEW phase, NEW id, Advance(s, phase, id)
        PROVE  \E t : /\ subs' = (subs \ {s}) \cup {t} /\ t.n = s.n /\ t.items = s.items
                      /\ t.isWelfare = s.isWelfare
    <3> DEFINE t == [s EXCEPT !.phase = phase, !.id = id]
    <3>1. t.n = s.n /\ t.items = s.items /\ t.isWelfare = s.isWelfare
      BY <1>1 DEF Submission
    <3>2. subs' = (subs \ {s}) \cup {t}
      BY <2>1 DEF Advance
    <3> HIDE DEF t
    <3> QED BY <3>1, <3>2
  <2>2. LoggedIn(s) \/ Created(s) => \E phase, id : Advance(s, phase, id)
    BY DEF LoggedIn, Created
  <2>3. CreatedUnknown(s) \/ Fails(s) \/ Paid(s) => subs' = subs \ {s}
    BY DEF CreatedUnknown, Fails, Paid
  <2> QED BY <2>1, <2>2, <2>3 DEF Continuation
<1>5. OneAtATime'
  BY <1>1, <1>2, <1>3, <1>4 DEF PayInv, OneAtATime
<1>6. CartIsOrdered'
  BY <1>2, <1>3, <1>4 DEF PayInv, CartIsOrdered
<1> QED BY <1>5, <1>6, StepKeepsNumbers DEF PayInv

LEMMA NextPay == ShopInv /\ PayInv /\ [Next]_vars => PayInv'
BY PagesOfSteps, PagesKeepPay, SubmitKeepsPay, StepKeepsPay

\* A payment that takes something out of the cart is for what is in it, unless
\* its page is gone.
LEMMA PaidClears ==
    ASSUME ShopInv, PayInv, NEW s \in subs, Paid(s), NEW o \in posted,
           NEW p \in posted', p.id = o.id, p.paid, ~o.paid
    PROVE  cart' = cart \/ o.n \in left \/ o.items = cart
<1>1. posted' = {PaidOrder(s, q) : q \in posted} /\ s.phase = "pay"
  BY DEF Paid, PaidOrder
<1>2. PICK q \in posted : p = PaidOrder(s, q)
  BY <1>1
<1>3. q = o
  <2>1. p.id = q.id
    BY <1>1, <1>2, OrderIsPaid
  <2>2. q.id = o.id
    BY <2>1
  <2>3. \A x, y \in posted : x.id = y.id => x = y
    BY DEF PayInv, Numbered
  <2> QED BY <2>2, <2>3
<1>4. o.id = s.id
  BY <1>2, <1>3 DEF PaidOrder
<1>5. o.n = s.n /\ o.items = s.items
  BY <1>1, <1>4 DEF PayInv, Numbered
<1>6. cart' = IF s.isWelfare THEN cart ELSE Empty
  BY DEF Paid, AfterPayment
<1> QED BY <1>5, <1>6 DEF PayInv, CartIsOrdered

\* Paying empties the cart only of what was ordered, while the customer stays
\* on the checkout page (submitOrder, clearCart).  It says something of a server
\* that answers orderNo; of the other kind WithoutOrderNoUnpaid speaks.
THEOREM PaymentsClearTheirCart == Spec => ClearsWhatWasOrdered
<1>1. ASSUME ShopInv, PayInv, [Next]_vars, NEW o \in posted, NEW p \in posted',
             p.id = o.id, p.paid, ~o.paid
      PROVE  cart' = cart \/ o.n \in left \/ o.items = cart
  <2>1. p \notin posted
    BY <1>1 DEF PayInv, Numbered
  <2>2. ~(SamePage \/ NewPage \/ LeftPage \/ SubmitOrder)
    BY <1>1, <2>1 DEF SamePage, NewPage, LeftPage, Serving, SubmitOrder
  <2>3. PICK s \in subs : Continuation(s)
    BY <1>1, <2>2, PagesOfSteps
  <2>4. ~(LoggedIn(s) \/ Fails(s))
    BY <1>1, <2>1 DEF LoggedIn, Fails
  <2>5. ~(Created(s) \/ CreatedUnknown(s))
    <3>1. posted' = posted \cup {Posted(s)} => FALSE
      BY <1>1, <2>1, OrderIsNew
    <3> QED BY <3>1 DEF Created, CreatedUnknown
  <2> QED BY <1>1, <2>3, <2>4, <2>5, PaidClears DEF Continuation
<1>2. ShopInv /\ PayInv /\ [Next]_vars =>
         [\A o \in posted : (\E p \in posted' : p.id = o.id /\ p.paid /\ ~o.paid) =>
             \/ cart' = cart
             \/ o.n \in left
             \/ o.items = cart]_vars
  BY <1>1
<1>3. Init => ShopInv /\ PayInv
  BY InitShop, InitPay
<1>4. ShopInv /\ PayInv /\ [Next]_vars => ShopInv' /\ PayInv'
  BY NextShop, NextPay
<1> QED BY <1>2, <1>3, <1>4, PTL DEF Spec, ClearsWhatWasOrdered
=============================================================================
