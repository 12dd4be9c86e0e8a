------------------------------ MODULE MiniShop ------------------------------
(***************************************************************************)
(* The mini program from a product to a paid order: the product page with  *)
(* its welfare code, the cart in local storage and its page, the address   *)
(* and the checkout.  One page is in front; a handler runs up to its await *)
(* and its continuation is an action of its own, which may run when the    *)
(* customer is on another page.  WeChat Pay is external, and so is the     *)
(* server that the mini program asks: it expects /welfare/quote, a payment *)
(* route and an orderNo, of which routes/api_v1 of this repository has     *)
(* none.  With that server every submission ends as CreatedUnknown.        *)
(***************************************************************************)
EXTENDS Naturals, FiniteSets

CONSTANTS
    Keys,            \* lines of the cart: an ordinary product and its SKU
    Codes,           \* six digits
    Quote,           \* the price the server quotes for a code, or Refused
    Refused,
    Short,           \* fewer than six digits in the input
    None,
    WelfareItem,     \* the one item of a welfare order
    ProductPrice,    \* price_cent of the welfare product
    Limit,           \* 99, the most that the cart page adds up to
    AnswersOrderNo,  \* the server answers an order with orderNo, not with order_no
    MaxQty,          \* bound: pieces of one line
    MaxPages,        \* bound: checkout pages opened
    MaxOrders        \* bound: orders sent

ASSUME MiniShopAssumption ==
    /\ Refused \notin Nat /\ Quote \in [Codes -> Nat \cup {Refused}]
    /\ Short \notin Codes /\ None \notin Codes \cup {Short}
    /\ WelfareItem \notin [Keys -> Nat]
    /\ AnswersOrderNo \in BOOLEAN
    /\ ProductPrice \in Nat /\ Limit \in Nat /\ MaxQty \in Nat
    /\ MaxPages \in Nat /\ MaxOrders \in Nat

VARIABLES
    page,      \* the page in front
    welfare,   \* data of the welfare product's page, and its timer
    quotes,    \* codes whose quote is awaited
    cart,      \* 'cart' in storage: the quantity of each line, 0 without it
    shown,     \* the lines on the cart page while it is in front
    address,   \* 'address' is in storage
    checkout,  \* data of the checkout page
    details,   \* the loadData calls that await the product, with the address each read
    subs,      \* submissions in progress
    left,      \* checkout pages left while submitting
    posted,    \* orders that the server received, as sent, and whether they were paid
    redirects  \* timers that will show an order

vars == <<page, welfare, quotes, cart, shown, address, checkout,
          details, subs, left, posted, redirects>>

Lines == [Keys -> 0 .. MaxQty]
Empty == [k \in Keys |-> 0]
Pages == {"welfare", "product", "cart", "address", "checkout", "order"}

NoCheckout == [n |-> 0, query |-> None, price |-> 0, from |-> "product", items |-> Empty,
               invite |-> None, isWelfare |-> FALSE, address |-> FALSE, submitting |-> FALSE]

FreshPage == [code |-> Short, timer |-> None, checked |-> FALSE, valid |-> FALSE, price |-> 0, display |-> ProductPrice]

Init ==
    /\ page \in {"welfare", "product"}
    /\ welfare = FreshPage /\ quotes = {}
    /\ cart \in Lines /\ shown = Empty
    /\ address \in BOOLEAN
    /\ checkout = NoCheckout /\ details = {} /\ subs = {} /\ left = {} /\ posted = {} /\ redirects = {}

-----------------------------------------------------------------------------
(* The page of a welfare product.                                          *)

\* updateDisplayPrice.
Priced(w) == [w EXCEPT !.display = IF w.valid THEN w.price ELSE ProductPrice]

\* Mutant: the price is not computed again.
Reset_OldPrice(w, checked) == [w EXCEPT !.checked = checked, !.valid = FALSE, !.price = 0]

\* The verdict is taken back and the price computed again.
Reset(w, checked) == Priced([w EXCEPT !.checked = checked, !.valid = FALSE, !.price = 0])

\* clearTimeout and setTimeout: the last input of six digits is the one checked.
Armed(w, c) == [w EXCEPT !.timer = c]

\* onWelfareCodeInput: only an incomplete code resets the verdict.
Type(c) ==
    /\ page = "welfare" /\ c # welfare.code
    /\ welfare' = IF c = Short THEN Reset([welfare EXCEPT !.code = c, !.timer = None], FALSE)
                               ELSE Armed([welfare EXCEPT !.code = c], c)
    /\ UNCHANGED <<page, quotes, cart, shown, address, checkout, details, subs, left, posted, redirects>>

\* The timer: checkWelfareCode up to its await.
CheckWelfareCode ==
    /\ welfare.timer # None
    /\ welfare' = [welfare EXCEPT !.timer = None]
    /\ quotes' = quotes \cup {welfare.timer}
    /\ UNCHANGED <<page, cart, shown, address, checkout, details, subs, left, posted, redirects>>

\* The quote, or its refusal or a network error, for whatever code is typed now.
QuoteArrives(c, ok) ==
    /\ c \in quotes
    /\ ok => Quote[c] # Refused
    /\ quotes' = quotes \ {c}
    /\ welfare' = IF ok THEN Priced([welfare EXCEPT !.checked = TRUE, !.valid = TRUE, !.price = Quote[c]]) ELSE Reset(welfare, TRUE)
    /\ UNCHANGED <<page, cart, shown, address, checkout, details, subs, left, posted, redirects>>

-----------------------------------------------------------------------------
(* The page of an ordinary product and the cart.                           *)

Untouched == UNCHANGED <<welfare, quotes, details, subs, left, posted, redirects>>

\* cart.js addToCart: the quantities of one line are added up.
Added(k, q) == [cart EXCEPT ![k] = @ + q]

\* selectSku, decQty, incQty and addToCart: a line and a quantity of at least 1.
AddToCart(k, q) ==
    /\ page = "product" /\ Added(k, q) \in Lines
    /\ cart' = Added(k, q)
    /\ Untouched /\ UNCHANGED <<page, shown, address, checkout>>

\* The tabs and the list of products: product pages are closed, with what they
\* awaited, and the cart page loads the cart when it is shown.
GoTo(p) ==
    /\ page \in {"welfare", "product", "cart", "order"} /\ p \in {"product", "cart"} \ {page}
    /\ page' = p
    /\ welfare' = FreshPage /\ quotes' = {}
    /\ shown' = IF p = "cart" THEN cart ELSE Empty
    /\ UNCHANGED <<cart, address, checkout, details, subs, left, posted, redirects>>

\* Mutant: the quantity is written also when the line is gone.
Updated_Absent(k, q) == [cart EXCEPT ![k] = q]

\* updateQty: nothing when the line is gone.
Updated(k, q) == IF cart[k] = 0 THEN cart ELSE [cart EXCEPT ![k] = q]

\* dec and inc of the cart page, from the quantity it shows; at 1 dec asks to
\* remove the line.
StepQty(k, q) ==
    /\ page = "cart" /\ shown[k] # 0 /\ q \in {shown[k] - 1, shown[k] + 1}
    /\ q > shown[k] => q <= Limit
    /\ cart' = IF q = 0 THEN [cart EXCEPT ![k] = 0] ELSE Updated(k, q)
    /\ shown' = cart'
    /\ Untouched /\ UNCHANGED <<page, address, checkout>>

\* remove, confirmed.
RemoveLine(k) ==
    /\ page = "cart" /\ shown[k] # 0
    /\ cart' = [cart EXCEPT ![k] = 0] /\ shown' = cart'
    /\ Untouched /\ UNCHANGED <<page, address, checkout>>

-----------------------------------------------------------------------------
(* The checkout page.                                                      *)

\* The page shows the lines of a cart.
FromCart(c, lines, a) == [c EXCEPT !.items = lines, !.invite = None, !.isWelfare = FALSE, !.address = a]

\* The page shows the welfare product with the code it was opened with.
FromWelfare(c, a) == [c EXCEPT !.items = WelfareItem, !.invite = c.query, !.isWelfare = TRUE, !.address = a]

\* onShow: loadData, which awaits the product when the query has a code and a
\* price, and otherwise reads the cart.
Shown(c, a, lines) ==
    IF c.query # None /\ c.price > 0
    THEN details' = details \cup {a} /\ checkout' = c
    ELSE checkout' = FromCart(c, lines, a) /\ UNCHANGED details

Open(query, price, lines) ==
    /\ checkout.n < MaxPages
    /\ details = {}
    /\ page' = "checkout"
    /\ Shown([NoCheckout EXCEPT !.n = checkout.n + 1, !.query = query, !.price = price, !.from = IF page = "cart" THEN page ELSE "product"],
             address, lines)

\* buyNow of a welfare product: the code in the input, the price of the quote.
\* The checkout copies them, so the page behind it is not followed further and
\* the customer goes back past it.
BuyWelfare ==
    /\ page = "welfare" /\ welfare.valid
    /\ Open(welfare.code, welfare.price, cart)
    /\ welfare' = FreshPage /\ quotes' = {}
    /\ UNCHANGED <<cart, shown, address, subs, left, posted, redirects>>

\* buyNow of an ordinary product: through the cart.
BuyNow(k, q) ==
    /\ page = "product" /\ Added(k, q) \in Lines
    /\ cart' = Added(k, q)
    /\ Open(None, 0, Added(k, q))
    /\ UNCHANGED <<welfare, quotes, shown, address, subs, left, posted, redirects>>

GoCheckout ==
    /\ page = "cart" /\ shown # Empty
    /\ Open(None, 0, cart)
    /\ shown' = Empty
    /\ UNCHANGED <<welfare, quotes, cart, address, subs, left, posted, redirects>>

\* The product arrived, or not: then the page falls back to the cart.
DetailArrives(a, ok) ==
    /\ a \in details /\ details' = details \ {a}
    /\ checkout' = IF ok THEN FromWelfare(checkout, a) ELSE FromCart(checkout, cart, a)
    /\ UNCHANGED <<page, welfare, quotes, cart, shown, address, subs, left, posted, redirects>>

\* The customer goes back; replies to a page that is gone change nothing.
Back ==
    /\ page = "checkout"
    /\ page' = checkout.from
    /\ shown' = IF checkout.from = "cart" THEN cart ELSE Empty
    /\ details' = {}
    /\ left' = IF checkout.submitting THEN left \cup {checkout.n} ELSE left
    /\ UNCHANGED <<welfare, quotes, cart, address, checkout, subs, posted, redirects>>

GoEditAddress ==
    /\ page = "checkout" /\ page' = "address"
    /\ Untouched /\ UNCHANGED <<cart, shown, address, checkout>>

ClearAddress ==
    /\ page = "address" /\ address /\ address' = FALSE
    /\ Untouched /\ UNCHANGED <<page, cart, shown, checkout>>

\* Back to the checkout page, which is shown again, after save with a complete
\* form or without.
CloseAddress(save) ==
    /\ page = "address" /\ page' = "checkout"
    /\ address' = (address \/ save)
    /\ Shown(checkout, address', cart)
    /\ UNCHANGED <<welfare, quotes, cart, shown, subs, left, posted, redirects>>

-----------------------------------------------------------------------------
(* submitOrder.                                                            *)

\* The first test: the flag of the page.
MaySubmit == page = "checkout" /\ ~checkout.submitting

\* A code that was shortened after it was found valid is refused here.
SixDigits == checkout.isWelfare => checkout.invite \in Codes

SubmitOrder ==
    /\ MaySubmit
    /\ checkout.items # Empty /\ checkout.address
    /\ SixDigits
    /\ Cardinality(posted) + Cardinality(subs) < MaxOrders
    /\ checkout' = [checkout EXCEPT !.submitting = TRUE]
    /\ subs' = subs \cup {[n |-> checkout.n, items |-> checkout.items, isWelfare |-> checkout.isWelfare,
                           invite |-> checkout.invite, phase |-> "login", id |-> 0]}
    /\ UNCHANGED <<page, welfare, quotes, cart, shown, address, details, left, posted, redirects>>

Advance(s, phase, id) == subs' = (subs \ {s}) \cup {[s EXCEPT !.phase = phase, !.id = id]}
Quiet == UNCHANGED <<page, welfare, quotes, shown, address, details, left>>

LoggedIn(s) ==
    /\ s.phase = "login" /\ Advance(s, "create", 0)
    /\ Quiet /\ UNCHANGED <<cart, checkout, posted, redirects>>

\* Mutant: the payload takes the code from the page when it is built.
Payload_Late(s) == [items |-> s.items, invite |-> checkout.invite]

\* The payload: what the handler read before it awaited the login.
Payload(s) == [items |-> s.items, invite |-> IF s.isWelfare THEN s.invite ELSE None]

Posted(s) == [id |-> Cardinality(posted) + 1, n |-> s.n, items |-> Payload(s).items,
                invite |-> Payload(s).invite, paid |-> FALSE]

\* The order is sent and its number comes back.
Created(s) ==
    /\ s.phase = "create" /\ AnswersOrderNo
    /\ posted' = posted \cup {Posted(s)}
    /\ Advance(s, "pay", Posted(s).id)
    /\ Quiet /\ UNCHANGED <<cart, checkout, redirects>>

\* Mutant: the flag is reset only after a payment.
Ended_OnSuccess(s) == UNCHANGED checkout

\* finally: the flag of the page, unless the page is gone.
Ended(s) == checkout' = IF checkout.n = s.n THEN [checkout EXCEPT !.submitting = FALSE] ELSE checkout

\* Login, creation, prepay or payment fails; the order page only if the
\* number is known.
Fails(s) ==
    /\ subs' = subs \ {s} /\ Ended(s)
    /\ redirects' = IF s.id = 0 THEN redirects ELSE redirects \cup {s.id}
    /\ Quiet /\ UNCHANGED <<cart, posted>>

\* The order is sent, but its answer is lost or has no orderNo.
CreatedUnknown(s) ==
    /\ s.phase = "create"
    /\ posted' = posted \cup {Posted(s)}
    /\ subs' = subs \ {s} /\ Ended(s)
    /\ Quiet /\ UNCHANGED <<cart, redirects>>

\* Mutant: the cart is emptied after every order.
AfterPayment_Always(s) == Empty

\* A welfare order leaves the cart alone.
AfterPayment(s) == IF s.isWelfare THEN cart ELSE Empty

\* prepay and requestPayment succeed.
Paid(s) ==
    /\ s.phase = "pay"
    /\ posted' = {IF o.id = s.id THEN [o EXCEPT !.paid = TRUE] ELSE o : o \in posted}
    /\ cart' = AfterPayment(s)
    /\ redirects' = redirects \cup {s.id}
    /\ subs' = subs \ {s} /\ Ended(s)
    /\ Quiet

\* setTimeout 300: redirectTo replaces the page in front.
Redirect(id) ==
    /\ id \in redirects /\ redirects' = redirects \ {id}
    /\ page' = "order" /\ details' = {} /\ shown' = Empty
    /\ left' = IF page \in {"checkout", "address"} /\ checkout.submitting THEN left \cup {checkout.n} ELSE left
    /\ UNCHANGED <<welfare, quotes, cart, address, checkout, subs, posted>>

Customer ==
    \/ \E c \in Codes \cup {Short} : Type(c)
    \/ \E k \in Keys, q \in 1 .. MaxQty : AddToCart(k, q) \/ BuyNow(k, q)
    \/ \E k \in Keys : RemoveLine(k) \/ \E q \in 0 .. MaxQty : StepQty(k, q)
    \/ BuyWelfare \/ GoCheckout \/ Back
    \/ \E p \in Pages : GoTo(p)
    \/ GoEditAddress \/ ClearAddress \/ \E save \in BOOLEAN : CloseAddress(save)
    \/ SubmitOrder

Continuation(s) == LoggedIn(s) \/ Created(s) \/ CreatedUnknown(s) \/ Fails(s) \/ Paid(s)

Next ==
    \/ Customer
    \/ CheckWelfareCode
    \/ \E c \in Codes, ok \in BOOLEAN : QuoteArrives(c, ok)
    \/ \E a, ok \in BOOLEAN : DetailArrives(a, ok)
    \/ \E s \in subs : Continuation(s)
    \/ \E id \in redirects : Redirect(id)

\* Every request is answered or times out after 15 seconds, and the payment
\* dialog closes.
Spec == Init /\ [][Next]_vars /\ WF_vars(\E s \in subs : Continuation(s))

-----------------------------------------------------------------------------
(* Properties.                                                             *)

Items == Lines \cup {WelfareItem}
Typed == Codes \cup {Short, None}
WelfarePage == [code : Codes \cup {Short}, timer : Codes \cup {None}, checked : BOOLEAN,
                valid : BOOLEAN, price : Nat, display : Nat]
CheckoutPage == [n : Nat, query : Typed, price : Nat, from : Pages, items : Items, invite : Typed,
                 isWelfare : BOOLEAN, address : BOOLEAN, submitting : BOOLEAN]
Submission == [n : Nat, items : Items, isWelfare : BOOLEAN, invite : Typed,
               phase : {"login", "create", "pay"}, id : Nat]
PostedOrder == [id : Nat, n : Nat, items : Items, invite : Typed, paid : BOOLEAN]

\* Every variable has its type.
TypeOK ==
    /\ page \in Pages
    /\ welfare \in WelfarePage /\ quotes \subseteq Codes
    /\ cart \in Lines /\ shown \in Lines /\ address \in BOOLEAN
    /\ checkout \in CheckoutPage /\ details \subseteq BOOLEAN
    /\ subs \subseteq Submission
    /\ posted \subseteq PostedOrder /\ IsFiniteSet(posted)
    /\ left \subseteq Nat /\ redirects \subseteq Nat

\* The price on the page is the quoted one exactly while the page says that
\* the code is valid, through inputs, late answers and refusals.
PriceFollowsVerdict ==
    welfare.display = IF welfare.valid THEN welfare.price ELSE ProductPrice

\* An order that is sent is either the welfare product with a six-digit code or
\* lines of a cart without one, although the page may be loaded again between
\* the button and the request.
PostedIsOneKind ==
    \A o \in posted : (o.items = WelfareItem) <=> (o.invite # None)

\* Paying empties the cart only of what was ordered, as long as the customer
\* does not leave the checkout page in between; a welfare order never does.
\* Of a server that answers orderNo: with another one nothing is ever paid.
ClearsWhatWasOrdered ==
    [][\A o \in posted : (\E p \in posted' : p.id = o.id /\ p.paid /\ ~o.paid) =>
          \/ cart' = cart
          \/ o.n \in left
          \/ o.items = cart]_vars

\* A cart page that still shows lines which a payment has taken out of the
\* cart does not bring them back.
NoRevival ==
    [][\A k \in Keys : cart[k] = 0 /\ cart'[k] # 0 => page = "product"]_vars

\* The button comes back: no path of submitOrder leaves the page submitting.
SubmitEnds == checkout.submitting ~> ~checkout.submitting
=============================================================================
