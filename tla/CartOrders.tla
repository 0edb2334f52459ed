----------------------------- MODULE CartOrders -----------------------------
(***************************************************************************)
(* The cart of a phone and the orders it sends (cart.ts, sendOrder of      *)
(* menu-view.tsx), against a catalogue that changes meanwhile.  The cart   *)
(* outlives the page; the page is loaded again when the catalogue changes, *)
(* also while an order is on its way.  A cart has a number here, from one  *)
(* emptying to the next, by which its orders are counted.                  *)
(***************************************************************************)
EXTENDS Catalogue

CONSTANTS MaxCarts, MaxLost   \* bounds of the runs

ASSUME CartOrdersAssumption == MaxCarts \in Nat \ {0} /\ MaxLost \in Nat

VARIABLES page,     \* the products that the page offers
          cart,     \* quantities by product, kept in localStorage
          sending,  \* the order under way: its lines, and the answer to it
          removed,  \* the products of the message that they were removed
          number,   \* of the cart
          orders,   \* orders created from each cart
          lost      \* answers to them that never came

pageVars == <<page, cart, sending, removed, number, orders, lost>>
cartOrdersVars == <<catalogueVars, pageVars>>

NoLines == [p \in {} |-> 0]
Idle == [lines |-> NoLines, answer |-> "none", rejected |-> {}]

\* cart.ts and RULES know the largest quantity each for itself: no order is refused for it.
IsCart(lines) == DOMAIN lines \subseteq Products /\ \A p \in DOMAIN lines : lines[p] \in 1..MaxQuantity

CartOrdersTypeOK ==
    /\ page \subseteq Products
    /\ IsCart(cart) /\ IsCart(sending.lines)
    /\ sending.answer \in {"none", "waiting", "created", "rejected", "refused"}
    /\ sending.rejected \subseteq DOMAIN sending.lines
    /\ removed \subseteq Products
    /\ number \in 1..MaxCarts
    /\ orders \in [1..MaxCarts -> Nat] /\ lost \in [1..MaxCarts -> Nat]

CartOrdersInit ==
    /\ CatalogueInit
    /\ page = {} /\ cart = NoLines /\ sending = Idle /\ removed = {}
    /\ number = 1
    /\ orders = [n \in 1..MaxCarts |-> 0] /\ lost = [n \in 1..MaxCarts |-> 0]

InCart == DOMAIN cart

-----------------------------------------------------------------------------
(* The cart, which may also be changed while an order is on its way.         *)

\* variant OneMore: without the limit
OneMoreAlways(quantity) == quantity + 1

OneMore(quantity) == IF quantity >= MaxQuantity THEN MaxQuantity ELSE quantity + 1

WithOneMore(lines, p) ==
    [q \in DOMAIN lines \cup {p} |-> IF q # p THEN lines[q]
                                     ELSE IF p \in DOMAIN lines THEN OneMore(lines[p]) ELSE 1]

WithOneLess(lines, p) ==
    [q \in {q \in DOMAIN lines : q # p \/ lines[q] > 1} |-> IF q = p THEN lines[q] - 1 ELSE lines[q]]

\* The row of a product in the menu, when it can be ordered.
FromMenu(p) == p \in page

\* The stepper of a line in the cart.
FromLine(p) == p \in InCart

AddToCart(p) ==
    /\ FromMenu(p) \/ FromLine(p)
    /\ cart' = WithOneMore(cart, p)
    /\ UNCHANGED <<catalogueVars, page, sending, removed, number, orders, lost>>

RemoveFromCart(p) ==
    /\ FromLine(p)
    /\ cart' = WithOneLess(cart, p)
    /\ UNCHANGED <<catalogueVars, page, sending, removed, number, orders, lost>>

-----------------------------------------------------------------------------
(* An order. *)

\* The button rests while an order is on its way.
OffersOrder == sending = Idle /\ InCart # {}

\* Every press has a key of its own.
SendOrder ==
    /\ OffersOrder
    /\ sending' = [Idle EXCEPT !.lines = cart, !.answer = "waiting"]
    /\ removed' = {}
    /\ UNCHANGED <<catalogueVars, page, cart, number, orders, lost>>

RejectedOf(lines) == {p \in DOMAIN lines : Rejection(p, lines[p]) # "none"}

CreateOrder ==
    /\ sending.answer = "waiting"
    /\ LET rejected == RejectedOf(sending.lines) IN
       IF rejected = {}
       THEN /\ sending' = [sending EXCEPT !.answer = "created"]
            /\ orders' = [orders EXCEPT ![number] = @ + 1]
       ELSE /\ sending' = [sending EXCEPT !.answer = "rejected", !.rejected = rejected]
            /\ UNCHANGED orders
    /\ UNCHANGED <<catalogueVars, page, cart, removed, number, lost>>

\* The session is over, the bill is asked for, nobody of the staff is there.
RefuseOrder ==
    /\ sending.answer = "waiting"
    /\ sending' = [sending EXCEPT !.answer = "refused"]
    /\ UNCHANGED <<catalogueVars, page, cart, removed, number, orders, lost>>

\* variant ReceiveCreated: the cart is not emptied
ReceiveCreatedKeepingCart ==
    /\ sending.answer = "created" /\ number < MaxCarts
    /\ sending' = Idle
    /\ UNCHANGED <<catalogueVars, page, cart, removed, number, orders, lost>>

\* The cart is emptied, whatever has been put into it since it was sent.
ReceiveCreated ==
    /\ sending.answer = "created" /\ number < MaxCarts
    /\ cart' = NoLines
    /\ sending' = Idle
    /\ number' = number + 1
    /\ UNCHANGED <<catalogueVars, page, removed, orders, lost>>

\* variant CartWithout: the whole cart is given up
CartEmptied(lines, rejected, last) == NoLines

\* Each rejected product is taken one off the lines as they were sent, and the
\* last of these carts is the one that stays.
CartWithout(lines, rejected, last) == WithOneLess(lines, last)

ReceiveRejected ==
    /\ sending.answer = "rejected"
    /\ \E last \in sending.rejected : cart' = CartWithout(sending.lines, sending.rejected, last)
    /\ removed' = sending.rejected
    /\ sending' = Idle
    /\ UNCHANGED <<catalogueVars, page, number, orders, lost>>

ReceiveRefused ==
    /\ sending.answer = "refused"
    /\ sending' = Idle
    /\ UNCHANGED <<catalogueVars, page, cart, removed, number, orders, lost>>

\* The answer, or the order itself, is lost with the connection or the page.
Drop ==
    /\ sending' = Idle
    /\ sending.answer = "created" => lost[number] < MaxLost
    /\ lost' = IF sending.answer = "created" THEN [lost EXCEPT ![number] = @ + 1] ELSE lost

LoseOrder ==
    /\ sending # Idle
    /\ Drop
    /\ UNCHANGED <<catalogueVars, page, cart, removed, number, orders>>

\* By hand, and at every change of the catalogue or an area: only the cart stays.
Reload ==
    /\ page' = Menu
    /\ removed' = {}
    /\ Drop
    /\ UNCHANGED <<catalogueVars, cart, number, orders>>

PhoneStep ==
    \/ \E p \in Products : AddToCart(p) \/ RemoveFromCart(p)
    \/ SendOrder \/ CreateOrder \/ RefuseOrder
    \/ ReceiveCreated \/ ReceiveRejected \/ ReceiveRefused
    \/ LoseOrder \/ Reload

CartOrdersNext == (CatalogueNext /\ UNCHANGED pageVars) \/ PhoneStep

CartOrdersSpec == CartOrdersInit /\ [][CartOrdersNext]_cartOrdersVars

-----------------------------------------------------------------------------
(* Properties. *)

\* A cart is ordered twice only when an answer to it was lost: as every press
\* has a new key, the server cannot know the order that it has from a new one.
OrderedTwiceOnlyUnanswered ==
    \A n \in 1..MaxCarts : orders[n] <= 1 + lost[n]

\* A product leaves the cart ordered, named in the message or by hand, but for
\* what was put into the cart after it was sent.
NothingLeavesUnordered ==
    [][\A p \in InCart \ DOMAIN cart' :
         \/ sending = Idle \/ sending' = sending
         \/ p \notin DOMAIN sending.lines
         \/ sending.answer = "created" \/ p \in removed']_cartOrdersVars

=============================================================================
