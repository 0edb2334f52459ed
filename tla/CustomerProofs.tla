--------------------------- MODULE CustomerProofs ---------------------------
(***************************************************************************)
(* What holds of the customer's side for every number of products,         *)
(* editors, phones and rows: the catalogue, the cart and its orders, the   *)
(* requests of a table, and the limit by address.                          *)
(***************************************************************************)
EXTENDS CartOrders, TableAccess, SlidingWindow, FiniteSetTheorems,
        SequenceTheorems, TLAPS

-----------------------------------------------------------------------------
(***************************************************************************)
(* Proofs about Catalogue: no product is without its category, for any     *)
(* number of rows and of editors who look at them before they write.  The  *)
(* looks do not matter: the argument uses the foreign key alone, at both   *)
(* of its ends, and so it covers the products that were deleted too.       *)
(***************************************************************************)

\* The invariant: the types of the rows, and the reference of each product.
RowsOK ==
    /\ CatalogueTypeOK
    /\ ProductsKeepTheirCategory

\* What an edit names is of the right kind.
LEMMA EditTypes ==
    ASSUME CatalogueTypeOK, NEW e \in Editors
    PROVE  /\ IsProductEdit(e) => /\ editing[e].product \in Products
                                  /\ editing[e].category \in Categories
                                  /\ editing[e].area \in Areas
           /\ IsCategoryEdit(e) => editing[e].unused \in Categories
  BY DEF CatalogueTypeOK, Edit, IsProductEdit, IsCategoryEdit

\* Edits come and go without touching a row.
LEMMA EditingKeeps ==
    ASSUME RowsOK, UNCHANGED <<areaOpen, category, product>>,
           editing' \in [Editors -> Edit \cup {Nothing}]
    PROVE  RowsOK'
  BY DEF RowsOK, CatalogueTypeOK, ProductsKeepTheirCategory, HasRow, HasCategory

\* A category that is created or changed is there; the others stay as they are.
LEMMA CategoryWritten ==
    ASSUME RowsOK, NEW c \in Categories, NEW isActive \in BOOLEAN,
           category' = [category EXCEPT ![c] = isActive],
           UNCHANGED <<areaOpen, product, editing>>
    PROVE  RowsOK'
<1>1. category' \in [Categories -> BOOLEAN \cup {Nothing}]
  BY Zenon DEF RowsOK, CatalogueTypeOK
<1>2. \A d \in Categories : HasCategory(d) => HasCategory(d)'
  <2>1. isActive # Nothing
    BY CatalogueAssumption, Zenon
  <2> QED
    BY <2>1, Zenon DEF RowsOK, CatalogueTypeOK, HasCategory
<1>3. \A p \in Products : HasRow(p) => product[p].category \in Categories
  BY DEF RowsOK, CatalogueTypeOK, HasRow, ProductRow
<1> QED
  BY <1>1, <1>2, <1>3 DEF RowsOK, CatalogueTypeOK, ProductsKeepTheirCategory, HasRow, HasCategory

\* A product that is written refers to a category that is there.
LEMMA ProductWritten ==
    ASSUME RowsOK, NEW p \in Products, NEW row \in ProductRow, HasCategory(row.category),
           product' = [product EXCEPT ![p] = row], UNCHANGED <<areaOpen, category>>,
           editing' \in [Editors -> Edit \cup {Nothing}]
    PROVE  RowsOK'
<1>1. product' \in [Products -> ProductRow \cup {Nothing}]
  BY DEF RowsOK, CatalogueTypeOK
<1>2. \A q \in Products : product'[q] = IF q = p THEN row ELSE product[q]
  BY DEF RowsOK, CatalogueTypeOK
<1>3. ProductsKeepTheirCategory'
  BY <1>2 DEF RowsOK, ProductsKeepTheirCategory, HasRow, HasCategory
<1> QED
  BY <1>1, <1>3 DEF RowsOK, CatalogueTypeOK

\* What an edit writes, over a row or as a new one.
LEMMA WrittenIsRow ==
    ASSUME RowsOK, NEW p \in Products, NEW c \in Categories, NEW a \in Areas, NEW edit,
           edit.category = c, edit.area = a
    PROVE  Written(edit, p) \in ProductRow /\ Written(edit, p).category = c
<1>1. CASE HasRow(p)
  <2>1. product[p] \in ProductRow
    BY <1>1, Zenon DEF RowsOK, CatalogueTypeOK, HasRow
  <2>2. Written(edit, p) = [product[p] EXCEPT !.category = c, !.area = a]
    BY <1>1 DEF Written
  <2> QED
    BY <2>1, <2>2, Zenon DEF ProductRow
<1>2. CASE ~HasRow(p)
  <2>1. Written(edit, p) = [category |-> c, area |-> a, available |-> TRUE, deleted |-> FALSE]
    BY <1>2 DEF Written
  <2> QED
    BY <2>1 DEF ProductRow
<1> QED
  BY <1>1, <1>2

\* The step of each operation keeps the rows right.
LEMMA CatalogueKept == RowsOK /\ [CatalogueNext]_catalogueVars => RowsOK'
<1> SUFFICES ASSUME RowsOK, [CatalogueNext]_catalogueVars PROVE RowsOK'
    OBVIOUS
<1>0. editing \in [Editors -> Edit \cup {Nothing}]
  BY DEF RowsOK, CatalogueTypeOK
<1>1. ASSUME NEW a \in Areas, NEW isOpen \in BOOLEAN, SetAreaOpen(a, isOpen) PROVE RowsOK'
  <2>1. areaOpen' \in [Areas -> BOOLEAN]
    BY <1>1, Zenon DEF RowsOK, CatalogueTypeOK, SetAreaOpen
  <2> QED
    BY <1>1, <2>1 DEF SetAreaOpen, RowsOK, CatalogueTypeOK, ProductsKeepTheirCategory, HasRow, HasCategory
<1>2. ASSUME NEW c \in Categories, NEW isActive \in BOOLEAN,
             CreateCategory(c, isActive) \/ UpdateCategory(c, isActive)
      PROVE  RowsOK'
  BY <1>2, CategoryWritten DEF CreateCategory, UpdateCategory
<1>3. ASSUME NEW p \in Products, NEW isAvailable \in BOOLEAN, SetAvailable(p, isAvailable)
      PROVE  RowsOK'
  <2> DEFINE row == [product[p] EXCEPT !.available = isAvailable]
  <2>1. HasRow(p) /\ product' = [product EXCEPT ![p] = row] /\ editing' = editing
        /\ UNCHANGED <<areaOpen, category>>
    BY <1>3 DEF SetAvailable, OnSale
  <2>2. product[p] \in ProductRow /\ HasCategory(product[p].category)
    BY <2>1, Zenon DEF RowsOK, CatalogueTypeOK, HasRow, ProductsKeepTheirCategory
  <2>3. row \in ProductRow /\ row.category = product[p].category
    BY <2>2, Zenon DEF ProductRow
  <2> HIDE DEF row
  <2> QED
    BY <1>0, <2>1, <2>2, <2>3, ProductWritten
<1>4. ASSUME NEW p \in Products, DeleteProduct(p) PROVE RowsOK'
  <2> DEFINE row == [product[p] EXCEPT !.deleted = TRUE, !.available = FALSE]
  <2>1. HasRow(p) /\ product' = [product EXCEPT ![p] = row] /\ editing' = editing
        /\ UNCHANGED <<areaOpen, category>>
    BY <1>4 DEF DeleteProduct, OnSale
  <2>2. product[p] \in ProductRow /\ HasCategory(product[p].category)
    BY <2>1, Zenon DEF RowsOK, CatalogueTypeOK, HasRow, ProductsKeepTheirCategory
  <2>3. row \in ProductRow /\ row.category = product[p].category
    BY <2>2, Zenon DEF ProductRow
  <2> HIDE DEF row
  <2> QED
    BY <1>0, <2>1, <2>2, <2>3, ProductWritten
<1>5. ASSUME NEW e \in Editors, NEW p \in Products, NEW c \in Categories, NEW a \in Areas,
             AssertRefs(e, p, c, a)
      PROVE  RowsOK'
  <2>1. [product |-> p, category |-> c, area |-> a] \in Edit
    BY DEF Edit
  <2> QED
    BY <1>0, <1>5, <2>1, EditingKeeps DEF AssertRefs, Checked
<1>6. ASSUME NEW e \in Editors, NEW c \in Categories, AssertUnused(e, c) PROVE RowsOK'
  <2>1. [unused |-> c] \in Edit
    BY DEF Edit
  <2> QED
    BY <1>0, <1>6, <2>1, EditingKeeps DEF AssertUnused, Checked
<1>7. ASSUME NEW e \in Editors, WriteProduct(e) PROVE RowsOK'
  <2> DEFINE edit == editing[e]
             row == Written(edit, edit.product)
  <2>1. /\ IsProductEdit(e) /\ HasCategory(edit.category)
        /\ product' = [product EXCEPT ![edit.product] = row]
        /\ UNCHANGED <<areaOpen, category>>
    BY <1>7 DEF WriteProduct, ReferenceHolds
  <2>2. editing' \in [Editors -> Edit \cup {Nothing}]
    BY <1>0, <1>7 DEF WriteProduct
  <2>3. edit.product \in Products /\ edit.category \in Categories /\ edit.area \in Areas
    BY <2>1, EditTypes DEF RowsOK
  <2>4. row \in ProductRow /\ row.category = edit.category
    BY <2>3, WrittenIsRow
  <2> HIDE DEF row, edit
  <2> QED
    BY <2>1, <2>2, <2>3, <2>4, ProductWritten
<1>8. ASSUME NEW e \in Editors, DeleteCategory(e) PROVE RowsOK'
  <2> DEFINE c == editing[e].unused
  <2>1. /\ Unreferenced(c) /\ category' = [category EXCEPT ![c] = Nothing]
        /\ UNCHANGED <<areaOpen, product>>
    BY <1>8 DEF DeleteCategory
  <2>2. editing' \in [Editors -> Edit \cup {Nothing}]
    BY <1>0, <1>8 DEF DeleteCategory
  <2>3. category' \in [Categories -> BOOLEAN \cup {Nothing}]
    BY <2>1, Zenon DEF RowsOK, CatalogueTypeOK
  <2>4. \A d \in Categories : d # c => category'[d] = category[d]
    BY <2>1 DEF RowsOK, CatalogueTypeOK
  <2>5. \A p \in Products : HasRow(p) => product[p].category \in Categories \ {c}
    BY <2>1, Zenon DEF RowsOK, CatalogueTypeOK, HasRow, ProductRow, Unreferenced
  <2>6. ProductsKeepTheirCategory'
    BY <2>1, <2>4, <2>5 DEF RowsOK, ProductsKeepTheirCategory, HasRow, HasCategory
  <2> QED
    BY <2>1, <2>2, <2>3, <2>6 DEF RowsOK, CatalogueTypeOK
<1>9. ASSUME NEW e \in Editors, GiveUp(e) PROVE RowsOK'
  BY <1>0, <1>9, EditingKeeps DEF GiveUp
<1>10. CASE UNCHANGED catalogueVars
  BY <1>0, <1>10, EditingKeeps DEF catalogueVars
<1> QED
  BY <1>1, <1>2, <1>3, <1>4, <1>5, <1>6, <1>7, <1>8, <1>9, <1>10 DEF CatalogueNext

\* No row is there at the start.
LEMMA CatalogueInitially == CatalogueInit => RowsOK
<1> SUFFICES ASSUME CatalogueInit PROVE RowsOK
    OBVIOUS
<1>1. CatalogueTypeOK
  BY Zenon DEF CatalogueInit, CatalogueTypeOK
<1>2. ProductsKeepTheirCategory
  BY DEF CatalogueInit, ProductsKeepTheirCategory, HasRow
<1> QED
  BY <1>1, <1>2 DEF RowsOK

\* No product, on sale or not, is ever without its category, however moves,
\* creations and deletions by different administrators interleave
\* (CatalogService).
THEOREM ProductsKeepTheirCategoryAlways == CatalogueSpec => []ProductsKeepTheirCategory
<1>1. RowsOK => ProductsKeepTheirCategory
  BY DEF RowsOK
<1> QED
  BY <1>1, CatalogueInitially, CatalogueKept, PTL DEF CatalogueSpec

\* What a phone may order and what is shown to it as such agree, but for what an
\* inactive category hides (validateOrderLines, the public menu).
THEOREM MenuAgreesWithOrdersAlways == CatalogueSpec => []MenuAgreesWithOrders
<1>1. RowsOK => MenuAgreesWithOrders
  <2> SUFFICES ASSUME RowsOK PROVE MenuAgreesWithOrders
      OBVIOUS
  <2>1. 1 \in 1..MaxQuantity
    BY CatalogueAssumption
  <2>2. ASSUME NEW p \in Menu PROVE Rejection(p, 1) = "none"
    <3>1. OnSale(p) /\ MenuState(p) = "orderable"
      BY <2>2 DEF Menu, OnMenu
    <3>2. areaOpen[product[p].area] /\ product[p].available
      BY <3>1 DEF MenuState
    <3> QED
      BY <2>1, <3>1, <3>2, Zenon DEF Rejection
  <2>3. ASSUME NEW p \in Products, Rejection(p, 1) = "none"
        PROVE  p \in Menu \/ category[product[p].category] = FALSE
    <3>1. OnSale(p) /\ areaOpen[product[p].area] /\ product[p].available
      BY <2>1, <2>3 DEF Rejection
    <3>2. HasRow(p) /\ product[p].category \in Categories /\ category[product[p].category] # Nothing
      BY <3>1, Zenon DEF RowsOK, CatalogueTypeOK, ProductRow, OnSale, HasRow, ProductsKeepTheirCategory,
                         HasCategory
    <3>3. category[product[p].category] \in BOOLEAN
      BY <3>2, Zenon DEF RowsOK, CatalogueTypeOK
    <3>4. MenuState(p) = "orderable"
      BY <3>1 DEF MenuState
    <3>5. category[product[p].category] = TRUE \/ category[product[p].category] = FALSE
      BY <3>3, Zenon
    <3> QED
      BY <3>1, <3>4, <3>5, Zenon DEF Menu, OnMenu
  <2> QED
    BY <2>2, <2>3 DEF MenuAgreesWithOrders
<1> QED
  BY <1>1, CatalogueInitially, CatalogueKept, PTL DEF CatalogueSpec

-----------------------------------------------------------------------------
(***************************************************************************)
(* Proofs about CartOrders, for any number of products, carts and lost     *)
(* answers.  An order of the cart that is being filled is known to the     *)
(* phone only while its answer is under way: the count of the orders of a  *)
(* cart exceeds that of its lost answers by one at most, and it does so    *)
(* while the answer is awaited or once the cart has been given up.         *)
(***************************************************************************)

\* An order has its three parts and nothing else.
OrderParts ==
    sending = [lines |-> sending.lines, answer |-> sending.answer, rejected |-> sending.rejected]

\* The number of a cart that phone and server agree to have been ordered.
Acknowledged(n) == IF n < number \/ (n = number /\ sending.answer = "created") THEN 1 ELSE 0

OrdersCounted ==
    \A n \in 1..MaxCarts :
        /\ n > number => orders[n] = 0
        /\ orders[n] <= lost[n] + Acknowledged(n)

CartInv == OrderParts /\ CartOrdersTypeOK /\ OrdersCounted

\* One more of a product, up to the limit, leaves a cart that can be ordered.
LEMMA CartWithOneMore ==
    ASSUME NEW lines, IsCart(lines), NEW p \in Products
    PROVE  IsCart(WithOneMore(lines, p))
<1> DEFINE more == WithOneMore(lines, p)
<1>1. DOMAIN more = DOMAIN lines \cup {p}
  BY DEF WithOneMore
<1>2. MaxQuantity \in Nat \ {0}
  BY CatalogueAssumption
<1>3. ASSUME NEW q \in DOMAIN more
      PROVE  more[q] \in 1..MaxQuantity
  <2>1. CASE q # p
    <3>1. more[q] = lines[q] /\ q \in DOMAIN lines
      BY <1>1, <2>1 DEF WithOneMore
    <3> QED
      BY <3>1 DEF IsCart
  <2>2. CASE q = p /\ p \in DOMAIN lines
    <3>1. more[q] = OneMore(lines[p])
      BY <1>1, <2>2 DEF WithOneMore
    <3>2. lines[p] \in 1..MaxQuantity
      BY <2>2 DEF IsCart
    <3> QED
      BY <1>2, <3>1, <3>2 DEF OneMore
  <2>3. CASE q = p /\ p \notin DOMAIN lines
    <3>1. more[q] = 1
      BY <1>1, <2>3 DEF WithOneMore
    <3> QED
      BY <1>2, <3>1
  <2> QED
    BY <2>1, <2>2, <2>3
<1> HIDE DEF more
<1>4. IsCart(more)
  BY <1>1, <1>3 DEF IsCart
<1> QED
  BY <1>4 DEF more

\* One less of a product takes the line away or leaves one that can be ordered,
\* and the other lines are left.
LEMMA CartWithOneLess ==
    ASSUME NEW lines, IsCart(lines), NEW p
    PROVE  /\ IsCart(WithOneLess(lines, p))
           /\ \A q \in DOMAIN lines : q # p => q \in DOMAIN WithOneLess(lines, p)
<1> DEFINE less == WithOneLess(lines, p)
<1>1. DOMAIN less = {q \in DOMAIN lines : q # p \/ lines[q] > 1}
  BY DEF WithOneLess
<1>2. \A q \in DOMAIN less : less[q] = IF q = p THEN lines[q] - 1 ELSE lines[q]
  BY <1>1 DEF WithOneLess
<1>3. MaxQuantity \in Nat \ {0}
  BY CatalogueAssumption
<1> HIDE DEF less
<1>4. \A q \in DOMAIN less : less[q] \in 1..MaxQuantity
  BY <1>1, <1>2, <1>3 DEF IsCart
<1>5. IsCart(less) /\ \A q \in DOMAIN lines : q # p => q \in DOMAIN less
  BY <1>1, <1>4 DEF IsCart
<1> QED
  BY <1>5 DEF less

\* An empty cart and no order.
LEMMA NothingSent ==
    /\ IsCart(NoLines) /\ DOMAIN NoLines = {}
    /\ Idle = [lines |-> NoLines, answer |-> "none", rejected |-> {}]
    /\ Idle.lines = NoLines /\ Idle.answer = "none" /\ Idle.rejected = {}
<1>1. DOMAIN NoLines = {}
  BY DEF NoLines
<1>2. IsCart(NoLines)
  BY <1>1 DEF IsCart
<1> QED
  BY <1>1, <1>2 DEF Idle

\* The phone has no cart and no order at first.
LEMMA CartInitially == CartOrdersInit => CartInv
<1> SUFFICES ASSUME CartOrdersInit PROVE CartInv
    OBVIOUS
<1>0. MaxCarts \in Nat \ {0}
  BY CartOrdersAssumption
<1>1. /\ page = {} /\ cart = NoLines /\ sending = Idle /\ removed = {} /\ number = 1
      /\ orders = [n \in 1..MaxCarts |-> 0] /\ lost = [n \in 1..MaxCarts |-> 0]
  BY DEF CartOrdersInit
<1>2. OrderParts
  BY <1>1, NothingSent DEF OrderParts
<1>3. CartOrdersTypeOK
  BY <1>0, <1>1, NothingSent DEF CartOrdersTypeOK
<1>4. OrdersCounted
  BY <1>0, <1>1, NothingSent DEF OrdersCounted, Acknowledged
<1> QED
  BY <1>2, <1>3, <1>4 DEF CartInv

\* Nothing is counted while only the cart, the page or the message changes.
LEMMA CartChangeKeeps ==
    ASSUME CartInv, IsCart(cart'), page' \subseteq Products, removed' \subseteq Products,
           UNCHANGED <<sending, number, orders, lost>>
    PROVE  CartInv'
  BY DEF CartInv, OrderParts, CartOrdersTypeOK, OrdersCounted, Acknowledged

\* An answer other than that the order was created counts nothing.
LEMMA AnswerCounts ==
    ASSUME CartInv, OrderParts', IsCart(cart'), IsCart(sending'.lines),
           sending.answer # "created",
           sending'.answer \in {"none", "waiting", "rejected", "refused"},
           sending'.rejected \subseteq DOMAIN sending'.lines,
           page' \subseteq Products, removed' \subseteq Products,
           UNCHANGED <<number, orders, lost>>
    PROVE  CartInv'
<1>1. CartOrdersTypeOK'
  BY DEF CartInv, CartOrdersTypeOK
<1>2. OrdersCounted'
  BY DEF CartInv, OrdersCounted, Acknowledged
<1> QED
  BY <1>1, <1>2 DEF CartInv

\* A created order counts once the server has it, and the phone will know of it.
LEMMA CreateOrderKeeps == ASSUME CartInv, CreateOrder PROVE CartInv'
<1> DEFINE rejected == RejectedOf(sending.lines)
<1>0. /\ OrderParts /\ CartOrdersTypeOK /\ OrdersCounted /\ sending.answer = "waiting"
      /\ UNCHANGED <<page, cart, removed, number, lost>>
  BY DEF CartInv, CreateOrder, pageVars
<1>1. CASE rejected = {}
  <2>1. sending' = [sending EXCEPT !.answer = "created"] /\ orders' = [orders EXCEPT ![number] = @ + 1]
    BY <1>1 DEF CreateOrder
  <2>2. sending' = [lines |-> sending.lines, answer |-> "created", rejected |-> sending.rejected]
    BY <1>0, <2>1 DEF OrderParts
  <2>3. OrderParts'
    BY <2>2 DEF OrderParts
  <2>4. /\ orders' \in [1..MaxCarts -> Nat]
        /\ \A n \in 1..MaxCarts : orders'[n] = IF n = number THEN orders[n] + 1 ELSE orders[n]
    BY <1>0, <2>1 DEF CartOrdersTypeOK
  <2>5. CartOrdersTypeOK'
    BY <1>0, <2>2, <2>4 DEF CartOrdersTypeOK
  <2>6. OrdersCounted'
    BY <1>0, <2>2, <2>4 DEF CartOrdersTypeOK, OrdersCounted, Acknowledged
  <2> QED
    BY <2>3, <2>5, <2>6 DEF CartInv
<1>2. CASE rejected # {}
  <2>1. sending' = [sending EXCEPT !.answer = "rejected", !.rejected = rejected] /\ UNCHANGED orders
    BY <1>2 DEF CreateOrder
  <2>2. sending' = [lines |-> sending.lines, answer |-> "rejected", rejected |-> rejected]
    BY <1>0, <2>1 DEF OrderParts
  <2>3. rejected \subseteq DOMAIN sending.lines
    BY DEF RejectedOf
  <2> HIDE DEF rejected
  <2>4. OrderParts'
    BY <2>2 DEF OrderParts
  <2> QED
    BY <1>0, <2>1, <2>2, <2>3, <2>4, AnswerCounts DEF CartOrdersTypeOK
<1> QED
  BY <1>1, <1>2

\* Giving an order up counts a lost answer when there was an order to answer for.
LEMMA DropKeeps ==
    ASSUME CartInv, Drop, page' \subseteq Products, removed' \subseteq Products,
           UNCHANGED <<cart, number, orders>>
    PROVE  CartInv'
<1>0. OrderParts /\ CartOrdersTypeOK /\ OrdersCounted
  BY DEF CartInv
<1>1. sending' = Idle
  BY DEF Drop
<1>2. OrderParts' /\ IsCart(sending'.lines) /\ sending'.answer = "none" /\ sending'.rejected = {}
  BY <1>1, NothingSent DEF OrderParts
<1>3. CASE sending.answer = "created"
  <2>1. lost' = [lost EXCEPT ![number] = @ + 1]
    BY <1>3 DEF Drop
  <2>2. /\ lost' \in [1..MaxCarts -> Nat]
        /\ \A n \in 1..MaxCarts : lost'[n] = IF n = number THEN lost[n] + 1 ELSE lost[n]
    BY <1>0, <2>1 DEF CartOrdersTypeOK
  <2>3. CartOrdersTypeOK'
    BY <1>0, <1>2, <2>2 DEF CartOrdersTypeOK
  <2>4. OrdersCounted'
    BY <1>0, <1>2, <1>3, <2>2 DEF CartOrdersTypeOK, OrdersCounted, Acknowledged
  <2> QED
    BY <1>2, <2>3, <2>4 DEF CartInv
<1>4. CASE sending.answer # "created"
  BY <1>0, <1>2, <1>4, AnswerCounts DEF Drop, CartOrdersTypeOK
<1> QED
  BY <1>3, <1>4

\* The phone knows the order, and the next cart has none.
LEMMA ReceiveCreatedKeeps == ASSUME CartInv, ReceiveCreated PROVE CartInv'
<1>0. /\ OrderParts /\ CartOrdersTypeOK /\ OrdersCounted
      /\ sending.answer = "created" /\ number < MaxCarts
      /\ cart' = NoLines /\ sending' = Idle /\ number' = number + 1
      /\ UNCHANGED <<page, removed, orders, lost>>
  BY DEF CartInv, ReceiveCreated
<1>1. /\ OrderParts' /\ IsCart(sending'.lines) /\ IsCart(cart')
      /\ sending'.answer = "none" /\ sending'.rejected = {}
  BY <1>0, NothingSent DEF OrderParts
<1>2. MaxCarts \in Nat
  BY CartOrdersAssumption
<1>3. CartOrdersTypeOK'
  BY <1>0, <1>1, <1>2 DEF CartOrdersTypeOK
<1>4. OrdersCounted'
  BY <1>0, <1>1, <1>2 DEF CartOrdersTypeOK, OrdersCounted, Acknowledged
<1> QED
  BY <1>1, <1>3, <1>4 DEF CartInv

\* Every step of the phone, and of those who edit the catalogue.
LEMMA CartKept == CartInv /\ [CartOrdersNext]_cartOrdersVars => CartInv'
<1> SUFFICES ASSUME CartInv, [CartOrdersNext]_cartOrdersVars PROVE CartInv'
    OBVIOUS
<1>0. OrderParts /\ CartOrdersTypeOK /\ OrdersCounted
  BY DEF CartInv
<1>1. ASSUME NEW p \in Products, AddToCart(p) PROVE CartInv'
  BY <1>0, <1>1, CartWithOneMore, CartChangeKeeps DEF AddToCart, CartOrdersTypeOK
<1>2. ASSUME NEW p \in Products, RemoveFromCart(p) PROVE CartInv'
  BY <1>0, <1>2, CartWithOneLess, CartChangeKeeps DEF RemoveFromCart, CartOrdersTypeOK
<1>3. CASE SendOrder
  <2>1. sending = Idle /\ sending' = [lines |-> cart, answer |-> "waiting", rejected |-> {}]
    BY <1>3, NothingSent DEF SendOrder, OffersOrder
  <2>2. OrderParts'
    BY <2>1 DEF OrderParts
  <2> QED
    BY <1>0, <1>3, <2>1, <2>2, NothingSent, AnswerCounts DEF SendOrder, CartOrdersTypeOK
<1>4. CASE RefuseOrder
  <2>1. sending' = [lines |-> sending.lines, answer |-> "refused", rejected |-> sending.rejected]
    BY <1>0, <1>4 DEF RefuseOrder, OrderParts
  <2>2. OrderParts'
    BY <2>1 DEF OrderParts
  <2> QED
    BY <1>0, <1>4, <2>1, <2>2, AnswerCounts DEF RefuseOrder, CartOrdersTypeOK
<1>5. CASE ReceiveRejected
  <2>1. OrderParts' /\ IsCart(sending'.lines) /\ sending'.answer = "none" /\ sending'.rejected = {}
    BY <1>5, NothingSent DEF ReceiveRejected, OrderParts
  <2>2. IsCart(cart')
    BY <1>0, <1>5, CartWithOneLess DEF ReceiveRejected, CartWithout, CartOrdersTypeOK
  <2>3. removed' \subseteq Products
    BY <1>0, <1>5 DEF ReceiveRejected, CartOrdersTypeOK, IsCart
  <2> QED
    BY <1>0, <1>5, <2>1, <2>2, <2>3, AnswerCounts DEF ReceiveRejected, CartOrdersTypeOK
<1>6. CASE ReceiveRefused
  <2>1. OrderParts' /\ IsCart(sending'.lines) /\ sending'.answer = "none" /\ sending'.rejected = {}
    BY <1>6, NothingSent DEF ReceiveRefused, OrderParts
  <2> QED
    BY <1>0, <1>6, <2>1, AnswerCounts DEF ReceiveRefused, CartOrdersTypeOK
<1>7. CASE LoseOrder
  BY <1>0, <1>7, DropKeeps DEF LoseOrder, CartOrdersTypeOK
<1>8. CASE Reload
  <2>1. page' \subseteq Products /\ removed' = {}
    BY <1>8 DEF Reload, Menu
  <2> QED
    BY <1>8, <2>1, DropKeeps DEF Reload
<1>9. CASE UNCHANGED pageVars
  BY <1>0, <1>9, CartChangeKeeps DEF pageVars, CartOrdersTypeOK
<1> QED
  BY <1>1, <1>2, <1>3, <1>4, <1>5, <1>6, <1>7, <1>8, <1>9, CreateOrderKeeps, ReceiveCreatedKeeps
  DEF CartOrdersNext, PhoneStep, cartOrdersVars

\* The phone changes nothing of the catalogue.
LEMMA CatalogueInCart == CartOrdersNext => [CatalogueNext]_catalogueVars
<1>1. ASSUME NEW p \in Products, AddToCart(p) \/ RemoveFromCart(p) PROVE UNCHANGED catalogueVars
  BY <1>1 DEF AddToCart, RemoveFromCart
<1>2. SendOrder => UNCHANGED catalogueVars
  BY DEF SendOrder
<1>3. CreateOrder => UNCHANGED catalogueVars
  BY DEF CreateOrder
<1>4. RefuseOrder => UNCHANGED catalogueVars
  BY DEF RefuseOrder
<1>5. ReceiveCreated => UNCHANGED catalogueVars
  BY DEF ReceiveCreated
<1>6. ReceiveRejected => UNCHANGED catalogueVars
  BY DEF ReceiveRejected
<1>7. ReceiveRefused => UNCHANGED catalogueVars
  BY DEF ReceiveRefused
<1>8. LoseOrder => UNCHANGED catalogueVars
  BY DEF LoseOrder
<1>9. Reload => UNCHANGED catalogueVars
  BY DEF Reload
<1> QED
  BY <1>1, <1>2, <1>3, <1>4, <1>5, <1>6, <1>7, <1>8, <1>9 DEF CartOrdersNext, PhoneStep

\* No cart and no order ever holds more of a product than the server accepts,
\* with any number of presses and rejections (cart.ts).
THEOREM CartStaysWithinLimits == CartOrdersSpec => []CartOrdersTypeOK
<1>1. CartInv => CartOrdersTypeOK
  BY DEF CartInv
<1> QED
  BY <1>1, CartInitially, CartKept, PTL DEF CartOrdersSpec

\* A cart is ordered as often as the phone knows of and once more for every
\* answer that was lost, for any number of carts and orders (sendOrder).
THEOREM OrderedTwiceOnlyUnansweredAlways == CartOrdersSpec => []OrderedTwiceOnlyUnanswered
<1>1. CartInv => OrderedTwiceOnlyUnanswered
  BY DEF CartInv, OrdersCounted, Acknowledged, OrderedTwiceOnlyUnanswered, CartOrdersTypeOK
<1> QED
  BY <1>1, CartInitially, CartKept, PTL DEF CartOrdersSpec

LeavesOrdered ==
    \A p \in InCart \ DOMAIN cart' :
         \/ sending = Idle \/ sending' = sending
         \/ p \notin DOMAIN sending.lines
         \/ sending.answer = "created" \/ p \in removed'

\* Only the two answers that say what became of the order take lines away while
\* one is under way.
LEMMA LeftOrdered == CartInv /\ [CartOrdersNext]_cartOrdersVars => LeavesOrdered
<1> SUFFICES ASSUME CartInv, [CartOrdersNext]_cartOrdersVars, NEW p \in InCart \ DOMAIN cart',
                    sending # Idle, sending' # sending, p \in DOMAIN sending.lines,
                    sending.answer # "created"
             PROVE  p \in removed'
  BY DEF LeavesOrdered
<1>1. cart' # cart
  BY DEF InCart
<1>2. ReceiveRejected
  BY <1>1 DEF CartOrdersNext, PhoneStep, cartOrdersVars, pageVars, AddToCart, RemoveFromCart, SendOrder,
              OffersOrder, CreateOrder, RefuseOrder, ReceiveCreated, ReceiveRefused, LoseOrder, Reload
<1>3. PICK last \in sending.rejected : cart' = WithOneLess(sending.lines, last)
  BY <1>2 DEF ReceiveRejected, CartWithout
<1>4. p = last
  BY <1>3, CartWithOneLess DEF CartInv, CartOrdersTypeOK
<1> QED
  BY <1>2, <1>4 DEF ReceiveRejected

\* What was sent leaves the cart only ordered or named as removed, for any cart
\* (the answers that menu-view.tsx handles).
THEOREM NothingLeavesUnorderedAlways == CartOrdersSpec => NothingLeavesUnordered
<1>1. CartInv /\ [CartOrdersNext]_cartOrdersVars => [LeavesOrdered]_cartOrdersVars
  BY LeftOrdered
<1>2. CartOrdersSpec => [][LeavesOrdered]_cartOrdersVars
  BY <1>1, CartInitially, CartKept, PTL DEF CartOrdersSpec
<1> QED
  BY <1>2 DEF NothingLeavesUnordered, LeavesOrdered

-----------------------------------------------------------------------------
(***************************************************************************)
(* Proofs about TableAccess, for any number of phones, rows and minutes.   *)
(* A device never has a request that waits and a later one, so the two     *)
(* rejections of a device come before whatever it asks next; the second    *)
(* of them has left a block, and that block is what the request meets.     *)
(***************************************************************************)

RowsInThePast == \A i \in DOMAIN asked : asked[i].at <= minute /\ asked[i].resolvedAt <= minute

\* A device asks again only when its last request is settled.
LaterAsksFindNoneWaiting ==
    \A i, k \in DOMAIN asked : i < k /\ asked[i].device = asked[k].device => asked[i].status # "pending"

RejectedTogether(i, j) ==
    /\ i # j
    /\ asked[i].status = "rejected" /\ asked[j].status = "rejected"
    /\ asked[i].device = asked[j].device
    /\ asked[j].resolvedAt - asked[i].resolvedAt \in 0..RejectionWindow - 1

BlockedAfterTwo ==
    \A i, j \in DOMAIN asked : RejectedTogether(i, j) =>
        \E b \in blocks : b.device = asked[j].device /\ b.until = asked[j].resolvedAt + BlockTime

AccessInv ==
    /\ TableAccessTypeOK /\ RowsInThePast /\ LaterAsksFindNoneWaiting
    /\ BlockedAfterTwo /\ RejectedTwiceIsQuiet /\ TableIsNotFlooded

\* The requests as a function on an interval.
LEMMA RowsOfAsked ==
    ASSUME TableAccessTypeOK
    PROVE  /\ Len(asked) \in Nat /\ DOMAIN asked = 1..Len(asked)
           /\ \A i \in DOMAIN asked : asked[i] \in Asked
           /\ minute \in Nat
  BY LenProperties, ElementOfSeq, TableAccessAssumption DEF TableAccessTypeOK

\* What the limits and times are.
LEMMA BoundsAreNumbers ==
    /\ RequestTTL \in Nat /\ TableLimit \in Nat /\ LimitWindow \in Nat
    /\ RejectionWindow \in Nat /\ BlockTime \in Nat /\ MaxMinutes \in Nat /\ MaxAsked \in Nat
    /\ BlockAfter \in 1..2
  BY TableAccessAssumption

\* A set of requests has a number of elements.
LEMMA AskedIsFinite ==
    ASSUME TableAccessTypeOK
    PROVE  \A S : S \subseteq DOMAIN asked => IsFiniteSet(S) /\ Cardinality(S) \in Nat
<1>1. IsFiniteSet(DOMAIN asked)
  BY RowsOfAsked, FS_Interval
<1> QED
  BY <1>1, FS_Subset, FS_CardinalityType

\* A request that is settled keeps its device, its type and its time.
LEMMA ResolvedRow ==
    ASSUME NEW row \in Asked, NEW status \in {"approved", "rejected", "expired"}, minute \in Nat
    PROVE  /\ Resolved(row, status) \in Asked
           /\ Resolved(row, status).status = status
           /\ Resolved(row, status).device = row.device /\ Resolved(row, status).type = row.type
           /\ Resolved(row, status).at = row.at
           /\ Resolved(row, status).resolvedAt = IF status = "rejected" THEN minute ELSE 0
  BY DEF Resolved, Asked

\* No request before the first.
LEMMA AccessInitially == TableAccessInit => AccessInv
<1> SUFFICES ASSUME TableAccessInit PROVE AccessInv
    OBVIOUS
<1>1. asked \in Seq(Asked) /\ DOMAIN asked = {}
  BY EmptySeq, LenProperties DEF TableAccessInit
<1>2. minute = 0 /\ live = "none" /\ enabled = TRUE /\ blocks = {} /\ known = 0
      /\ cookie = [p \in Phones |-> 0]
  BY DEF TableAccessInit
<1>3. cookie \in [Phones -> 0..known]
  BY <1>2
<1>4. 0 \in 0..MaxMinutes /\ 0 \in 0..MaxAsked
  BY BoundsAreNumbers
<1>5. enabled \in BOOLEAN /\ live \in {"none", "active", "inactive"} /\ blocks \subseteq BlockRow
  BY <1>2, Zenon
<1>6. TableAccessTypeOK
  BY <1>1, <1>2, <1>3, <1>4, <1>5, Zenon DEF TableAccessTypeOK
<1>7. RowsInThePast /\ LaterAsksFindNoneWaiting /\ BlockedAfterTwo /\ RejectedTwiceIsQuiet
  BY <1>1 DEF RowsInThePast, LaterAsksFindNoneWaiting, BlockedAfterTwo, RejectedTwiceIsQuiet
<1>8. TableIsNotFlooded
  <2>1. \A from \in 0..minute :
            {i \in DOMAIN asked : asked[i].type = "open_session"
                                  /\ asked[i].at \in from..from + LimitWindow - 1} = {}
    BY <1>1
  <2> QED
    BY <2>1, FS_EmptySet, BoundsAreNumbers DEF TableIsNotFlooded
<1> QED
  BY <1>6, <1>7, <1>8 DEF AccessInv

\* Settling requests does not change how many were made in a window.
LEMMA FloodUnchanged ==
    ASSUME TableIsNotFlooded, UNCHANGED minute, DOMAIN asked' = DOMAIN asked,
           \A i \in DOMAIN asked : asked'[i].type = asked[i].type /\ asked'[i].at = asked[i].at
    PROVE  TableIsNotFlooded'
<1> SUFFICES ASSUME NEW from \in 0..minute
             PROVE  Cardinality({i \in DOMAIN asked' : asked'[i].type = "open_session"
                                 /\ asked'[i].at \in from..from + LimitWindow - 1}) <= TableLimit
  BY DEF TableIsNotFlooded
<1>1. {i \in DOMAIN asked' : asked'[i].type = "open_session" /\ asked'[i].at \in from..from + LimitWindow - 1}
      = {i \in DOMAIN asked : asked[i].type = "open_session" /\ asked[i].at \in from..from + LimitWindow - 1}
  OBVIOUS
<1> QED
  BY <1>1 DEF TableIsNotFlooded

\* Requests that are approved or expire: none is rejected by it.
LEMMA SettledKeeps ==
    ASSUME AccessInv, DOMAIN asked' = DOMAIN asked, asked' \in [DOMAIN asked -> Asked],
           \A i \in DOMAIN asked :
              asked'[i] # asked[i] =>
                 /\ asked[i].status = "pending"
                 /\ asked'[i] = Resolved(asked[i], "approved") \/ asked'[i] = Resolved(asked[i], "expired"),
           live' \in {"none", "active", "inactive"}, UNCHANGED <<minute, enabled, blocks, known, cookie>>
    PROVE  AccessInv'
<1>0. TableAccessTypeOK
  BY DEF AccessInv
<1>1. Len(asked) \in Nat /\ DOMAIN asked = 1..Len(asked) /\ minute \in Nat
      /\ \A i \in DOMAIN asked : asked[i] \in Asked
  BY <1>0, RowsOfAsked
<1>2. asked' \in Seq(Asked)
  BY <1>1, SeqDef
<1>3. TableAccessTypeOK'
  BY <1>0, <1>2 DEF TableAccessTypeOK
<1>4. \A i \in DOMAIN asked :
          /\ asked'[i].device = asked[i].device /\ asked'[i].type = asked[i].type /\ asked'[i].at = asked[i].at
          /\ asked'[i].resolvedAt = asked[i].resolvedAt \/ asked'[i].resolvedAt = 0
          /\ asked'[i].status = "pending" => asked[i].status = "pending"
          /\ asked'[i].status = "rejected" => asked'[i] = asked[i]
  BY <1>1, ResolvedRow
<1>5. RowsInThePast'
  BY <1>1, <1>4 DEF AccessInv, RowsInThePast
<1>6. LaterAsksFindNoneWaiting'
  BY <1>4 DEF AccessInv, LaterAsksFindNoneWaiting
<1>7. BlockedAfterTwo'
  BY <1>4 DEF AccessInv, BlockedAfterTwo, RejectedTogether
<1>8. RejectedTwiceIsQuiet'
  <2> SUFFICES ASSUME NEW i \in DOMAIN asked, NEW j \in DOMAIN asked, NEW k \in DOMAIN asked,
                      i # j, {asked'[i].status, asked'[j].status} = {"rejected"},
                      asked'[i].device = asked'[j].device, asked'[k].device = asked'[j].device,
                      asked'[j].resolvedAt - asked'[i].resolvedAt \in 0..RejectionWindow - 1,
                      k > i, k > j, asked'[k].type = "open_session"
               PROVE  asked'[k].at >= asked'[j].resolvedAt + BlockTime
    BY DEF RejectedTwiceIsQuiet
  <2>1. asked'[i].status = "rejected" /\ asked'[j].status = "rejected"
    OBVIOUS
  <2>2. asked'[i] = asked[i] /\ asked'[j] = asked[j]
    BY <1>4, <2>1
  <2>3. {asked[i].status, asked[j].status} = {"rejected"}
    BY <2>1, <2>2
  <2>4. /\ asked[i].device = asked[j].device
        /\ asked[j].resolvedAt - asked[i].resolvedAt \in 0..RejectionWindow - 1
    BY <2>2
  <2>5. /\ asked'[k].device = asked[k].device /\ asked'[k].type = asked[k].type
        /\ asked'[k].at = asked[k].at
    BY <1>4
  <2>6. asked[k].device = asked[j].device /\ asked[k].type = "open_session"
    BY <2>2, <2>5
  <2>7. asked[k].at >= asked[j].resolvedAt + BlockTime
    BY <2>3, <2>4, <2>6 DEF AccessInv, RejectedTwiceIsQuiet
  <2> QED
    BY <2>2, <2>5, <2>7
<1>9. TableIsNotFlooded'
  BY <1>4, FloodUnchanged DEF AccessInv
<1> QED
  BY <1>3, <1>5, <1>6, <1>7, <1>8, <1>9 DEF AccessInv

\* A rejection that makes two together leaves a block from now, and none of the
\* later requests of its device is there yet.
LEMMA RejectKeeps == ASSUME AccessInv, NEW x \in DOMAIN asked, Reject(x) PROVE AccessInv'
<1> DEFINE row == Resolved(asked[x], "rejected")
           d == asked[x].device
<1>0. TableAccessTypeOK /\ UNCHANGED <<minute, live, enabled, known, cookie>> /\ asked[x].status = "pending"
  BY DEF AccessInv, Reject
<1>1. Len(asked) \in Nat /\ DOMAIN asked = 1..Len(asked) /\ minute \in Nat
      /\ \A i \in DOMAIN asked : asked[i] \in Asked
  BY <1>0, RowsOfAsked
<1>2. /\ row \in Asked /\ row.status = "rejected" /\ row.resolvedAt = minute
      /\ row.device = d /\ row.type = asked[x].type /\ row.at = asked[x].at
  BY <1>1, ResolvedRow
<1>3. asked' = [asked EXCEPT ![x] = row]
  BY DEF Reject
<1>4. /\ asked' \in Seq(Asked) /\ DOMAIN asked' = DOMAIN asked /\ asked'[x] = row
      /\ \A i \in DOMAIN asked \ {x} : asked'[i] = asked[i]
  <2> HIDE DEF row
  <2>1. asked \in Seq(Asked)
    BY <1>0 DEF TableAccessTypeOK
  <2>2. /\ asked' \in Seq(Asked) /\ Len(asked') = Len(asked)
        /\ \A i \in 1..Len(asked) : asked'[i] = IF i = x THEN row ELSE asked[i]
    BY <1>1, <1>2, <1>3, <2>1, ExceptSeq
  <2>3. DOMAIN asked' = DOMAIN asked
    BY <1>1, <2>2, LenProperties
  <2> QED
    BY <1>1, <2>2, <2>3
<1> HIDE DEF row
<1>5. d \in 1..MaxAsked /\ minute + BlockTime \in Nat
  BY <1>1, BoundsAreNumbers DEF Asked
<1>6. blocks \subseteq blocks' /\ blocks' \subseteq BlockRow
  <2>1. [device |-> d, until |-> minute + BlockTime] \in BlockRow
    BY <1>5 DEF BlockRow
  <2> QED
    BY <1>0, <2>1 DEF Reject, TableAccessTypeOK
<1>7. TableAccessTypeOK'
  BY <1>0, <1>4, <1>6 DEF TableAccessTypeOK
<1>8. RowsInThePast' /\ LaterAsksFindNoneWaiting'
  BY <1>0, <1>1, <1>2, <1>4 DEF AccessInv, RowsInThePast, LaterAsksFindNoneWaiting
<1>9. BlockedAfterTwo'
  <2> SUFFICES ASSUME NEW i \in DOMAIN asked, NEW j \in DOMAIN asked, RejectedTogether(i, j)'
               PROVE  \E b \in blocks' : b.device = asked'[j].device /\ b.until = asked'[j].resolvedAt + BlockTime
    BY <1>4 DEF BlockedAfterTwo
  <2>1. CASE i # x /\ j # x
    BY <1>4, <1>6, <2>1 DEF AccessInv, BlockedAfterTwo, RejectedTogether
  <2>2. CASE i = x \/ j = x
    <3> DEFINE mine == Rejections(asked', d)
    <3>1. /\ asked'[i].device = d /\ asked'[j].device = d /\ i # j
          /\ asked'[i].status = "rejected" /\ asked'[j].status = "rejected"
          /\ asked'[j].resolvedAt - asked'[i].resolvedAt \in 0..RejectionWindow - 1
      BY <1>2, <1>4, <2>2 DEF RejectedTogether
    <3>2. /\ asked'[i].resolvedAt \in Nat /\ asked'[j].resolvedAt \in Nat
          /\ asked'[i].resolvedAt <= minute /\ asked'[j].resolvedAt <= minute
      <4>1. \A y \in DOMAIN asked : asked[y].resolvedAt \in Nat /\ asked[y].resolvedAt <= minute
        BY <1>1 DEF AccessInv, RowsInThePast, Asked
      <4>2. \A y \in DOMAIN asked : asked'[y].resolvedAt \in Nat /\ asked'[y].resolvedAt <= minute
        BY <1>1, <1>2, <1>4, <4>1
      <4> QED
        BY <4>2
    <3>3. asked'[j].resolvedAt = minute /\ asked'[i].resolvedAt > minute - RejectionWindow
          /\ RejectionWindow > 0
      BY <1>1, <1>2, <1>4, <2>2, <3>1, <3>2, BoundsAreNumbers
    <3>4. {i, j} \subseteq mine /\ mine \subseteq DOMAIN asked
      BY <1>1, <1>4, <3>1, <3>3, BoundsAreNumbers DEF Rejections
    <3>5. Cardinality(mine) \in Nat /\ IsFiniteSet(mine)
      BY <1>0, <3>4, AskedIsFinite
    <3>6. Cardinality({i, j}) = 2
      <4>1. IsFiniteSet({i}) /\ Cardinality({i}) = 1
        BY FS_Singleton
      <4>2. Cardinality({i} \cup {j}) = 2
        <5>1. j \notin {i}
          BY <3>1
        <5>2. Cardinality({i} \cup {j}) = Cardinality({i}) + 1
          BY <4>1, <5>1, FS_AddElement, Zenon
        <5> QED
          BY <4>1, <5>2
      <4>3. {i} \cup {j} = {i, j}
        OBVIOUS
      <4> QED
        BY <4>2, <4>3
    <3>7. Cardinality(mine) >= 2
      BY <3>4, <3>5, <3>6, FS_Subset
    <3>8. ShouldBlockDevice(mine)
      BY <3>5, <3>7, BoundsAreNumbers DEF ShouldBlockDevice
    <3> HIDE DEF mine
    <3>9. [device |-> d, until |-> minute + BlockTime] \in blocks'
      BY <3>8 DEF Reject, mine
    <3> QED
      BY <3>1, <3>3, <3>9
  <2> QED
    BY <2>1, <2>2
<1>10. RejectedTwiceIsQuiet'
  <2> SUFFICES ASSUME NEW i \in DOMAIN asked, NEW j \in DOMAIN asked, NEW k \in DOMAIN asked,
                      i # j, {asked'[i].status, asked'[j].status} = {"rejected"},
                      asked'[i].device = asked'[j].device, asked'[k].device = asked'[j].device,
                      asked'[j].resolvedAt - asked'[i].resolvedAt \in 0..RejectionWindow - 1,
                      k > i, k > j, asked'[k].type = "open_session"
               PROVE  asked'[k].at >= asked'[j].resolvedAt + BlockTime
    BY <1>4 DEF RejectedTwiceIsQuiet
  <2>1. \A y \in DOMAIN asked : asked'[y].device = asked[y].device /\ asked'[y].type = asked[y].type
                                /\ asked'[y].at = asked[y].at
    BY <1>2, <1>4
  <2>2. i # x /\ j # x
    BY <1>0, <1>1, <2>1 DEF AccessInv, LaterAsksFindNoneWaiting
  <2>3. asked'[i] = asked[i] /\ asked'[j] = asked[j]
    BY <1>4, <2>2
  <2> QED
    BY <2>1, <2>3 DEF AccessInv, RejectedTwiceIsQuiet
<1>11. TableIsNotFlooded'
  BY <1>0, <1>2, <1>4, FloodUnchanged DEF AccessInv
<1> QED
  BY <1>7, <1>8, <1>9, <1>10, <1>11 DEF AccessInv

\* What becomes of the limit when a request for a session is added now: a
\* window that the request falls into holds, of the others, no more than those
\* that the limit counted.
LEMMA FloodAfterAsk ==
    ASSUME AccessInv, UNCHANGED minute, Cardinality(InLimitWindow) < TableLimit,
           NEW x, x \notin DOMAIN asked, DOMAIN asked' = DOMAIN asked \cup {x}, asked'[x].at = minute,
           \A i \in DOMAIN asked : asked'[i] = asked[i]
    PROVE  TableIsNotFlooded'
<1>0. TableAccessTypeOK /\ minute \in Nat /\ \A i \in DOMAIN asked : asked[i].at \in Nat
  BY RowsOfAsked DEF AccessInv, Asked
<1> SUFFICES ASSUME NEW from \in 0..minute
             PROVE  Cardinality({i \in DOMAIN asked' : asked'[i].type = "open_session"
                                 /\ asked'[i].at \in from..from + LimitWindow - 1}) <= TableLimit
  BY DEF TableIsNotFlooded
<1> DEFINE before == {i \in DOMAIN asked : asked[i].type = "open_session"
                                           /\ asked[i].at \in from..from + LimitWindow - 1}
           after == {i \in DOMAIN asked' : asked'[i].type = "open_session"
                                           /\ asked'[i].at \in from..from + LimitWindow - 1}
<1>1. after \subseteq before \cup {x}
  OBVIOUS
<1>2. IsFiniteSet(before) /\ Cardinality(before) \in Nat /\ IsFiniteSet(InLimitWindow)
      /\ Cardinality(InLimitWindow) \in Nat
  BY <1>0, AskedIsFinite DEF InLimitWindow
<1>3. Cardinality(before) <= TableLimit
  BY DEF AccessInv, TableIsNotFlooded
<1>4. CASE x \notin after
  <2>1. after \subseteq before
    BY <1>1, <1>4
  <2> QED
    BY <1>2, <1>3, <2>1, FS_Subset, FS_CardinalityType, BoundsAreNumbers
<1>5. CASE x \in after
  <2>1. minute \in from..from + LimitWindow - 1
    BY <1>5
  <2>2. before \subseteq InLimitWindow
    BY <1>0, <2>1, BoundsAreNumbers DEF InLimitWindow
  <2> HIDE DEF before, after
  <2>3. Cardinality(before) <= Cardinality(InLimitWindow)
    BY <1>2, <2>2, FS_Subset
  <2>4. /\ IsFiniteSet(before \cup {x})
        /\ Cardinality(before \cup {x}) <= Cardinality(before) + 1
    BY <1>2, FS_AddElement
  <2>5. Cardinality(after) <= Cardinality(before \cup {x}) /\ Cardinality(after) \in Nat
        /\ Cardinality(before \cup {x}) \in Nat
    BY <1>1, <2>4, FS_Subset, FS_CardinalityType
  <2>6. Cardinality(after) <= TableLimit
    BY <1>2, <2>3, <2>4, <2>5, BoundsAreNumbers
  <2> QED
    BY <2>6 DEF after
<1> QED
  BY <1>4, <1>5

\* A row that is added waits; a request for a session is added only by a device
\* that no block holds, and within the limit.
LEMMA AskKeeps ==
    ASSUME AccessInv, NEW d \in 1..MaxAsked, NEW type \in {"open_session", "resume_session"},
           Ask(d, type), Pending(d) = {},
           type = "open_session" => ~Blocked(d) /\ Cardinality(InLimitWindow) < TableLimit,
           UNCHANGED <<minute, live, enabled, blocks>>, known' \in 0..MaxAsked,
           cookie' \in [Phones -> 0..known']
    PROVE  AccessInv'
<1> DEFINE row == [device |-> d, type |-> type, at |-> minute, status |-> "pending", resolvedAt |-> 0]
           x == Len(asked) + 1
<1>0. TableAccessTypeOK
  BY DEF AccessInv
<1>1. Len(asked) \in Nat /\ DOMAIN asked = 1..Len(asked) /\ minute \in Nat
      /\ \A i \in DOMAIN asked : asked[i] \in Asked
  BY <1>0, RowsOfAsked
<1>2. row \in Asked
  BY <1>1 DEF Asked
<1>3. /\ asked' \in Seq(Asked) /\ DOMAIN asked' = DOMAIN asked \cup {x} /\ x \notin DOMAIN asked
      /\ asked'[x] = row /\ \A i \in DOMAIN asked : asked'[i] = asked[i] /\ i < x
  <2> HIDE DEF row
  <2>1. asked' = Append(asked, row) /\ asked \in Seq(Asked)
    BY <1>0 DEF Ask, TableAccessTypeOK, row
  <2>2. /\ asked' \in Seq(Asked) /\ Len(asked') = Len(asked) + 1
        /\ asked'[Len(asked) + 1] = row
        /\ \A i \in 1..Len(asked) : asked'[i] = asked[i]
    BY <1>2, <2>1, AppendProperties
  <2>3. DOMAIN asked' = 1..(Len(asked) + 1)
    BY <2>2, LenProperties
  <2> QED
    BY <1>1, <2>2, <2>3
<1>4. TableAccessTypeOK'
  BY <1>0, <1>3 DEF TableAccessTypeOK
<1> HIDE DEF x
<1>5. RowsInThePast'
  BY <1>1, <1>3 DEF AccessInv, RowsInThePast
<1>6. LaterAsksFindNoneWaiting'
  <2> SUFFICES ASSUME NEW i \in DOMAIN asked', NEW k \in DOMAIN asked', i < k,
                      asked'[i].device = asked'[k].device
               PROVE  asked'[i].status # "pending"
    BY DEF LaterAsksFindNoneWaiting
  <2>1. i \in DOMAIN asked
    BY <1>1, <1>3 DEF x
  <2>2. CASE k = x
    BY <1>3, <2>1, <2>2 DEF Pending
  <2>3. CASE k # x
    BY <1>3, <2>1, <2>3 DEF AccessInv, LaterAsksFindNoneWaiting
  <2> QED
    BY <2>2, <2>3
<1>7. BlockedAfterTwo'
  BY <1>3 DEF AccessInv, BlockedAfterTwo, RejectedTogether
<1>8. RejectedTwiceIsQuiet'
  <2> SUFFICES ASSUME NEW i \in DOMAIN asked', NEW j \in DOMAIN asked', NEW k \in DOMAIN asked',
                      i # j, {asked'[i].status, asked'[j].status} = {"rejected"},
                      asked'[i].device = asked'[j].device, asked'[k].device = asked'[j].device,
                      asked'[j].resolvedAt - asked'[i].resolvedAt \in 0..RejectionWindow - 1,
                      k > i, k > j, asked'[k].type = "open_session"
               PROVE  asked'[k].at >= asked'[j].resolvedAt + BlockTime
    BY DEF RejectedTwiceIsQuiet
  <2>1. i \in DOMAIN asked /\ j \in DOMAIN asked /\ asked'[i] = asked[i] /\ asked'[j] = asked[j]
    <3>1. asked'[i].status = "rejected" /\ asked'[j].status = "rejected"
      OBVIOUS
    <3> QED
      BY <1>3, <3>1
  <2>2. CASE k = x
    <3>1. type = "open_session" /\ asked'[k].at = minute /\ asked[j].device = d
      BY <1>3, <2>1, <2>2
    <3>2. RejectedTogether(i, j)
      BY <2>1 DEF RejectedTogether
    <3>3. PICK b \in blocks : b.device = d /\ b.until = asked[j].resolvedAt + BlockTime
      BY <2>1, <3>1, <3>2 DEF AccessInv, BlockedAfterTwo
    <3>4. ~(b.until > minute)
      BY <3>1, <3>3 DEF Blocked
    <3>5. b.until \in Nat
      BY <1>0, <3>3 DEF TableAccessTypeOK, BlockRow
    <3> QED
      BY <1>1, <2>1, <3>1, <3>3, <3>4, <3>5
  <2>3. CASE k # x
    BY <1>3, <2>1, <2>3 DEF AccessInv, RejectedTwiceIsQuiet
  <2> QED
    BY <2>2, <2>3
<1>9. TableIsNotFlooded'
  <2>1. CASE type = "open_session"
    BY <1>3, <2>1, FloodAfterAsk
  <2>2. CASE type = "resume_session"
    <3> SUFFICES ASSUME NEW from \in 0..minute
                 PROVE  Cardinality({i \in DOMAIN asked' : asked'[i].type = "open_session"
                                     /\ asked'[i].at \in from..from + LimitWindow - 1}) <= TableLimit
      BY DEF TableIsNotFlooded
    <3>1. {i \in DOMAIN asked' : asked'[i].type = "open_session" /\ asked'[i].at \in from..from + LimitWindow - 1}
          = {i \in DOMAIN asked : asked[i].type = "open_session" /\ asked[i].at \in from..from + LimitWindow - 1}
      BY <1>3, <2>2
    <3> QED
      BY <3>1 DEF AccessInv, TableIsNotFlooded
  <2> QED
    BY <2>1, <2>2
<1> QED
  BY <1>4, <1>5, <1>6, <1>7, <1>8, <1>9 DEF AccessInv

\* The request is made when none of the reasons against it holds.
LEMMA CreateMeans ==
    ASSUME TableAccessTypeOK, NEW d, DecideOpenRequest(d) = "create"
    PROVE  ~Blocked(d) /\ Pending(d) = {} /\ Cardinality(InLimitWindow) < TableLimit
<1>1. Cardinality(InLimitWindow) \in Nat /\ TableLimit \in Nat
  BY AskedIsFinite, BoundsAreNumbers DEF InLimitWindow
<1>2. enabled
  BY DEF DecideOpenRequest
<1>3. ~Blocked(d)
  BY <1>2 DEF DecideOpenRequest
<1>4. Pending(d) = {}
  BY <1>2, <1>3 DEF DecideOpenRequest
<1>5. ~(Cardinality(InLimitWindow) >= TableLimit)
  BY <1>2, <1>3, <1>4, Zenon DEF DecideOpenRequest
<1> QED
  BY <1>1, <1>3, <1>4, <1>5

\* A phone gets a device of its own or is known by its cookie.
LEMMA DeviceIsKnown ==
    ASSUME TableAccessTypeOK, NEW p \in Phones, NEW answered \in BOOLEAN, NEW d \in 1..known + 1,
           EnsureDevice(p, d, answered)
    PROVE  d \in 1..MaxAsked /\ known' \in 0..MaxAsked /\ cookie' \in [Phones -> 0..known']
<1>1. known \in 0..MaxAsked /\ MaxAsked \in Nat /\ cookie \in [Phones -> 0..known]
  BY BoundsAreNumbers DEF TableAccessTypeOK
<1>2. d \in 1..MaxAsked /\ known' \in 0..MaxAsked /\ known <= known' /\ d <= known' /\ known \in Nat
  BY <1>1 DEF EnsureDevice
<1>3. \A q \in Phones : cookie[q] \in 0..known'
  BY <1>1, <1>2
<1>4. cookie' = cookie \/ cookie' = [cookie EXCEPT ![p] = d]
  BY DEF EnsureDevice
<1>5. d \in 0..known'
  BY <1>2
<1> QED
  BY <1>1, <1>2, <1>3, <1>4, <1>5

\* Nothing is asked or answered.
LEMMA NothingAskedKeeps ==
    ASSUME AccessInv, UNCHANGED <<minute, asked, blocks>>,
           live' \in {"none", "active", "inactive"}, enabled' \in BOOLEAN,
           known' \in 0..MaxAsked, cookie' \in [Phones -> 0..known']
    PROVE  AccessInv'
<1>1. TableAccessTypeOK'
  BY DEF AccessInv, TableAccessTypeOK
<1>2. RowsInThePast' /\ LaterAsksFindNoneWaiting'
  BY DEF AccessInv, RowsInThePast, LaterAsksFindNoneWaiting
<1>3. BlockedAfterTwo'
  <2>1. BlockedAfterTwo /\ asked' = asked /\ blocks' = blocks
    BY DEF AccessInv
  <2> QED
    BY <2>1 DEF BlockedAfterTwo, RejectedTogether
<1>4. RejectedTwiceIsQuiet'
  <2>1. RejectedTwiceIsQuiet /\ asked' = asked
    BY DEF AccessInv
  <2> QED
    BY <2>1 DEF RejectedTwiceIsQuiet
<1>5. TableIsNotFlooded'
  BY Zenon DEF AccessInv, TableIsNotFlooded
<1> QED
  BY <1>1, <1>2, <1>3, <1>4, <1>5 DEF AccessInv

\* Time passes: the windows that begin now are empty.
LEMMA WaitKeeps == ASSUME AccessInv, Wait PROVE AccessInv'
<1>0. TableAccessTypeOK /\ minute' = minute + 1 /\ minute < MaxMinutes
      /\ UNCHANGED <<live, enabled, asked, blocks, known, cookie>>
  BY DEF AccessInv, Wait
<1>1. minute \in Nat /\ \A i \in DOMAIN asked : asked[i].at \in Nat /\ asked[i].resolvedAt \in Nat
  BY <1>0, RowsOfAsked DEF Asked
<1>2. minute' \in 0..MaxMinutes
  BY <1>0, <1>1, BoundsAreNumbers
<1>3. TableAccessTypeOK'
  BY <1>0, <1>2 DEF TableAccessTypeOK
<1>4. RowsInThePast'
  BY <1>0, <1>1 DEF AccessInv, RowsInThePast
<1>5. LaterAsksFindNoneWaiting' /\ BlockedAfterTwo' /\ RejectedTwiceIsQuiet'
  BY <1>0 DEF AccessInv, LaterAsksFindNoneWaiting, BlockedAfterTwo, RejectedTogether, RejectedTwiceIsQuiet
<1>6. TableIsNotFlooded'
  <2> SUFFICES ASSUME NEW from \in 0..minute + 1
               PROVE  Cardinality({i \in DOMAIN asked : asked[i].type = "open_session"
                                   /\ asked[i].at \in from..from + LimitWindow - 1}) <= TableLimit
    BY <1>0 DEF TableIsNotFlooded
  <2>1. CASE from \in 0..minute
    BY <2>1 DEF AccessInv, TableIsNotFlooded
  <2>2. CASE from = minute + 1
    <3>1. {i \in DOMAIN asked : asked[i].type = "open_session" /\ asked[i].at \in from..from + LimitWindow - 1} = {}
      BY <1>1, <2>2 DEF AccessInv, RowsInThePast
    <3> QED
      BY <3>1, FS_EmptySet, BoundsAreNumbers
  <2> QED
    BY <1>1, <2>1, <2>2
<1> QED
  BY <1>3, <1>4, <1>5, <1>6 DEF AccessInv

\* Every step keeps the invariant.
LEMMA AccessKept == AccessInv /\ [TableAccessNext]_tableAccessVars => AccessInv'
<1> SUFFICES ASSUME AccessInv, [TableAccessNext]_tableAccessVars PROVE AccessInv'
    OBVIOUS
<1>0. TableAccessTypeOK
  BY DEF AccessInv
<1>1. /\ live \in {"none", "active", "inactive"} /\ enabled \in BOOLEAN /\ known \in 0..MaxAsked
      /\ cookie \in [Phones -> 0..known]
  BY <1>0 DEF TableAccessTypeOK
<1>2. minute \in Nat /\ \A i \in DOMAIN asked : asked[i] \in Asked
  BY <1>0, RowsOfAsked
<1>3. ASSUME NEW on \in BOOLEAN, Enable(on) PROVE AccessInv'
  BY <1>1, <1>3, NothingAskedKeeps DEF Enable
<1>4. ASSUME NEW p \in Phones, NEW answered \in BOOLEAN, RequestService(p, answered) PROVE AccessInv'
  <2>1. PICK d \in 1..known + 1 :
          /\ EnsureDevice(p, d, answered)
          /\ IF DecideOpenRequest(d) = "create" THEN Ask(d, "open_session") ELSE UNCHANGED asked
          /\ UNCHANGED <<minute, live, enabled, blocks>>
    BY <1>4 DEF RequestService
  <2>2. d \in 1..MaxAsked /\ known' \in 0..MaxAsked /\ cookie' \in [Phones -> 0..known']
    BY <1>0, <2>1, DeviceIsKnown
  <2>3. CASE DecideOpenRequest(d) = "create"
    <3>1. ~Blocked(d) /\ Pending(d) = {} /\ Cardinality(InLimitWindow) < TableLimit
      BY <1>0, <2>3, CreateMeans
    <3> QED
      BY <2>1, <2>2, <2>3, <3>1, AskKeeps
  <2>4. CASE DecideOpenRequest(d) # "create"
    BY <1>1, <2>1, <2>2, <2>4, NothingAskedKeeps
  <2> QED
    BY <2>3, <2>4
<1>5. ASSUME NEW p \in Phones, ForgetCookie(p) PROVE AccessInv'
  <2>1. cookie' \in [Phones -> 0..known']
    BY <1>1, <1>5 DEF ForgetCookie
  <2> QED
    BY <1>1, <1>5, <2>1, NothingAskedKeeps DEF ForgetCookie
<1>6. ASSUME NEW d \in 1..known, RequestResume(d) PROVE AccessInv'
  <2>1. d \in 1..MaxAsked
    BY <1>1, BoundsAreNumbers
  <2> QED
    BY <1>1, <1>6, <2>1, AskKeeps DEF RequestResume
<1>7. ASSUME NEW i \in DOMAIN asked, Approve(i) PROVE AccessInv'
  <2>1. /\ DOMAIN asked' = DOMAIN asked
        /\ \A j \in DOMAIN asked :
              asked'[j] = IF j = i THEN Resolved(asked[j], "approved")
                          ELSE IF asked[j].status = "pending" /\ asked[j].type = "open_session"
                          THEN Resolved(asked[j], "expired") ELSE asked[j]
        /\ asked[i].status = "pending"
    BY <1>7 DEF Approve
  <2>2. \A j \in DOMAIN asked : asked'[j] \in Asked
    BY <1>2, <2>1, ResolvedRow
  <2>3. asked' \in [DOMAIN asked -> Asked]
    BY <1>7, <2>1, <2>2 DEF Approve
  <2> QED
    BY <1>7, <2>1, <2>3, SettledKeeps DEF Approve
<1>8. ASSUME NEW i \in DOMAIN asked, Reject(i) PROVE AccessInv'
  BY <1>8, RejectKeeps
<1>9. CASE ExpireRequests
  <2>1. /\ DOMAIN asked' = DOMAIN asked
        /\ \A j \in DOMAIN asked :
              asked'[j] = IF asked[j].status = "pending" /\ asked[j].at + RequestTTL < minute
                          THEN Resolved(asked[j], "expired") ELSE asked[j]
    BY <1>9 DEF ExpireRequests
  <2>2. \A j \in DOMAIN asked : asked'[j] \in Asked
    BY <1>2, <2>1, ResolvedRow
  <2>3. asked' \in [DOMAIN asked -> Asked]
    BY <1>9, <2>1, <2>2 DEF ExpireRequests
  <2> QED
    BY <1>1, <1>9, <2>1, <2>3, SettledKeeps DEF ExpireRequests
<1>10. CASE MoveSession
  BY <1>1, <1>10, NothingAskedKeeps DEF MoveSession
<1>11. CASE Wait
  BY <1>11, WaitKeeps
<1>12. CASE UNCHANGED tableAccessVars
  BY <1>1, <1>12, NothingAskedKeeps DEF tableAccessVars
<1> QED
  BY <1>3, <1>4, <1>5, <1>6, <1>7, <1>8, <1>9, <1>10, <1>11, <1>12 DEF TableAccessNext

\* The invariant holds in every state.
LEMMA AccessInvariant == TableAccessSpec => []AccessInv
  BY AccessInitially, AccessKept, PTL DEF TableAccessSpec

\* Two rejections of a device within the window keep it from asking for a
\* session until the block is over, whatever else was asked, approved or
\* expired meanwhile (reject and decideOpenRequest).
THEOREM RejectedTwiceIsQuietAlways == TableAccessSpec => []RejectedTwiceIsQuiet
<1>1. AccessInv => RejectedTwiceIsQuiet
  BY DEF AccessInv
<1> QED
  BY <1>1, AccessInvariant, PTL

\* No window of time holds more requests of a table for a session than the
\* limit, for any number of phones and any limit (decideOpenRequest).
THEOREM TableIsNotFloodedAlways == TableAccessSpec => []TableIsNotFlooded
<1>1. AccessInv => TableIsNotFlooded
  BY DEF AccessInv
<1> QED
  BY <1>1, AccessInvariant, PTL

-----------------------------------------------------------------------------
(***************************************************************************)
(* Proofs about SlidingWindow, for any limit, window and sweep.  Whatever  *)
(* passed within the window that ends now is still in the list of its key, *)
(* swept or not; so whoever counts the list counts at least what passed.   *)
(***************************************************************************)

PassedIsListed == \A h \in passed : h.at > clock - Window => h \in hits

HitsInThePast == \A h \in passed \cup hits : h.at <= clock

WindowInv == SlidingWindowTypeOK /\ PassedIsListed /\ HitsInThePast /\ NoWindowOverflows

\* What the limit and the window are.
LEMMA WindowBounds ==
    /\ Limit \in Nat /\ Window \in Nat \ {0} /\ SweepAge \in Nat /\ MaxClock \in Nat \ {0}
    /\ Window <= SweepAge
  BY SlidingWindowAssumption

\* Nothing has been hit yet.
LEMMA WindowInitially == SlidingWindowInit => WindowInv
<1> SUFFICES ASSUME SlidingWindowInit PROVE WindowInv
    OBVIOUS
<1>1. clock = 1 /\ hits = {} /\ lastSweep = 1 /\ passed = {}
  BY DEF SlidingWindowInit
<1>2. SlidingWindowTypeOK
  BY <1>1, WindowBounds, FS_EmptySet DEF SlidingWindowTypeOK
<1>3. \A from \in 0..clock : {h \in passed : h.at > from /\ h.at <= from + Window} = {}
  BY <1>1
<1> QED
  BY <1>1, <1>2, <1>3, WindowBounds, FS_EmptySet DEF WindowInv, PassedIsListed, HitsInThePast, NoWindowOverflows

\* The hit that is added now, and the list that is left with it.
LEMMA HitListed ==
    ASSUME WindowInv, Hit
    PROVE  /\ NewHit \in HitRecord /\ NewHit.at = clock
           /\ hits' = InWindow(hits) \cup {NewHit}
           /\ hits' \subseteq HitRecord /\ IsFiniteSet(hits') /\ Cardinality(hits') \in Nat
           /\ clock' = clock /\ lastSweep' \in 1..MaxClock
<1>0. /\ clock \in 1..MaxClock /\ lastSweep \in 1..MaxClock
      /\ hits \subseteq HitRecord /\ IsFiniteSet(hits)
  BY DEF WindowInv, SlidingWindowTypeOK
<1>1. {h \in hits : h.at = clock} \subseteq hits /\ InWindow(hits) \subseteq hits
  BY DEF InWindow
<1>2. Cardinality({h \in hits : h.at = clock}) \in Nat /\ IsFiniteSet(InWindow(hits))
  BY <1>0, <1>1, FS_Subset, FS_CardinalityType
<1>3. NewHit \in HitRecord /\ NewHit.at = clock
  BY <1>0, <1>2 DEF NewHit, HitRecord
<1>4. hits' = InWindow(hits) \cup {NewHit} /\ clock' = clock /\ lastSweep' \in 1..MaxClock
  BY <1>0 DEF Hit
<1> HIDE DEF NewHit
<1>5. IsFiniteSet(hits') /\ Cardinality(hits') \in Nat
  BY <1>2, <1>4, FS_AddElement, FS_CardinalityType
<1> QED
  BY <1>0, <1>1, <1>3, <1>4, <1>5

\* A request that passes leaves no window fuller than the list it was counted in.
LEMMA CanActivateKeeps == ASSUME WindowInv, CanActivate PROVE WindowInv'
<1>0. /\ clock \in 1..MaxClock /\ passed \subseteq HitRecord /\ IsFiniteSet(passed)
      /\ PassedIsListed /\ HitsInThePast /\ NoWindowOverflows
  BY DEF WindowInv, SlidingWindowTypeOK
<1>1. /\ NewHit \in HitRecord /\ NewHit.at = clock
      /\ hits' = InWindow(hits) \cup {NewHit}
      /\ hits' \subseteq HitRecord /\ IsFiniteSet(hits') /\ Cardinality(hits') \in Nat
      /\ clock' = clock /\ lastSweep' \in 1..MaxClock
  BY HitListed DEF CanActivate
<1>2. passed' = passed \/ (passed' = passed \cup {NewHit} /\ Cardinality(hits') <= Limit)
  BY <1>1, WindowBounds DEF CanActivate
<1> HIDE DEF NewHit
<1>3. \A h \in HitRecord : h.at \in Nat
  BY WindowBounds DEF HitRecord
<1>4. IsFiniteSet(passed')
  BY <1>0, <1>2, FS_AddElement
<1>5. SlidingWindowTypeOK'
  BY <1>0, <1>1, <1>2, <1>4 DEF SlidingWindowTypeOK
<1>6. PassedIsListed'
  BY <1>0, <1>1, <1>2 DEF PassedIsListed, InWindow
<1>7. HitsInThePast'
  BY <1>0, <1>1, <1>2 DEF HitsInThePast, InWindow
<1>8. NoWindowOverflows'
  <2> SUFFICES ASSUME NEW from \in 0..clock
               PROVE  Cardinality({h \in passed' : h.at > from /\ h.at <= from + Window}) <= Limit
    BY <1>1 DEF NoWindowOverflows
  <2> DEFINE before == {h \in passed : h.at > from /\ h.at <= from + Window}
             after == {h \in passed' : h.at > from /\ h.at <= from + Window}
  <2>1. CASE after = before
    BY <1>0, <2>1 DEF NoWindowOverflows
  <2>2. CASE after # before
    <3>1. passed' = passed \cup {NewHit} /\ Cardinality(hits') <= Limit
          /\ NewHit.at > from /\ NewHit.at <= from + Window
      BY <1>2, <2>2
    <3>2. after \subseteq hits'
      <4> SUFFICES ASSUME NEW h \in after PROVE h \in hits'
        OBVIOUS
      <4>1. h.at > clock - Window /\ h \in passed'
        BY <1>0, <1>1, <1>2, <1>3, <3>1, WindowBounds
      <4> QED
        BY <1>1, <1>6, <4>1 DEF PassedIsListed
    <3> HIDE DEF after
    <3>3. Cardinality(after) <= Cardinality(hits') /\ Cardinality(after) \in Nat
      BY <1>1, <3>2, FS_Subset, FS_CardinalityType
    <3>4. Cardinality(after) <= Limit
      BY <1>1, <3>1, <3>3, WindowBounds
    <3> QED
      BY <3>4 DEF after
  <2> QED
    BY <2>1, <2>2
<1> QED
  BY <1>5, <1>6, <1>7, <1>8 DEF WindowInv

\* What a sweep drops was older than any window.
LEMMA SweepKeeps == ASSUME WindowInv, Sweep PROVE WindowInv'
<1>0. /\ clock \in 1..MaxClock /\ hits \subseteq HitRecord /\ IsFiniteSet(hits) /\ SlidingWindowTypeOK
      /\ PassedIsListed /\ HitsInThePast /\ NoWindowOverflows
  BY DEF WindowInv, SlidingWindowTypeOK
<1>1. /\ UNCHANGED <<clock, passed>> /\ lastSweep' = clock
      /\ hits' = hits \/ (hits' = {} /\ \A h \in hits : h.at < clock - SweepAge)
  BY DEF Sweep, Stale
<1>2. \A h \in HitRecord : h.at \in Nat
  BY WindowBounds DEF HitRecord
<1>3. hits' \subseteq hits /\ IsFiniteSet(hits')
  BY <1>0, <1>1, FS_EmptySet
<1>4. SlidingWindowTypeOK'
  BY <1>0, <1>1, <1>3 DEF SlidingWindowTypeOK
<1>5. PassedIsListed'
  <2> SUFFICES ASSUME NEW h \in passed, h.at > clock - Window PROVE h \in hits'
    BY <1>1 DEF PassedIsListed
  <2>1. h \in hits
    BY <1>0 DEF PassedIsListed
  <2>2. clock \in Nat /\ h.at \in Nat
    BY <1>0, <1>2, <2>1, WindowBounds
  <2> QED
    BY <1>1, <2>1, <2>2, WindowBounds
<1>6. HitsInThePast' /\ NoWindowOverflows'
  BY <1>0, <1>1, <1>3 DEF HitsInThePast, NoWindowOverflows
<1> QED
  BY <1>4, <1>5, <1>6 DEF WindowInv

\* The window that begins now is empty.
LEMMA ElapseKeeps == ASSUME WindowInv, Elapse PROVE WindowInv'
<1>0. /\ clock \in 1..MaxClock /\ SlidingWindowTypeOK
      /\ passed \subseteq HitRecord /\ hits \subseteq HitRecord
      /\ PassedIsListed /\ HitsInThePast /\ NoWindowOverflows
  BY DEF WindowInv, SlidingWindowTypeOK
<1>1. clock' = clock + 1 /\ clock < MaxClock /\ UNCHANGED <<hits, lastSweep, passed>>
  BY DEF Elapse
<1>2. \A h \in HitRecord : h.at \in Nat
  BY WindowBounds DEF HitRecord
<1>3. clock \in Nat /\ clock + 1 \in 1..MaxClock
  BY <1>0, <1>1, WindowBounds
<1>4. SlidingWindowTypeOK'
  BY <1>0, <1>1, <1>3 DEF SlidingWindowTypeOK
<1>5. PassedIsListed' /\ HitsInThePast'
  BY <1>0, <1>1, <1>2, <1>3, WindowBounds DEF PassedIsListed, HitsInThePast
<1>6. NoWindowOverflows'
  <2> SUFFICES ASSUME NEW from \in 0..clock + 1
               PROVE  Cardinality({h \in passed : h.at > from /\ h.at <= from + Window}) <= Limit
    BY <1>1 DEF NoWindowOverflows
  <2>1. CASE from \in 0..clock
    BY <1>0, <2>1 DEF NoWindowOverflows
  <2>2. CASE from = clock + 1
    <3>1. {h \in passed : h.at > from /\ h.at <= from + Window} = {}
      BY <1>0, <1>2, <1>3, <2>2 DEF HitsInThePast
    <3> QED
      BY <3>1, FS_EmptySet, WindowBounds
  <2> QED
    BY <1>3, <2>1, <2>2
<1> QED
  BY <1>4, <1>5, <1>6 DEF WindowInv

\* Every step keeps the invariant.
LEMMA WindowKept == WindowInv /\ [SlidingWindowNext]_slidingWindowVars => WindowInv'
<1> SUFFICES ASSUME WindowInv, [SlidingWindowNext]_slidingWindowVars PROVE WindowInv'
    OBVIOUS
<1>1. CASE UNCHANGED slidingWindowVars
  BY <1>1 DEF slidingWindowVars, WindowInv, SlidingWindowTypeOK, PassedIsListed, HitsInThePast,
              NoWindowOverflows
<1> QED
  BY <1>1, CanActivateKeeps, SweepKeeps, ElapseKeeps DEF SlidingWindowNext

\* No window lets more requests of a key through than its limit, for any limit,
\* window and age of the sweep that is no shorter (SlidingWindowStore).
THEOREM NoWindowOverflowsAlways == SlidingWindowSpec => []NoWindowOverflows
<1>1. WindowInv => NoWindowOverflows
  BY DEF WindowInv
<1> QED
  BY <1>1, WindowInitially, WindowKept, PTL DEF SlidingWindowSpec

=============================================================================
