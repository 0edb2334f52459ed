----------------------------- MODULE Catalogue -----------------------------
(***************************************************************************)
(* Areas, categories and products of a restaurant (catalog.service.ts),    *)
(* the menu that a phone is shown, and the validation of what it orders    *)
(* (validateOrderLines of packages/domain).  Prices, names and order are   *)
(* left out.  An edit that looks at one row and writes another is two      *)
(* steps: administrators edit at the same time.                            *)
(***************************************************************************)
EXTENDS Naturals

CONSTANTS Areas, Categories, Products,
          Editors,       \* screens that edit the catalogue
          MaxQuantity,   \* RULES.ORDER_ITEM_MAX_QTY
          Nothing        \* no row, no edit

ASSUME CatalogueAssumption == MaxQuantity \in Nat \ {0} /\ Nothing \notin BOOLEAN

VARIABLES areaOpen,  \* service_areas.is_open
          category,  \* categories.is_active, Nothing where there is no row
          product,   \* the rows of products
          editing    \* what an editor has checked and is about to write

catalogueVars == <<areaOpen, category, product, editing>>

ProductRow == [category : Categories, area : Areas, available : BOOLEAN, deleted : BOOLEAN]
Edit == [product : Products, category : Categories, area : Areas] \cup [unused : Categories]

CatalogueTypeOK ==
    /\ areaOpen \in [Areas -> BOOLEAN]
    /\ category \in [Categories -> BOOLEAN \cup {Nothing}]
    /\ product \in [Products -> ProductRow \cup {Nothing}]
    /\ editing \in [Editors -> Edit \cup {Nothing}]

CatalogueInit ==
    /\ areaOpen = [a \in Areas |-> TRUE]
    /\ category = [c \in Categories |-> Nothing]
    /\ product = [p \in Products |-> Nothing]
    /\ editing = [e \in Editors |-> Nothing]

HasCategory(c) == category[c] # Nothing
HasRow(p) == product[p] # Nothing
OnSale(p) == HasRow(p) /\ ~product[p].deleted

-----------------------------------------------------------------------------
(* Edits of one row. *)

SetAreaOpen(a, isOpen) ==
    /\ areaOpen' = [areaOpen EXCEPT ![a] = isOpen]
    /\ UNCHANGED <<category, product, editing>>

CreateCategory(c, isActive) ==
    /\ ~HasCategory(c)
    /\ category' = [category EXCEPT ![c] = isActive]
    /\ UNCHANGED <<areaOpen, product, editing>>

UpdateCategory(c, isActive) ==
    /\ HasCategory(c)
    /\ category' = [category EXCEPT ![c] = isActive]
    /\ UNCHANGED <<areaOpen, product, editing>>

\* A change that names neither category nor area.
SetAvailable(p, isAvailable) ==
    /\ OnSale(p)
    /\ product' = [product EXCEPT ![p].available = isAvailable]
    /\ UNCHANGED <<areaOpen, category, editing>>

\* The row stays for the orders that name it.
DeleteProduct(p) ==
    /\ OnSale(p)
    /\ product' = [product EXCEPT ![p].deleted = TRUE, ![p].available = FALSE]
    /\ UNCHANGED <<areaOpen, category, editing>>

-----------------------------------------------------------------------------
(* Edits that look before they write. *)

Checked(e, edit) ==
    /\ editing[e] = Nothing
    /\ editing' = [editing EXCEPT ![e] = edit]
    /\ UNCHANGED <<areaOpen, category, product>>

AssertRefs(e, p, c, a) ==
    /\ HasCategory(c)
    /\ Checked(e, [product |-> p, category |-> c, area |-> a])

AssertUnused(e, c) ==
    /\ \A p \in Products : OnSale(p) => product[p].category # c
    /\ Checked(e, [unused |-> c])

IsProductEdit(e) == editing[e] # Nothing /\ "product" \in DOMAIN editing[e]
IsCategoryEdit(e) == editing[e] # Nothing /\ "unused" \in DOMAIN editing[e]

\* products.category_id references a category
ReferenceHolds(c) == HasCategory(c)
\* variant Unreferenced: what was deleted does not count
UnreferencedOnSale(c) == \A p \in Products : OnSale(p) => product[p].category # c

Unreferenced(c) == \A p \in Products : HasRow(p) => product[p].category # c

Written(edit, p) ==
    IF HasRow(p) THEN [product[p] EXCEPT !.category = edit.category, !.area = edit.area]
    ELSE [category |-> edit.category, area |-> edit.area, available |-> TRUE, deleted |-> FALSE]

\* A new product, or another category or area for one that is not deleted.
WriteProduct(e) ==
    /\ IsProductEdit(e)
    /\ LET edit == editing[e] IN
       /\ ReferenceHolds(edit.category)
       /\ HasRow(edit.product) => OnSale(edit.product)
       /\ product' = [product EXCEPT ![edit.product] = Written(edit, edit.product)]
    /\ editing' = [editing EXCEPT ![e] = Nothing]
    /\ UNCHANGED <<areaOpen, category>>

DeleteCategory(e) ==
    /\ IsCategoryEdit(e)
    /\ LET c == editing[e].unused IN
       /\ HasCategory(c) /\ Unreferenced(c)
       /\ category' = [category EXCEPT ![c] = Nothing]
    /\ editing' = [editing EXCEPT ![e] = Nothing]
    /\ UNCHANGED <<areaOpen, product>>

GiveUp(e) ==
    /\ editing[e] # Nothing
    /\ editing' = [editing EXCEPT ![e] = Nothing]
    /\ UNCHANGED <<areaOpen, category, product>>

CatalogueNext ==
    \/ \E a \in Areas, isOpen \in BOOLEAN : SetAreaOpen(a, isOpen)
    \/ \E c \in Categories, isActive \in BOOLEAN : CreateCategory(c, isActive) \/ UpdateCategory(c, isActive)
    \/ \E p \in Products, isAvailable \in BOOLEAN : SetAvailable(p, isAvailable)
    \/ \E p \in Products : DeleteProduct(p)
    \/ \E e \in Editors :
          \/ \E p \in Products, c \in Categories, a \in Areas : AssertRefs(e, p, c, a)
          \/ \E c \in Categories : AssertUnused(e, c)
          \/ WriteProduct(e) \/ DeleteCategory(e) \/ GiveUp(e)

CatalogueSpec == CatalogueInit /\ [][CatalogueNext]_catalogueVars

-----------------------------------------------------------------------------
(* What a phone is shown, and what an order is answered.                     *)

OnMenu(p) == OnSale(p) /\ category[product[p].category] = TRUE

\* variant MenuState: a closed area is forgotten
MenuStateWithoutArea(p) == IF product[p].available THEN "orderable" ELSE "unavailable"

MenuState(p) ==
    CASE ~areaOpen[product[p].area] -> "area_closed"
      [] areaOpen[product[p].area] /\ ~product[p].available -> "unavailable"
      [] OTHER -> "orderable"

Menu == {p \in Products : OnMenu(p) /\ MenuState(p) = "orderable"}

\* validateOrderLines, one line: why it is rejected, or "none".
Rejection(p, quantity) ==
    CASE ~OnSale(p) -> "not_found"
      [] OnSale(p) /\ quantity \notin 1..MaxQuantity -> "invalid_quantity"
      [] OnSale(p) /\ quantity \in 1..MaxQuantity /\ ~areaOpen[product[p].area] -> "area_closed"
      [] OnSale(p) /\ quantity \in 1..MaxQuantity /\ areaOpen[product[p].area] /\ ~product[p].available
           -> "unavailable"
      [] OTHER -> "none"

-----------------------------------------------------------------------------
(* Properties. *)

\* No product is ever without its category, on sale or not, though whoever
\* moves it there and whoever deletes the category looked at the rows before
\* the other wrote: the menu loses no product and no edit of it hangs.
ProductsKeepTheirCategory ==
    \A p \in Products : HasRow(p) => HasCategory(product[p].category)

\* The menu and the validation of orders, which derive it apart, agree: what
\* can be ordered is on the menu as such, but for what an inactive category
\* hides, which is still sold to a cart that holds it.
MenuAgreesWithOrders ==
    /\ \A p \in Menu : Rejection(p, 1) = "none"
    /\ \A p \in Products : Rejection(p, 1) = "none" =>
           p \in Menu \/ category[product[p].category] = FALSE
=============================================================================
