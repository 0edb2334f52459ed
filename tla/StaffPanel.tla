----------------------------- MODULE StaffPanel -----------------------------
(***************************************************************************)
(* The panel of the operator (apps/web/src/app/staff/page.tsx) and one     *)
(* table that it shows: reloads that overlap, each of several reads that   *)
(* the server answers at different moments, what rings, and the buttons,   *)
(* which act on what is on the screen.  The operations of the server are   *)
(* whole here; how they interleave is the subject of TableService.         *)
(***************************************************************************)
EXTENDS Naturals, Sequences, FiniteSets

CONSTANTS MaxVisits, MaxRequests, MaxOrders, MaxReloads,  \* bounds of the runs
          NotRead

ASSUME StaffPanelAssumption == {MaxVisits, MaxRequests, MaxOrders, MaxReloads} \subseteq Nat

VARIABLES visit,    \* the live session of the table
          queue,    \* the rows of service_requests
          placed,   \* the rows of orders
          screen,   \* what the panel shows
          reloads,  \* reloads under way, with what has been read
          seen,     \* what the panel knows, so as to ring for what is new
          heard,    \* requests that rang, or that were there at the first load
          failures, \* reloads that failed in a row
          dialog    \* the question that the operator is asked, from what was on the screen

atTable == <<visit, queue, placed>>
atDesk == <<screen, reloads, seen, heard, failures, dialog>>
staffPanelVars == <<atTable, atDesk>>

OfflineAfter == 3

Visit == [number : 0..MaxVisits, status : {"none", "active", "inactive"},
          bill : {"none", "asked", "acknowledged"}]
RequestRow == [type : {"open_session", "resume_session"}, order : 0..MaxOrders,
               status : {"pending", "approved", "rejected", "expired"}]
OrderRow == [visit : 1..MaxVisits, status : {"waiting", "submitted", "acknowledged", "cancelled"}]

StaffTable == [number : 0..MaxVisits, status : {"none", "active", "inactive"},
               bill : {"none", "asked", "acknowledged"}, unacknowledged : 0..MaxOrders]
StaffRequest == [id : 1..MaxRequests, live : {"none", "active", "inactive"}]
StaffOrder == [id : 1..MaxOrders, status : {"waiting", "submitted"}]

\* About a session, with the orders to acknowledge that it had, or about an order.
Dialog == [about : {"nothing"}, id : {0}, left : {0}]
          \cup [about : {"session"}, id : 1..MaxVisits, left : 0..MaxOrders]
          \cup [about : {"order"}, id : 1..MaxOrders, left : {0}]
NoDialog == [about |-> "nothing", id |-> 0, left |-> 0]

NoVisit == [number |-> 0, status |-> "none", bill |-> "none"]
Unread == [table |-> NotRead, requests |-> NotRead, orders |-> NotRead]

NothingSeen == [requests |-> {}, orders |-> {}, bills |-> {}, primed |-> FALSE]

Blank == [table |-> [number |-> 0, status |-> "none", bill |-> "none", unacknowledged |-> 0],
          requests |-> {}, orders |-> {}]

StaffPanelTypeOK ==
    /\ visit \in Visit
    /\ queue \in Seq(RequestRow) /\ Len(queue) <= MaxRequests
    /\ placed \in Seq(OrderRow) /\ Len(placed) <= MaxOrders
    /\ screen \in [table : StaffTable, requests : SUBSET StaffRequest, orders : SUBSET StaffOrder]
    /\ \A r \in reloads :
          r.table \in StaffTable \cup {NotRead} /\ DOMAIN r = {"table", "requests", "orders"}
    /\ seen \in [requests : SUBSET (1..MaxRequests), orders : SUBSET (1..MaxOrders),
                 bills : SUBSET (1..MaxVisits), primed : BOOLEAN]
    /\ heard \subseteq 1..MaxRequests
    /\ failures \in 0..OfflineAfter
    /\ dialog \in Dialog

StaffPanelInit ==
    /\ visit = NoVisit /\ queue = <<>> /\ placed = <<>>
    /\ screen = Blank /\ reloads = {} /\ seen = NothingSeen /\ heard = {} /\ failures = 0
    /\ dialog = NoDialog

-----------------------------------------------------------------------------
(* Customers, waiters and jobs.                                              *)

IsPending(i) == queue[i].status = "pending"

NewVisit(number) == [number |-> number, status |-> "active", bill |-> "none"]

PlaceOrder(status) == placed' = Append(placed, [visit |-> visit.number, status |-> status])

OpenRequested ==
    /\ visit.status # "active" /\ Len(queue) < MaxRequests
    /\ queue' = Append(queue, [type |-> "open_session", order |-> 0, status |-> "pending"])
    /\ UNCHANGED <<visit, placed, atDesk>>

\* Submitted, or (asleep) waiting with a request of its own.
CustomerOrders ==
    /\ visit.status # "none" /\ visit.bill = "none" /\ Len(placed) < MaxOrders
    /\ IF visit.status = "active" THEN PlaceOrder("submitted") /\ UNCHANGED queue
       ELSE /\ Len(queue) < MaxRequests
            /\ PlaceOrder("waiting")
            /\ queue' = Append(queue, [type |-> "resume_session", order |-> Len(placed) + 1,
                                       status |-> "pending"])
    /\ UNCHANGED <<visit, atDesk>>

\* The staff needs no confirmation, and wakes the session.
WaiterOrders ==
    /\ visit.status # "none" /\ Len(placed) < MaxOrders
    /\ PlaceOrder("submitted")
    /\ visit' = [visit EXCEPT !.status = "active"]
    /\ UNCHANGED <<queue, atDesk>>

AskBill ==
    /\ visit.status # "none" /\ visit.bill = "none"
    /\ visit' = [visit EXCEPT !.bill = "asked"]
    /\ UNCHANGED <<queue, placed, atDesk>>

WithdrawBill ==
    /\ visit.status # "none" /\ visit.bill = "asked"
    /\ visit' = [visit EXCEPT !.bill = "none"]
    /\ UNCHANGED <<queue, placed, atDesk>>

FallAsleep ==
    /\ visit.status = "active"
    /\ visit' = [visit EXCEPT !.status = "inactive"]
    /\ UNCHANGED <<queue, placed, atDesk>>

WithOrder(o, status) == [j \in DOMAIN placed |-> IF j = o THEN [placed[j] EXCEPT !.status = status]
                                                          ELSE placed[j]]

ExpireRequest(i) ==
    /\ IsPending(i)
    /\ queue' = [queue EXCEPT ![i].status = "expired"]
    /\ placed' = WithOrder(queue[i].order, "cancelled")
    /\ UNCHANGED <<visit, atDesk>>

Others == OpenRequested \/ CustomerOrders \/ WaiterOrders \/ AskBill \/ WithdrawBill \/ FallAsleep
          \/ \E i \in DOMAIN queue : ExpireRequest(i)

-----------------------------------------------------------------------------
(* A reload: reads that the server answers each when it comes to it, and one *)
(* answer when all have arrived.                                             *)

Unacknowledged(number) == {o \in DOMAIN placed : placed[o].visit = number /\ placed[o].status = "submitted"}

StaffTables == [number |-> visit.number, status |-> visit.status, bill |-> visit.bill,
                unacknowledged |-> IF visit.status = "none" THEN 0
                                   ELSE Cardinality(Unacknowledged(visit.number))]

StaffRequests == {[id |-> i, live |-> visit.status] : i \in {i \in DOMAIN queue : IsPending(i)}}

StaffOrders == {[id |-> o, status |-> placed[o].status] :
                   o \in {o \in DOMAIN placed : placed[o].status \in {"waiting", "submitted"}}}

MayReload == Cardinality(reloads) < MaxReloads

\* By the timer and by events.
BeginReload ==
    /\ MayReload
    /\ reloads' = reloads \cup {Unread}
    /\ UNCHANGED <<atTable, screen, seen, heard, failures, dialog>>

Read(r) ==
    /\ \/ r.table = NotRead /\ reloads' = (reloads \ {r}) \cup {[r EXCEPT !.table = StaffTables]}
       \/ r.requests = NotRead /\ reloads' = (reloads \ {r}) \cup {[r EXCEPT !.requests = StaffRequests]}
       \/ r.orders = NotRead /\ reloads' = (reloads \ {r}) \cup {[r EXCEPT !.orders = StaffOrders]}
    /\ UNCHANGED <<atTable, screen, seen, heard, failures, dialog>>

Ids(rows) == {row.id : row \in rows}
Submitted(rows) == {row.id : row \in {row \in rows : row.status = "submitted"}}
BillsOf(table) == IF table.bill = "asked" THEN {table.number} ELSE {}

\* variant Newcomers: compared with what has just been remembered
NewcomersForgotten(r) == {}

\* Requests that were not in the answer before; the first answer rings for none.
Newcomers(r) == IF seen.primed THEN Ids(r.requests) \ seen.requests ELSE Ids(r.requests)

\* What an older answer brings back rings again.
ApplyReload(r) ==
    /\ NotRead \notin {r.table, r.requests, r.orders}
    /\ reloads' = reloads \ {r}
    /\ screen' = r
    /\ seen' = [requests |-> Ids(r.requests), orders |-> Submitted(r.orders),
                bills |-> BillsOf(r.table), primed |-> TRUE]
    /\ heard' = heard \cup Newcomers(r)
    /\ failures' = 0
    /\ UNCHANGED <<atTable, dialog>>

\* Only a server that does not answer counts, and so does each of two reloads.
FailReload(r) ==
    /\ reloads' = reloads \ {r}
    /\ failures' \in {failures, IF failures = OfflineAfter THEN failures ELSE failures + 1}
    /\ UNCHANGED <<atTable, screen, seen, heard, dialog>>

Offline == failures >= OfflineAfter

\* The button of the banner.
Retry == Offline /\ BeginReload

\* The page is opened anew.
Mount ==
    /\ reloads = {} /\ seen.primed
    /\ screen' = Blank /\ seen' = NothingSeen /\ heard' = {} /\ failures' = 0 /\ dialog' = NoDialog
    /\ reloads' = {Unread}
    /\ UNCHANGED atTable

-----------------------------------------------------------------------------
(* Buttons.  An action that succeeds reloads; one that the server refuses     *)
(* leaves an error on the screen.  A dialog covers the panel until answered.  *)

Run == /\ MayReload
       /\ reloads' = reloads \cup {Unread}
       /\ dialog' = NoDialog
       /\ UNCHANGED <<screen, seen, heard, failures>>

\* What the card of a request offers, by the session that it was read with.
Resolutions(row) == IF row.live = "inactive" THEN {"new_session", "continue_session"} ELSE {"none"}

\* What the server takes.
Approvable(i, resolution) ==
    /\ IsPending(i)
    /\ CASE visit.status = "none"    -> queue[i].type = "open_session" /\ visit.number < MaxVisits
         [] visit.status = "active"  -> queue[i].type = "resume_session" /\ resolution # "none"
         [] OTHER                    -> resolution # "none"
    /\ resolution = "new_session" => visit.number < MaxVisits

ApprovedQueue(i) ==
    [j \in DOMAIN queue |->
        IF j = i THEN [queue[j] EXCEPT !.status = "approved"]
        ELSE IF queue[j].status = "pending" /\ queue[j].type = "open_session"
             THEN [queue[j] EXCEPT !.status = "expired"] ELSE queue[j]]

ApproveRow(row, resolution) ==
    LET i == row.id
        o == queue[i].order
        renew == visit.status = "none" \/ resolution = "new_session" IN
    /\ Approvable(i, resolution)
    /\ queue' = ApprovedQueue(i)
    /\ visit' = IF renew THEN NewVisit(visit.number + 1) ELSE [visit EXCEPT !.status = "active"]
    /\ placed' = [j \in DOMAIN placed |->
                     IF j = o THEN [visit |-> visit'.number, status |-> "submitted"] ELSE placed[j]]
    /\ Run

RejectRow(row) ==
    /\ IsPending(row.id)
    /\ queue' = [queue EXCEPT ![row.id].status = "rejected"]
    /\ placed' = WithOrder(queue[row.id].order, "cancelled")
    /\ UNCHANGED visit
    /\ Run

AcknowledgeOrder(row) ==
    /\ placed[row.id].status = "submitted"
    /\ placed' = WithOrder(row.id, "acknowledged")
    /\ UNCHANGED <<visit, queue>>
    /\ Run

CancelOrder(o) ==
    /\ placed[o].status = "submitted"
    /\ placed' = WithOrder(o, "cancelled")
    /\ UNCHANGED <<visit, queue>>
    /\ Run

AcknowledgeBill ==
    /\ screen.table.bill = "asked" /\ screen.table.number = visit.number
    /\ visit.status # "none" /\ visit.bill = "asked"
    /\ visit' = [visit EXCEPT !.bill = "acknowledged"]
    /\ UNCHANGED <<queue, placed>>
    /\ Run

\* The pending requests expire, and their orders are left as they are.
OpenTable ==
    /\ screen.table.status = "none" /\ visit.status = "none" /\ visit.number < MaxVisits
    /\ visit' = NewVisit(visit.number + 1)
    /\ queue' = [j \in DOMAIN queue |-> IF queue[j].status = "pending"
                                        THEN [queue[j] EXCEPT !.status = "expired"] ELSE queue[j]]
    /\ UNCHANGED placed
    /\ Run

\* variant Forced: always
AlwaysForced(left) == TRUE

\* A session shown with orders to acknowledge is closed with force.
Forced(left) == left > 0

Close(number, force) ==
    LET left == Unacknowledged(number) IN
    /\ visit.status # "none" /\ visit.number = number
    /\ left = {} \/ force
    /\ visit' = [visit EXCEPT !.status = "none", !.bill = "none"]
    /\ placed' = [j \in DOMAIN placed |-> IF j \in left THEN [placed[j] EXCEPT !.status = "cancelled"]
                                                        ELSE placed[j]]
    /\ UNCHANGED queue
    /\ Run

AskFirst(about, id, left) ==
    /\ dialog' = [about |-> about, id |-> id, left |-> left]
    /\ UNCHANGED <<atTable, screen, reloads, seen, heard, failures>>

\* With the identifier and the count of when it was asked.
Confirm ==
    \/ dialog.about = "session" /\ Close(dialog.id, Forced(dialog.left))
    \/ dialog.about = "order" /\ CancelOrder(dialog.id)

\* Or confirmed, and refused by the server.
Dismiss ==
    /\ dialog # NoDialog
    /\ dialog' = NoDialog
    /\ UNCHANGED <<atTable, screen, reloads, seen, heard, failures>>

AskToClose == AskFirst("session", screen.table.number, screen.table.unacknowledged)

RequestCard(row) == RejectRow(row) \/ \E resolution \in Resolutions(row) : ApproveRow(row, resolution)

OrderCard(row) == AcknowledgeOrder(row) \/ AskFirst("order", row.id, 0)

BillCard == AcknowledgeBill \/ (screen.table.bill # "none" /\ AskToClose)

TableDetail == OpenTable \/ (screen.table.status # "none" /\ AskToClose)

Operator ==
    /\ dialog = NoDialog
    /\ \/ \E row \in screen.requests : RequestCard(row)
       \/ \E row \in {row \in screen.orders : row.status = "submitted"} : OrderCard(row)
       \/ BillCard \/ TableDetail

StaffPanelNext ==
    \/ Others \/ Operator \/ Confirm \/ Dismiss
    \/ BeginReload \/ Retry \/ Mount
    \/ \E r \in reloads : Read(r) \/ ApplyReload(r) \/ FailReload(r)

StaffPanelSpec == StaffPanelInit /\ [][StaffPanelNext]_staffPanelVars

-----------------------------------------------------------------------------
(* Properties. *)

\* No request comes up on the screen in silence, however reloads overlap and
\* overtake each other, except those that were there when the page was opened.
EveryRequestRings == Ids(screen.requests) \subseteq heard

\* A close cancels orders only when the operator has confirmed it for this very
\* session, in a dialog that told of orders that were not acknowledged.
CloseWarns ==
    [][\A o \in DOMAIN placed :
         /\ visit.status # "none" /\ visit'.status = "none"
         /\ placed[o].status = "submitted" /\ placed'[o].status = "cancelled"
         => dialog.about = "session" /\ dialog.id = placed[o].visit /\ dialog.left > 0]_staffPanelVars

UpToDate == screen = [table |-> StaffTables, requests |-> StaffRequests, orders |-> StaffOrders]

\* "pending --> approved : operador aprova (resolution: new_session |
\* continue_session)" (state-machines.md): while the session of a request is
\* alive, a panel that is up to date has a button that approves it.
OperatorCanApprove ==
    UpToDate => \A row \in screen.requests :
        queue[row.id].type = "resume_session" /\ visit.status # "none" /\ visit.number < MaxVisits =>
            \E resolution \in Resolutions(row) : Approvable(row.id, resolution)
=============================================================================
