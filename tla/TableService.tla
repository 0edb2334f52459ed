---------------------------- MODULE TableService ----------------------------
(***************************************************************************)
(* The life of a restaurant table: the sessions opened on it, the devices  *)
(* that take part in them, the requests waiting for the staff and the      *)
(* orders, as the handlers of session.service.ts, order.service.ts and     *)
(* tables.service.ts change them.                                          *)
(*                                                                         *)
(* Every handler is a PostgreSQL transaction at READ COMMITTED, run by one *)
(* of Workers.  Most begin by locking the row of their table (SELECT ...   *)
(* FOR UPDATE), some do not.  A handler is split where another transaction *)
(* can come in between: its first action takes the lock, reads the rows    *)
(* and keeps in tx[w] what it decided from them; its Commit action writes  *)
(* to the rows as they are by then, with the WHERE clause of each UPDATE,  *)
(* and releases the lock.  A handler that is one statement, or that reads  *)
(* only what its own conditional UPDATE re-checks, is one action.          *)
(*                                                                         *)
(* A refusal (DomainError) rolls the transaction back and is a Rollback,   *)
(* as are a crash of the process, a lost connection and the violation of a *)
(* unique index.                                                           *)
(*                                                                         *)
(* A definition marked "variant" is a mistake the code could contain; it is *)
(* used by no action, and stands beside the definition it would replace.   *)
(***************************************************************************)
EXTENDS Naturals, DomainRules

CONSTANTS
  Tables,           \* the tables of the restaurant
  Devices,          \* the customers' devices
  Workers,          \* the transactions that may be open at the same time
  Keys,             \* the idempotency keys the clients send with an order
  None,             \* no table, device, worker or key
  MaxSessions,      \* bound: rows of sessions
  MaxRequests,      \* bound: rows of service_requests
  MaxOrders,        \* bound: rows of orders
  Called            \* bound: the operations the clients of an instance call

ASSUME NoneAssumption ==
  /\ None \notin Tables /\ None \notin Devices
  /\ None \notin Workers /\ None \notin Keys
ASSUME BoundsAssumption ==
  MaxSessions \in Nat /\ MaxRequests \in Nat /\ MaxOrders \in Nat
Operations == {"requestService", "join", "setParticipantName", "approve", "reject",
               "openByStaff", "close", "createOrder", "acknowledgeOrder", "cancelOrder",
               "requestBill", "cancelBill", "acknowledgeBill", "updateTable"}
ASSUME CalledAssumption == Called \subseteq Operations

VARIABLES
  isActive,         \* tables.is_active
  sessions,         \* rows of sessions, by id
  participants,     \* rows of session_participants
  named,            \* the (session, device) whose participant has a display_name
  requests,         \* rows of service_requests, by id
  orders,           \* rows of orders, by id, each with its idempotency key
  lock,             \* the worker that holds the row lock of each table
  tx                \* what the open transaction of each worker has decided

db == <<isActive, sessions, participants, named, requests, orders>>
vars == <<isActive, sessions, participants, named, requests, orders, lock, tx>>

SessionIds == 1..MaxSessions
RequestIds == 1..MaxRequests
OrderIds == 1..MaxOrders
Ordinals == Nat \ {0}

NoSession == [status |-> "none", table |-> None, billRequested |-> FALSE,
              billAcknowledged |-> FALSE]
NoRequest == [status |-> "none", type |-> "none", table |-> None,
              device |-> None, session |-> 0, order |-> 0]
NoOrder == [status |-> "none", session |-> 0, number |-> 0,
            participant |-> None, key |-> None]
NoTx == [op |-> "none", table |-> None, session |-> 0, request |-> 0,
         order |-> 0, unacked |-> {}, device |-> None, key |-> None,
         number |-> 0, choice |-> "none"]

Sessions == [status : LiveStatuses \cup {"none", "closed"},
             table : Tables \cup {None}, billRequested : BOOLEAN,
             billAcknowledged : BOOLEAN]
Requests == [status : RequestStatuses \cup {"none"}, type : RequestTypes \cup {"none"},
             table : Tables \cup {None}, device : Devices \cup {None},
             session : SessionIds \cup {0}, order : OrderIds \cup {0}]
Owners == (SessionIds \X Devices) \cup {None}
Orders == [status : OrderStatuses \cup {"none"}, session : SessionIds \cup {0},
           number : Nat, participant : Owners,
           key : Keys \cup {None}]
Participants == [session : SessionIds, device : Devices, ordinal : Ordinals]

Choices == {"open", "new_session", "continue", "start", "submit",
            "await_confirmation", "pending_confirmation", "submitted"}
Transactions == [op : Operations \cup {"none"}, table : Tables \cup {None},
                 session : SessionIds \cup {0}, request : RequestIds \cup {0},
                 order : OrderIds \cup {0}, unacked : SUBSET OrderIds,
                 device : Devices \cup {None}, key : Keys \cup {None},
                 number : Nat, choice : Choices \cup {"none"}]

TypeOK ==
  /\ isActive \in [Tables -> BOOLEAN]
  /\ sessions \in [SessionIds -> Sessions]
  /\ participants \subseteq Participants
  /\ named \subseteq SessionIds \X Devices
  /\ requests \in [RequestIds -> Requests]
  /\ orders \in [OrderIds -> Orders]
  /\ lock \in [Tables -> Workers \cup {None}]
  /\ tx \in [Workers -> Transactions]

Init ==
  /\ isActive = [t \in Tables |-> TRUE]
  /\ sessions = [s \in SessionIds |-> NoSession]
  /\ participants = {}
  /\ named = {}
  /\ requests = [r \in RequestIds |-> NoRequest]
  /\ orders = [o \in OrderIds |-> NoOrder]
  /\ lock = [t \in Tables |-> None]
  /\ tx = [w \in Workers |-> NoTx]

-----------------------------------------------------------------------------
(* What the handlers read.                                                 *)

Live(s) == sessions[s].status \in LiveStatuses
LiveSessions(t) == {s \in SessionIds : Live(s) /\ sessions[s].table = t}
Pending(r) == requests[r].status = "pending"
PendingOf(t, d) ==
  {r \in RequestIds : Pending(r) /\ requests[r].table = t /\ requests[r].device = d}

TableState(t) ==
  DeriveTableState(isActive[t],
    IF \E s \in LiveSessions(t) : sessions[s].status = "active" THEN "active"
    ELSE IF LiveSessions(t) # {} THEN "inactive" ELSE "none",
    \E r \in RequestIds : /\ Pending(r) /\ requests[r].table = t
                          /\ requests[r].type = "open_session")

Participates(s, d) == \E p \in participants : p.session = s /\ p.device = d
OrdinalsOf(s) == {p.ordinal : p \in {q \in participants : q.session = s}}
NumbersOf(s) ==
  {orders[o].number : o \in {q \in OrderIds : orders[q].session = s}}
UnackedOf(s) ==
  {o \in OrderIds : orders[o].session = s /\ orders[o].status = "submitted"}

\* { coalesce(max(n), 0) + 1 }
NextNumber(used) == {n \in {m + 1 : m \in used \cup {0}} : \A m \in used : m < n}

\* The ordinal addParticipant gives a device: the one it has, or the next.
OrdinalFor(s, d) ==
  {p.ordinal : p \in {q \in participants : q.session = s /\ q.device = d}}
    \cup (IF Participates(s, d) THEN {} ELSE NextNumber(OrdinalsOf(s)))

\* Ids are random in the code; the model takes the rows in order.
IsNewSession(s) ==
  sessions[s] = NoSession /\ \A q \in 1..(s - 1) : sessions[q] # NoSession
IsNewRequest(r) ==
  requests[r] = NoRequest /\ \A q \in 1..(r - 1) : requests[q] # NoRequest
IsNewOrder(o) ==
  orders[o] = NoOrder /\ \A q \in 1..(o - 1) : orders[q] # NoOrder

\* The unique indexes of the schema, as an INSERT meets them.
LiveIndexFree(t, closing) == LiveSessions(t) \subseteq closing
PendingIndexFree(t, d) == PendingOf(t, d) = {}
ParticipantIndexFree(s, d, n) ==
  \A p \in participants : p.session = s => (p.device = d <=> p.ordinal = n)
NumberIndexFree(s, n) == n \notin NumbersOf(s)
KeyIndexMissing(k) == TRUE      \* variant: no primary key on the idempotency keys
KeyIndexFree(k) == \A o \in OrderIds : orders[o].key # k

-----------------------------------------------------------------------------
(* Transactions.                                                           *)

\* SELECT ... FOR UPDATE waits for the transaction that holds the row.
LockIgnored(t) == TRUE      \* variant: the SELECT lost its FOR UPDATE
LockFree(t) == lock[t] = None

BeginLocked(w, t, rec) ==
  /\ rec.op \in Called
  /\ tx[w] = NoTx
  /\ LockFree(t)
  /\ lock' = [lock EXCEPT ![t] = w]
  /\ tx' = [tx EXCEPT ![w] = rec]
  /\ UNCHANGED db

BeginUnlocked(w, rec) ==
  /\ rec.op \in Called
  /\ tx[w] = NoTx
  /\ tx' = [tx EXCEPT ![w] = rec]
  /\ UNCHANGED <<db, lock>>

End(w) ==
  /\ tx' = [tx EXCEPT ![w] = NoTx]
  /\ lock' = [t \in Tables |-> IF lock[t] = w THEN None ELSE lock[t]]

Rollback(w) ==
  /\ tx[w] # NoTx
  /\ End(w)
  /\ UNCHANGED db

Running(w, op) == tx[w].op = op

-----------------------------------------------------------------------------
(* Rows the handlers write, shared by several of them.                     *)

\* openSession
OpenedSession(t) == [NoSession EXCEPT !.status = "active", !.table = t]

\* closeSessionRow: the row of the session; the names of its participants go.
ClosedSession(s) == [sessions[s] EXCEPT !.status = "closed"]
NamedExcept(s) == {n \in named : n[1] # s}

\* addParticipant, with the ordinal read before
WithoutParticipant(s, d, n) == participants      \* variant: the INSERT is forgotten
WithParticipant(s, d, n) ==
  participants \cup {[session |-> s, device |-> d, ordinal |-> n]}

\* UPDATE service_requests SET status ... WHERE id IN R
RequestsSet(rows, R, status) ==
  [r \in RequestIds |-> IF r \in R THEN [rows[r] EXCEPT !.status = status] ELSE rows[r]]

\* UPDATE orders SET status = ... WHERE id IN O
OrdersSet(O, status) ==
  [o \in OrderIds |-> IF o \in O THEN [orders[o] EXCEPT !.status = status] ELSE orders[o]]
OrdersRejected(O) == OrdersSet(O, "rejected")      \* variant: the status of the request
OrdersCancelled(O) == OrdersSet(O, "cancelled")

\* confirmPendingOrder and migratePendingOrder; o = 0 is no order
ConfirmedNothing(o) == orders      \* variant: the pending order is forgotten
PendingOrderConfirmed(o) == OrdersSet({o}, "submitted")
OrderMovedKeepingOwner(o, s, d) ==      \* variant: the participant is not updated
  [q \in OrderIds |->
     IF q = o THEN [orders[q] EXCEPT !.session = s, !.number = 1, !.status = "submitted"]
     ELSE orders[q]]
PendingOrderMigrated(o, s, d) ==
  [q \in OrderIds |->
     IF q = o THEN [orders[q] EXCEPT !.session = s, !.number = 1, !.status = "submitted",
                                     !.participant = <<s, d>>]
     ELSE orders[q]]

-----------------------------------------------------------------------------
(* Customers ask for a table and join a session.                           *)

RequestService(w, t, d) ==
  /\ DecideOpenRequest(TableState(t), PendingOf(t, d) # {}) = "create"
  /\ BeginLocked(w, t, [NoTx EXCEPT !.op = "requestService", !.table = t, !.device = d])

CommitRequestService(w) ==
  LET t == tx[w].table  d == tx[w].device IN
  /\ Running(w, "requestService")
  /\ PendingIndexFree(t, d)
  /\ \E r \in RequestIds :
       /\ IsNewRequest(r)
       /\ requests' = [requests EXCEPT ![r] =
            [NoRequest EXCEPT !.status = "pending", !.type = "open_session",
                              !.table = t, !.device = d]]
  /\ End(w)
  /\ UNCHANGED <<isActive, sessions, participants, named, orders>>

\* Variant: joining without the lock of the table.
JoinUnlocked(w, t, d) ==
  \E s \in LiveSessions(t) :
    \E n \in OrdinalFor(s, d) :
      BeginUnlocked(w, [NoTx EXCEPT !.op = "join", !.table = t, !.session = s,
                                    !.device = d, !.number = n])

\* The PIN was accepted; a wrong PIN is refused and rolls back.
Join(w, t, d) ==
  \E s \in LiveSessions(t) :
    \E n \in OrdinalFor(s, d) :
      BeginLocked(w, t, [NoTx EXCEPT !.op = "join", !.table = t, !.session = s,
                                     !.device = d, !.number = n])

CommitJoin(w) ==
  LET s == tx[w].session  d == tx[w].device  n == tx[w].number IN
  /\ Running(w, "join")
  /\ ParticipantIndexFree(s, d, n)
  /\ participants' = WithParticipant(s, d, n)
  /\ End(w)
  /\ UNCHANGED <<isActive, sessions, named, requests, orders>>

\* One UPDATE by participant id: no lock, and the session may be closed.
SetParticipantName(s, d, given) ==
  /\ "setParticipantName" \in Called
  /\ Participates(s, d)
  /\ named' = IF given THEN named \cup {<<s, d>>} ELSE named \ {<<s, d>>}
  /\ UNCHANGED <<isActive, sessions, participants, requests, orders, lock, tx>>

-----------------------------------------------------------------------------
(* The bill.  None of the three locks the table.                           *)

RequestBill(w, s) ==
  /\ Live(s)
  /\ ~sessions[s].billRequested
  /\ BeginUnlocked(w, [NoTx EXCEPT !.op = "requestBill", !.session = s])

CommitRequestBill(w) ==
  /\ Running(w, "requestBill")
  /\ sessions' = [sessions EXCEPT ![tx[w].session].billRequested = TRUE,
                                  ![tx[w].session].billAcknowledged = FALSE]
  /\ End(w)
  /\ UNCHANGED <<isActive, participants, named, requests, orders>>

CancelBill(w, s) ==
  /\ Live(s)
  /\ sessions[s].billRequested /\ ~sessions[s].billAcknowledged
  /\ BeginUnlocked(w, [NoTx EXCEPT !.op = "cancelBill", !.session = s])

CommitCancelBill(w) ==
  /\ Running(w, "cancelBill")
  /\ sessions' = [sessions EXCEPT ![tx[w].session].billRequested = FALSE]
  /\ End(w)
  /\ UNCHANGED <<isActive, participants, named, requests, orders>>

AcknowledgeBill(w, s) ==
  /\ Live(s)
  /\ sessions[s].billRequested
  /\ BeginUnlocked(w, [NoTx EXCEPT !.op = "acknowledgeBill", !.session = s])

CommitAcknowledgeBill(w) ==
  /\ Running(w, "acknowledgeBill")
  /\ sessions' = [sessions EXCEPT ![tx[w].session].billAcknowledged = TRUE]
  /\ End(w)
  /\ UNCHANGED <<isActive, participants, named, requests, orders>>

-----------------------------------------------------------------------------
(* The staff decides on a request.                                         *)

\* With no live session, a request to open the table opens one; a request to
\* resume is refused.  With a live session that is inactive, or a request to
\* resume, the staff chooses between a new session and continuing it.  (A
\* request to open a table that is occupied is refused: the 'expired' written
\* before the refusal is rolled back with it.)
Approve(w, r) ==
  LET t == requests[r].table
      d == requests[r].device
      plan == [NoTx EXCEPT !.op = "approve", !.table = t, !.request = r,
                           !.device = d, !.order = requests[r].order]
  IN
  /\ Pending(r)
  /\ \/ /\ LiveSessions(t) = {}
        /\ requests[r].type = "open_session"
        /\ BeginLocked(w, t, [plan EXCEPT !.choice = "open", !.number = 1])
     \/ \E s \in LiveSessions(t) :
          /\ sessions[s].status = "inactive" \/ requests[r].type = "resume_session"
          /\ \/ BeginLocked(w, t, [plan EXCEPT !.choice = "new_session",
                                               !.session = s, !.number = 1])
             \/ /\ requests[r].type = "resume_session"
                /\ BeginLocked(w, t, [plan EXCEPT !.choice = "continue", !.session = s])
             \/ /\ requests[r].type = "open_session"
                /\ \E n \in OrdinalFor(s, d) :
                     BeginLocked(w, t, [plan EXCEPT !.choice = "continue",
                                                    !.session = s, !.number = n])

\* The request becomes approved whatever it has become since it was read; the
\* other requests to open the table that are still pending expire.
RequestsApproved(r, t, s) ==
  [q \in RequestIds |->
     IF q = r THEN [requests[q] EXCEPT !.status = "approved", !.session = s]
     ELSE IF /\ Pending(q) /\ requests[q].table = t
             /\ requests[q].type = "open_session"
       THEN [requests[q] EXCEPT !.status = "expired"]
     ELSE requests[q]]

CommitApproveOpen(w) ==
  LET t == tx[w].table IN
  /\ Running(w, "approve") /\ tx[w].choice = "open"
  /\ LiveIndexFree(t, {})
  /\ \E s \in SessionIds :
       /\ IsNewSession(s)
       /\ sessions' = [sessions EXCEPT ![s] = OpenedSession(t)]
       /\ participants' = WithParticipant(s, tx[w].device, 1)
       /\ requests' = RequestsApproved(tx[w].request, t, s)
  /\ End(w)
  /\ UNCHANGED <<isActive, named, orders>>

\* The pending order of the request moves to the new session as its order 1.
CommitApproveNew(w) ==
  LET t == tx[w].table  old == tx[w].session IN
  /\ Running(w, "approve") /\ tx[w].choice = "new_session"
  /\ LiveIndexFree(t, {old})
  /\ \E s \in SessionIds :
       /\ IsNewSession(s)
       /\ sessions' = [sessions EXCEPT ![old] = ClosedSession(old),
                                       ![s] = OpenedSession(t)]
       /\ participants' = WithParticipant(s, tx[w].device, 1)
       /\ orders' = PendingOrderMigrated(tx[w].order, s, tx[w].device)
       /\ requests' = RequestsApproved(tx[w].request, t, s)
  /\ named' = NamedExcept(old)
  /\ End(w)
  /\ UNCHANGED isActive

\* The pending order is confirmed in the session it was placed in.
CommitApproveContinue(w) ==
  LET s == tx[w].session IN
  /\ Running(w, "approve") /\ tx[w].choice = "continue"
  /\ IF tx[w].number = 0
       THEN UNCHANGED participants
       ELSE /\ ParticipantIndexFree(s, tx[w].device, tx[w].number)
            /\ participants' = WithParticipant(s, tx[w].device, tx[w].number)
  /\ orders' = PendingOrderConfirmed(tx[w].order)
  /\ LiveIndexFree(tx[w].table, {s})
  /\ sessions' = [sessions EXCEPT ![s].status = "active"]
  /\ requests' = RequestsApproved(tx[w].request, tx[w].table, s)
  /\ End(w)
  /\ UNCHANGED <<isActive, named>>

\* The lock and one conditional UPDATE: nothing it reads can change before it
\* writes.  The order of the request is cancelled whatever its status.
Reject(r) ==
  /\ "reject" \in Called
  /\ Pending(r)
  /\ LockFree(requests[r].table)
  /\ requests' = RequestsSet(requests, {r}, "rejected")
  /\ orders' = OrdersCancelled({requests[r].order})
  /\ UNCHANGED <<isActive, sessions, participants, named, lock, tx>>

-----------------------------------------------------------------------------
(* The staff opens and closes a table by hand.                             *)

OpenByStaff(w, t) ==
  /\ TableState(t) \in {"free", "requested"}
  /\ BeginLocked(w, t, [NoTx EXCEPT !.op = "openByStaff", !.table = t])

\* Every pending request of the table expires; the orders they hold stay.
CommitOpenByStaff(w) ==
  LET t == tx[w].table IN
  /\ Running(w, "openByStaff")
  /\ LiveIndexFree(t, {})
  /\ \E s \in SessionIds :
       /\ IsNewSession(s)
       /\ sessions' = [sessions EXCEPT ![s] = OpenedSession(t)]
  /\ requests' = RequestsSet(requests,
       {r \in RequestIds : Pending(r) /\ requests[r].table = t}, "expired")
  /\ End(w)
  /\ UNCHANGED <<isActive, participants, named, orders>>

Close(w, s, force) ==
  /\ Live(s)
  /\ DecideCloseSession(UnackedOf(s), force) # "blocked"
  /\ BeginLocked(w, sessions[s].table,
       [NoTx EXCEPT !.op = "close", !.table = sessions[s].table, !.session = s,
                    !.unacked = UnackedOf(s)])

\* The orders found unacknowledged are cancelled by id, whatever they became.
CommitClose(w) ==
  LET s == tx[w].session IN
  /\ Running(w, "close")
  /\ orders' = OrdersCancelled(tx[w].unacked)
  /\ sessions' = [sessions EXCEPT ![s] = ClosedSession(s)]
  /\ named' = NamedExcept(s)
  /\ End(w)
  /\ UNCHANGED <<isActive, participants, requests>>

-----------------------------------------------------------------------------
(* Orders.  d = None is an order by the staff.                             *)

\* The idempotency key is looked up before the table is locked.
CreateOrder(w, s, d, k) ==
  /\ sessions[s] # NoSession
  /\ d # None => Participates(s, d)
  /\ KeyIndexFree(k)
  /\ BeginUnlocked(w, [NoTx EXCEPT !.op = "createOrder", !.table = sessions[s].table,
                        !.session = s, !.device = d, !.key = k, !.choice = "start"])

StalePlacement(s, d) == "submit"      \* variant: the session is not read again
Placement(s, d) ==
  DecideOrderPlacement(sessions[s].status, IF d = None THEN "staff" ELSE "customer")

\* The lock is taken and the session read again.
LockCreateOrder(w) ==
  LET s == tx[w].session  t == tx[w].table  d == tx[w].device
      placement == Placement(s, d)
  IN
  /\ Running(w, "createOrder") /\ tx[w].choice = "start"
  /\ LockFree(t)
  /\ d # None => Participates(s, d) /\ ~sessions[s].billRequested
  /\ placement # "error"
  /\ placement = "await_confirmation" => PendingOf(t, d) = {}
  /\ lock' = [lock EXCEPT ![t] = w]
  /\ \E n \in NextNumber(NumbersOf(s)) :
       tx' = [tx EXCEPT ![w].choice = placement, ![w].number = n]
  /\ UNCHANGED db

InsertOrder(w, o, status) ==
  /\ IsNewOrder(o)
  /\ NumberIndexFree(tx[w].session, tx[w].number)
  /\ KeyIndexFree(tx[w].key)
  /\ orders' = [orders EXCEPT ![o] =
       [status |-> status, session |-> tx[w].session, number |-> tx[w].number,
        participant |-> IF tx[w].device = None THEN None
                        ELSE <<tx[w].session, tx[w].device>>,
        key |-> tx[w].key]]

\* The session becomes active whatever its status, so that an order counts as
\* activity and an order by the staff resumes an inactive session.
CommitSubmitOrder(w) ==
  /\ Running(w, "createOrder") /\ tx[w].choice = "submit"
  /\ \E o \in OrderIds : InsertOrder(w, o, "submitted")
  /\ LiveIndexFree(tx[w].table, {tx[w].session})
  /\ sessions' = [sessions EXCEPT ![tx[w].session].status = "active"]
  /\ End(w)
  /\ UNCHANGED <<isActive, participants, named, requests>>

CommitAwaitOrder(w) ==
  LET s == tx[w].session  t == tx[w].table  d == tx[w].device IN
  /\ Running(w, "createOrder") /\ tx[w].choice = "await_confirmation"
  /\ PendingIndexFree(t, d)
  /\ \E o \in OrderIds, r \in RequestIds :
       /\ InsertOrder(w, o, "pending_confirmation")
       /\ IsNewRequest(r)
       /\ requests' = [requests EXCEPT ![r] =
            [status |-> "pending", type |-> "resume_session", table |-> t,
             device |-> d, session |-> s, order |-> o]]
  /\ End(w)
  /\ UNCHANGED <<isActive, sessions, participants, named>>

\* One conditional UPDATE.
AcknowledgeOrder(o) ==
  /\ "acknowledgeOrder" \in Called
  /\ orders[o].status = "submitted"
  /\ orders' = [orders EXCEPT ![o].status = "acknowledged"]
  /\ UNCHANGED <<isActive, sessions, participants, named, requests, lock, tx>>

\* The status is read without a lock; customers cancel only their own orders.
CancelOrder(w, o, byCustomer) ==
  /\ orders[o].status \in {"submitted", "pending_confirmation"}
  /\ byCustomer => orders[o].participant # None /\ orders[o].status = "submitted"
  /\ BeginUnlocked(w, [NoTx EXCEPT !.op = "cancelOrder", !.order = o,
                                   !.choice = orders[o].status])

\* The order is cancelled by id, whatever it became; the request that holds it
\* only if the order was pending when read and the request still is.
CommitCancelOrder(w) ==
  LET o == tx[w].order IN
  /\ Running(w, "cancelOrder")
  /\ orders' = OrdersCancelled({o})
  /\ requests' =
       IF tx[w].choice = "pending_confirmation"
         THEN RequestsSet(requests,
                {r \in RequestIds : Pending(r) /\ requests[r].order = o}, "cancelled")
         ELSE requests
  /\ End(w)
  /\ UNCHANGED <<isActive, sessions, participants, named>>

-----------------------------------------------------------------------------
(* Tables.  The live session is looked up without a lock; the UPDATE of the *)
(* row waits for whoever holds it.                                         *)

DeactivateTable(w, t) ==
  /\ LiveSessions(t) = {}
  /\ BeginUnlocked(w, [NoTx EXCEPT !.op = "updateTable", !.table = t])

CommitDeactivateTable(w) ==
  LET t == tx[w].table IN
  /\ Running(w, "updateTable")
  /\ LockFree(t)
  /\ isActive' = [isActive EXCEPT ![t] = FALSE]
  /\ End(w)
  /\ UNCHANGED <<sessions, participants, named, requests, orders>>

ActivateTable(t) ==
  /\ "updateTable" \in Called
  /\ LockFree(t)
  /\ isActive' = [isActive EXCEPT ![t] = TRUE]
  /\ UNCHANGED <<sessions, participants, named, requests, orders, lock, tx>>

-----------------------------------------------------------------------------
(* The jobs, every minute and without a lock.  Which rows are due is chosen *)
(* freely: any pending request is once its ten minutes are over, and any    *)
(* active session once an hour has passed with no order.                   *)

ExpireRequests(R) ==
  /\ R # {}
  /\ \A r \in R : Pending(r)
  /\ requests' = RequestsSet(requests, R, "expired")
  /\ orders' = OrdersCancelled({requests[r].order : r \in R})
  /\ UNCHANGED <<isActive, sessions, participants, named, lock, tx>>

MarkInactiveSessions(S) ==
  /\ S # {}
  /\ \A s \in S : sessions[s].status = "active"
  /\ sessions' = [s \in SessionIds |->
       IF s \in S THEN [sessions[s] EXCEPT !.status = "inactive"] ELSE sessions[s]]
  /\ UNCHANGED <<isActive, participants, named, requests, orders, lock, tx>>

-----------------------------------------------------------------------------

Customer(w) ==
  \/ \E t \in Tables, d \in Devices : RequestService(w, t, d) \/ Join(w, t, d)
  \/ \E s \in SessionIds : RequestBill(w, s) \/ CancelBill(w, s)
  \/ \E s \in SessionIds, d \in Devices, k \in Keys : CreateOrder(w, s, d, k)
  \/ \E o \in OrderIds : CancelOrder(w, o, TRUE)

Staff(w) ==
  \/ \E r \in RequestIds : Approve(w, r)
  \/ \E t \in Tables : OpenByStaff(w, t) \/ DeactivateTable(w, t)
  \/ \E s \in SessionIds, force \in BOOLEAN : Close(w, s, force)
  \/ \E s \in SessionIds : AcknowledgeBill(w, s)
  \/ \E s \in SessionIds, k \in Keys : CreateOrder(w, s, None, k)
  \/ \E o \in OrderIds : CancelOrder(w, o, FALSE)

Commit(w) ==
  \/ CommitRequestService(w) \/ CommitJoin(w)
  \/ CommitRequestBill(w) \/ CommitCancelBill(w) \/ CommitAcknowledgeBill(w)
  \/ CommitApproveOpen(w) \/ CommitApproveNew(w) \/ CommitApproveContinue(w)
  \/ CommitOpenByStaff(w) \/ CommitClose(w)
  \/ LockCreateOrder(w) \/ CommitSubmitOrder(w) \/ CommitAwaitOrder(w)
  \/ CommitCancelOrder(w) \/ CommitDeactivateTable(w)

OneStatement ==
  \/ \E s \in SessionIds, d \in Devices, given \in BOOLEAN :
       SetParticipantName(s, d, given)
  \/ \E r \in RequestIds : Reject(r)
  \/ \E o \in OrderIds : AcknowledgeOrder(o)
  \/ \E t \in Tables : ActivateTable(t)

Jobs ==
  \/ \E R \in SUBSET RequestIds : ExpireRequests(R)
  \/ \E S \in SUBSET SessionIds : MarkInactiveSessions(S)

Next ==
  \/ \E w \in Workers : Customer(w) \/ Staff(w) \/ Commit(w) \/ Rollback(w)
  \/ OneStatement
  \/ Jobs

Spec == Init /\ [][Next]_vars

-----------------------------------------------------------------------------
(* What must hold.                                                         *)

\* No table ever serves two sessions: the partial unique index on live sessions
\* never has to refuse one (BR-16: the lock is what keeps them apart).
OneLiveSession ==
  \A s, q \in SessionIds :
    Live(s) /\ Live(q) /\ sessions[s].table = sessions[q].table => s = q

\* The inserts that worker w has prepared from what it read under the lock meet
\* no row.  (The primary key of idempotency_keys is not among them: that key is
\* looked up before the lock, in CreateOrder.)
IndexesFree(w) ==
  LET t == tx[w].table  s == tx[w].session  d == tx[w].device
      n == tx[w].number  c == tx[w].choice
  IN
  /\ Running(w, "openByStaff") \/ c = "open" => LiveIndexFree(t, {})
  /\ c \in {"new_session", "continue", "submit"} => LiveIndexFree(t, {s})
  /\ Running(w, "requestService") \/ c = "await_confirmation" => PendingIndexFree(t, d)
  /\ Running(w, "join") \/ (c = "continue" /\ n # 0) => ParticipantIndexFree(s, d, n)
  /\ c \in {"submit", "await_confirmation"} => NumberIndexFree(s, n)

\* What a transaction reads under the lock is still true when it writes: the
\* unique indexes on the live sessions of a table, on the pending requests of a
\* device, on participants and on order numbers never refuse an insert of it,
\* however the handlers that take no lock and the jobs came in between (BR-16:
\* the indexes are the last line of defence, not the first).  The one index that
\* is a first line is the key of idempotency_keys, read before the lock: it
\* refuses the second of two deliveries of one order.
LockedReadsHold == \A w \in Workers : IndexesFree(w)

\* A closed session stays closed, nobody joins it and no order enters it, not
\* even from a transaction that read it while it was open (state-machines.md:
\* closed is terminal; the concurrency tests race a join with a close).
ClosedSessionIsFinal ==
  [][\A s \in SessionIds : sessions[s].status = "closed" =>
       /\ sessions'[s].status = "closed"
       /\ \A p \in participants' : p.session = s => p \in participants
       /\ \A o \in OrderIds : orders'[o].session = s => orders[o].session = s]_vars

\* An approval under way that found request r pending
UnderApproval(r) == \E w \in Workers : Running(w, "approve") /\ tx[w].request = r

\* A request that is settled stays as it is: an approval is not undone by the
\* expiry job, a cancellation or a rejection, nor a rejection by an approval; and
\* one that has expired or was cancelled is never rejected, expired again or
\* revived, but by an approval that had found it pending (state-machines.md says
\* that only a pending request is approved, and does not know of this case).
StaffAnswerIsFinal ==
  [][\A r \in RequestIds : requests'[r] # requests[r] =>
       \/ requests[r].status \in {"none", "pending"}
       \/ /\ requests[r].status \in {"expired", "cancelled"}
          /\ requests'[r].status = "approved" /\ UnderApproval(r)]_vars

\* A device whose request to open the table was approved takes part in the
\* session the request led to: getCustomerRequest finds its participant.
ApprovedDeviceTakesPart ==
  \A r \in RequestIds :
    requests[r].status = "approved" /\ requests[r].type = "open_session"
      => Participates(requests[r].session, requests[r].device)

\* The participant an order belongs to is one of the session the order is in,
\* after the order moved to another session too (BR-10a).
OrderOwnerTakesPart ==
  \A o \in OrderIds :
    orders[o].participant # None =>
      /\ orders[o].participant[1] = orders[o].session
      /\ Participates(orders[o].session, orders[o].participant[2])

\* When the staff closes a session no order of it is left waiting to be
\* acknowledged (BR-13), although orders are acknowledged and cancelled without
\* the lock and an order may have been on its way when the close began.
CloseLeavesNothingUnacknowledged ==
  [][\A w \in Workers, s \in SessionIds :
       Running(w, "close") /\ tx[w].session = s /\ Live(s) /\ ~Live(s)'
         => UnackedOf(s)' = {}]_vars

\* A retried order is created once, orders of a session have different numbers,
\* and an order awaits the answer to one request only.
OrdersAreDistinct ==
  /\ \A o, q \in OrderIds :
       orders[o] # NoOrder /\ orders[q] # NoOrder /\ o # q =>
         /\ orders[o].key # orders[q].key
         /\ orders[o].session = orders[q].session => orders[o].number # orders[q].number
  /\ \A r, q \in RequestIds :
       requests[r].order = requests[q].order /\ requests[r].order # 0 => r = q

\* Once the staff has answered a request its order no longer waits: approved, it
\* has entered the queue; rejected, it is cancelled and stays so (BR-10).
AnswerSettlesOrder ==
  \A r \in RequestIds : requests[r].order # 0 =>
    /\ requests[r].status = "approved"
         => orders[requests[r].order].status # "pending_confirmation"
    /\ requests[r].status = "rejected"
         => orders[requests[r].order].status = "cancelled"

-----------------------------------------------------------------------------
(* Why it holds: an invariant that every step preserves.                   *)

\* Rows that exist name a table; participants name a session that exists.
RowsWellFormed ==
  /\ \A s \in SessionIds :
       IF sessions[s].status = "none" THEN sessions[s] = NoSession
       ELSE sessions[s].table \in Tables
  /\ \A r \in RequestIds :
       Pending(r) => requests[r].table \in Tables /\ requests[r].device \in Devices
  /\ \A p \in participants : sessions[p.session].status # "none"

\* The two unique indexes of session_participants.
ParticipantsDistinct ==
  \A p, q \in participants :
    p.session = q.session => (p.device = q.device <=> p.ordinal = q.ordinal)

\* What an open transaction keeps fits the handler that runs in it.
PlanWellFormed(w) ==
  LET x == tx[w] IN
  /\ x.op = "approve" <=> x.choice \in {"open", "new_session", "continue"}
  /\ x.op = "createOrder" <=> x.choice \in {"start", "submit", "await_confirmation"}
  /\ x.op \in {"requestService", "join", "approve"} \/ x.choice = "await_confirmation"
       => x.device \in Devices
  /\ x.op = "join" => x.number # 0
  /\ x.session # 0 => sessions[x.session].status # "none"
  /\ x.op = "createOrder" => x.session # 0 /\ x.table = sessions[x.session].table

\* The handlers that lock their table, once they have.
Locks(w) ==
  \/ tx[w].op \in {"requestService", "join", "approve", "openByStaff", "close"}
  \/ tx[w].choice \in {"submit", "await_confirmation"}
LockHeld(w) == Locks(w) => tx[w].table \in Tables /\ lock[tx[w].table] = w

\* A session found live under the lock is live until the lock is released.
UsesSession(w) ==
  \/ tx[w].op \in {"join", "close"}
  \/ tx[w].choice \in {"new_session", "continue", "submit", "await_confirmation"}
SessionHeld(w) == UsesSession(w) => tx[w].session \in LiveSessions(tx[w].table)

\* The conjunction that is inductive: what a transaction read under the lock of
\* its table stays true of that table until it writes.
LockProtects ==
  /\ TypeOK /\ RowsWellFormed /\ ParticipantsDistinct /\ OneLiveSession
  /\ \A w \in Workers :
       PlanWellFormed(w) /\ LockHeld(w) /\ SessionHeld(w) /\ IndexesFree(w)

-----------------------------------------------------------------------------
(* What the documents say and the handlers do not keep: each is violated,  *)
(* and the README tells by which interleaving.                             *)

\* acknowledged and cancelled are final (state-machines.md, Pedido).
SettledOrderIsFinal ==
  [][\A o \in OrderIds : orders[o].status \in {"acknowledged", "cancelled"} =>
       orders'[o].status = orders[o].status]_vars

\* The customer may give up the bill only until the staff confirms it, so a bill
\* that was acknowledged is still requested (BR-18).
AcknowledgedBillIsRequested ==
  \A s \in SessionIds : sessions[s].billAcknowledged => sessions[s].billRequested

\* An order awaits confirmation only while a request holds it: the order of an
\* expired request is cancelled (state-machines.md, Pedido).
WaitingOrderIsHeld ==
  \A o \in OrderIds : orders[o].status = "pending_confirmation" =>
    \E r \in RequestIds : Pending(r) /\ requests[r].order = o

\* A table with a live session cannot be deactivated (flows.md).
DisabledTableServesNobody ==
  \A t \in Tables : ~isActive[t] => LiveSessions(t) = {}

=============================================================================
