---------------------- MODULE TableServiceStepProofs ----------------------
(***************************************************************************)
(* What no step of TableService may ever do, for every number of tables,   *)
(* devices, workers and rows: from the invariant of TableServiceProofs, a  *)
(* transaction that joins a session, orders into it or reactivates it has  *)
(* the lock of its table, so the session is still live when it writes.     *)
(***************************************************************************)
EXTENDS TableServiceSlots, TableServiceProofs

\* One step of ClosedSessionIsFinal.
ClosedStays ==
  \A s \in SessionIds : sessions[s].status = "closed" =>
    /\ sessions'[s].status = "closed"
    /\ \A p \in participants' : p.session = s => p \in participants
    /\ \A o \in OrderIds : orders'[o].session = s => orders[o].session = s

\* The three parts of it, by what a step writes.
SessionsStay == \A s \in SessionIds : sessions[s].status = "closed" => sessions'[s].status = "closed"
NobodyEnters ==
  \A p \in participants' : p \in participants \/ sessions[p.session].status # "closed"
NoOrderEnters ==
  \A o \in OrderIds : orders'[o].session \in SessionIds =>
    orders'[o].session = orders[o].session \/ sessions[orders'[o].session].status # "closed"

\* The three parts of what holds of closed sessions.
LEMMA PartsGiveClosedStays ==
  ASSUME SessionsStay, NobodyEnters, NoOrderEnters
  PROVE  ClosedStays
BY DEF SessionsStay, NobodyEnters, NoOrderEnters, ClosedStays

\* A step that leaves the sessions, participants and where the orders are.
LEMMA QuietStepStays ==
  ASSUME UNCHANGED <<sessions, participants>>,
         \A o \in OrderIds : orders'[o].session = orders[o].session
  PROVE  ClosedStays
BY DEF ClosedStays

\* A write to one column of orders moves none.
LEMMA OrdersSetMoves ==
  ASSUME TypeOK, NEW O, NEW status, orders' = OrdersSet(O, status)
  PROVE  \A o \in OrderIds : orders'[o].session = orders[o].session
<1> TAKE o \in OrderIds
<1>1. orders[o] \in Orders
  BY DEF TypeOK
<1> QED
  BY <1>1 DEF OrdersSet, Orders

-----------------------------------------------------------------------------
(* The transactions that begin, and those that end without writing.        *)

\* A transaction that begins, or ends without writing, moves nothing.
LEMMA BeginStays ==
  ASSUME UNCHANGED db
  PROVE  ClosedStays
BY QuietStepStays DEF db

\* A transaction only reads until it commits,
LEMMA BeginWritesNothing ==
  ASSUME NEW w \in Workers, Customer(w) \/ Staff(w) \/ Rollback(w)
  PROVE  UNCHANGED db
<1>1. ASSUME NEW t, NEW rec, BeginLocked(w, t, rec) PROVE UNCHANGED db
  BY <1>1 DEF BeginLocked
<1>2. ASSUME NEW rec, BeginUnlocked(w, rec) PROVE UNCHANGED db
  BY <1>2 DEF BeginUnlocked
<1>3. ASSUME NEW t, NEW d, RequestService(w, t, d) \/ Join(w, t, d) PROVE UNCHANGED db
  BY <1>1, <1>3 DEF RequestService, Join
<1>4. ASSUME NEW s, RequestBill(w, s) \/ CancelBill(w, s) \/ AcknowledgeBill(w, s)
      PROVE  UNCHANGED db
  BY <1>2, <1>4 DEF RequestBill, CancelBill, AcknowledgeBill
<1>5. ASSUME NEW s, NEW d, NEW k, CreateOrder(w, s, d, k) PROVE UNCHANGED db
  BY <1>2, <1>5 DEF CreateOrder
<1>6. ASSUME NEW o, NEW own, CancelOrder(w, o, own) PROVE UNCHANGED db
  BY <1>2, <1>6 DEF CancelOrder
<1>7. CASE Customer(w)
  BY <1>3, <1>4, <1>5, <1>6, <1>7 DEF Customer
<1>8. ASSUME NEW t, OpenByStaff(w, t) \/ DeactivateTable(w, t) PROVE UNCHANGED db
  BY <1>1, <1>2, <1>8 DEF OpenByStaff, DeactivateTable
<1>9. ASSUME NEW r, Approve(w, r) PROVE UNCHANGED db
  BY <1>1, <1>2, <1>9 DEF Approve
<1>10. ASSUME NEW s, NEW force, Close(w, s, force) PROVE UNCHANGED db
  BY <1>1, <1>2, <1>10 DEF Close
<1>11. CASE Staff(w)
  BY <1>4, <1>5, <1>6, <1>8, <1>9, <1>10, <1>11 DEF Staff
<1>12. CASE Rollback(w)
  BY <1>12 DEF Rollback
<1> QED
  BY <1>7, <1>11, <1>12

\* and so leaves closed sessions as they are.
LEMMA CallStays ==
  ASSUME NEW w \in Workers, Customer(w) \/ Staff(w) \/ Rollback(w)
  PROVE  ClosedStays
BY BeginWritesNothing, BeginStays

-----------------------------------------------------------------------------
(* The commits.                                                            *)

\* The bill is written by id, in whatever state the session is by then.
LEMMA CommitBillStays ==
  ASSUME LockProtects, NEW w \in Workers,
         CommitRequestBill(w) \/ CommitCancelBill(w) \/ CommitAcknowledgeBill(w)
  PROVE  ClosedStays
<1>1. sessions \in [SessionIds -> Sessions]
  BY DEF LockProtects, TypeOK
<1>2. SessionsStay
  BY <1>1 DEF SessionsStay, CommitRequestBill, CommitCancelBill, CommitAcknowledgeBill, Sessions
<1>3. UNCHANGED <<participants, orders>>
  BY DEF CommitRequestBill, CommitCancelBill, CommitAcknowledgeBill
<1> QED
  BY <1>2, <1>3 DEF SessionsStay, ClosedStays

\* The session that is joined is live.
LEMMA CommitJoinStays ==
  ASSUME LockProtects, NEW w \in Workers, CommitJoin(w)
  PROVE  ClosedStays
<1> DEFINE s == tx[w].session
<1>1. Live(s)
  BY PlanFacts DEF CommitJoin, Running, Locks, UsesSession
<1>2. NobodyEnters
  BY <1>1 DEF NobodyEnters, CommitJoin, WithParticipant, Live, LiveStatuses
<1>3. SessionsStay /\ NoOrderEnters
  BY DEF CommitJoin, SessionsStay, NoOrderEnters
<1> QED
  BY <1>2, <1>3, PartsGiveClosedStays

\* The session that an approval opens is new.
LEMMA CommitApproveOpenStays ==
  ASSUME LockProtects, NEW w \in Workers, CommitApproveOpen(w)
  PROVE  ClosedStays
<1>1. PICK s \in SessionIds :
        /\ IsNewSession(s)
        /\ sessions' = [sessions EXCEPT ![s] = OpenedSession(tx[w].table)]
        /\ participants' = WithParticipant(s, tx[w].device, 1)
  BY DEF CommitApproveOpen
<1>2. sessions \in [SessionIds -> Sessions] /\ sessions[s].status = "none"
  BY <1>1 DEF LockProtects, TypeOK, IsNewSession, NoSession
<1>3. SessionsStay
  BY <1>1, <1>2 DEF SessionsStay
<1>4. NobodyEnters
  BY <1>1, <1>2 DEF NobodyEnters, WithParticipant
<1>5. NoOrderEnters
  BY DEF CommitApproveOpen, NoOrderEnters
<1> QED
  BY <1>3, <1>4, <1>5, PartsGiveClosedStays

\* The order moves into the session that opens with it.
LEMMA CommitApproveNewStays ==
  ASSUME LockProtects, NEW w \in Workers, CommitApproveNew(w)
  PROVE  ClosedStays
<1> DEFINE old == tx[w].session
<1>1. PICK s \in SessionIds :
        /\ IsNewSession(s)
        /\ sessions' = [sessions EXCEPT ![old] = ClosedSession(old),
                                        ![s] = OpenedSession(tx[w].table)]
        /\ participants' = WithParticipant(s, tx[w].device, 1)
        /\ orders' = PendingOrderMigrated(tx[w].order, s, tx[w].device)
  BY DEF CommitApproveNew
<1>2. sessions \in [SessionIds -> Sessions] /\ sessions[s].status = "none"
  BY <1>1 DEF LockProtects, TypeOK, IsNewSession, NoSession
<1>3. SessionsStay
  BY <1>1, <1>2 DEF SessionsStay, ClosedSession, Sessions
<1>4. NobodyEnters
  BY <1>1, <1>2 DEF NobodyEnters, WithParticipant
<1>5. NoOrderEnters
  <2> SUFFICES ASSUME NEW o \in OrderIds
               PROVE  orders'[o].session = orders[o].session \/ orders'[o].session = s
    BY <1>2 DEF NoOrderEnters
  <2>1. orders[o] \in Orders
    BY DEF LockProtects, TypeOK
  <2> QED
    BY <1>1, <2>1 DEF PendingOrderMigrated, Orders
<1> QED
  BY <1>3, <1>4, <1>5, PartsGiveClosedStays

\* The session that an approval continues is live.
LEMMA CommitApproveContinueStays ==
  ASSUME LockProtects, NEW w \in Workers, CommitApproveContinue(w)
  PROVE  ClosedStays
<1> DEFINE s == tx[w].session
<1>1. Live(s)
  BY PlanFacts DEF CommitApproveContinue, UsesSession, PlanWellFormed, Running, Locks
<1>2. TypeOK /\ sessions' = [sessions EXCEPT ![s].status = "active"]
  BY DEF LockProtects, CommitApproveContinue
<1>3. SessionsStay
  BY <1>1, <1>2 DEF SessionsStay, TypeOK, Live, LiveStatuses
<1>4. NobodyEnters
  BY <1>1 DEF NobodyEnters, CommitApproveContinue, WithParticipant, Live, LiveStatuses
<1>5. orders' = OrdersSet({tx[w].order}, "submitted")
  BY DEF CommitApproveContinue, PendingOrderConfirmed
<1>6. NoOrderEnters
  BY <1>2, <1>5, OrdersSetMoves DEF NoOrderEnters
<1> QED
  BY <1>3, <1>4, <1>6, PartsGiveClosedStays

\* The session that the staff opens is new.
LEMMA CommitOpenByStaffStays ==
  ASSUME LockProtects, NEW w \in Workers, CommitOpenByStaff(w)
  PROVE  ClosedStays
<1>1. PICK s \in SessionIds :
        IsNewSession(s) /\ sessions' = [sessions EXCEPT ![s] = OpenedSession(tx[w].table)]
  BY DEF CommitOpenByStaff
<1>2. sessions \in [SessionIds -> Sessions] /\ sessions[s].status = "none"
  BY <1>1 DEF LockProtects, TypeOK, IsNewSession, NoSession
<1>3. SessionsStay
  BY <1>1, <1>2 DEF SessionsStay
<1>4. UNCHANGED <<participants, orders>>
  BY DEF CommitOpenByStaff
<1> QED
  BY <1>3, <1>4 DEF SessionsStay, ClosedStays

\* The session that is closed was live.
LEMMA CommitCloseStays ==
  ASSUME LockProtects, NEW w \in Workers, CommitClose(w)
  PROVE  ClosedStays
<1>1. TypeOK
  BY DEF LockProtects
<1>2. SessionsStay
  BY <1>1 DEF SessionsStay, CommitClose, ClosedSession, TypeOK, Sessions
<1>3. orders' = OrdersSet(tx[w].unacked, "cancelled") /\ UNCHANGED participants
  BY DEF CommitClose, OrdersCancelled
<1> QED
  BY <1>1, <1>2, <1>3, OrdersSetMoves DEF SessionsStay, ClosedStays

\* The session was read again under the lock, so it is live when the order is
\* inserted.
LEMMA InsertedOrderStays ==
  ASSUME LockProtects, NEW w \in Workers, NEW o \in OrderIds, NEW status,
         InsertOrder(w, o, status), tx[w].choice \in {"submit", "await_confirmation"}
  PROVE  NoOrderEnters /\ Live(tx[w].session)
<1>1. Live(tx[w].session)
  BY PlanFacts DEF Locks, UsesSession
<1>2. orders \in [OrderIds -> Orders]
  BY DEF LockProtects, TypeOK
<1>3. \A q \in OrderIds :
        orders'[q] = orders[q] \/ orders'[q].session = tx[w].session
  BY <1>2 DEF InsertOrder
<1> QED
  BY <1>1, <1>3 DEF NoOrderEnters, Live, LiveStatuses

\* The session that an order enters is live,
LEMMA CommitSubmitOrderStays ==
  ASSUME LockProtects, NEW w \in Workers, CommitSubmitOrder(w)
  PROVE  ClosedStays
<1>1. NoOrderEnters /\ Live(tx[w].session)
  BY InsertedOrderStays DEF CommitSubmitOrder
<1>2. SessionsStay
  BY <1>1 DEF SessionsStay, CommitSubmitOrder, LockProtects, TypeOK, Live, LiveStatuses
<1>3. NobodyEnters
  BY DEF NobodyEnters, CommitSubmitOrder
<1> QED
  BY <1>1, <1>2, <1>3, PartsGiveClosedStays

\* and so is the one in which it waits.
LEMMA CommitAwaitOrderStays ==
  ASSUME LockProtects, NEW w \in Workers, CommitAwaitOrder(w)
  PROVE  ClosedStays
<1>1. NoOrderEnters
  BY InsertedOrderStays DEF CommitAwaitOrder
<1>2. UNCHANGED <<sessions, participants>>
  BY DEF CommitAwaitOrder
<1> QED
  BY <1>1, <1>2, PartsGiveClosedStays DEF SessionsStay, NobodyEnters

\* No commit touches a closed session,
LEMMA CommitStays ==
  ASSUME LockProtects, NEW w \in Workers, Commit(w)
  PROVE  ClosedStays
<1>1. CASE CommitRequestService(w) \/ LockCreateOrder(w) \/ CommitDeactivateTable(w)
  BY <1>1, QuietStepStays DEF CommitRequestService, LockCreateOrder, CommitDeactivateTable, db
<1>2. CASE CommitCancelOrder(w)
  BY <1>2, QuietStepStays, OrdersSetMoves DEF CommitCancelOrder, OrdersCancelled, LockProtects
<1> QED
  BY <1>1, <1>2, CommitJoinStays, CommitBillStays, CommitApproveOpenStays, CommitApproveNewStays,
     CommitApproveContinueStays, CommitOpenByStaffStays, CommitCloseStays,
     CommitSubmitOrderStays, CommitAwaitOrderStays
     DEF Commit

-----------------------------------------------------------------------------
(* The handlers that are one statement, and the jobs.                      *)

\* no single statement does,
LEMMA OneStatementStays ==
  ASSUME LockProtects, OneStatement
  PROVE  ClosedStays
<1>1. TypeOK
  BY DEF LockProtects
<1>2. ASSUME NEW r \in RequestIds, Reject(r)
      PROVE  ClosedStays
  BY <1>1, <1>2, QuietStepStays, OrdersSetMoves DEF Reject, OrdersCancelled
<1>3. ASSUME NEW o \in OrderIds, AcknowledgeOrder(o)
      PROVE  ClosedStays
  <2>1. \A q \in OrderIds : orders'[q].session = orders[q].session
    BY <1>1, <1>3 DEF AcknowledgeOrder, TypeOK, Orders
  <2> QED
    BY <1>3, <2>1, QuietStepStays DEF AcknowledgeOrder
<1>4. ASSUME NEW s \in SessionIds, NEW d \in Devices, NEW given \in BOOLEAN,
             SetParticipantName(s, d, given)
      PROVE  ClosedStays
  BY <1>4, QuietStepStays DEF SetParticipantName
<1>5. ASSUME NEW t \in Tables, ActivateTable(t)
      PROVE  ClosedStays
  BY <1>5, QuietStepStays DEF ActivateTable
<1> QED
  BY <1>2, <1>3, <1>4, <1>5 DEF OneStatement

\* and no job does.
LEMMA JobsStay ==
  ASSUME LockProtects, Jobs
  PROVE  ClosedStays
<1>1. TypeOK
  BY DEF LockProtects
<1>2. ASSUME NEW R \in SUBSET RequestIds, ExpireRequests(R)
      PROVE  ClosedStays
  BY <1>1, <1>2, QuietStepStays, OrdersSetMoves DEF ExpireRequests, OrdersCancelled
<1>3. ASSUME NEW S \in SUBSET SessionIds, MarkInactiveSessions(S)
      PROVE  ClosedStays
  <2>1. SessionsStay
    BY <1>1, <1>3 DEF SessionsStay, MarkInactiveSessions, TypeOK, Sessions
  <2>2. UNCHANGED <<participants, orders>>
    BY <1>3 DEF MarkInactiveSessions
  <2> QED
    BY <2>1, <2>2 DEF SessionsStay, ClosedStays
<1> QED
  BY <1>2, <1>3 DEF Jobs

-----------------------------------------------------------------------------

\* So no step does.
LEMMA NextStays == LockProtects /\ [Next]_vars => ClosedStays
<1> SUFFICES ASSUME LockProtects, [Next]_vars PROVE ClosedStays
  OBVIOUS
<1>1. CASE UNCHANGED vars
  BY <1>1, BeginStays DEF vars, db
<1> QED
  BY <1>1, CallStays, CommitStays, OneStatementStays, JobsStay DEF Next

\* A closed session stays closed, nobody joins it and no order enters it, from
\* join, create, approve or anything else, however late it writes.
THEOREM ClosedSessionIsFinalAlways == Spec => ClosedSessionIsFinal
<1>1. LockProtects /\ [Next]_vars => [ClosedStays]_vars
  BY NextStays
<1>2. Spec => [][ClosedStays]_vars
  BY <1>1, LockProtectsAlways, PTL DEF Spec
<1> QED
  BY <1>2 DEF ClosedSessionIsFinal, ClosedStays

-----------------------------------------------------------------------------
(* The answers of the staff.  An approval decides on a request that is     *)
(* pending; by the time it writes the request may have expired or its      *)
(* order may have been cancelled, but nobody else has answered it, because *)
(* an answer takes the lock of the table that the approval holds.          *)

Moot == {"expired", "cancelled"}

AnswerOpen(w) ==
  Running(w, "approve") =>
    /\ tx[w].request \in RequestIds
    /\ requests[tx[w].request].table = tx[w].table
    /\ requests[tx[w].request].status \in Moot \cup {"pending"}

AnswersOpen == LockProtects /\ \A w \in Workers : AnswerOpen(w)

\* What a step may do to a request: nothing, create it, make it moot, or answer
\* it when no approval that goes on is of its table.  A moot request is answered
\* only by the approval that had found it pending.
ApprovedLate(r) == requests'[r].status = "approved" /\ UnderApproval(r)
RequestStep(r) ==
  \/ requests'[r] = requests[r]
  \/ requests[r].status = "none"
  \/ /\ Pending(r) /\ requests'[r].table = requests[r].table
     /\ requests'[r].status \in Moot
  \/ /\ requests[r].status \in Moot \cup {"pending"}
     /\ Pending(r) \/ ApprovedLate(r)
     /\ \A v \in Workers : tx'[v].op = "approve" => tx'[v].table # requests[r].table
RequestsStep == \A r \in RequestIds : RequestStep(r)

\* An approval begins on a request that is pending, and keeps its plan.
PlansStep ==
  \A v \in Workers : tx'[v].op = "approve" => tx'[v] = tx[v] \/ AnswerOpen(v)'

\* What steps do to requests and to plans keeps the requests of approvals under
\* way unanswered.
LEMMA StepKeepsAnswersOpen ==
  ASSUME AnswersOpen, LockProtects', RequestsStep, PlansStep
  PROVE  AnswersOpen'
<1> SUFFICES ASSUME NEW v \in Workers, tx'[v].op = "approve", tx'[v] = tx[v]
             PROVE  AnswerOpen(v)'
  BY DEF AnswersOpen, PlansStep, AnswerOpen, Running
<1> DEFINE r == tx[v].request
<1>1. /\ r \in RequestIds /\ requests[r].table = tx[v].table
      /\ requests[r].status \in Moot \cup {"pending"}
  BY DEF AnswersOpen, AnswerOpen, Running
<1>2. requests'[r].table = tx[v].table /\ requests'[r].status \in Moot \cup {"pending"}
  BY <1>1 DEF RequestsStep, RequestStep, Moot
<1> QED
  BY <1>1, <1>2 DEF AnswerOpen

\* The step in which a worker ends, or leaves its plan, starts no approval.
LEMMA EndPlans ==
  ASSUME TypeOK, NEW w \in Workers, End(w)
  PROVE  PlansStep /\ tx'[w].op # "approve" /\ \A v \in Workers \ {w} : tx'[v] = tx[v]
BY DEF TypeOK, End, NoTx, PlansStep

\* A step that leaves the requests is one of the three ways in which they change,
LEMMA RequestsKeptStep ==
  ASSUME UNCHANGED requests
  PROVE  RequestsStep
BY DEF RequestsStep, RequestStep

\* so is one that expires or cancels pending ones,
LEMMA MootStep ==
  ASSUME TypeOK, NEW R, NEW status \in Moot, \A r \in R : Pending(r),
         requests' = RequestsSet(requests, R, status)
  PROVE  RequestsStep
<1> SUFFICES ASSUME NEW r \in RequestIds PROVE RequestStep(r)
  BY DEF RequestsStep
<1>1. requests[r] \in Requests
  BY DEF TypeOK
<1> QED
  BY <1>1 DEF RequestStep, RequestsSet, Requests

\* and so is one that inserts a request.
LEMMA CreatedStep ==
  ASSUME TypeOK, NEW r \in RequestIds, IsNewRequest(r), NEW row,
         requests' = [requests EXCEPT ![r] = row]
  PROVE  RequestsStep
BY DEF RequestsStep, RequestStep, IsNewRequest, NoRequest, TypeOK

\* The lock keeps other approvals of the table away.
LEMMA ApprovedStep ==
  ASSUME AnswersOpen, NEW w \in Workers, Running(w, "approve"), End(w), NEW s \in SessionIds,
         requests' = RequestsApproved(tx[w].request, tx[w].table, s)
  PROVE  RequestsStep
<1>1. TypeOK /\ lock[tx[w].table] = w
  BY PlanFacts DEF AnswersOpen, Locks, Running
<1>2. \A v \in Workers : tx'[v].op = "approve" => tx'[v].table # tx[w].table
  <2> TAKE v \in Workers
  <2>1. CASE v = w
    BY <1>1, <2>1, EndPlans
  <2>2. CASE v # w
    BY <1>1, <2>2, EndPlans, PlanFacts DEF AnswersOpen, Locks
  <2> QED
    BY <2>1, <2>2
<1> SUFFICES ASSUME NEW r \in RequestIds PROVE RequestStep(r)
  BY DEF RequestsStep
<1>3. requests[r] \in Requests
  BY <1>1 DEF TypeOK
<1>4. CASE r = tx[w].request
  <2>1. requests'[r].status = "approved"
    BY <1>3, <1>4 DEF RequestsApproved, Requests
  <2> QED
    BY <1>2, <1>4, <2>1 DEF RequestStep, AnswersOpen, AnswerOpen, ApprovedLate, UnderApproval
<1>5. CASE r # tx[w].request
  BY <1>3, <1>5 DEF RequestStep, RequestsApproved, Requests, Moot
<1> QED
  BY <1>4, <1>5

\* A rejection answers a pending request of a table that nobody has locked.
LEMMA RejectedStep ==
  ASSUME AnswersOpen, NEW r \in RequestIds, Reject(r)
  PROVE  RequestsStep
<1>1. TypeOK
  BY DEF AnswersOpen, LockProtects
<1>2. requests[r].table \in Tables /\ lock[requests[r].table] = None
  BY DEF Reject, LockFree, AnswersOpen, LockProtects, RowsWellFormed
<1>3. \A v \in Workers : tx'[v].op = "approve" => tx'[v].table # requests[r].table
  BY <1>2, PlanFacts, NoneAssumption DEF Reject, AnswersOpen, Locks
<1> SUFFICES ASSUME NEW q \in RequestIds PROVE RequestStep(q)
  BY DEF RequestsStep
<1> QED
  BY <1>1, <1>3 DEF RequestStep, Reject, RequestsSet, Pending, TypeOK

\* The transactions that begin: only Approve makes the plan of an approval.
LEMMA BeginPlans ==
  ASSUME TypeOK, NEW w \in Workers, NEW rec, rec.op # "approve",
         tx' = [tx EXCEPT ![w] = rec], UNCHANGED requests
  PROVE  RequestsStep /\ PlansStep
BY RequestsKeptStep DEF TypeOK, PlansStep

\* The plan of worker w, and nothing else, is now one for request r.
PlanFor(w, r) ==
  /\ UNCHANGED db
  /\ tx'[w].request = r /\ tx'[w].table = requests[r].table
  /\ \A v \in Workers \ {w} : tx'[v] = tx[v]

\* An approval begins with a pending request.
LEMMA ApprovePlans ==
  ASSUME AnswersOpen, NEW w \in Workers, NEW r \in RequestIds, Approve(w, r)
  PROVE  RequestsStep /\ PlansStep
<1> DEFINE t == requests[r].table
           d == requests[r].device
           plan == [NoTx EXCEPT !.op = "approve", !.table = t, !.request = r,
                                !.device = d, !.order = requests[r].order]
<1>1. ASSUME NEW rec, BeginLocked(w, t, rec), rec.request = r, rec.table = t
      PROVE  PlanFor(w, r)
  <2>1. tx \in [Workers -> Transactions] /\ tx' = [tx EXCEPT ![w] = rec] /\ UNCHANGED db
    BY <1>1 DEF BeginLocked, AnswersOpen, LockProtects, TypeOK
  <2>2. tx'[w] = rec /\ \A v \in Workers \ {w} : tx'[v] = tx[v]
    BY <2>1
  <2> QED
    BY <1>1, <2>1, <2>2 DEF PlanFor
<1>2. ASSUME BeginLocked(w, t, [plan EXCEPT !.choice = "open", !.number = 1])
      PROVE  PlanFor(w, r)
  <2> DEFINE rec == [plan EXCEPT !.choice = "open", !.number = 1]
  <2>1. rec.request = r /\ rec.table = t
    BY DEF NoTx
  <2> HIDE DEF rec
  <2>2. BeginLocked(w, t, rec)
    BY <1>2 DEF rec
  <2> QED
    BY <1>1, <2>1, <2>2
<1>3. ASSUME NEW s, BeginLocked(w, t, [plan EXCEPT !.choice = "new_session", !.session = s,
                                                   !.number = 1])
      PROVE  PlanFor(w, r)
  <2> DEFINE rec == [plan EXCEPT !.choice = "new_session", !.session = s, !.number = 1]
  <2>1. rec.request = r /\ rec.table = t
    BY DEF NoTx
  <2> HIDE DEF rec
  <2>2. BeginLocked(w, t, rec)
    BY <1>3 DEF rec
  <2> QED
    BY <1>1, <2>1, <2>2
<1>4. ASSUME NEW s, BeginLocked(w, t, [plan EXCEPT !.choice = "continue", !.session = s])
      PROVE  PlanFor(w, r)
  <2> DEFINE rec == [plan EXCEPT !.choice = "continue", !.session = s]
  <2>1. rec.request = r /\ rec.table = t
    BY DEF NoTx
  <2> HIDE DEF rec
  <2>2. BeginLocked(w, t, rec)
    BY <1>4 DEF rec
  <2> QED
    BY <1>1, <2>1, <2>2
<1>5. ASSUME NEW s, NEW n,
             BeginLocked(w, t, [plan EXCEPT !.choice = "continue", !.session = s, !.number = n])
      PROVE  PlanFor(w, r)
  <2> DEFINE rec == [plan EXCEPT !.choice = "continue", !.session = s, !.number = n]
  <2>1. rec.request = r /\ rec.table = t
    BY DEF NoTx
  <2> HIDE DEF rec
  <2>2. BeginLocked(w, t, rec)
    BY <1>5 DEF rec
  <2> QED
    BY <1>1, <2>1, <2>2
<1>6. PlanFor(w, r) /\ Pending(r)
  BY <1>2, <1>3, <1>4, <1>5 DEF Approve
<1>7. AnswerOpen(w)'
  BY <1>6 DEF PlanFor, AnswerOpen, Pending, db
<1>8. RequestsStep
  BY <1>6, RequestsKeptStep DEF PlanFor, db
<1> QED
  BY <1>6, <1>7, <1>8 DEF PlanFor, PlansStep

\* A handler other than an approval begins without a word about requests,
LEMMA BeginUnlockedPlans ==
  ASSUME TypeOK, NEW w \in Workers, NEW rec, rec.op # "approve", BeginUnlocked(w, rec)
  PROVE  RequestsStep /\ PlansStep
BY BeginPlans DEF BeginUnlocked, db

\* whether it takes a lock or not.
LEMMA BeginLockedPlans ==
  ASSUME TypeOK, NEW w \in Workers, NEW t, NEW rec, rec.op # "approve", BeginLocked(w, t, rec)
  PROVE  RequestsStep /\ PlansStep
BY BeginPlans DEF BeginLocked, db

\* What customers begin is no approval,
LEMMA CustomerPlans ==
  ASSUME TypeOK, NEW w \in Workers, Customer(w)
  PROVE  RequestsStep /\ PlansStep
<1>1. ASSUME NEW t \in Tables, NEW d \in Devices, RequestService(w, t, d) \/ Join(w, t, d)
      PROVE  RequestsStep /\ PlansStep
  BY <1>1, BeginLockedPlans DEF RequestService, Join, NoTx
<1>2. ASSUME NEW s \in SessionIds, RequestBill(w, s) \/ CancelBill(w, s)
      PROVE  RequestsStep /\ PlansStep
  BY <1>2, BeginUnlockedPlans DEF RequestBill, CancelBill, NoTx
<1>3. ASSUME NEW s \in SessionIds, NEW d \in Devices, NEW k \in Keys, CreateOrder(w, s, d, k)
      PROVE  RequestsStep /\ PlansStep
  BY <1>3, BeginUnlockedPlans DEF CreateOrder, NoTx
<1>4. ASSUME NEW o \in OrderIds, CancelOrder(w, o, TRUE)
      PROVE  RequestsStep /\ PlansStep
  BY <1>4, BeginUnlockedPlans DEF CancelOrder, NoTx
<1> QED
  BY <1>1, <1>2, <1>3, <1>4 DEF Customer

\* and of what the staff begins only approvals are.
LEMMA StaffPlans ==
  ASSUME AnswersOpen, NEW w \in Workers, Staff(w)
  PROVE  RequestsStep /\ PlansStep
<1> TypeOK
  BY DEF AnswersOpen, LockProtects
<1>1. ASSUME NEW t \in Tables, OpenByStaff(w, t)
      PROVE  RequestsStep /\ PlansStep
  BY <1>1, BeginLockedPlans DEF OpenByStaff, NoTx
<1>2. ASSUME NEW t \in Tables, DeactivateTable(w, t)
      PROVE  RequestsStep /\ PlansStep
  BY <1>2, BeginUnlockedPlans DEF DeactivateTable, NoTx
<1>3. ASSUME NEW s \in SessionIds, NEW force \in BOOLEAN, Close(w, s, force)
      PROVE  RequestsStep /\ PlansStep
  <2> DEFINE rec == [NoTx EXCEPT !.op = "close", !.table = sessions[s].table, !.session = s,
                                 !.unacked = UnackedOf(s)]
  <2>1. BeginLocked(w, sessions[s].table, rec)
    BY <1>3 DEF Close
  <2>2. rec.op # "approve"
    BY DEF NoTx
  <2> HIDE DEF rec
  <2> QED
    BY <2>1, <2>2, BeginLockedPlans
<1>4. ASSUME NEW s \in SessionIds, AcknowledgeBill(w, s)
      PROVE  RequestsStep /\ PlansStep
  BY <1>4, BeginUnlockedPlans DEF AcknowledgeBill, NoTx
<1>5. ASSUME NEW s \in SessionIds, NEW k \in Keys, CreateOrder(w, s, None, k)
      PROVE  RequestsStep /\ PlansStep
  BY <1>5, BeginUnlockedPlans DEF CreateOrder, NoTx
<1>6. ASSUME NEW o \in OrderIds, CancelOrder(w, o, FALSE)
      PROVE  RequestsStep /\ PlansStep
  BY <1>6, BeginUnlockedPlans DEF CancelOrder, NoTx
<1> QED
  BY <1>1, <1>2, <1>3, <1>4, <1>5, <1>6, ApprovePlans DEF Staff

\* A commit answers only the request of its own plan, or makes others moot.
LEMMA CommitPlans ==
  ASSUME AnswersOpen, NEW w \in Workers, Commit(w)
  PROVE  RequestsStep /\ PlansStep
<1>1. TypeOK /\ tx[w] \in Transactions
  BY PlanFacts DEF AnswersOpen
<1>2. CASE LockCreateOrder(w)
  <2>1. PlansStep
    BY <1>1, <1>2 DEF LockCreateOrder, PlansStep, Running, TypeOK, Transactions
  <2> QED
    BY <1>2, <2>1, RequestsKeptStep DEF LockCreateOrder, db
<1>3. CASE \/ CommitJoin(w) \/ CommitRequestBill(w) \/ CommitCancelBill(w)
           \/ CommitAcknowledgeBill(w) \/ CommitClose(w) \/ CommitSubmitOrder(w)
           \/ CommitDeactivateTable(w)
  <2>1. End(w) /\ UNCHANGED requests
    BY <1>3 DEF CommitJoin, CommitRequestBill, CommitCancelBill, CommitAcknowledgeBill,
                CommitClose, CommitSubmitOrder, CommitDeactivateTable
  <2> QED
    BY <1>1, <2>1, EndPlans, RequestsKeptStep
<1>4. CASE CommitRequestService(w)
  BY <1>1, <1>4, EndPlans, CreatedStep DEF CommitRequestService
<1>5. CASE CommitAwaitOrder(w)
  BY <1>1, <1>5, EndPlans, CreatedStep DEF CommitAwaitOrder
<1>6. CASE CommitApproveOpen(w) \/ CommitApproveNew(w) \/ CommitApproveContinue(w)
  <2>1. Running(w, "approve") /\ End(w)
    BY <1>6 DEF CommitApproveOpen, CommitApproveNew, CommitApproveContinue
  <2>2. \E s \in SessionIds : requests' = RequestsApproved(tx[w].request, tx[w].table, s)
    <3>1. CASE CommitApproveOpen(w) \/ CommitApproveNew(w)
      BY <3>1 DEF CommitApproveOpen, CommitApproveNew
    <3>2. CASE CommitApproveContinue(w)
      BY <3>2, PlanFacts DEF CommitApproveContinue, AnswersOpen, UsesSession
    <3> QED
      BY <1>6, <3>1, <3>2
  <2> QED
    BY <1>1, <2>1, <2>2, EndPlans, ApprovedStep
<1>7. CASE CommitOpenByStaff(w)
  <2> DEFINE R == {r \in RequestIds : Pending(r) /\ requests[r].table = tx[w].table}
  <2>1. End(w) /\ requests' = RequestsSet(requests, R, "expired") /\ \A r \in R : Pending(r)
    BY <1>7 DEF CommitOpenByStaff
  <2> HIDE DEF R
  <2>2. RequestsStep
    BY <1>1, <2>1, MootStep DEF Moot
  <2> QED
    BY <1>1, <2>1, <2>2, EndPlans
<1>8. CASE CommitCancelOrder(w)
  <2> DEFINE R == {r \in RequestIds : Pending(r) /\ requests[r].order = tx[w].order}
  <2>1. /\ End(w) /\ \A r \in R : Pending(r)
        /\ UNCHANGED requests \/ requests' = RequestsSet(requests, R, "cancelled")
    BY <1>8 DEF CommitCancelOrder
  <2> HIDE DEF R
  <2>2. RequestsStep
    BY <1>1, <2>1, MootStep, RequestsKeptStep DEF Moot
  <2> QED
    BY <1>1, <2>1, <2>2, EndPlans
<1> QED
  BY <1>2, <1>3, <1>4, <1>5, <1>6, <1>7, <1>8 DEF Commit

\* The single statements and the jobs answer nothing but by a rejection.
LEMMA UnattendedPlans ==
  ASSUME AnswersOpen, OneStatement \/ Jobs \/ UNCHANGED vars
  PROVE  RequestsStep /\ PlansStep
<1>1. PlansStep
  BY DEF OneStatement, Jobs, SetParticipantName, Reject, AcknowledgeOrder, ActivateTable,
         ExpireRequests, MarkInactiveSessions, vars, PlansStep
<1>2. ASSUME NEW R \in SUBSET RequestIds, ExpireRequests(R)
      PROVE  RequestsStep
  BY <1>2, MootStep DEF ExpireRequests, Moot, AnswersOpen, LockProtects
<1>3. \/ UNCHANGED requests
      \/ \E r \in RequestIds : Reject(r)
      \/ \E R \in SUBSET RequestIds : ExpireRequests(R)
  BY DEF OneStatement, Jobs, SetParticipantName, AcknowledgeOrder, ActivateTable,
         MarkInactiveSessions, vars
<1> QED
  BY <1>1, <1>2, <1>3, RejectedStep, RequestsKeptStep

\* So every step changes requests and plans in one of these ways.
LEMMA NextPlans == AnswersOpen /\ [Next]_vars => RequestsStep /\ PlansStep
<1> SUFFICES ASSUME AnswersOpen, [Next]_vars PROVE RequestsStep /\ PlansStep
  OBVIOUS
<1>1. TypeOK
  BY DEF AnswersOpen, LockProtects
<1>2. ASSUME NEW w \in Workers, Rollback(w)
      PROVE  RequestsStep /\ PlansStep
  BY <1>1, <1>2, EndPlans, RequestsKeptStep DEF Rollback, db
<1> QED
  BY <1>1, <1>2, CustomerPlans, StaffPlans, CommitPlans, UnattendedPlans DEF Next

\* The request of an approval under way is always unanswered.
LEMMA AnswersOpenAlways == Spec => []AnswersOpen
<1>1. Init => AnswersOpen
  BY InitProtects DEF Init, AnswersOpen, AnswerOpen, Running, NoTx
<1>2. AnswersOpen /\ [Next]_vars => AnswersOpen'
  <2> SUFFICES ASSUME AnswersOpen, [Next]_vars PROVE AnswersOpen'
    OBVIOUS
  <2>1. LockProtects'
    BY NextProtects DEF AnswersOpen
  <2> QED
    BY <2>1, NextPlans, StepKeepsAnswersOpen
<1> QED
  BY <1>1, <1>2, PTL DEF Spec

\* A settled request is never changed by another answer, by the expiry job, by
\* openByStaff or by a cancellation, but a moot one by the approval that had found
\* it pending, in any instance.
THEOREM StaffAnswerIsFinalAlways == Spec => StaffAnswerIsFinal
<1> DEFINE Kept == \A r \in RequestIds : requests'[r] # requests[r] =>
                     \/ requests[r].status \in {"none", "pending"}
                     \/ /\ requests[r].status \in {"expired", "cancelled"}
                        /\ requests'[r].status = "approved" /\ UnderApproval(r)
<1>1. AnswersOpen /\ [Next]_vars => [Kept]_vars
  <2>1. RequestsStep => Kept
    BY DEF RequestsStep, RequestStep, ApprovedLate, Moot, Pending
  <2> QED
    BY <2>1, NextPlans
<1> HIDE DEF Kept
<1>2. Spec => [][Kept]_vars
  BY <1>1, AnswersOpenAlways, PTL DEF Spec
<1> QED
  BY <1>2 DEF StaffAnswerIsFinal, Kept

-----------------------------------------------------------------------------
(***************************************************************************)
(* TableService implements TableSlots, for every number of tables,         *)
(* devices, workers and rows.  A handler or a job opens the table of one   *)
(* session, closes it, replaces the session, admits a device, or changes   *)
(* nothing that TableSlots shows; which it is follows from what            *)
(* LockProtects says of a handler that is about to write.                  *)
(***************************************************************************)

-----------------------------------------------------------------------------
(* The refinement mapping.                                                 *)

\* What Serving says, without its CHOOSE.
ServesRight ==
  /\ Serving \in [Tables -> SessionIds \cup {0}]
  /\ \A t \in Tables, s \in SessionIds :
       Serving[t] = s <=> Live(s) /\ sessions[s].table = t

\* The session a table serves is its live session, because it has one at most.
LEMMA ServingIsTheLiveSession == OneLiveSession => ServesRight
<1> SUFFICES ASSUME OneLiveSession PROVE ServesRight
  OBVIOUS
<1>1. ASSUME NEW t \in Tables, LiveSessions(t) = {}
      PROVE  Serving[t] = 0
  BY <1>1 DEF Serving
<1>2. ASSUME NEW t \in Tables, NEW s \in LiveSessions(t)
      PROVE  Serving[t] = s
  <2>1. LiveSessions(t) = {s}
    BY <1>2 DEF OneLiveSession, LiveSessions
  <2>2. Serving[t] = CHOOSE q \in {s} : TRUE
    BY <2>1 DEF Serving
  <2> QED
    BY <2>2
<1>3. \A t \in Tables : LiveSessions(t) \subseteq SessionIds
  BY DEF LiveSessions
<1>4. \A t \in Tables : Serving[t] \in SessionIds \cup {0}
  BY <1>1, <1>2, <1>3
<1>5. Serving = [t \in Tables |-> Serving[t]]
  BY DEF Serving
<1>6. Serving \in [Tables -> SessionIds \cup {0}]
  BY <1>4, <1>5
<1>7. ASSUME NEW t \in Tables, NEW s \in SessionIds
      PROVE  Serving[t] = s <=> s \in LiveSessions(t)
  <2>1. s # 0
    BY BoundsAssumption DEF SessionIds
  <2>2. CASE LiveSessions(t) = {}
    BY <1>1, <2>1, <2>2
  <2>3. CASE LiveSessions(t) # {}
    <3>1. PICK q \in LiveSessions(t) : TRUE
      BY <2>3
    <3>2. Serving[t] = q /\ LiveSessions(t) = {q}
      BY <1>2, <3>1 DEF OneLiveSession, LiveSessions
    <3> QED
      BY <3>2
  <2> QED
    BY <2>2, <2>3
<1> QED
  BY <1>6, <1>7 DEF ServesRight, LiveSessions

\* The mapping before a step and after it.
Mapped == LockProtects /\ LockProtects' /\ ServesRight /\ ServesRight'

\* Both states of a step are mapped rightly.
LEMMA StepIsMapped ==
  ASSUME LockProtects, [Next]_vars
  PROVE  Mapped
<1>1. LockProtects'
  BY NextProtects
<1>2. OneLiveSession /\ OneLiveSession'
  BY <1>1 DEF LockProtects
<1>3. ServesRight
  BY <1>2, ServingIsTheLiveSession
<1>4. ServesRight'
  BY <1>2, ServingIsTheLiveSession, PTL
<1> QED
  BY <1>1, <1>3, <1>4 DEF Mapped

\* What the tables serve after a step, by the sessions that are live then.
LEMMA ServingBecomes ==
  ASSUME Mapped, NEW S \in [Tables -> SessionIds \cup {0}],
         \A t \in Tables, s \in SessionIds : S[t] = s <=> Live(s)' /\ sessions'[s].table = t
  PROVE  Serving' = S
<1>1. Serving' \in [Tables -> SessionIds \cup {0}]
  BY DEF Mapped, ServesRight
<1>2. \A t \in Tables, s \in SessionIds : Serving'[t] = s <=> S[t] = s
  BY DEF Mapped, ServesRight
<1>3. ASSUME NEW t \in Tables
      PROVE  Serving'[t] = S[t]
  BY <1>1, <1>2
<1> QED
  BY <1>1, <1>3

\* A new participant is one more guest of its session.
LEMMA GuestAdded ==
  ASSUME NEW s \in SessionIds, NEW d \in Devices, NEW n,
         participants' = WithParticipant(s, d, n)
  PROVE  Guests' = [Guests EXCEPT ![s] = @ \cup {d}]
<1>1. \A q, e : Participates(q, e)' <=> Participates(q, e) \/ (q = s /\ e = d)
  <2> SUFFICES ASSUME NEW q, NEW e
               PROVE  Participates(q, e)' <=> Participates(q, e) \/ (q = s /\ e = d)
    OBVIOUS
  <2> DEFINE row == [session |-> s, device |-> d, ordinal |-> n]
  <2>1. row.session = s /\ row.device = d
    OBVIOUS
  <2>2. participants' = participants \cup {row}
    BY DEF WithParticipant
  <2> HIDE DEF row
  <2> QED
    BY <2>1, <2>2 DEF Participates
<1> QED
  BY <1>1 DEF Guests

\* Guests are participants.
LEMMA GuestsKept ==
  ASSUME UNCHANGED participants
  PROVE  Guests' = Guests
BY DEF Guests, Participates

\* A session that is about to be created serves no table and has no guest.
LEMMA NewSessionIsUnused ==
  ASSUME Mapped, NEW s \in SessionIds, IsNewSession(s)
  PROVE  Slots!Unused(s) /\ Guests[s] = {} /\ ~Live(s)
<1>1. sessions[s].status = "none"
  BY DEF IsNewSession, NoSession
<1>2. ~Live(s)
  BY <1>1 DEF Live, LiveStatuses
<1>3. \A t \in Tables : Serving[t] # s
  BY <1>2 DEF Mapped, ServesRight
<1>4. s \notin Ended
  BY <1>1 DEF Ended
<1>5. Guests[s] = {}
  BY <1>1 DEF Guests, Participates, Mapped, LockProtects, RowsWellFormed
<1> QED
  BY <1>2, <1>3, <1>4, <1>5 DEF Slots!Unused

-----------------------------------------------------------------------------
(* The steps of TableSlots.                                                *)

\* Sessions change only what TableSlots does not show: a bill, or which of the
\* two live statuses they have.
SessionsAlike ==
  \A s \in SessionIds :
    /\ Live(s)' <=> Live(s)
    /\ Live(s) => sessions'[s].table = sessions[s].table
    /\ sessions'[s].status = "closed" <=> sessions[s].status = "closed"

\* Sessions that stay live or closed show nothing.
LEMMA AlikeSessionsShown ==
  ASSUME Mapped, SessionsAlike
  PROVE  Serving' = Serving /\ Ended' = Ended
<1>1. Serving \in [Tables -> SessionIds \cup {0}]
  BY DEF Mapped, ServesRight
<1>2. \A t \in Tables, s \in SessionIds : Serving[t] = s <=> Live(s)' /\ sessions'[s].table = t
  BY DEF Mapped, ServesRight, SessionsAlike
<1>3. Serving' = Serving
  BY <1>1, <1>2, ServingBecomes
<1> QED
  BY <1>3 DEF SessionsAlike, Ended

\* Then, with the same participants, the step is a stutter,
LEMMA SlotsStutter ==
  ASSUME Mapped, SessionsAlike, UNCHANGED participants
  PROVE  UNCHANGED Slots!vars
BY AlikeSessionsShown, GuestsKept DEF Slots!vars

\* and with one more of a live session it admits a guest.
LEMMA SlotsAdmit ==
  ASSUME Mapped, SessionsAlike, NEW t \in Tables, NEW s \in SessionIds, NEW d \in Devices, NEW n,
         Live(s), sessions[s].table = t, participants' = WithParticipant(s, d, n)
  PROVE  Slots!Admit(t, d)
<1>1. Serving[t] = s /\ s # 0
  BY BoundsAssumption DEF Mapped, ServesRight, SessionIds
<1> QED
  BY <1>1, AlikeSessionsShown, GuestAdded DEF Slots!Admit

\* A live session that becomes closed closes its table.
LEMMA SlotsClose ==
  ASSUME Mapped, NEW s \in SessionIds, Live(s), NEW t \in Tables, sessions[s].table = t,
         sessions' = [sessions EXCEPT ![s] = ClosedSession(s)], UNCHANGED participants
  PROVE  Slots!Close(t)
<1> DEFINE S == [Serving EXCEPT ![t] = 0]
<1>1. sessions \in [SessionIds -> Sessions] /\ Serving \in [Tables -> SessionIds \cup {0}]
  BY DEF Mapped, LockProtects, TypeOK, ServesRight
<1>2. Serving[t] = s /\ s # 0
  BY BoundsAssumption DEF Mapped, ServesRight, SessionIds
<1>3. sessions'[s].status = "closed" /\ \A q \in SessionIds \ {s} : sessions'[q] = sessions[q]
  BY <1>1 DEF ClosedSession, Sessions
<1>4. ~Live(s)' /\ \A q \in SessionIds \ {s} : Live(q)' <=> Live(q)
  BY <1>3 DEF Live, LiveStatuses
<1>5. \A u \in Tables, q \in SessionIds : S[u] = q <=> Live(q)' /\ sessions'[q].table = u
  <2> SUFFICES ASSUME NEW u \in Tables, NEW q \in SessionIds
               PROVE  S[u] = q <=> Live(q)' /\ sessions'[q].table = u
    OBVIOUS
  <2>1. Serving[u] = q <=> Live(q) /\ sessions[q].table = u
    BY DEF Mapped, ServesRight
  <2>2. q # 0
    BY BoundsAssumption DEF SessionIds
  <2> QED
    BY <1>1, <1>2, <1>3, <1>4, <2>1, <2>2
<1>6. Serving' = S
  <2>1. S \in [Tables -> SessionIds \cup {0}]
    BY <1>1
  <2> HIDE DEF S
  <2> QED
    BY <2>1, <1>5, ServingBecomes
<1>7. Ended' = Ended \cup {s}
  BY <1>3 DEF Ended
<1> QED
  BY <1>2, <1>6, <1>7, GuestsKept DEF Slots!Close

\* A new session at a free table opens it.
LEMMA SlotsOpen ==
  ASSUME Mapped, NEW t \in Tables, LiveSessions(t) = {}, NEW s \in SessionIds, IsNewSession(s),
         sessions' = [sessions EXCEPT ![s] = OpenedSession(t)],
         NEW first, Guests' = [Guests EXCEPT ![s] = first]
  PROVE  Slots!Open(t, s, first)
<1> DEFINE S == [Serving EXCEPT ![t] = s]
<1>1. sessions \in [SessionIds -> Sessions] /\ Serving \in [Tables -> SessionIds \cup {0}]
  BY DEF Mapped, LockProtects, TypeOK, ServesRight
<1>2. Slots!Unused(s) /\ ~Live(s) /\ sessions[s].status = "none"
  <2>1. sessions[s].status = "none"
    BY DEF IsNewSession, NoSession
  <2> QED
    BY <2>1, NewSessionIsUnused
<1>3. \A q \in SessionIds : Serving[t] # q
  BY DEF Mapped, ServesRight, LiveSessions
<1>4. /\ sessions'[s].status = "active" /\ sessions'[s].table = t
      /\ \A q \in SessionIds \ {s} : sessions'[q] = sessions[q]
  BY <1>1 DEF OpenedSession, NoSession
<1>5. Live(s)' /\ \A q \in SessionIds \ {s} : Live(q)' <=> Live(q)
  BY <1>4 DEF Live, LiveStatuses
<1>6. \A u \in Tables, q \in SessionIds : S[u] = q <=> Live(q)' /\ sessions'[q].table = u
  <2> SUFFICES ASSUME NEW u \in Tables, NEW q \in SessionIds
               PROVE  S[u] = q <=> Live(q)' /\ sessions'[q].table = u
    OBVIOUS
  <2>1. Serving[u] = q <=> Live(q) /\ sessions[q].table = u
    BY DEF Mapped, ServesRight
  <2>2. Serving[t] # q
    BY <1>3
  <2> QED
    BY <1>1, <1>2, <1>4, <1>5, <2>1, <2>2
<1>7. Serving' = S
  <2>1. S \in [Tables -> SessionIds \cup {0}]
    BY <1>1
  <2> HIDE DEF S
  <2> QED
    BY <2>1, <1>6, ServingBecomes
<1>8. Ended' = Ended
  BY <1>2, <1>4 DEF Ended
<1>9. Serving[t] = 0
  BY <1>1, <1>3
<1> QED
  BY <1>2, <1>7, <1>8, <1>9 DEF Slots!Open

\* A session that is closed for a new one at its table is replaced.
LEMMA SlotsReplace ==
  ASSUME Mapped, NEW old \in SessionIds, Live(old), NEW t \in Tables, sessions[old].table = t,
         NEW s \in SessionIds, IsNewSession(s),
         sessions' = [sessions EXCEPT ![old] = ClosedSession(old), ![s] = OpenedSession(t)],
         NEW first, Guests' = [Guests EXCEPT ![s] = first]
  PROVE  Slots!Replace(t, s, first)
<1> DEFINE S == [Serving EXCEPT ![t] = s]
<1>1. sessions \in [SessionIds -> Sessions] /\ Serving \in [Tables -> SessionIds \cup {0}]
  BY DEF Mapped, LockProtects, TypeOK, ServesRight
<1>2. Slots!Unused(s) /\ ~Live(s) /\ sessions[s].status = "none"
  <2>1. sessions[s].status = "none"
    BY DEF IsNewSession, NoSession
  <2> QED
    BY <2>1, NewSessionIsUnused
<1>3. Serving[t] = old /\ old # s /\ old # 0
  BY <1>2, BoundsAssumption DEF Mapped, ServesRight, SessionIds
<1>4. /\ sessions'[s].status = "active" /\ sessions'[s].table = t
      /\ sessions'[old].status = "closed"
      /\ \A q \in SessionIds \ {s, old} : sessions'[q] = sessions[q]
  BY <1>1, <1>3 DEF OpenedSession, ClosedSession, NoSession, Sessions
<1>5. Live(s)' /\ ~Live(old)' /\ \A q \in SessionIds \ {s, old} : Live(q)' <=> Live(q)
  BY <1>4 DEF Live, LiveStatuses
<1>6. \A u \in Tables, q \in SessionIds : S[u] = q <=> Live(q)' /\ sessions'[q].table = u
  <2> SUFFICES ASSUME NEW u \in Tables, NEW q \in SessionIds
               PROVE  S[u] = q <=> Live(q)' /\ sessions'[q].table = u
    OBVIOUS
  <2>1. Serving[u] = q <=> Live(q) /\ sessions[q].table = u
    BY DEF Mapped, ServesRight
  <2> QED
    BY <1>1, <1>2, <1>3, <1>4, <1>5, <2>1
<1>7. Serving' = S
  <2>1. S \in [Tables -> SessionIds \cup {0}]
    BY <1>1
  <2> HIDE DEF S
  <2> QED
    BY <2>1, <1>6, ServingBecomes
<1>8. Ended' = Ended \cup {old}
  BY <1>2, <1>4 DEF Ended
<1> QED
  BY <1>2, <1>3, <1>7, <1>8 DEF Slots!Replace

-----------------------------------------------------------------------------
(* The steps of the handlers and the jobs.                                 *)

SlotsStep == Slots!Next \/ UNCHANGED Slots!vars

\* A step that leaves the sessions and the participants alone does not show.
LEMMA UnseenStep ==
  ASSUME Mapped, UNCHANGED <<sessions, participants>>
  PROVE  SlotsStep
BY SlotsStutter DEF SessionsAlike, Live, SlotsStep

\* What the plan of a handler that is about to write says of its table and session.
LEMMA SeenPlan ==
  ASSUME Mapped, NEW w \in Workers
  PROVE  /\ tx[w] \in Transactions /\ PlanWellFormed(w)
         /\ Locks(w) => tx[w].table \in Tables
         /\ UsesSession(w) => /\ tx[w].session \in SessionIds /\ Live(tx[w].session)
                              /\ sessions[tx[w].session].table = tx[w].table
BY PlanFacts DEF Mapped

\* The bill does not show, requested, acknowledged or withdrawn.
LEMMA BillUnseen ==
  ASSUME Mapped, NEW w \in Workers,
         CommitRequestBill(w) \/ CommitCancelBill(w) \/ CommitAcknowledgeBill(w)
  PROVE  SlotsStep
<1>1. sessions \in [SessionIds -> Sessions]
  BY DEF Mapped, LockProtects, TypeOK
<1>2. \A s \in SessionIds : sessions'[s].status = sessions[s].status
                            /\ sessions'[s].table = sessions[s].table
  <2>1. CASE CommitRequestBill(w)
    BY <1>1, <2>1 DEF CommitRequestBill, Sessions
  <2>2. CASE CommitCancelBill(w)
    BY <1>1, <2>2 DEF CommitCancelBill, Sessions
  <2>3. CASE CommitAcknowledgeBill(w)
    BY <1>1, <2>3 DEF CommitAcknowledgeBill, Sessions
  <2> QED
    BY <2>1, <2>2, <2>3
<1>3. SessionsAlike
  BY <1>2 DEF SessionsAlike, Live
<1>4. UNCHANGED participants
  BY DEF CommitRequestBill, CommitCancelBill, CommitAcknowledgeBill
<1> QED
  BY <1>3, <1>4, SlotsStutter DEF SlotsStep

\* A session found live under the lock is marked active: it was live already.
LEMMA ActivationAlike ==
  ASSUME Mapped, NEW w \in Workers, UsesSession(w),
         sessions' = [sessions EXCEPT ![tx[w].session].status = "active"]
  PROVE  SessionsAlike
<1>1. sessions \in [SessionIds -> Sessions]
  BY DEF Mapped, LockProtects, TypeOK
<1>2. tx[w].session \in SessionIds /\ Live(tx[w].session)
  BY SeenPlan
<1> QED
  BY <1>1, <1>2 DEF SessionsAlike, Live, LiveStatuses, Sessions

\* An inactive session is live as before.
LEMMA InactivityAlike ==
  ASSUME Mapped, NEW S \in SUBSET SessionIds, MarkInactiveSessions(S)
  PROVE  SessionsAlike
<1>1. sessions \in [SessionIds -> Sessions]
  BY DEF Mapped, LockProtects, TypeOK
<1> QED
  BY <1>1 DEF MarkInactiveSessions, SessionsAlike, Live, LiveStatuses, Sessions

\* join admits a guest.
LEMMA JoinAdmits ==
  ASSUME Mapped, NEW w \in Workers, CommitJoin(w)
  PROVE  Slots!Next
<1>1. UsesSession(w) /\ Locks(w) /\ tx[w].device \in Devices
  BY SeenPlan DEF CommitJoin, Running, UsesSession, Locks, PlanWellFormed
<1>2. /\ tx[w].table \in Tables /\ tx[w].session \in SessionIds /\ Live(tx[w].session)
      /\ sessions[tx[w].session].table = tx[w].table
  BY <1>1, SeenPlan
<1>3. SessionsAlike /\ participants' = WithParticipant(tx[w].session, tx[w].device, tx[w].number)
  BY DEF CommitJoin, SessionsAlike, Live
<1>4. Slots!Admit(tx[w].table, tx[w].device)
  BY <1>1, <1>2, <1>3, SlotsAdmit
<1> QED
  BY <1>1, <1>2, <1>4 DEF Slots!Next

\* What an approval knows when it writes.
LEMMA ApprovalPlan ==
  ASSUME Mapped, NEW w \in Workers, Running(w, "approve")
  PROVE  tx[w].table \in Tables /\ tx[w].device \in Devices
BY SeenPlan DEF Running, Locks, PlanWellFormed

\* The first participant of a new session is its only guest.
LEMMA FirstGuest ==
  ASSUME Mapped, NEW s \in SessionIds, IsNewSession(s), NEW d \in Devices, NEW n,
         participants' = WithParticipant(s, d, n)
  PROVE  Guests' = [Guests EXCEPT ![s] = {d}]
<1>1. Guests[s] = {}
  BY NewSessionIsUnused
<1> QED
  BY <1>1, GuestAdded

\* An approval of a free table opens it for the device.
LEMMA ApproveOpens ==
  ASSUME Mapped, NEW w \in Workers, CommitApproveOpen(w)
  PROVE  Slots!Next
<1> DEFINE t == tx[w].table
           d == tx[w].device
<1>1. t \in Tables /\ d \in Devices
  BY ApprovalPlan DEF CommitApproveOpen
<1>2. LiveSessions(t) = {}
  BY DEF CommitApproveOpen, LiveIndexFree
<1>3. PICK s \in SessionIds :
        /\ IsNewSession(s)
        /\ sessions' = [sessions EXCEPT ![s] = OpenedSession(t)]
        /\ participants' = WithParticipant(s, d, 1)
  BY DEF CommitApproveOpen
<1>4. Slots!Open(t, s, {d})
  BY <1>1, <1>2, <1>3, FirstGuest, SlotsOpen
<1> QED
  BY <1>1, <1>4 DEF Slots!Next

\* An approval with a new session replaces the old one.
LEMMA ApproveReplaces ==
  ASSUME Mapped, NEW w \in Workers, CommitApproveNew(w)
  PROVE  Slots!Next
<1> DEFINE t == tx[w].table
           d == tx[w].device
           old == tx[w].session
<1>1. t \in Tables /\ d \in Devices
  BY ApprovalPlan DEF CommitApproveNew
<1>2. old \in SessionIds /\ Live(old) /\ sessions[old].table = t
  BY SeenPlan DEF CommitApproveNew, UsesSession
<1>3. PICK s \in SessionIds :
        /\ IsNewSession(s)
        /\ sessions' = [sessions EXCEPT ![old] = ClosedSession(old), ![s] = OpenedSession(t)]
        /\ participants' = WithParticipant(s, d, 1)
  BY DEF CommitApproveNew
<1>4. Slots!Replace(t, s, {d})
  BY <1>1, <1>2, <1>3, FirstGuest, SlotsReplace
<1> QED
  BY <1>1, <1>4 DEF Slots!Next

\* An approval that continues a session admits the device, or shows nothing.
LEMMA ApproveContinues ==
  ASSUME Mapped, NEW w \in Workers, CommitApproveContinue(w)
  PROVE  SlotsStep
<1>1. tx[w].table \in Tables /\ tx[w].device \in Devices
  BY ApprovalPlan DEF CommitApproveContinue
<1>2. UsesSession(w)
  BY DEF CommitApproveContinue, UsesSession
<1>3. /\ tx[w].session \in SessionIds /\ Live(tx[w].session)
      /\ sessions[tx[w].session].table = tx[w].table
  BY <1>2, SeenPlan
<1>4. SessionsAlike
  BY <1>2, ActivationAlike DEF CommitApproveContinue
<1>5. CASE UNCHANGED participants
  BY <1>4, <1>5, SlotsStutter DEF SlotsStep
<1>6. CASE participants' = WithParticipant(tx[w].session, tx[w].device, tx[w].number)
  <2>1. Slots!Admit(tx[w].table, tx[w].device)
    BY <1>1, <1>3, <1>4, <1>6, SlotsAdmit
  <2> QED
    BY <1>1, <2>1 DEF Slots!Next, SlotsStep
<1> QED
  BY <1>5, <1>6 DEF CommitApproveContinue

\* The staff opens a table for nobody yet.
LEMMA StaffOpens ==
  ASSUME Mapped, NEW w \in Workers, CommitOpenByStaff(w)
  PROVE  Slots!Next
<1> DEFINE t == tx[w].table
<1>1. t \in Tables
  BY SeenPlan DEF CommitOpenByStaff, Running, Locks
<1>2. LiveSessions(t) = {}
  BY DEF CommitOpenByStaff, LiveIndexFree
<1>3. PICK s \in SessionIds :
        /\ IsNewSession(s)
        /\ sessions' = [sessions EXCEPT ![s] = OpenedSession(t)]
  BY DEF CommitOpenByStaff
<1>4. Guests' = [Guests EXCEPT ![s] = {}]
  <2>1. Guests' = Guests
    BY GuestsKept DEF CommitOpenByStaff
  <2>2. Guests[s] = {}
    BY <1>3, NewSessionIsUnused
  <2> QED
    BY <2>1, <2>2 DEF Guests
<1>5. Slots!Open(t, s, {})
  BY <1>1, <1>2, <1>3, <1>4, SlotsOpen
<1> QED
  BY <1>1, <1>5 DEF Slots!Next

\* The staff closes a table.
LEMMA StaffCloses ==
  ASSUME Mapped, NEW w \in Workers, CommitClose(w)
  PROVE  Slots!Next
<1>1. UsesSession(w) /\ Locks(w)
  BY DEF CommitClose, Running, UsesSession, Locks
<1>2. /\ tx[w].table \in Tables /\ tx[w].session \in SessionIds /\ Live(tx[w].session)
      /\ sessions[tx[w].session].table = tx[w].table
  BY <1>1, SeenPlan
<1>3. /\ sessions' = [sessions EXCEPT ![tx[w].session] = ClosedSession(tx[w].session)]
      /\ UNCHANGED participants
  BY DEF CommitClose
<1>4. Slots!Close(tx[w].table)
  BY <1>2, <1>3, SlotsClose
<1> QED
  BY <1>2, <1>4 DEF Slots!Next

\* Every commit is a step of the abstract service or a stutter,
LEMMA CommitMaps ==
  ASSUME Mapped, NEW w \in Workers, Commit(w)
  PROVE  SlotsStep
<1>1. CASE \/ CommitRequestService(w) \/ LockCreateOrder(w) \/ CommitAwaitOrder(w)
           \/ CommitCancelOrder(w) \/ CommitDeactivateTable(w)
  BY <1>1, UnseenStep DEF CommitRequestService, LockCreateOrder, CommitAwaitOrder,
                          CommitCancelOrder, CommitDeactivateTable, db
<1>2. CASE CommitSubmitOrder(w)
  <2>1. UsesSession(w) /\ UNCHANGED participants
    BY <1>2 DEF CommitSubmitOrder, UsesSession
  <2>2. SessionsAlike
    BY <1>2, <2>1, ActivationAlike DEF CommitSubmitOrder
  <2> QED
    BY <2>1, <2>2, SlotsStutter DEF SlotsStep
<1> QED
  BY <1>1, <1>2, BillUnseen, JoinAdmits, ApproveOpens, ApproveReplaces, ApproveContinues,
     StaffOpens, StaffCloses DEF Commit, SlotsStep

\* and so is every step.
LEMMA NextMaps == LockProtects /\ [Next]_vars => SlotsStep
<1> SUFFICES ASSUME LockProtects, [Next]_vars PROVE SlotsStep
  OBVIOUS
<1>1. Mapped
  BY StepIsMapped
<1>2. ASSUME NEW w \in Workers, Customer(w) \/ Staff(w) \/ Rollback(w)
      PROVE  UNCHANGED <<sessions, participants>>
  BY <1>2, BeginWritesNothing DEF db
<1>3. ASSUME OneStatement \/ \E R \in SUBSET RequestIds : ExpireRequests(R)
      PROVE  UNCHANGED <<sessions, participants>>
  BY <1>3 DEF OneStatement, SetParticipantName, Reject, AcknowledgeOrder, ActivateTable,
              ExpireRequests
<1>4. ASSUME NEW S \in SUBSET SessionIds, MarkInactiveSessions(S)
      PROVE  SlotsStep
  <2>1. UNCHANGED participants
    BY <1>4 DEF MarkInactiveSessions
  <2> QED
    BY <1>1, <1>4, <2>1, InactivityAlike, SlotsStutter DEF SlotsStep
<1>5. CASE UNCHANGED vars
  BY <1>1, <1>5, UnseenStep DEF vars
<1> QED
  BY <1>1, <1>2, <1>3, <1>4, <1>5, UnseenStep, CommitMaps DEF Next, Jobs

\* The initial states are mapped to an initial state.
LEMMA InitMaps == Init => Slots!Init
<1> SUFFICES ASSUME Init PROVE Slots!Init
  OBVIOUS
<1>1. \A s \in SessionIds : sessions[s].status = "none"
  BY DEF Init, NoSession
<1>2. \A t \in Tables : LiveSessions(t) = {}
  BY <1>1 DEF LiveSessions, Live, LiveStatuses
<1>3. Serving = [t \in Tables |-> 0]
  BY <1>2 DEF Serving
<1>4. Ended = {}
  BY <1>1 DEF Ended
<1>5. Guests = [s \in SessionIds |-> {}]
  BY DEF Init, Guests, Participates
<1> QED
  BY <1>3, <1>4, <1>5 DEF Slots!Init

\* Each table serves one session after another and only the session being served
\* admits a device, in every instance: the handlers and the jobs implement
\* TableSlots, whatever the lock does not cover.
THEOREM HandlersImplementSlots == Spec => ImplementsSlots
<1>1. Init => Slots!Init
  BY InitMaps
<1>2. LockProtects /\ [Next]_vars => [Slots!Next]_(Slots!vars)
  BY NextMaps DEF SlotsStep
<1>3. Spec => Slots!Spec
  BY <1>1, <1>2, LockProtectsAlways, PTL DEF Spec, Slots!Spec
<1> QED
  BY <1>3 DEF ImplementsSlots

=============================================================================
