------------------------ MODULE TableOrdersProofs ------------------------
(***************************************************************************)
(* The orders of TableService, for every number of tables, devices,        *)
(* workers and rows: whom an order belongs to, that its key and its number *)
(* are its own, what becomes of it when the staff answers the request that *)
(* holds it, and that closing a session leaves none of its orders waiting. *)
(* OrdersInv is inductive: beside the lock, it says what the plan of a     *)
(* handler knows of the order or the request that it is about.             *)
(***************************************************************************)
EXTENDS TableServiceStepProofs

Placed(o) == orders[o].status # "none"

\* An order that was placed is in a session that exists.
OrdersPlaced ==
  \A o \in OrderIds :
    IF Placed(o) THEN /\ orders[o].session \in SessionIds
                      /\ sessions[orders[o].session].status # "none"
    ELSE orders[o] = NoOrder

KeysAndNumbersDistinct ==
  \A o, q \in OrderIds : Placed(o) /\ Placed(q) /\ o # q =>
    /\ orders[o].key # orders[q].key
    /\ orders[o].session = orders[q].session => orders[o].number # orders[q].number

OrdersOK == OrdersPlaced /\ KeysAndNumbersDistinct /\ OrderOwnerTakesPart

\* A request that holds an order asks to resume, at the table of the order.
LinkOK(r) ==
  requests[r].order # 0 =>
    /\ requests[r].status # "none" /\ requests[r].type = "resume_session"
    /\ Placed(requests[r].order)
    /\ sessions[orders[requests[r].order].session].table = requests[r].table

OneHolder ==
  \A r, q \in RequestIds :
    requests[r].order = requests[q].order /\ requests[r].order # 0 => r = q

LinksOK ==
  /\ \A r \in RequestIds : LinkOK(r)
  /\ OneHolder /\ AnswerSettlesOrder /\ ApprovedDeviceTakesPart

\* What the plan of w says of its request, its participant and its orders.
PlanRight(w) ==
  LET x == tx[w] IN
  /\ x.op = "approve" =>
       /\ x.device = requests[x.request].device /\ x.order = requests[x.request].order
       /\ x.choice = "open" => requests[x.request].type = "open_session"
       /\ x.choice = "continue" /\ x.number = 0 => requests[x.request].type = "resume_session"
  /\ x.op = "createOrder" /\ x.device # None => Participates(x.session, x.device)
  /\ x.op = "cancelOrder" => x.order \in OrderIds /\ Placed(x.order)
  /\ x.op = "close" => UnackedOf(x.session) \subseteq x.unacked /\ \A o \in x.unacked : Placed(o)

OrdersInv == AnswersOpen /\ OrdersOK /\ LinksOK /\ \A w \in Workers : PlanRight(w)

-----------------------------------------------------------------------------
(* What a step does, in parts.                                             *)

\* Nobody leaves a session.
SeatsKept == participants \subseteq participants'

\* An order stays at its table, waits only if it waited, and is cancelled for
\* good unless it is the order of an approval that is under way.
OrdersMove ==
  \A o \in OrderIds : Placed(o) =>
    /\ Placed(o)'
    /\ sessions'[orders'[o].session].table = sessions[orders[o].session].table
    /\ orders'[o].status = "pending_confirmation" => orders[o].status = "pending_confirmation"
    /\ orders[o].status = "cancelled" =>
         \/ orders'[o].status = "cancelled"
         \/ \E w \in Workers : Running(w, "approve") /\ tx[w].order = o

\* No order is submitted to a session that is being closed.
SubmittedMove ==
  \A o \in OrderIds : orders'[o].status = "submitted" =>
    \/ orders[o].status = "submitted" /\ orders'[o].session = orders[o].session
    \/ \A v \in Workers : Running(v, "close") => tx[v].session # orders'[o].session

SameRequest(r) ==
  /\ requests[r].status # "none"
  /\ requests'[r].type = requests[r].type /\ requests'[r].order = requests[r].order
  /\ requests'[r].device = requests[r].device /\ requests'[r].table = requests[r].table

\* A request is created with no order,
Asked(r) ==
  requests[r].status = "none" /\ requests'[r].order = 0 /\ requests'[r].status = "pending"

\* or with an order that is placed in the same step;
AskedWithOrder(r) ==
  LET o == requests'[r].order IN
  /\ requests[r].status = "none"
  /\ requests'[r].status = "pending" /\ requests'[r].type = "resume_session"
  /\ o \in OrderIds /\ ~Placed(o) /\ orders'[o].status # "none"
  /\ sessions'[orders'[o].session].table = requests'[r].table
  /\ \A q \in RequestIds \ {r} : requests'[q] = requests[q]

\* it expires or is cancelled; or it is answered, and its order with it.
MadeMoot(r) == SameRequest(r) /\ requests'[r].status \in Moot
Rejected(r) ==
  /\ SameRequest(r) /\ requests'[r].status = "rejected"
  /\ requests[r].order # 0 => orders'[requests[r].order].status = "cancelled"
Approved(r) ==
  /\ SameRequest(r) /\ requests'[r].status = "approved"
  /\ requests[r].order # 0 => orders'[requests[r].order].status # "pending_confirmation"
  /\ requests[r].type = "open_session" => Participates(requests[r].session, requests[r].device)'

RequestMove(r) ==
  \/ requests'[r] = requests[r]
  \/ Asked(r) \/ AskedWithOrder(r) \/ MadeMoot(r) \/ Rejected(r) \/ Approved(r)
RequestsMove == \A r \in RequestIds : RequestMove(r)

\* A plan is kept, or it is a new one and right.
PlansMove == \A w \in Workers : tx'[w] = tx[w] \/ PlanRight(w)'

\* Whoever took part still does.
LEMMA ParticipatesKept ==
  ASSUME SeatsKept, NEW s, NEW d, Participates(s, d)
  PROVE  Participates(s, d)'
BY DEF SeatsKept, Participates

\* A request that holds an order keeps it, at its table.
LEMMA LinksKept ==
  ASSUME OrdersInv, TypeOK', OrdersMove, RequestsMove, NEW r \in RequestIds
  PROVE  LinkOK(r)'
<1>1. requests[r] \in Requests /\ requests'[r] \in Requests /\ LinkOK(r)
  BY DEF OrdersInv, AnswersOpen, LockProtects, TypeOK, LinksOK
<1>2. CASE requests'[r] = requests[r] \/ MadeMoot(r) \/ Rejected(r) \/ Approved(r)
  <2>1. /\ requests'[r].order = requests[r].order /\ requests'[r].type = requests[r].type
        /\ requests'[r].table = requests[r].table
        /\ requests[r].status # "none" => requests'[r].status # "none"
    BY <1>2 DEF MadeMoot, Moot, Rejected, Approved, SameRequest
  <2>2. requests[r].order \in OrderIds \cup {0}
    BY <1>1 DEF Requests
  <2> QED
    BY <1>1, <2>1, <2>2 DEF LinkOK, OrdersMove
<1>3. CASE Asked(r) \/ AskedWithOrder(r)
  BY <1>3 DEF Asked, AskedWithOrder, LinkOK, Placed
<1> QED
  BY <1>2, <1>3 DEF RequestsMove, RequestMove

\* No two requests come to hold the same order.
LEMMA HolderKept ==
  ASSUME OrdersInv, RequestsMove
  PROVE  OneHolder'
<1> SUFFICES ASSUME NEW r \in RequestIds, NEW q \in RequestIds,
                    requests'[r].order = requests'[q].order, requests'[r].order # 0, r # q
             PROVE  FALSE
  BY DEF OneHolder
<1>1. ASSUME NEW a \in RequestIds, requests'[a].order # 0
      PROVE  requests'[a].order = requests[a].order \/ AskedWithOrder(a)
  BY <1>1 DEF RequestsMove, RequestMove, Asked, MadeMoot, Rejected, Approved, SameRequest
<1>2. ASSUME NEW a \in RequestIds, NEW b \in RequestIds, a # b, AskedWithOrder(a)
      PROVE  requests'[a].order # requests'[b].order
  <2>1. ~Placed(requests'[a].order) /\ requests'[b] = requests[b] /\ requests'[a].order # 0
    BY <1>2 DEF AskedWithOrder, OrderIds
  <2> QED
    BY <2>1 DEF OrdersInv, LinksOK, LinkOK
<1> QED
  BY <1>1, <1>2 DEF OrdersInv, LinksOK, OneHolder

\* What was settled with an answer stays settled.
LEMMA SettledKept ==
  ASSUME OrdersInv, TypeOK', OrdersMove, RequestsMove
  PROVE  AnswerSettlesOrder'
<1> SUFFICES ASSUME NEW r \in RequestIds, requests'[r].order # 0
             PROVE  /\ requests'[r].status = "approved"
                         => orders'[requests'[r].order].status # "pending_confirmation"
                    /\ requests'[r].status = "rejected"
                         => orders'[requests'[r].order].status = "cancelled"
  BY DEF AnswerSettlesOrder
<1> DEFINE o == requests[r].order
<1>1. requests[r] \in Requests /\ LinkOK(r)
  BY DEF OrdersInv, AnswersOpen, LockProtects, TypeOK, LinksOK
<1>2. CASE requests'[r] = requests[r]
  <2>1. o \in OrderIds /\ Placed(o)
    BY <1>1, <1>2 DEF Requests, LinkOK
  <2>2. /\ requests[r].status = "approved" => orders[o].status # "pending_confirmation"
        /\ requests[r].status = "rejected" => orders[o].status = "cancelled"
    BY <1>2 DEF OrdersInv, LinksOK, AnswerSettlesOrder
  <2>3. ASSUME NEW w \in Workers, Running(w, "approve"), tx[w].order = o
        PROVE  requests[r].status # "rejected"
    <3>1. /\ tx[w].request \in RequestIds /\ requests[tx[w].request].order = o
          /\ requests[tx[w].request].status \in Moot \cup {"pending"}
      BY <2>3 DEF OrdersInv, AnswersOpen, AnswerOpen, PlanRight, Running
    <3>2. r = tx[w].request
      BY <1>2, <3>1 DEF OrdersInv, LinksOK, OneHolder
    <3> QED
      BY <3>1, <3>2 DEF Moot
  <2> QED
    BY <1>2, <2>1, <2>2, <2>3 DEF OrdersMove
<1>3. CASE Asked(r) \/ AskedWithOrder(r) \/ MadeMoot(r)
  BY <1>3 DEF Asked, AskedWithOrder, MadeMoot, Moot
<1>4. CASE Rejected(r) \/ Approved(r)
  BY <1>4 DEF Rejected, Approved, SameRequest
<1> QED
  BY <1>2, <1>3, <1>4 DEF RequestsMove, RequestMove

\* Whoever was approved still takes part.
LEMMA SeatedKept ==
  ASSUME OrdersInv, SeatsKept, RequestsMove
  PROVE  ApprovedDeviceTakesPart'
<1> SUFFICES ASSUME NEW r \in RequestIds, requests'[r].status = "approved",
                    requests'[r].type = "open_session"
             PROVE  Participates(requests[r].session, requests[r].device)'
  BY DEF ApprovedDeviceTakesPart
<1>1. CASE requests'[r] = requests[r]
  BY <1>1, ParticipatesKept DEF OrdersInv, LinksOK, ApprovedDeviceTakesPart
<1>2. CASE Approved(r)
  BY <1>2 DEF Approved, SameRequest
<1> QED
  BY <1>1, <1>2 DEF RequestsMove, RequestMove, Asked, AskedWithOrder, MadeMoot, Moot, Rejected

\* The request that an approval is about keeps what the plan knows of it.
LEMMA RequestKept ==
  ASSUME OrdersInv, RequestsMove, NEW w \in Workers, Running(w, "approve")
  PROVE  /\ requests'[tx[w].request].type = requests[tx[w].request].type
         /\ requests'[tx[w].request].order = requests[tx[w].request].order
         /\ requests'[tx[w].request].device = requests[tx[w].request].device
<1> DEFINE r == tx[w].request
<1>1. r \in RequestIds /\ requests[r].status # "none"
  BY DEF OrdersInv, AnswersOpen, AnswerOpen, Moot
<1> QED
  BY <1>1 DEF RequestsMove, RequestMove, Asked, AskedWithOrder, MadeMoot, Rejected, Approved,
              SameRequest

\* A plan that is kept stays right.
LEMMA PlanRightKept ==
  ASSUME OrdersInv, SeatsKept, OrdersMove, SubmittedMove, RequestsMove,
         NEW w \in Workers, tx'[w] = tx[w]
  PROVE  PlanRight(w)'
<1> DEFINE x == tx[w]
<1>1. PlanRight(w) /\ x \in Transactions
  BY DEF OrdersInv, AnswersOpen, LockProtects, TypeOK
<1>2. ASSUME x.op = "approve"
      PROVE  /\ x.device = requests'[x.request].device /\ x.order = requests'[x.request].order
             /\ x.choice = "open" => requests'[x.request].type = "open_session"
             /\ x.choice = "continue" /\ x.number = 0
                  => requests'[x.request].type = "resume_session"
  BY <1>1, <1>2, RequestKept DEF PlanRight, Running
<1>3. ASSUME x.op = "createOrder", x.device # None
      PROVE  Participates(x.session, x.device)'
  BY <1>1, <1>3, ParticipatesKept DEF PlanRight
<1>4. ASSUME x.op = "cancelOrder"
      PROVE  x.order \in OrderIds /\ orders'[x.order].status # "none"
  BY <1>1, <1>4 DEF PlanRight, OrdersMove, Placed
<1>5. ASSUME x.op = "close"
      PROVE  /\ \A o \in OrderIds : orders'[o].session = x.session
                  /\ orders'[o].status = "submitted" => o \in x.unacked
             /\ \A o \in x.unacked : orders'[o].status # "none"
  <2>1. x.unacked \subseteq OrderIds
    BY <1>1 DEF Transactions
  <2> QED
    BY <1>1, <1>5, <2>1 DEF PlanRight, OrdersMove, SubmittedMove, Placed, UnackedOf, Running
<1> QED
  BY <1>2, <1>3, <1>4, <1>5 DEF PlanRight, UnackedOf, Placed, Participates

\* The parts of a step together keep the invariant.
LEMMA StepKeepsOrders ==
  ASSUME OrdersInv, AnswersOpen', SeatsKept, OrdersOK', OrdersMove, SubmittedMove,
         RequestsMove, PlansMove
  PROVE  OrdersInv'
<1>1. TypeOK'
  BY DEF AnswersOpen, LockProtects
<1>2. LinksOK'
  BY <1>1, LinksKept, HolderKept, SettledKept, SeatedKept DEF LinksOK
<1>3. \A w \in Workers : PlanRight(w)'
  BY PlanRightKept DEF PlansMove
<1> QED
  BY <1>2, <1>3 DEF OrdersInv

-----------------------------------------------------------------------------
(* What every step keeps.                                                  *)

\* A handler that opens a session keeps the others.
LEMMA OpenedSessionKept ==
  ASSUME LockProtects, NEW s \in SessionIds, IsNewSession(s), NEW row,
         sessions' = [sessions EXCEPT ![s] = row]
  PROVE  SessionsKept
BY DEF LockProtects, TypeOK, SessionsKept, IsNewSession, NoSession

\* A commit removes no session and moves none to another table,
LEMMA CommitKeepsSessions ==
  ASSUME LockProtects, NEW w \in Workers, Commit(w)
  PROVE  SessionsKept
<1> DEFINE s == tx[w].session
<1>1. sessions \in [SessionIds -> Sessions]
  BY DEF LockProtects, TypeOK
<1>2. CASE \/ CommitRequestService(w) \/ CommitJoin(w) \/ LockCreateOrder(w)
           \/ CommitAwaitOrder(w) \/ CommitCancelOrder(w) \/ CommitDeactivateTable(w)
  BY <1>2 DEF SessionsKept, CommitRequestService, CommitJoin, LockCreateOrder, db,
              CommitAwaitOrder, CommitCancelOrder, CommitDeactivateTable
<1>3. CASE CommitRequestBill(w) \/ CommitCancelBill(w) \/ CommitAcknowledgeBill(w)
  <2>1. CASE CommitRequestBill(w)
    BY <1>1, <2>1 DEF SessionsKept, CommitRequestBill, Sessions
  <2>2. CASE CommitCancelBill(w)
    BY <1>1, <2>2 DEF SessionsKept, CommitCancelBill, Sessions
  <2>3. CASE CommitAcknowledgeBill(w)
    BY <1>1, <2>3 DEF SessionsKept, CommitAcknowledgeBill, Sessions
  <2> QED
    BY <1>3, <2>1, <2>2, <2>3
<1>4. CASE CommitApproveOpen(w) \/ CommitOpenByStaff(w)
  BY <1>4, OpenedSessionKept DEF CommitApproveOpen, CommitOpenByStaff
<1>5. CASE CommitApproveNew(w)
  <2>1. PICK n \in SessionIds :
          /\ IsNewSession(n)
          /\ sessions' = [sessions EXCEPT ![s] = ClosedSession(s), ![n] = OpenedSession(tx[w].table)]
    BY <1>5 DEF CommitApproveNew
  <2> QED
    BY <1>1, <2>1 DEF SessionsKept, IsNewSession, NoSession, ClosedSession, Sessions
<1>6. CASE CommitApproveContinue(w) \/ CommitSubmitOrder(w)
  BY <1>1, <1>6 DEF SessionsKept, CommitApproveContinue, CommitSubmitOrder, Sessions
<1>7. CASE CommitClose(w)
  BY <1>1, <1>7 DEF SessionsKept, CommitClose, ClosedSession, Sessions
<1> QED
  BY <1>2, <1>3, <1>4, <1>5, <1>6, <1>7 DEF Commit

\* no step does,
LEMMA NextKeepsSessions ==
  ASSUME LockProtects, [Next]_vars
  PROVE  SessionsKept
<1>1. CASE UNCHANGED sessions
  BY <1>1 DEF SessionsKept
<1>2. CASE \E w \in Workers : Commit(w)
  BY <1>2, CommitKeepsSessions
<1>3. CASE \E S \in SUBSET SessionIds : MarkInactiveSessions(S)
  BY <1>3 DEF SessionsKept, MarkInactiveSessions, LockProtects, TypeOK, Sessions
<1>4. ASSUME NEW w \in Workers, Customer(w) \/ Staff(w) \/ Rollback(w)
      PROVE  UNCHANGED sessions
  BY <1>4, BeginWritesNothing DEF db
<1>5. ASSUME OneStatement \/ \E R \in SUBSET RequestIds : ExpireRequests(R)
      PROVE  UNCHANGED sessions
  BY <1>5 DEF OneStatement, SetParticipantName, Reject, AcknowledgeOrder, ActivateTable,
              ExpireRequests
<1> QED
  BY <1>1, <1>2, <1>3, <1>4, <1>5 DEF Next, Jobs, vars

\* and no step removes a participant.
LEMMA NextKeepsSeats ==
  ASSUME [Next]_vars
  PROVE  SeatsKept
<1>1. ASSUME NEW w \in Workers, Customer(w) \/ Staff(w) \/ Rollback(w)
      PROVE  UNCHANGED participants
  BY <1>1, BeginWritesNothing DEF db
<1>2. ASSUME NEW w \in Workers, Commit(w)
      PROVE  SeatsKept
  BY <1>2 DEF SeatsKept, Commit, CommitRequestService, CommitJoin, CommitRequestBill,
              CommitCancelBill, CommitAcknowledgeBill, CommitApproveOpen, CommitApproveNew,
              CommitApproveContinue, CommitOpenByStaff, CommitClose, LockCreateOrder,
              CommitSubmitOrder, CommitAwaitOrder, CommitCancelOrder, CommitDeactivateTable,
              WithParticipant, db
<1>3. ASSUME OneStatement \/ Jobs
      PROVE  UNCHANGED participants
  BY <1>3 DEF OneStatement, SetParticipantName, Reject, AcknowledgeOrder, ActivateTable,
              Jobs, ExpireRequests, MarkInactiveSessions
<1> QED
  BY <1>1, <1>2, <1>3 DEF Next, SeatsKept, vars

-----------------------------------------------------------------------------
(* What the statements do to the orders.                                   *)

OrdersStep == OrdersOK' /\ OrdersMove /\ SubmittedMove

\* A step that changes no more of the orders than their status.
OrdersAlike ==
  \A o \in OrderIds :
    /\ orders'[o].session = orders[o].session /\ orders'[o].number = orders[o].number
    /\ orders'[o].key = orders[o].key /\ orders'[o].participant = orders[o].participant
    /\ IF Placed(o) THEN Placed(o)' ELSE orders'[o] = orders[o]

\* Orders that keep their sessions, numbers, keys and owners stay distinct and owned.
LEMMA AlikeOrdersOK ==
  ASSUME OrdersInv, SessionsKept, SeatsKept, OrdersAlike
  PROVE  OrdersOK'
<1>1. OrdersPlaced'
  BY DEF OrdersInv, OrdersOK, OrdersPlaced, OrdersAlike, SessionsKept, Placed
<1>2. KeysAndNumbersDistinct'
  BY DEF OrdersInv, OrdersOK, KeysAndNumbersDistinct, OrdersAlike, Placed
<1>3. OrderOwnerTakesPart'
  BY ParticipatesKept DEF OrdersInv, OrdersOK, OrderOwnerTakesPart, OrdersAlike
<1> QED
  BY <1>1, <1>2, <1>3 DEF OrdersOK

\* A step that leaves the orders.
LEMMA OrdersUntouched ==
  ASSUME OrdersInv, SessionsKept, SeatsKept, UNCHANGED orders
  PROVE  OrdersStep
<1>1. OrdersAlike /\ SubmittedMove
  BY DEF OrdersAlike, Placed, SubmittedMove
<1>2. OrdersMove
  BY DEF OrdersMove, Placed, OrdersInv, OrdersOK, OrdersPlaced, SessionsKept
<1> QED
  BY <1>1, <1>2, AlikeOrdersOK DEF OrdersStep

\* One column of orders that were placed is written.
LEMMA StatusSet ==
  ASSUME OrdersInv, NEW O, NEW status \in OrderStatuses,
         \A o \in OrderIds : o \in O => Placed(o),
         orders' = OrdersSet(O, status)
  PROVE  /\ OrdersAlike
         /\ \A o \in OrderIds : IF o \in O THEN orders'[o].status = status
                                ELSE orders'[o] = orders[o]
<1>1. orders \in [OrderIds -> Orders]
  BY DEF OrdersInv, AnswersOpen, LockProtects, TypeOK
<1>2. ASSUME NEW o \in OrderIds
      PROVE  IF o \in O THEN orders'[o] = [orders[o] EXCEPT !.status = status]
             ELSE orders'[o] = orders[o]
  BY DEF OrdersSet
<1>3. ASSUME NEW o \in OrderIds
      PROVE  LET row == [orders[o] EXCEPT !.status = status] IN
             /\ row.session = orders[o].session /\ row.number = orders[o].number
             /\ row.key = orders[o].key /\ row.participant = orders[o].participant
             /\ row.status = status /\ status # "none"
  BY <1>1 DEF Orders, OrderStatuses
<1> QED
  BY <1>2, <1>3 DEF OrdersAlike, Placed

\* A step that cancels orders by their ids.
LEMMA OrdersAreCancelled ==
  ASSUME OrdersInv, SessionsKept, SeatsKept, NEW O,
         \A o \in OrderIds : o \in O => Placed(o),
         orders' = OrdersCancelled(O)
  PROVE  OrdersStep /\ \A o \in OrderIds : o \in O => orders'[o].status = "cancelled"
<1>1. /\ OrdersAlike
      /\ \A o \in OrderIds : IF o \in O THEN orders'[o].status = "cancelled"
                             ELSE orders'[o] = orders[o]
  BY StatusSet DEF OrdersCancelled, OrderStatuses
<1>2. SubmittedMove
  BY <1>1 DEF SubmittedMove
<1>3. OrdersMove
  BY <1>1 DEF OrdersMove, OrdersAlike, Placed, OrdersInv, OrdersOK, OrdersPlaced, SessionsKept
<1> QED
  BY <1>1, <1>2, <1>3, AlikeOrdersOK DEF OrdersStep

\* An acknowledgement takes a submitted order out of its state.
LEMMA OrderIsAcknowledged ==
  ASSUME OrdersInv, SessionsKept, SeatsKept, NEW o \in OrderIds, AcknowledgeOrder(o)
  PROVE  OrdersStep
<1>1. orders \in [OrderIds -> Orders]
  BY DEF OrdersInv, AnswersOpen, LockProtects, TypeOK
<1>2. /\ orders[o].status = "submitted"
      /\ orders' = [orders EXCEPT ![o].status = "acknowledged"]
  BY DEF AcknowledgeOrder
<1>3. OrdersAlike
  BY <1>1, <1>2 DEF OrdersAlike, Placed, Orders
<1>4. \A q \in OrderIds : orders'[q].status = orders[q].status \/
         (orders[q].status = "submitted" /\ orders'[q].status = "acknowledged")
  BY <1>1, <1>2 DEF Orders
<1>5. SubmittedMove
  BY <1>3, <1>4 DEF SubmittedMove, OrdersAlike
<1>6. OrdersMove
  BY <1>3, <1>4 DEF OrdersMove, OrdersAlike, Placed, OrdersInv, OrdersOK, OrdersPlaced, SessionsKept
<1> QED
  BY <1>3, <1>5, <1>6, AlikeOrdersOK DEF OrdersStep

-----------------------------------------------------------------------------
(* Nobody closes a session of a table that somebody else has locked.       *)

\* A session at a table that one handler has locked is not being closed by another.
LEMMA NotClosing ==
  ASSUME LockProtects, NEW w \in Workers, Locks(w), tx[w].op # "close",
         NEW v \in Workers, Running(v, "close"), NEW s, sessions[s].table = tx[w].table
  PROVE  tx[v].session # s
BY PlanFacts DEF Locks, UsesSession, Running

\* The order of the request that an approval is about was placed, at its table.
LEMMA ApprovedOrder ==
  ASSUME OrdersInv, NEW w \in Workers, Running(w, "approve"), tx[w].order # 0
  PROVE  /\ tx[w].order \in OrderIds /\ Placed(tx[w].order)
         /\ sessions[orders[tx[w].order].session].table = tx[w].table
<1>1. /\ tx[w].request \in RequestIds /\ tx[w].order = requests[tx[w].request].order
      /\ requests[tx[w].request].table = tx[w].table
  BY DEF OrdersInv, AnswersOpen, AnswerOpen, PlanRight, Running
<1>2. requests[tx[w].request].order \in OrderIds \cup {0}
  BY <1>1 DEF OrdersInv, AnswersOpen, LockProtects, TypeOK, Requests
<1> QED
  BY <1>1, <1>2 DEF OrdersInv, LinksOK, LinkOK

\* An approval submits its order in a session that nobody is closing.
LEMMA OrderIsConfirmed ==
  ASSUME OrdersInv, SessionsKept, SeatsKept, NEW w \in Workers, Running(w, "approve"),
         orders' = PendingOrderConfirmed(tx[w].order)
  PROVE  OrdersStep /\ (tx[w].order # 0 => orders'[tx[w].order].status = "submitted")
<1> DEFINE o == tx[w].order
<1>1. o \in OrderIds => Placed(o) /\ sessions[orders[o].session].table = tx[w].table
  BY ApprovedOrder DEF OrderIds
<1>2. /\ OrdersAlike
      /\ \A q \in OrderIds : IF q = o THEN orders'[q].status = "submitted"
                             ELSE orders'[q] = orders[q]
  BY <1>1, StatusSet DEF PendingOrderConfirmed, OrderStatuses
<1>3. SubmittedMove
  <2> SUFFICES ASSUME o \in OrderIds, NEW v \in Workers, Running(v, "close")
               PROVE  tx[v].session # orders'[o].session
    BY <1>2 DEF SubmittedMove
  <2> QED
    BY <1>1, <1>2, NotClosing DEF OrdersInv, AnswersOpen, Locks, Running, OrdersAlike
<1>4. OrdersMove
  BY <1>2 DEF OrdersMove, OrdersAlike, Placed, OrdersInv, OrdersOK, OrdersPlaced, SessionsKept
<1> QED
  BY <1>1, <1>2, <1>3, <1>4, AlikeOrdersOK, ApprovedOrder DEF OrdersStep

\* The order moves to the session that opens with it, and to its first guest.
LEMMA OrderIsMigrated ==
  ASSUME OrdersInv, SessionsKept, SeatsKept, NEW w \in Workers, Running(w, "approve"),
         NEW s \in SessionIds, IsNewSession(s), sessions'[s] = OpenedSession(tx[w].table),
         NEW o, o = tx[w].order, NEW d, d = tx[w].device,
         participants' = WithParticipant(s, d, 1), orders' = PendingOrderMigrated(o, s, d)
  PROVE  OrdersStep /\ (o # 0 => orders'[o].status = "submitted")
<1>1. o \in OrderIds => Placed(o) /\ sessions[orders[o].session].table = tx[w].table
  BY ApprovedOrder DEF OrderIds
<1>2. \A q \in OrderIds : q # o => orders'[q] = orders[q]
  BY DEF PendingOrderMigrated
<1>3. o \in OrderIds => /\ orders'[o].session = s /\ orders'[o].number = 1
                        /\ orders'[o].status = "submitted" /\ orders'[o].participant = <<s, d>>
                        /\ orders'[o].key = orders[o].key
  <2>1. orders \in [OrderIds -> Orders]
    BY DEF OrdersInv, AnswersOpen, LockProtects, TypeOK
  <2> DEFINE owner == <<s, d>>
  <2>2. o \in OrderIds => orders'[o] = [orders[o] EXCEPT !.session = s, !.number = 1,
                                           !.status = "submitted", !.participant = owner]
    BY Zenon DEF PendingOrderMigrated
  <2> HIDE DEF owner
  <2>3. ASSUME NEW row \in Orders
        PROVE  LET new == [row EXCEPT !.session = s, !.number = 1, !.status = "submitted",
                                      !.participant = owner] IN
               /\ new.session = s /\ new.number = 1 /\ new.status = "submitted"
               /\ new.participant = owner /\ new.key = row.key
    BY DEF Orders
  <2>4. o \in OrderIds => /\ orders'[o].session = s /\ orders'[o].number = 1
                          /\ orders'[o].status = "submitted" /\ orders'[o].participant = owner
                          /\ orders'[o].key = orders[o].key
    <3>1. o \in OrderIds => orders[o] \in Orders
      BY <2>1
    <3> QED
      BY <2>2, <2>3, <3>1, Zenon
  <2> QED
    BY <2>4 DEF owner
<1>4. sessions[s].status = "none" /\ sessions'[s].status = "active"
      /\ sessions'[s].table = tx[w].table
  BY DEF IsNewSession, NoSession, OpenedSession
<1>5. \A q \in OrderIds : Placed(q) => orders[q].session # s
  BY <1>4 DEF OrdersInv, OrdersOK, OrdersPlaced
<1>6. \E p \in participants' : p.session = s /\ p.device = d
  <2> DEFINE seat == [session |-> s, device |-> d, ordinal |-> 1]
  <2>1. seat \in participants' /\ seat.session = s /\ seat.device = d
    BY DEF WithParticipant
  <2> QED
    BY <2>1
<1>7. OrdersPlaced'
  BY <1>1, <1>2, <1>3, <1>4 DEF OrdersInv, OrdersOK, OrdersPlaced, SessionsKept, Placed
<1>8. KeysAndNumbersDistinct'
  BY <1>1, <1>2, <1>3, <1>5 DEF OrdersInv, OrdersOK, KeysAndNumbersDistinct, Placed
<1>9. OrderOwnerTakesPart'
  <2>1. ASSUME NEW q \in OrderIds, q # o, orders'[q].participant # None
        PROVE  /\ orders'[q].participant[1] = orders'[q].session
               /\ Participates(orders[q].session, orders[q].participant[2])'
    BY <1>2, <2>1, ParticipatesKept DEF OrdersInv, OrdersOK, OrderOwnerTakesPart
  <2>2. o \in OrderIds => /\ orders'[o].participant[1] = orders'[o].session
                          /\ Participates(orders[o].session, orders[o].participant[2])'
    BY <1>3, <1>6 DEF Participates
  <2> QED
    BY <2>1, <2>2 DEF OrderOwnerTakesPart
<1>10. SubmittedMove
  <2> SUFFICES ASSUME NEW v \in Workers, Running(v, "close")
               PROVE  tx[v].session # s
    BY <1>2, <1>3 DEF SubmittedMove
  <2> QED
    BY <1>4, PlanFacts DEF OrdersInv, AnswersOpen, UsesSession, Running, Live, LiveStatuses
<1>11. OrdersMove
  BY <1>1, <1>2, <1>3, <1>4
     DEF OrdersMove, Placed, OrdersInv, OrdersOK, OrdersPlaced, SessionsKept
<1> QED
  BY <1>3, <1>7, <1>8, <1>9, <1>10, <1>11, ApprovedOrder DEF OrdersStep, OrdersOK

\* An order is inserted by the one who read its session under the lock.
LEMMA OrderIsInserted ==
  ASSUME OrdersInv, SessionsKept, SeatsKept, NEW w \in Workers, Running(w, "createOrder"),
         tx[w].choice \in {"submit", "await_confirmation"},
         NEW o \in OrderIds, NEW status \in {"submitted", "pending_confirmation"},
         InsertOrder(w, o, status)
  PROVE  /\ OrdersStep
         /\ ~Placed(o) /\ Placed(o)'
         /\ orders'[o].session = tx[w].session
<1> DEFINE s == tx[w].session  d == tx[w].device
           owner == IF d = None THEN None ELSE <<s, d>>
           row == [status |-> status, session |-> s, number |-> tx[w].number,
                   participant |-> owner, key |-> tx[w].key]
<1>1. orders \in [OrderIds -> Orders]
  BY DEF OrdersInv, AnswersOpen, LockProtects, TypeOK
<1>2. ~Placed(o)
  BY DEF InsertOrder, IsNewOrder, Placed, NoOrder
<1>3. orders' = [orders EXCEPT ![o] = row]
  BY DEF InsertOrder
<1>4. owner # None => owner[1] = s /\ owner[2] = d /\ Participates(s, d)
  BY DEF OrdersInv, PlanRight, Running
<1> HIDE DEF owner
<1>5. /\ \A q \in OrderIds : q # o => orders'[q] = orders[q]
      /\ orders'[o].status = status /\ orders'[o].session = s
      /\ orders'[o].number = tx[w].number /\ orders'[o].key = tx[w].key
      /\ orders'[o].participant = owner
  BY <1>1, <1>3
<1>6. s \in SessionIds /\ sessions[s].status # "none" /\ sessions[s].table = tx[w].table
  BY PlanFacts DEF OrdersInv, AnswersOpen, UsesSession, Live, LiveStatuses
<1>7. OrdersPlaced'
  BY <1>2, <1>5, <1>6 DEF OrdersInv, OrdersOK, OrdersPlaced, SessionsKept, Placed
<1>8. KeysAndNumbersDistinct'
  <2>1. \A q \in OrderIds : orders[q].key # tx[w].key
    BY DEF InsertOrder, KeyIndexFree
  <2>2. \A q \in OrderIds : orders[q].session = s => orders[q].number # tx[w].number
    BY DEF InsertOrder, NumberIndexFree, NumbersOf
  <2> QED
    BY <1>5, <2>1, <2>2 DEF OrdersInv, OrdersOK, KeysAndNumbersDistinct, Placed
<1>9. OrderOwnerTakesPart'
  BY <1>4, <1>5, ParticipatesKept DEF OrdersInv, OrdersOK, OrderOwnerTakesPart
<1>10. SubmittedMove
  <2> SUFFICES ASSUME NEW v \in Workers, Running(v, "close")
               PROVE  tx[v].session # s
    BY <1>5 DEF SubmittedMove
  <2> QED
    BY <1>6, NotClosing DEF OrdersInv, AnswersOpen, Locks, Running
<1>11. OrdersMove
  BY <1>2, <1>5 DEF OrdersMove, Placed, OrdersInv, OrdersOK, OrdersPlaced, SessionsKept
<1> QED
  BY <1>2, <1>5, <1>7, <1>8, <1>9, <1>10, <1>11 DEF OrdersStep, OrdersOK, Placed

-----------------------------------------------------------------------------
(* What the statements do to the requests.                                 *)

\* A step that leaves the requests,
LEMMA RequestsUntouched ==
  ASSUME UNCHANGED requests
  PROVE  RequestsMove
BY DEF RequestsMove, RequestMove

\* one that inserts a pending request without an order,
LEMMA RequestIsCreated ==
  ASSUME TypeOK, NEW r \in RequestIds, IsNewRequest(r), NEW row,
         row.status = "pending", row.order = 0,
         requests' = [requests EXCEPT ![r] = row]
  PROVE  RequestsMove
BY DEF TypeOK, IsNewRequest, NoRequest, RequestsMove, RequestMove, Asked

\* and one that expires or cancels pending ones.
LEMMA RequestsMadeMoot ==
  ASSUME TypeOK, NEW R, NEW status \in Moot, \A r \in R : Pending(r),
         requests' = RequestsSet(requests, R, status)
  PROVE  RequestsMove
<1> SUFFICES ASSUME NEW r \in RequestIds PROVE RequestMove(r)
  BY DEF RequestsMove
<1>1. requests[r] \in Requests
  BY DEF TypeOK
<1>2. CASE r \in R
  <2>1. requests'[r] = [requests[r] EXCEPT !.status = status] /\ requests[r].status = "pending"
    BY <1>2 DEF RequestsSet, Pending
  <2> QED
    BY <1>1, <2>1 DEF RequestMove, MadeMoot, SameRequest, Requests
<1>3. CASE r \notin R
  BY <1>3 DEF RequestsSet, RequestMove
<1> QED
  BY <1>2, <1>3

\* An approval that settles the order of its request and has its device seated.
LEMMA RequestIsApproved ==
  ASSUME OrdersInv, NEW w \in Workers, Running(w, "approve"),
         NEW s \in SessionIds, NEW r, r = tx[w].request,
         requests' = RequestsApproved(r, tx[w].table, s),
         requests[r].order # 0 => orders'[requests[r].order].status # "pending_confirmation",
         requests[r].type = "open_session" =>
           \E p \in participants' : p.session = s /\ p.device = requests[r].device
  PROVE  RequestsMove
<1>1. /\ r \in RequestIds /\ requests[r].status \in Moot \cup {"pending"}
      /\ requests \in [RequestIds -> Requests]
  BY DEF OrdersInv, AnswersOpen, LockProtects, TypeOK, AnswerOpen
<1>2. Approved(r)
  <2>1. requests'[r] = [requests[r] EXCEPT !.status = "approved", !.session = s]
    BY <1>1 DEF RequestsApproved
  <2>2. /\ requests'[r].status = "approved" /\ requests'[r].session = s
        /\ requests'[r].type = requests[r].type /\ requests'[r].order = requests[r].order
        /\ requests'[r].device = requests[r].device /\ requests'[r].table = requests[r].table
    BY <1>1, <2>1 DEF Requests
  <2> QED
    BY <1>1, <2>2 DEF Approved, SameRequest, Moot, Participates
<1>3. ASSUME NEW q \in RequestIds, q # r
      PROVE  RequestMove(q)
  <2>1. CASE requests'[q] = requests[q]
    BY <2>1 DEF RequestMove
  <2>2. CASE requests'[q] = [requests[q] EXCEPT !.status = "expired"] /\ Pending(q)
    BY <1>1, <2>2 DEF RequestMove, MadeMoot, SameRequest, Moot, Requests, Pending
  <2> QED
    BY <1>3, <2>1, <2>2 DEF RequestsApproved
<1> QED
  BY <1>2, <1>3 DEF RequestsMove, RequestMove

-----------------------------------------------------------------------------
(* The plans.                                                              *)

\* The plan of a worker, and of nobody else, becomes one that is right.
LEMMA PlanIsNew ==
  ASSUME TypeOK, NEW w \in Workers, NEW rec, tx' = [tx EXCEPT ![w] = rec],
         tx'[w] = rec => PlanRight(w)'
  PROVE  PlansMove
BY DEF TypeOK, PlansMove

\* A handler that ends has no plan.
LEMMA PlanEnds ==
  ASSUME TypeOK, NEW w \in Workers, End(w)
  PROVE  PlansMove
<1>1. tx'[w] = NoTx => PlanRight(w)'
  BY DEF PlanRight, NoTx
<1> QED
  BY <1>1, PlanIsNew DEF End

\* Plans about no request, order or participant.
LEMMA PlainPlan ==
  ASSUME TypeOK, NEW w \in Workers, NEW rec, tx' = [tx EXCEPT ![w] = rec],
         rec.op \notin {"approve", "createOrder", "cancelOrder", "close"}
  PROVE  PlansMove
<1>1. tx'[w] = rec => PlanRight(w)'
  BY DEF PlanRight
<1> QED
  BY <1>1, PlanIsNew

\* An order begins with a participant of its session.
LEMMA CreateOrderPlan ==
  ASSUME TypeOK, NEW w \in Workers, NEW s \in SessionIds, NEW d \in Devices \cup {None},
         NEW k \in Keys, CreateOrder(w, s, d, k)
  PROVE  PlansMove
<1> DEFINE rec == [NoTx EXCEPT !.op = "createOrder", !.table = sessions[s].table,
                               !.session = s, !.device = d, !.key = k, !.choice = "start"]
<1>1. /\ rec.op = "createOrder" /\ rec.session = s /\ rec.device = d
      /\ tx' = [tx EXCEPT ![w] = rec] /\ UNCHANGED participants
      /\ d # None => Participates(s, d)
  BY DEF CreateOrder, BeginUnlocked, NoTx, db
<1> HIDE DEF rec
<1>2. tx'[w] = rec => PlanRight(w)'
  BY <1>1 DEF PlanRight, Participates
<1> QED
  BY <1>1, <1>2, PlanIsNew

\* A cancellation begins with an order that was placed.
LEMMA CancelOrderPlan ==
  ASSUME TypeOK, NEW w \in Workers, NEW o \in OrderIds, NEW byCustomer,
         CancelOrder(w, o, byCustomer)
  PROVE  PlansMove
<1> DEFINE rec == [NoTx EXCEPT !.op = "cancelOrder", !.order = o, !.choice = orders[o].status]
<1>1. /\ rec.op = "cancelOrder" /\ rec.order = o
      /\ tx' = [tx EXCEPT ![w] = rec] /\ UNCHANGED orders
      /\ orders[o].status # "none"
  BY DEF CancelOrder, BeginUnlocked, NoTx, db
<1> HIDE DEF rec
<1>2. tx'[w] = rec => PlanRight(w)'
  BY <1>1 DEF PlanRight, Placed
<1> QED
  BY <1>1, <1>2, PlanIsNew

\* A close begins with all orders that are unacknowledged in its session.
LEMMA ClosePlan ==
  ASSUME TypeOK, NEW w \in Workers, NEW s \in SessionIds, NEW force, Close(w, s, force)
  PROVE  PlansMove
<1> DEFINE rec == [NoTx EXCEPT !.op = "close", !.table = sessions[s].table, !.session = s,
                               !.unacked = UnackedOf(s)]
<1>1. /\ rec.op = "close" /\ rec.session = s /\ rec.unacked = UnackedOf(s)
      /\ tx' = [tx EXCEPT ![w] = rec] /\ UNCHANGED orders
  BY DEF Close, BeginLocked, NoTx, db
<1> HIDE DEF rec
<1>2. tx'[w] = rec => PlanRight(w)'
  BY <1>1 DEF PlanRight, Placed, UnackedOf
<1> QED
  BY <1>1, <1>2, PlanIsNew

\* An approval begins with the device and the order of its request.
LEMMA ApprovePlan ==
  ASSUME LockProtects, NEW w \in Workers, NEW r \in RequestIds, Approve(w, r)
  PROVE  PlansMove
<1> DEFINE t == requests[r].table
           d == requests[r].device
           plan == [NoTx EXCEPT !.op = "approve", !.table = t, !.request = r,
                                !.device = d, !.order = requests[r].order]
<1>1. TypeOK /\ ParticipantsDistinct
  BY DEF LockProtects
<1>2. ASSUME NEW rec, BeginLocked(w, t, rec), rec.op = "approve", rec.request = r,
             rec.device = d, rec.order = requests[r].order,
             rec.choice = "open" => requests[r].type = "open_session",
             rec.choice = "continue" /\ rec.number = 0 => requests[r].type = "resume_session"
      PROVE  PlansMove
  <2>1. tx' = [tx EXCEPT ![w] = rec] /\ UNCHANGED requests
    BY <1>2 DEF BeginLocked, db
  <2>2. tx'[w] = rec => PlanRight(w)'
    BY <1>2, <2>1 DEF PlanRight
  <2> QED
    BY <1>1, <2>1, <2>2, PlanIsNew
<1>3. ASSUME requests[r].type = "open_session",
             BeginLocked(w, t, [plan EXCEPT !.choice = "open", !.number = 1])
      PROVE  PlansMove
  <2> DEFINE rec == [plan EXCEPT !.choice = "open", !.number = 1]
  <2>1. /\ rec.op = "approve" /\ rec.request = r /\ rec.device = d
        /\ rec.order = requests[r].order /\ rec.choice = "open"
    BY DEF NoTx
  <2> HIDE DEF rec
  <2>2. BeginLocked(w, t, rec)
    BY <1>3 DEF rec
  <2> QED
    BY <1>2, <1>3, <2>1, <2>2
<1>4. ASSUME NEW s, BeginLocked(w, t, [plan EXCEPT !.choice = "new_session", !.session = s,
                                                   !.number = 1])
      PROVE  PlansMove
  <2> DEFINE rec == [plan EXCEPT !.choice = "new_session", !.session = s, !.number = 1]
  <2>1. /\ rec.op = "approve" /\ rec.request = r /\ rec.device = d
        /\ rec.order = requests[r].order /\ rec.choice = "new_session"
    BY DEF NoTx
  <2> HIDE DEF rec
  <2>2. BeginLocked(w, t, rec)
    BY <1>4 DEF rec
  <2> QED
    BY <1>2, <2>1, <2>2
<1>5. ASSUME NEW s, requests[r].type = "resume_session",
             BeginLocked(w, t, [plan EXCEPT !.choice = "continue", !.session = s])
      PROVE  PlansMove
  <2> DEFINE rec == [plan EXCEPT !.choice = "continue", !.session = s]
  <2>1. /\ rec.op = "approve" /\ rec.request = r /\ rec.device = d
        /\ rec.order = requests[r].order /\ rec.choice = "continue"
    BY DEF NoTx
  <2> HIDE DEF rec
  <2>2. BeginLocked(w, t, rec)
    BY <1>5 DEF rec
  <2> QED
    BY <1>2, <1>5, <2>1, <2>2
<1>6. ASSUME NEW s, NEW n \in OrdinalFor(s, d),
             BeginLocked(w, t, [plan EXCEPT !.choice = "continue", !.session = s, !.number = n])
      PROVE  PlansMove
  <2> DEFINE rec == [plan EXCEPT !.choice = "continue", !.session = s, !.number = n]
  <2>1. /\ rec.op = "approve" /\ rec.request = r /\ rec.device = d
        /\ rec.order = requests[r].order /\ rec.choice = "continue" /\ rec.number = n
    BY DEF NoTx
  <2>2. n # 0
    BY <1>1, OrdinalIsFree DEF Ordinals
  <2> HIDE DEF rec
  <2>3. BeginLocked(w, t, rec)
    BY <1>6 DEF rec
  <2> QED
    BY <1>2, <2>1, <2>2, <2>3
<1> QED
  BY <1>3, <1>4, <1>5, <1>6 DEF Approve

\* What customers begin or do at once changes no request and no order,
LEMMA CustomerBegins ==
  ASSUME LockProtects, NEW w \in Workers, Customer(w)
  PROVE  PlansMove /\ UNCHANGED <<requests, orders>>
<1>1. TypeOK
  BY DEF LockProtects
<1>2. ASSUME NEW t \in Tables, NEW d \in Devices, RequestService(w, t, d) \/ Join(w, t, d)
      PROVE  PlansMove /\ UNCHANGED <<requests, orders>>
  BY <1>1, <1>2, PlainPlan DEF RequestService, Join, BeginLocked, NoTx, db
<1>3. ASSUME NEW s \in SessionIds, RequestBill(w, s) \/ CancelBill(w, s)
      PROVE  PlansMove /\ UNCHANGED <<requests, orders>>
  BY <1>1, <1>3, PlainPlan DEF RequestBill, CancelBill, BeginUnlocked, NoTx, db
<1>4. ASSUME NEW s \in SessionIds, NEW d \in Devices, NEW k \in Keys, CreateOrder(w, s, d, k)
      PROVE  PlansMove /\ UNCHANGED <<requests, orders>>
  BY <1>1, <1>4, CreateOrderPlan DEF CreateOrder, BeginUnlocked, db
<1>5. ASSUME NEW o \in OrderIds, CancelOrder(w, o, TRUE)
      PROVE  PlansMove /\ UNCHANGED <<requests, orders>>
  BY <1>1, <1>5, CancelOrderPlan DEF CancelOrder, BeginUnlocked, db
<1> QED
  BY <1>2, <1>3, <1>4, <1>5 DEF Customer

\* and so it is with what the staff begins.
LEMMA StaffBegins ==
  ASSUME LockProtects, NEW w \in Workers, Staff(w)
  PROVE  PlansMove /\ UNCHANGED <<requests, orders>>
<1>1. TypeOK
  BY DEF LockProtects
<1>2. UNCHANGED <<requests, orders>>
  BY BeginWritesNothing DEF db
<1>3. ASSUME NEW t \in Tables, OpenByStaff(w, t) \/ DeactivateTable(w, t)
      PROVE  PlansMove
  BY <1>1, <1>3, PlainPlan DEF OpenByStaff, DeactivateTable, BeginLocked, BeginUnlocked, NoTx
<1>4. ASSUME NEW s \in SessionIds, AcknowledgeBill(w, s)
      PROVE  PlansMove
  BY <1>1, <1>4, PlainPlan DEF AcknowledgeBill, BeginUnlocked, NoTx
<1> QED
  BY <1>1, <1>2, <1>3, <1>4, ApprovePlan, ClosePlan, CreateOrderPlan, CancelOrderPlan DEF Staff

-----------------------------------------------------------------------------
(* The handlers that end.                                                  *)

Moves == OrdersStep /\ RequestsMove /\ PlansMove

\* The handlers that write neither requests nor orders.
LEMMA CommitElsewhereMoves ==
  ASSUME OrdersInv, SessionsKept, SeatsKept, NEW w \in Workers,
         \/ CommitJoin(w) \/ CommitRequestBill(w) \/ CommitCancelBill(w)
         \/ CommitAcknowledgeBill(w) \/ CommitDeactivateTable(w)
  PROVE  Moves
<1>1. End(w) /\ UNCHANGED <<requests, orders>>
  BY DEF CommitJoin, CommitRequestBill, CommitCancelBill, CommitAcknowledgeBill,
         CommitDeactivateTable
<1>2. TypeOK
  BY DEF OrdersInv, AnswersOpen, LockProtects
<1> QED
  BY <1>1, <1>2, OrdersUntouched, RequestsUntouched, PlanEnds DEF Moves

\* An order that gets its lock still belongs to a participant.
LEMMA LockCreateOrderMoves ==
  ASSUME OrdersInv, SessionsKept, SeatsKept, NEW w \in Workers, LockCreateOrder(w)
  PROVE  Moves
<1>1. UNCHANGED <<requests, orders, participants>>
  BY DEF LockCreateOrder, db
<1>2. tx \in [Workers -> Transactions] /\ tx[w] \in Transactions /\ tx[w].op = "createOrder"
  BY DEF OrdersInv, AnswersOpen, LockProtects, TypeOK, LockCreateOrder, Running
<1>3. PICK n : tx' = [tx EXCEPT ![w].choice = Placement(tx[w].session, tx[w].device),
                                ![w].number = n]
  BY DEF LockCreateOrder
<1>4. /\ tx'[w].op = "createOrder" /\ tx'[w].session = tx[w].session
      /\ tx'[w].device = tx[w].device
      /\ \A v \in Workers \ {w} : tx'[v] = tx[v]
  BY <1>2, <1>3 DEF Transactions
<1>5. PlanRight(w)'
  BY <1>1, <1>4 DEF LockCreateOrder, PlanRight, Participates
<1>6. PlansMove
  BY <1>4, <1>5 DEF PlansMove
<1> QED
  BY <1>1, <1>6, OrdersUntouched, RequestsUntouched DEF Moves

\* A request to open or join holds no order.
LEMMA CommitRequestServiceMoves ==
  ASSUME OrdersInv, SessionsKept, SeatsKept, NEW w \in Workers, CommitRequestService(w)
  PROVE  Moves
<1> DEFINE row == [NoRequest EXCEPT !.status = "pending", !.type = "open_session",
                                    !.table = tx[w].table, !.device = tx[w].device]
<1>1. TypeOK
  BY DEF OrdersInv, AnswersOpen, LockProtects
<1>2. PICK r \in RequestIds : IsNewRequest(r) /\ requests' = [requests EXCEPT ![r] = row]
  BY DEF CommitRequestService
<1>3. row.status = "pending" /\ row.order = 0
  BY DEF NoRequest
<1> HIDE DEF row
<1>4. RequestsMove
  BY <1>1, <1>2, <1>3, RequestIsCreated
<1> QED
  BY <1>1, <1>4, OrdersUntouched, PlanEnds DEF Moves, CommitRequestService

\* An approved device is in the session that is opened.
LEMMA CommitApproveOpenMoves ==
  ASSUME OrdersInv, SessionsKept, SeatsKept, NEW w \in Workers, CommitApproveOpen(w)
  PROVE  Moves
<1>1. TypeOK
  BY DEF OrdersInv, AnswersOpen, LockProtects
<1>2. PICK s \in SessionIds :
        /\ participants' = WithParticipant(s, tx[w].device, 1)
        /\ requests' = RequestsApproved(tx[w].request, tx[w].table, s)
  BY DEF CommitApproveOpen
<1>3. Running(w, "approve") /\ tx[w].choice = "open" /\ End(w) /\ UNCHANGED orders
  BY DEF CommitApproveOpen
<1>4. PICK r \in RequestIds : r = tx[w].request
  BY <1>3 DEF OrdersInv, AnswersOpen, AnswerOpen
<1>5. tx[w].device = requests[r].device /\ requests[r].order = 0
  BY <1>3, <1>4 DEF OrdersInv, PlanRight, Running, LinksOK, LinkOK
<1>6. \E p \in participants' : p.session = s /\ p.device = requests[r].device
  <2> DEFINE seat == [session |-> s, device |-> tx[w].device, ordinal |-> 1]
  <2>1. seat \in participants' /\ seat.session = s /\ seat.device = tx[w].device
    BY <1>2 DEF WithParticipant
  <2> QED
    BY <1>5, <2>1
<1>7. RequestsMove
  BY <1>2, <1>3, <1>4, <1>5, <1>6, RequestIsApproved
<1> QED
  BY <1>1, <1>3, <1>7, OrdersUntouched, PlanEnds DEF Moves

\* The order moves to the new session with its owner, and the device is in it.
LEMMA CommitApproveNewMoves ==
  ASSUME OrdersInv, SessionsKept, SeatsKept, NEW w \in Workers, CommitApproveNew(w)
  PROVE  Moves
<1>1. TypeOK /\ tx[w] \in Transactions
  BY DEF OrdersInv, AnswersOpen, LockProtects, TypeOK
<1>2. Running(w, "approve") /\ tx[w].choice = "new_session" /\ End(w)
  BY DEF CommitApproveNew
<1>3. PICK r \in RequestIds, o \in OrderIds \cup {0}, d \in Devices \cup {None} :
        r = tx[w].request /\ o = tx[w].order /\ d = tx[w].device
  BY <1>1, <1>2 DEF OrdersInv, AnswersOpen, AnswerOpen, Transactions
<1>4. PICK s \in SessionIds :
        /\ IsNewSession(s)
        /\ sessions' = [sessions EXCEPT ![tx[w].session] = ClosedSession(tx[w].session),
                                        ![s] = OpenedSession(tx[w].table)]
        /\ participants' = WithParticipant(s, d, 1)
        /\ orders' = PendingOrderMigrated(o, s, d)
        /\ requests' = RequestsApproved(r, tx[w].table, s)
  BY <1>3 DEF CommitApproveNew
<1>5. sessions'[s] = OpenedSession(tx[w].table)
  BY <1>1, <1>4 DEF TypeOK
<1>6. OrdersStep /\ (o # 0 => orders'[o].status = "submitted")
  BY <1>2, <1>3, <1>4, <1>5, OrderIsMigrated
<1>7. d = requests[r].device /\ o = requests[r].order
  BY <1>2, <1>3 DEF OrdersInv, PlanRight, Running
<1>8. \E p \in participants' : p.session = s /\ p.device = d
  <2> DEFINE seat == [session |-> s, device |-> d, ordinal |-> 1]
  <2>1. seat \in participants' /\ seat.session = s /\ seat.device = d
    BY <1>4 DEF WithParticipant
  <2> QED
    BY <2>1
<1>9. RequestsMove
  BY <1>2, <1>3, <1>4, <1>6, <1>7, <1>8, RequestIsApproved
<1> QED
  BY <1>1, <1>2, <1>6, <1>9, PlanEnds DEF Moves

\* The order is submitted in the session that continues, and the device is in it.
LEMMA CommitApproveContinueMoves ==
  ASSUME OrdersInv, SessionsKept, SeatsKept, NEW w \in Workers, CommitApproveContinue(w)
  PROVE  Moves
<1>1. TypeOK
  BY DEF OrdersInv, AnswersOpen, LockProtects
<1>2. /\ Running(w, "approve") /\ tx[w].choice = "continue" /\ End(w)
      /\ orders' = PendingOrderConfirmed(tx[w].order)
      /\ requests' = RequestsApproved(tx[w].request, tx[w].table, tx[w].session)
      /\ tx[w].number # 0 =>
           participants' = WithParticipant(tx[w].session, tx[w].device, tx[w].number)
  BY DEF CommitApproveContinue
<1>3. PICK r \in RequestIds, s \in SessionIds : r = tx[w].request /\ s = tx[w].session
  BY <1>2, PlanFacts DEF OrdersInv, AnswersOpen, AnswerOpen, UsesSession
<1>4. OrdersStep /\ (tx[w].order # 0 => orders'[tx[w].order].status = "submitted")
  BY <1>2, OrderIsConfirmed
<1>5. /\ tx[w].device = requests[r].device /\ tx[w].order = requests[r].order
      /\ tx[w].number = 0 => requests[r].type = "resume_session"
  BY <1>2, <1>3 DEF OrdersInv, PlanRight, Running
<1>6. ASSUME requests[r].type = "open_session"
      PROVE  \E p \in participants' : p.session = s /\ p.device = requests[r].device
  <2> DEFINE seat == [session |-> s, device |-> tx[w].device, ordinal |-> tx[w].number]
  <2>1. seat \in participants' /\ seat.session = s /\ seat.device = tx[w].device
    BY <1>2, <1>3, <1>5, <1>6 DEF WithParticipant
  <2> QED
    BY <1>5, <2>1
<1>7. RequestsMove
  BY <1>2, <1>3, <1>4, <1>5, <1>6, RequestIsApproved
<1> QED
  BY <1>1, <1>2, <1>4, <1>7, PlanEnds DEF Moves

\* Opening a table makes its pending requests moot.
LEMMA CommitOpenByStaffMoves ==
  ASSUME OrdersInv, SessionsKept, SeatsKept, NEW w \in Workers, CommitOpenByStaff(w)
  PROVE  Moves
<1> DEFINE R == {r \in RequestIds : Pending(r) /\ requests[r].table = tx[w].table}
<1>1. TypeOK
  BY DEF OrdersInv, AnswersOpen, LockProtects
<1>2. /\ End(w) /\ UNCHANGED orders /\ requests' = RequestsSet(requests, R, "expired")
      /\ \A r \in R : Pending(r)
  BY DEF CommitOpenByStaff
<1> HIDE DEF R
<1>3. RequestsMove
  BY <1>1, <1>2, RequestsMadeMoot DEF Moot
<1> QED
  BY <1>1, <1>2, <1>3, OrdersUntouched, PlanEnds DEF Moves

\* A close cancels the orders that it found.
LEMMA CommitCloseMoves ==
  ASSUME OrdersInv, SessionsKept, SeatsKept, NEW w \in Workers, CommitClose(w)
  PROVE  Moves
<1>1. TypeOK
  BY DEF OrdersInv, AnswersOpen, LockProtects
<1>2. Running(w, "close") /\ End(w) /\ UNCHANGED requests /\ orders' = OrdersCancelled(tx[w].unacked)
  BY DEF CommitClose
<1>3. \A o \in tx[w].unacked : Placed(o)
  BY <1>2 DEF OrdersInv, PlanRight, Running
<1>4. OrdersStep
  BY <1>2, <1>3, OrdersAreCancelled
<1> QED
  BY <1>1, <1>2, <1>4, RequestsUntouched, PlanEnds DEF Moves

\* A new order has a key and a number of its own, and enters no session that is
\* being closed.
LEMMA CommitSubmitOrderMoves ==
  ASSUME OrdersInv, SessionsKept, SeatsKept, NEW w \in Workers, CommitSubmitOrder(w)
  PROVE  Moves
<1>1. TypeOK
  BY DEF OrdersInv, AnswersOpen, LockProtects
<1>2. PICK o \in OrderIds : InsertOrder(w, o, "submitted")
  BY DEF CommitSubmitOrder
<1>3. OrdersStep
  BY <1>2, OrderIsInserted DEF CommitSubmitOrder
<1> QED
  BY <1>1, <1>3, RequestsUntouched, PlanEnds DEF Moves, CommitSubmitOrder

\* An order that awaits confirmation comes with the request that holds it.
LEMMA CommitAwaitOrderMoves ==
  ASSUME OrdersInv, SessionsKept, SeatsKept, NEW w \in Workers, CommitAwaitOrder(w)
  PROVE  Moves
<1> DEFINE s == tx[w].session  t == tx[w].table
<1>1. TypeOK
  BY DEF OrdersInv, AnswersOpen, LockProtects
<1>2. Running(w, "createOrder") /\ tx[w].choice = "await_confirmation" /\ End(w)
  BY DEF CommitAwaitOrder
<1>3. PICK o \in OrderIds, r \in RequestIds :
        /\ InsertOrder(w, o, "pending_confirmation")
        /\ IsNewRequest(r)
        /\ requests' = [requests EXCEPT ![r] =
             [status |-> "pending", type |-> "resume_session", table |-> t,
              device |-> tx[w].device, session |-> s, order |-> o]]
  BY DEF CommitAwaitOrder
<1>4. /\ OrdersStep /\ ~Placed(o) /\ orders'[o].status # "none"
      /\ orders'[o].session = s
  BY <1>2, <1>3, OrderIsInserted DEF Placed
<1>5. sessions'[s].table = t
  BY <1>2, PlanFacts DEF OrdersInv, AnswersOpen, UsesSession, Live, LiveStatuses, SessionsKept
<1>6. /\ requests'[r].status = "pending" /\ requests'[r].type = "resume_session"
      /\ requests'[r].table = t /\ requests'[r].order = o
      /\ requests[r].status = "none"
      /\ \A q \in RequestIds \ {r} : requests'[q] = requests[q]
  BY <1>1, <1>3 DEF TypeOK, IsNewRequest, NoRequest
<1>7. AskedWithOrder(r)
  BY <1>4, <1>5, <1>6 DEF AskedWithOrder
<1>8. RequestsMove
  BY <1>6, <1>7 DEF RequestsMove, RequestMove
<1> QED
  BY <1>1, <1>2, <1>4, <1>8, PlanEnds DEF Moves

\* A cancelled order takes the request that held it along.
LEMMA CommitCancelOrderMoves ==
  ASSUME OrdersInv, SessionsKept, SeatsKept, NEW w \in Workers, CommitCancelOrder(w)
  PROVE  Moves
<1> DEFINE R == {r \in RequestIds : Pending(r) /\ requests[r].order = tx[w].order}
<1>1. TypeOK
  BY DEF OrdersInv, AnswersOpen, LockProtects
<1>2. /\ Running(w, "cancelOrder") /\ End(w) /\ orders' = OrdersCancelled({tx[w].order})
      /\ UNCHANGED requests \/ requests' = RequestsSet(requests, R, "cancelled")
      /\ \A r \in R : Pending(r)
  BY DEF CommitCancelOrder
<1> HIDE DEF R
<1>3. Placed(tx[w].order)
  BY <1>2 DEF OrdersInv, PlanRight, Running
<1>4. OrdersStep
  BY <1>2, <1>3, OrdersAreCancelled
<1>5. RequestsMove
  BY <1>1, <1>2, RequestsUntouched, RequestsMadeMoot DEF Moot
<1> QED
  BY <1>1, <1>2, <1>4, <1>5, PlanEnds DEF Moves

\* Every commit moves orders and requests in these ways.
LEMMA CommitMoves ==
  ASSUME OrdersInv, SessionsKept, SeatsKept, NEW w \in Workers, Commit(w)
  PROVE  Moves
BY CommitElsewhereMoves, LockCreateOrderMoves, CommitRequestServiceMoves, CommitApproveOpenMoves,
   CommitApproveNewMoves, CommitApproveContinueMoves, CommitOpenByStaffMoves, CommitCloseMoves,
   CommitSubmitOrderMoves, CommitAwaitOrderMoves, CommitCancelOrderMoves
   DEF Commit

-----------------------------------------------------------------------------
(* One statement, and the jobs.                                            *)

\* The orders of requests are cancelled with them.
LEMMA HeldOrdersArePlaced ==
  ASSUME OrdersInv, NEW r \in RequestIds, requests[r].order \in OrderIds
  PROVE  Placed(requests[r].order)
BY DEF OrdersInv, LinksOK, LinkOK, OrderIds

\* A rejection cancels the order that waits for it.
LEMMA RejectMoves ==
  ASSUME OrdersInv, SessionsKept, SeatsKept, NEW r \in RequestIds, Reject(r)
  PROVE  OrdersStep /\ RequestsMove
<1>1. requests \in [RequestIds -> Requests]
  BY DEF OrdersInv, AnswersOpen, LockProtects, TypeOK
<1>2. /\ OrdersStep
      /\ requests[r].order \in OrderIds => orders'[requests[r].order].status = "cancelled"
  <2>1. orders' = OrdersCancelled({requests[r].order})
    BY DEF Reject
  <2>2. \A o \in OrderIds : o \in {requests[r].order} => Placed(o)
    BY HeldOrdersArePlaced
  <2>3. OrdersStep /\ \A o \in OrderIds : o \in {requests[r].order} => orders'[o].status = "cancelled"
    BY <2>1, <2>2, OrdersAreCancelled
  <2> QED
    BY <2>3
<1>3. Rejected(r)
  <2>1. requests[r].order \in OrderIds \cup {0}
    BY <1>1 DEF Requests
  <2>2. requests'[r] = [requests[r] EXCEPT !.status = "rejected"] /\ Pending(r)
    BY DEF Reject, RequestsSet
  <2> QED
    BY <1>1, <1>2, <2>1, <2>2 DEF Rejected, SameRequest, Pending, Requests
<1>4. \A q \in RequestIds : q # r => requests'[q] = requests[q]
  BY DEF Reject, RequestsSet
<1> QED
  BY <1>2, <1>3, <1>4 DEF RequestsMove, RequestMove

\* An expiry cancels the orders that wait.
LEMMA ExpireMoves ==
  ASSUME OrdersInv, SessionsKept, SeatsKept, NEW R \in SUBSET RequestIds, ExpireRequests(R)
  PROVE  OrdersStep /\ RequestsMove
<1>1. TypeOK
  BY DEF OrdersInv, AnswersOpen, LockProtects
<1>2. RequestsMove
  BY <1>1, RequestsMadeMoot DEF ExpireRequests, Moot
<1>3. \A o \in OrderIds : o \in {requests[r].order : r \in R} => Placed(o)
  BY HeldOrdersArePlaced
<1> QED
  BY <1>2, <1>3, OrdersAreCancelled DEF ExpireRequests

\* The single statements and the jobs.
LEMMA UnattendedMoves ==
  ASSUME OrdersInv, SessionsKept, SeatsKept, OneStatement \/ Jobs \/ UNCHANGED vars
  PROVE  Moves
<1>1. PlansMove
  BY DEF OneStatement, Jobs, SetParticipantName, Reject, AcknowledgeOrder, ActivateTable,
         ExpireRequests, MarkInactiveSessions, vars, PlansMove
<1>2. ASSUME NEW o \in OrderIds, AcknowledgeOrder(o)
      PROVE  OrdersStep /\ RequestsMove
  BY <1>2, OrderIsAcknowledged, RequestsUntouched DEF AcknowledgeOrder
<1>3. \/ UNCHANGED <<requests, orders>>
      \/ \E r \in RequestIds : Reject(r)
      \/ \E o \in OrderIds : AcknowledgeOrder(o)
      \/ \E R \in SUBSET RequestIds : ExpireRequests(R)
  BY DEF OneStatement, Jobs, SetParticipantName, ActivateTable, MarkInactiveSessions, vars
<1> QED
  BY <1>1, <1>2, <1>3, RejectMoves, ExpireMoves, OrdersUntouched, RequestsUntouched DEF Moves

\* So every step moves orders and requests in these ways.
LEMMA NextMoves ==
  ASSUME OrdersInv, [Next]_vars
  PROVE  SessionsKept /\ SeatsKept /\ Moves
<1>1. LockProtects /\ TypeOK
  BY DEF OrdersInv, AnswersOpen, LockProtects
<1>2. SessionsKept /\ SeatsKept
  BY <1>1, NextKeepsSessions, NextKeepsSeats
<1>3. ASSUME NEW w \in Workers, Customer(w) \/ Staff(w)
      PROVE  Moves
  BY <1>1, <1>2, <1>3, CustomerBegins, StaffBegins, OrdersUntouched, RequestsUntouched DEF Moves
<1>4. ASSUME NEW w \in Workers, Rollback(w)
      PROVE  Moves
  BY <1>1, <1>2, <1>4, OrdersUntouched, RequestsUntouched, PlanEnds DEF Moves, Rollback, db
<1> QED
  BY <1>2, <1>3, <1>4, CommitMoves, UnattendedMoves DEF Next

\* The inductive invariant of the orders holds always.
LEMMA OrdersInvAlways == Spec => []OrdersInv
<1>1. Init => OrdersInv
  <2> SUFFICES ASSUME Init PROVE OrdersInv
    OBVIOUS
  <2>1. AnswersOpen
    BY InitProtects DEF Init, AnswersOpen, AnswerOpen, Running, NoTx
  <2>2. OrdersOK
    BY DEF Init, OrdersOK, OrdersPlaced, KeysAndNumbersDistinct, OrderOwnerTakesPart, Placed,
           NoOrder
  <2>3. LinksOK
    BY DEF Init, LinksOK, LinkOK, OneHolder, AnswerSettlesOrder, ApprovedDeviceTakesPart,
           NoRequest
  <2>4. \A w \in Workers : PlanRight(w)
    BY DEF Init, PlanRight, NoTx
  <2> QED
    BY <2>1, <2>2, <2>3, <2>4 DEF OrdersInv
<1>2. OrdersInv /\ [Next]_vars => OrdersInv'
  <2> SUFFICES ASSUME OrdersInv, [Next]_vars PROVE OrdersInv'
    OBVIOUS
  <2>1. AnswersOpen'
    <3>1. LockProtects'
      BY NextProtects DEF OrdersInv, AnswersOpen
    <3> QED
      BY <3>1, NextPlans, StepKeepsAnswersOpen DEF OrdersInv
  <2> QED
    BY <2>1, NextMoves, StepKeepsOrders DEF Moves, OrdersStep
<1> QED
  BY <1>1, <1>2, PTL DEF Spec

-----------------------------------------------------------------------------
(* The theorems.                                                           *)

\* The participant an order belongs to takes part in the session the order is
\* in, in every instance: createOrder finds it before it locks the table and
\* nobody leaves, and migratePendingOrder changes both at once.
THEOREM OrderOwnerTakesPartAlways == Spec => []OrderOwnerTakesPart
<1>1. OrdersInv => OrderOwnerTakesPart
  BY DEF OrdersInv, OrdersOK
<1> QED
  BY <1>1, OrdersInvAlways, PTL

\* A retried order is created once, orders of a session have different numbers,
\* also when one is migrated, and an order awaits the answer to one request.
THEOREM OrdersAreDistinctAlways == Spec => []OrdersAreDistinct
<1>1. OrdersInv => OrdersAreDistinct
  <2> SUFFICES ASSUME OrdersInv PROVE OrdersAreDistinct
    OBVIOUS
  <2>1. \A o \in OrderIds : orders[o] # NoOrder => Placed(o)
    BY DEF OrdersInv, OrdersOK, OrdersPlaced
  <2> QED
    BY <2>1 DEF OrdersAreDistinct, OrdersInv, OrdersOK, KeysAndNumbersDistinct, LinksOK, OneHolder
<1> QED
  BY <1>1, OrdersInvAlways, PTL

\* Once the staff has answered a request its order has entered the queue or is
\* cancelled for good, however an approval that read it before writes after.
THEOREM AnswerSettlesOrderAlways == Spec => []AnswerSettlesOrder
<1>1. OrdersInv => AnswerSettlesOrder
  BY DEF OrdersInv, LinksOK
<1> QED
  BY <1>1, OrdersInvAlways, PTL

\* A device whose request to open the table was approved takes part in the
\* session the request led to, whichever way the approval went.
THEOREM ApprovedDeviceTakesPartAlways == Spec => []ApprovedDeviceTakesPart
<1>1. OrdersInv => ApprovedDeviceTakesPart
  BY DEF OrdersInv, LinksOK
<1> QED
  BY <1>1, OrdersInvAlways, PTL

-----------------------------------------------------------------------------
(* Closing a session.                                                      *)

\* Only a close and the approval of a new session end a session.
LEMMA SessionsEndBy ==
  ASSUME LockProtects, [Next]_vars, NEW s \in SessionIds, Live(s), ~Live(s)'
  PROVE  \E w \in Workers : tx[w].session = s /\ (CommitClose(w) \/ CommitApproveNew(w))
<1>1. sessions \in [SessionIds -> Sessions]
  BY DEF LockProtects, TypeOK
<1>2. sessions' # sessions
  BY DEF Live
<1>3. ~ \E S \in SUBSET SessionIds : MarkInactiveSessions(S)
  BY <1>1 DEF MarkInactiveSessions, Live, LiveStatuses, Sessions
<1>4. ASSUME NEW w \in Workers, Customer(w) \/ Staff(w) \/ Rollback(w)
      PROVE  UNCHANGED sessions
  BY <1>4, BeginWritesNothing DEF db
<1>5. ASSUME OneStatement \/ \E R \in SUBSET RequestIds : ExpireRequests(R)
      PROVE  UNCHANGED sessions
  BY <1>5 DEF OneStatement, SetParticipantName, Reject, AcknowledgeOrder, ActivateTable,
              ExpireRequests
<1>6. PICK w \in Workers : Commit(w)
  BY <1>2, <1>3, <1>4, <1>5 DEF Next, Jobs, vars
<1>7. ~ (\/ CommitRequestService(w) \/ CommitJoin(w) \/ LockCreateOrder(w)
         \/ CommitAwaitOrder(w) \/ CommitCancelOrder(w) \/ CommitDeactivateTable(w))
  BY <1>2 DEF CommitRequestService, CommitJoin, LockCreateOrder, db,
              CommitAwaitOrder, CommitCancelOrder, CommitDeactivateTable
<1>8. ~ (CommitRequestBill(w) \/ CommitCancelBill(w) \/ CommitAcknowledgeBill(w))
  <2>1. ~ CommitRequestBill(w)
    BY <1>1 DEF CommitRequestBill, Live, Sessions
  <2>2. ~ CommitCancelBill(w)
    BY <1>1 DEF CommitCancelBill, Live, Sessions
  <2>3. ~ CommitAcknowledgeBill(w)
    BY <1>1 DEF CommitAcknowledgeBill, Live, Sessions
  <2> QED
    BY <2>1, <2>2, <2>3
<1>9. ~ (CommitApproveOpen(w) \/ CommitOpenByStaff(w))
  BY <1>1 DEF CommitApproveOpen, CommitOpenByStaff, IsNewSession, NoSession, Live, LiveStatuses
<1>10. ~ (CommitApproveContinue(w) \/ CommitSubmitOrder(w))
  BY <1>1 DEF CommitApproveContinue, CommitSubmitOrder, Live, LiveStatuses, Sessions
<1>11. CASE CommitClose(w)
  BY <1>1, <1>11 DEF CommitClose, Live
<1>12. CASE CommitApproveNew(w)
  <2>1. PICK n \in SessionIds :
          /\ IsNewSession(n)
          /\ sessions' = [sessions EXCEPT ![tx[w].session] = ClosedSession(tx[w].session),
                                         ![n] = OpenedSession(tx[w].table)]
    BY <1>12 DEF CommitApproveNew
  <2>2. tx[w].session = s
    BY <1>1, <2>1 DEF IsNewSession, NoSession, Live, LiveStatuses
  <2> QED
    BY <1>12, <2>2
<1> QED
  BY <1>6, <1>7, <1>8, <1>9, <1>10, <1>11, <1>12 DEF Commit

\* A session that somebody closes is ended by nobody else.
LEMMA ClosedByTheCloser ==
  ASSUME LockProtects, [Next]_vars, NEW w \in Workers, Running(w, "close"),
         Live(tx[w].session), NEW s \in SessionIds, s = tx[w].session, ~Live(s)'
  PROVE  CommitClose(w)
<1>1. PICK v \in Workers : tx[v].session = s /\ (CommitClose(v) \/ CommitApproveNew(v))
  BY SessionsEndBy
<1>2. sessions[s].table = tx[w].table
  BY PlanFacts DEF Running, UsesSession, LiveSessions
<1>3. CASE CommitApproveNew(v)
  <2>1. Locks(v) /\ tx[v].op # "close" /\ UsesSession(v)
    BY <1>3, PlanFacts DEF CommitApproveNew, Running, Locks, UsesSession
  <2>2. sessions[s].table = tx[v].table
    BY <1>1, <2>1, PlanFacts DEF LiveSessions
  <2> QED
    BY <2>1, <2>2, NotClosing
<1>4. CASE CommitClose(v)
  <2>1. Locks(v) /\ UsesSession(v) /\ Locks(w)
    BY <1>4 DEF CommitClose, Running, Locks, UsesSession
  <2>2. sessions[s].table = tx[v].table
    BY <1>1, <2>1, PlanFacts DEF LiveSessions
  <2>3. v = w
    BY <1>2, <2>1, <2>2, PlanFacts
  <2> QED
    BY <1>4, <2>3
<1> QED
  BY <1>1, <1>3, <1>4

CloseStep ==
  \A w \in Workers, s \in SessionIds :
    Running(w, "close") /\ tx[w].session = s /\ Live(s) /\ ~Live(s)' => UnackedOf(s)' = {}

\* The step that closes a session leaves none of its orders unacknowledged.
LEMMA NextCloses == OrdersInv /\ [Next]_vars => CloseStep
<1> SUFFICES ASSUME OrdersInv, [Next]_vars, NEW w \in Workers, NEW s \in SessionIds,
                    Running(w, "close"), tx[w].session = s, Live(s), ~Live(s)'
             PROVE  UnackedOf(s)' = {}
  BY DEF CloseStep
<1>1. LockProtects
  BY DEF OrdersInv, AnswersOpen
<1>2. CommitClose(w)
  BY <1>1, ClosedByTheCloser
<1>3. /\ orders' = OrdersCancelled(tx[w].unacked)
      /\ UnackedOf(s) \subseteq tx[w].unacked
  BY <1>2 DEF CommitClose, OrdersInv, PlanRight, Running
<1>4. orders \in [OrderIds -> Orders]
  BY <1>1 DEF LockProtects, TypeOK
<1>5. ASSUME NEW o \in OrderIds, o \in UnackedOf(s)'
      PROVE  FALSE
  <2>1. CASE o \in tx[w].unacked
    BY <1>3, <1>4, <1>5, <2>1 DEF UnackedOf, OrdersCancelled, OrdersSet, Orders
  <2>2. CASE o \notin tx[w].unacked
    BY <1>3, <1>4, <1>5, <2>2 DEF UnackedOf, OrdersCancelled, OrdersSet
  <2> QED
    BY <2>1, <2>2
<1> QED
  BY <1>5 DEF UnackedOf

\* A session is closed with no order left to acknowledge, in every instance: no
\* order is submitted to it once the close has read the orders, and only the
\* close itself, or nobody, ends the session it is about.
THEOREM CloseLeavesNothingUnacknowledgedAlways == Spec => CloseLeavesNothingUnacknowledged
<1>1. OrdersInv /\ [Next]_vars => [CloseStep]_vars
  BY NextCloses
<1>2. Spec => [][CloseStep]_vars
  BY <1>1, OrdersInvAlways, PTL DEF Spec
<1> QED
  BY <1>2 DEF CloseLeavesNothingUnacknowledged, CloseStep

=============================================================================
