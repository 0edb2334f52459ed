------------------------ MODULE TableServiceProofs ------------------------
(***************************************************************************)
(* Proofs about TableService, for every number of tables, devices, workers *)
(* and rows.  LockProtects is inductive: each handler changes only what    *)
(* belongs to the table it has locked (Untouched), or what no transaction  *)
(* relies on, so the plan of every other transaction stays good.           *)
(***************************************************************************)
EXTENDS TableService, TLAPS

Protected(w) == PlanWellFormed(w) /\ LockHeld(w) /\ SessionHeld(w) /\ IndexesFree(w)

RowsInv == TypeOK /\ RowsWellFormed /\ ParticipantsDistinct /\ OneLiveSession

\* A step that removes no session and moves none to another table.
SessionsKept ==
  \A s \in SessionIds : sessions[s].status # "none" =>
    sessions'[s].status # "none" /\ sessions'[s].table = sessions[s].table

\* A step that changes nothing a transaction holding the lock of t relies on.
Untouched(t) ==
  /\ LiveSessions(t)' = LiveSessions(t)
  /\ \A r \in RequestIds :
       requests'[r].status = "pending" /\ requests'[r].table = t =>
         /\ requests[r].status = "pending" /\ requests[r].table = t
         /\ requests'[r].device = requests[r].device
  /\ \A p \in participants' : p \in participants \/ p.session \notin LiveSessions(t)
  /\ \A o \in OrderIds : orders'[o].session \in LiveSessions(t) =>
       /\ orders'[o].session = orders[o].session
       /\ orders'[o].number = orders[o].number

-----------------------------------------------------------------------------

\* A worker keeps its part when its plan and its lock stay and its table is untouched.
LEMMA PlanKept ==
  ASSUME TypeOK, TypeOK', NEW w \in Workers, Protected(w), tx'[w] = tx[w],
         Locks(w) => lock'[tx[w].table] = w,
         SessionsKept,
         Locks(w) => Untouched(tx[w].table)
  PROVE  Protected(w)'
<1> DEFINE t == tx[w].table  s == tx[w].session  d == tx[w].device
           n == tx[w].number  c == tx[w].choice
<1>1. tx[w] \in Transactions /\ s \in SessionIds \cup {0}
  BY DEF TypeOK, Transactions
<1>2. PlanWellFormed(w)'
  BY <1>1 DEF Protected, PlanWellFormed, SessionsKept
<1>3. LockHeld(w)'
  BY DEF Protected, LockHeld, Locks
<1>4. Locks(w)' <=> Locks(w)
  BY DEF Locks
<1>5. UsesSession(w) => Locks(w)
  BY DEF UsesSession, Locks, Protected, PlanWellFormed
<1>6. SessionHeld(w)'
  BY <1>5 DEF Protected, SessionHeld, UsesSession, Untouched
<1>7. IndexesFree(w)'
  <2>1. ASSUME Running(w, "openByStaff") \/ c = "open"
        PROVE  LiveIndexFree(t, {})'
    BY <2>1 DEF Protected, PlanWellFormed, Locks, Running, IndexesFree, LiveIndexFree, Untouched
  <2>2. ASSUME c \in {"new_session", "continue", "submit"}
        PROVE  LiveIndexFree(t, {s})'
    BY <2>2, <1>5 DEF Protected, UsesSession, IndexesFree, LiveIndexFree, Untouched
  <2>3. ASSUME Running(w, "requestService") \/ c = "await_confirmation"
        PROVE  PendingIndexFree(t, d)'
    BY <2>3 DEF Locks, Protected, Running, IndexesFree, PendingIndexFree, PendingOf, Pending,
                Untouched
  <2>4. ASSUME Running(w, "join") \/ (c = "continue" /\ n # 0)
        PROVE  ParticipantIndexFree(s, d, n)'
    BY <2>4, <1>5 DEF Protected, SessionHeld, UsesSession, Running, IndexesFree,
                      ParticipantIndexFree, Untouched
  <2>5. ASSUME c \in {"submit", "await_confirmation"}
        PROVE  NumberIndexFree(s, n)'
    BY <2>5, <1>5 DEF Protected, SessionHeld, UsesSession, IndexesFree,
                      NumberIndexFree, NumbersOf, Untouched
  <2> QED
    BY <2>1, <2>2, <2>3, <2>4, <2>5 DEF IndexesFree, Running
<1> QED
  BY <1>2, <1>3, <1>6, <1>7 DEF Protected

\* A handler that begins writes nothing but its plan, and takes a free lock.
LEMMA BeginKeeps ==
  ASSUME LockProtects, NEW v \in Workers, NEW rec \in Transactions,
         UNCHANGED db,
         tx' = [tx EXCEPT ![v] = rec],
         lock' \in [Tables -> Workers \cup {None}],
         \A t \in Tables : lock[t] \in Workers => lock'[t] = lock[t],
         Protected(v)'
  PROVE  LockProtects'
<1>1. TypeOK'
  BY DEF LockProtects, TypeOK, db
<1>2. RowsWellFormed' /\ ParticipantsDistinct' /\ OneLiveSession'
  BY DEF LockProtects, db, RowsWellFormed, ParticipantsDistinct, OneLiveSession, Live, Pending
<1>3. SessionsKept /\ \A t : Untouched(t)
  BY DEF db, SessionsKept, Untouched, LiveSessions, Live
<1>4. ASSUME NEW w \in Workers, w # v
      PROVE  Protected(w)'
  <2>1. TypeOK /\ Protected(w)
    BY DEF LockProtects, Protected
  <2>2. tx'[w] = tx[w]
    BY <1>4, <2>1 DEF TypeOK
  <2>3. Locks(w) => lock'[tx[w].table] = w
    BY <2>1 DEF Protected, LockHeld
  <2> QED
    BY <1>1, <1>3, <2>1, <2>2, <2>3, PlanKept
<1> QED
  BY <1>1, <1>2, <1>4 DEF LockProtects, Protected

\* A handler that ends has disturbed at most the table it had locked.
LEMMA EndKeeps ==
  ASSUME LockProtects, NEW v \in Workers, End(v), RowsInv',
         SessionsKept,
         \A t \in Tables : lock[t] # v => Untouched(t)
  PROVE  LockProtects'
<1>1. TypeOK /\ TypeOK'
  BY DEF LockProtects, RowsInv
<1>2. ASSUME NEW w \in Workers, w # v
      PROVE  Protected(w)'
  <2>1. Protected(w)
    BY DEF LockProtects, Protected
  <2>2. tx'[w] = tx[w]
    BY <1>1, <1>2 DEF TypeOK, End
  <2>3. Locks(w) => tx[w].table \in Tables /\ lock[tx[w].table] = w
    BY <2>1 DEF Protected, LockHeld
  <2>4. Locks(w) => lock'[tx[w].table] = w
    BY <1>2, <2>3 DEF End
  <2> QED
    BY <1>1, <1>2, <2>1, <2>2, <2>3, <2>4, PlanKept
<1>3. Protected(v)'
  <2>1. tx'[v] = NoTx
    BY <1>1 DEF TypeOK, End
  <2> QED
    BY <2>1 DEF Protected, NoTx, PlanWellFormed, LockHeld, Locks, SessionHeld, UsesSession,
                IndexesFree, Running
<1> QED
  BY <1>2, <1>3 DEF LockProtects, RowsInv, Protected

\* A step that takes part in no transaction disturbs no table.
LEMMA AsideKeeps ==
  ASSUME LockProtects, UNCHANGED <<lock, tx>>, RowsInv', SessionsKept,
         \A t \in Tables : Untouched(t)
  PROVE  LockProtects'
<1>1. TypeOK /\ TypeOK'
  BY DEF LockProtects, RowsInv
<1>2. ASSUME NEW w \in Workers
      PROVE  Protected(w)'
  <2>1. Protected(w)
    BY DEF LockProtects, Protected
  <2>2. Locks(w) => tx[w].table \in Tables /\ lock'[tx[w].table] = w
    BY <2>1 DEF Protected, LockHeld
  <2> QED
    BY <1>1, <2>1, <2>2, PlanKept
<1> QED
  BY <1>2 DEF LockProtects, RowsInv, Protected

\* A handler that takes a lock and decides: only its own part is new.
LEMMA BeginLockedKeeps ==
  ASSUME LockProtects, NEW v \in Workers, NEW t \in Tables, NEW rec \in Transactions,
         BeginLocked(v, t, rec),
         tx'[v] = rec /\ lock'[t] = v => Protected(v)'
  PROVE  LockProtects'
<1>1. TypeOK
  BY DEF LockProtects
<1>2. tx'[v] = rec /\ lock'[t] = v
  BY <1>1 DEF TypeOK, BeginLocked
<1>3. /\ lock' \in [Tables -> Workers \cup {None}]
      /\ \A u \in Tables : lock[u] \in Workers => lock'[u] = lock[u]
  BY <1>1, NoneAssumption DEF TypeOK, BeginLocked, LockFree
<1> QED
  BY <1>2, <1>3, BeginKeeps DEF BeginLocked

\* A handler that begins without a lock: only its own part is new.
LEMMA BeginUnlockedKeeps ==
  ASSUME LockProtects, NEW v \in Workers, NEW rec \in Transactions,
         BeginUnlocked(v, rec),
         tx'[v] = rec => Protected(v)'
  PROVE  LockProtects'
<1>1. TypeOK
  BY DEF LockProtects
<1>2. tx'[v] = rec
  BY <1>1 DEF TypeOK, BeginUnlocked
<1>3. /\ lock' \in [Tables -> Workers \cup {None}]
      /\ \A u \in Tables : lock[u] \in Workers => lock'[u] = lock[u]
  BY <1>1 DEF TypeOK, BeginUnlocked
<1> QED
  BY <1>2, <1>3, BeginKeeps DEF BeginUnlocked

-----------------------------------------------------------------------------
(* The handlers that begin.                                                *)

\* The ordinal addParticipant computes meets no row of the two indexes.
LEMMA OrdinalIsFree ==
  ASSUME TypeOK, ParticipantsDistinct, NEW s, NEW d, NEW n \in OrdinalFor(s, d)
  PROVE  n \in Ordinals /\ ParticipantIndexFree(s, d, n)
<1>1. \A p \in participants : p.ordinal \in Ordinals
  BY DEF TypeOK, Participants
<1>2. CASE Participates(s, d)
  BY <1>1, <1>2 DEF OrdinalFor, ParticipantIndexFree, ParticipantsDistinct, Participates
<1>3. CASE ~Participates(s, d)
  <2>1. n \in NextNumber(OrdinalsOf(s))
    BY <1>3 DEF OrdinalFor, Participates
  <2>2. n \in Ordinals
    BY <1>1, <2>1 DEF NextNumber, OrdinalsOf, Ordinals
  <2>3. \A p \in participants : p.session = s => p.ordinal < n
    BY <2>1 DEF NextNumber, OrdinalsOf
  <2> QED
    BY <1>1, <1>3, <2>2, <2>3 DEF ParticipantIndexFree, Participates, Ordinals
<1> QED
  BY <1>2, <1>3

\* The next number of a session is no order's of that session.
LEMMA NumberIsFree ==
  ASSUME TypeOK, NEW s, NEW n \in NextNumber(NumbersOf(s))
  PROVE  n \in Nat /\ NumberIndexFree(s, n)
<1>1. \A m \in NumbersOf(s) : m \in Nat
  BY DEF TypeOK, NumbersOf, Orders
<1> QED
  BY <1>1 DEF NextNumber, NumberIndexFree

\* requestService finds the table free and nothing pending for the device.
LEMMA RequestServiceKeeps ==
  ASSUME LockProtects, NEW v \in Workers, NEW t \in Tables, NEW d \in Devices,
         RequestService(v, t, d)
  PROVE  LockProtects'
<1> DEFINE rec == [NoTx EXCEPT !.op = "requestService", !.table = t, !.device = d]
<1>1. rec \in Transactions
  BY DEF NoTx, Transactions, Operations
<1>2. BeginLocked(v, t, rec) /\ PendingOf(t, d) = {}
  BY DEF RequestService, DecideOpenRequest
<1>3. PendingIndexFree(t, d)'
  BY <1>2 DEF BeginLocked, db, PendingIndexFree, PendingOf, Pending
<1>4. tx'[v] = rec /\ lock'[t] = v => Protected(v)'
  BY <1>3 DEF Protected, NoTx, PlanWellFormed, LockHeld, Locks, SessionHeld, UsesSession,
              IndexesFree, Running
<1> QED
  BY <1>1, <1>2, <1>4, BeginLockedKeeps

\* join finds a live session that the device is not in.
LEMMA JoinKeeps ==
  ASSUME LockProtects, NEW v \in Workers, NEW t \in Tables, NEW d \in Devices,
         Join(v, t, d)
  PROVE  LockProtects'
<1>0. PICK s \in LiveSessions(t) : \E n \in OrdinalFor(s, d) :
        BeginLocked(v, t, [NoTx EXCEPT !.op = "join", !.table = t, !.session = s,
                                       !.device = d, !.number = n])
  BY DEF Join
<1>1. PICK n \in OrdinalFor(s, d) :
        BeginLocked(v, t, [NoTx EXCEPT !.op = "join", !.table = t, !.session = s,
                                       !.device = d, !.number = n])
  BY <1>0
<1> DEFINE rec == [NoTx EXCEPT !.op = "join", !.table = t, !.session = s,
                               !.device = d, !.number = n]
<1>2. s \in SessionIds /\ n \in Ordinals /\ ParticipantIndexFree(s, d, n)
  BY OrdinalIsFree DEF LockProtects, LiveSessions
<1>3. rec \in Transactions
  BY <1>2 DEF NoTx, Transactions, Operations, Ordinals
<1>4. (s \in LiveSessions(t))' /\ ParticipantIndexFree(s, d, n)'
  BY <1>1, <1>2 DEF BeginLocked, db, LiveSessions, Live, ParticipantIndexFree
<1>5. (sessions[s].status # "none")'
  BY <1>4 DEF LiveSessions, Live, LiveStatuses
<1>6. tx'[v] = rec /\ lock'[t] = v => Protected(v)'
  BY <1>2, <1>4, <1>5
     DEF Protected, NoTx, PlanWellFormed, LockHeld, Locks, SessionHeld, UsesSession,
         IndexesFree, Running, Ordinals
<1> QED
  BY <1>1, <1>3, <1>6, BeginLockedKeeps

\* openByStaff finds the table free.
LEMMA OpenByStaffKeeps ==
  ASSUME LockProtects, NEW v \in Workers, NEW t \in Tables, OpenByStaff(v, t)
  PROVE  LockProtects'
<1> DEFINE rec == [NoTx EXCEPT !.op = "openByStaff", !.table = t]
<1>1. rec \in Transactions
  BY DEF NoTx, Transactions, Operations
<1>2. BeginLocked(v, t, rec)
  BY DEF OpenByStaff
<1>3. LiveSessions(t) = {}
  BY DEF LockProtects, TypeOK, OpenByStaff, TableState, DeriveTableState
<1>4. LiveIndexFree(t, {})'
  BY <1>2, <1>3 DEF BeginLocked, db, LiveIndexFree, LiveSessions, Live
<1>5. tx'[v] = rec /\ lock'[t] = v => Protected(v)'
  BY <1>4 DEF Protected, NoTx, PlanWellFormed, LockHeld, Locks, SessionHeld, UsesSession,
              IndexesFree, Running
<1> QED
  BY <1>1, <1>2, <1>5, BeginLockedKeeps

\* close finds the session live.
LEMMA CloseKeeps ==
  ASSUME LockProtects, NEW v \in Workers, NEW s \in SessionIds, NEW force,
         Close(v, s, force)
  PROVE  LockProtects'
<1> DEFINE t == sessions[s].table
           rec == [NoTx EXCEPT !.op = "close", !.table = t, !.session = s,
                               !.unacked = UnackedOf(s)]
<1>1. Live(s) /\ BeginLocked(v, t, rec)
  BY DEF Close
<1>2. t \in Tables
  BY <1>1 DEF LockProtects, RowsWellFormed, Live, LiveStatuses
<1>3. rec \in Transactions
  BY <1>2 DEF NoTx, Transactions, Operations, UnackedOf
<1>4. (s \in LiveSessions(t))'
  BY <1>1 DEF BeginLocked, db, LiveSessions, Live
<1>5. (sessions[s].status # "none")'
  BY <1>4 DEF LiveSessions, Live, LiveStatuses
<1>6. tx'[v] = rec /\ lock'[t] = v => Protected(v)'
  BY <1>1, <1>2, <1>4, <1>5
     DEF Protected, NoTx, PlanWellFormed, LockHeld, Locks, SessionHeld, UsesSession,
         IndexesFree, Running, BeginLocked, db
<1> QED
  BY <1>1, <1>2, <1>3, <1>6, BeginLockedKeeps

\* The handlers of the bill, and the others that take no lock: whatever they
\* keep in their plan, nothing protects it.
LEMMA UnlockedKeeps ==
  ASSUME LockProtects, NEW v \in Workers, NEW rec \in Transactions,
         BeginUnlocked(v, rec),
         rec.op \in {"requestBill", "cancelBill", "acknowledgeBill", "cancelOrder",
                     "updateTable"},
         rec.choice \in {"none", "submitted", "pending_confirmation"},
         rec.session # 0 => sessions[rec.session].status # "none"
  PROVE  LockProtects'
<1>1. tx'[v] = rec => Protected(v)'
  BY DEF Protected, PlanWellFormed, LockHeld, Locks, SessionHeld, UsesSession,
         IndexesFree, Running, BeginUnlocked, db
<1> QED
  BY <1>1, BeginUnlockedKeeps

\* The handlers of the bill take no lock, and nothing is claimed of their plans.
LEMMA BillKeeps ==
  ASSUME LockProtects, NEW v \in Workers, NEW s \in SessionIds,
         RequestBill(v, s) \/ CancelBill(v, s) \/ AcknowledgeBill(v, s)
  PROVE  LockProtects'
<1>1. Live(s)
  BY DEF RequestBill, CancelBill, AcknowledgeBill
<1>2. sessions[s].status # "none"
  BY <1>1 DEF Live, LiveStatuses
<1>3. PICK op \in {"requestBill", "cancelBill", "acknowledgeBill"} :
        BeginUnlocked(v, [NoTx EXCEPT !.op = op, !.session = s])
  BY DEF RequestBill, CancelBill, AcknowledgeBill
<1>4. [NoTx EXCEPT !.op = op, !.session = s] \in Transactions
  BY DEF NoTx, Transactions, Operations
<1> QED
  BY <1>2, <1>3, <1>4, UnlockedKeeps DEF NoTx

\* So it is with the cancellation of an order,
LEMMA CancelOrderKeeps ==
  ASSUME LockProtects, NEW v \in Workers, NEW o \in OrderIds, NEW byCustomer,
         CancelOrder(v, o, byCustomer)
  PROVE  LockProtects'
<1> DEFINE rec == [NoTx EXCEPT !.op = "cancelOrder", !.order = o, !.choice = orders[o].status]
<1>1. BeginUnlocked(v, rec) /\ orders[o].status \in {"submitted", "pending_confirmation"}
  BY DEF CancelOrder
<1>2. rec \in Transactions
  BY <1>1 DEF NoTx, Transactions, Operations, Choices
<1> QED
  BY <1>1, <1>2, UnlockedKeeps DEF NoTx

\* with the deactivation of a table,
LEMMA DeactivateTableKeeps ==
  ASSUME LockProtects, NEW v \in Workers, NEW t \in Tables, DeactivateTable(v, t)
  PROVE  LockProtects'
<1>1. [NoTx EXCEPT !.op = "updateTable", !.table = t] \in Transactions
  BY DEF NoTx, Transactions, Operations
<1> QED
  BY <1>1, UnlockedKeeps DEF NoTx, DeactivateTable

\* Whatever approve decides under the lock, with the session and the ordinal it
\* read.
LEMMA ApproveKeeps ==
  ASSUME LockProtects, NEW v \in Workers, NEW r \in RequestIds, Approve(v, r)
  PROVE  LockProtects'
<1> DEFINE t == requests[r].table
           d == requests[r].device
           plan == [NoTx EXCEPT !.op = "approve", !.table = t, !.request = r,
                                !.device = d, !.order = requests[r].order]
<1>1. TypeOK /\ RowsWellFormed /\ ParticipantsDistinct /\ OneLiveSession
  BY DEF LockProtects
<1>2. t \in Tables /\ d \in Devices
  BY <1>1 DEF Approve, RowsWellFormed
<1>3. requests[r].order \in OrderIds \cup {0}
  BY <1>1 DEF TypeOK, Requests
<1>4. CASE LiveSessions(t) = {} /\ BeginLocked(v, t, [plan EXCEPT !.choice = "open", !.number = 1])
  <2> DEFINE rec == [plan EXCEPT !.choice = "open", !.number = 1]
  <2>1. rec \in Transactions
    BY <1>2, <1>3 DEF NoTx, Transactions, Operations, Choices
  <2>2. LiveIndexFree(t, {})'
    BY <1>4 DEF BeginLocked, db, LiveIndexFree, LiveSessions, Live
  <2>3. /\ rec.op = "approve" /\ rec.choice = "open" /\ rec.table = t
        /\ rec.device = d /\ rec.session = 0 /\ requests' = requests
    BY <1>4 DEF NoTx, BeginLocked, db
  <2> HIDE DEF rec
  <2>4. tx'[v] = rec /\ lock'[t] = v => Protected(v)'
    BY <1>2, <2>2, <2>3 DEF Protected, PlanWellFormed, LockHeld, Locks, SessionHeld,
                            UsesSession, IndexesFree, Running
  <2> QED
    BY <1>2, <1>4, <2>1, <2>4, BeginLockedKeeps DEF rec
<1>5. ASSUME NEW s \in LiveSessions(t), NEW rec \in Transactions, BeginLocked(v, t, rec),
             rec.op = "approve", rec.choice \in {"new_session", "continue"},
             rec.table = t, rec.device = d, rec.session = s,
             rec.choice = "continue" /\ rec.number # 0 => ParticipantIndexFree(s, d, rec.number)
      PROVE  LockProtects'
  <2>1. s \in SessionIds /\ Live(s) /\ sessions[s].table = t
    BY DEF LiveSessions
  <2>2. LiveIndexFree(t, {s})
    BY <1>1, <2>1 DEF LiveIndexFree, LiveSessions, OneLiveSession
  <2>3. /\ LiveIndexFree(t, {s})' /\ (s \in LiveSessions(t))' /\ requests' = requests
        /\ rec.choice = "continue" /\ rec.number # 0 => ParticipantIndexFree(s, d, rec.number)'
    BY <1>5, <2>2 DEF BeginLocked, db, LiveIndexFree, LiveSessions, Live, ParticipantIndexFree
  <2>4. (sessions[s].status # "none")'
    BY <2>3 DEF LiveSessions, Live, LiveStatuses
  <2>5. tx'[v] = rec /\ lock'[t] = v => Protected(v)'
    BY <1>2, <1>5, <2>3, <2>4 DEF Protected, PlanWellFormed, LockHeld, Locks, SessionHeld,
                                  UsesSession, IndexesFree, Running
  <2> QED
    BY <1>2, <1>5, <2>5, BeginLockedKeeps
<1>6. ASSUME NEW s \in LiveSessions(t),
             BeginLocked(v, t, [plan EXCEPT !.choice = "new_session", !.session = s, !.number = 1])
      PROVE  LockProtects'
  <2> DEFINE rec == [plan EXCEPT !.choice = "new_session", !.session = s, !.number = 1]
  <2>1. /\ rec \in Transactions /\ rec.op = "approve" /\ rec.choice = "new_session"
        /\ rec.table = t /\ rec.device = d /\ rec.session = s
    BY <1>2, <1>3 DEF NoTx, Transactions, Operations, Choices, LiveSessions
  <2> HIDE DEF rec
  <2>2. BeginLocked(v, t, rec)
    BY <1>6 DEF rec
  <2> QED
    BY <1>5, <2>1, <2>2
<1>7. ASSUME NEW s \in LiveSessions(t),
             BeginLocked(v, t, [plan EXCEPT !.choice = "continue", !.session = s])
      PROVE  LockProtects'
  <2> DEFINE rec == [plan EXCEPT !.choice = "continue", !.session = s]
  <2>1. /\ rec \in Transactions /\ rec.op = "approve" /\ rec.choice = "continue"
        /\ rec.table = t /\ rec.device = d /\ rec.session = s /\ rec.number = 0
    BY <1>2, <1>3 DEF NoTx, Transactions, Operations, Choices, LiveSessions
  <2> HIDE DEF rec
  <2>2. BeginLocked(v, t, rec)
    BY <1>7 DEF rec
  <2> QED
    BY <1>5, <2>1, <2>2
<1>8. ASSUME NEW s \in LiveSessions(t), NEW n \in OrdinalFor(s, d),
             BeginLocked(v, t, [plan EXCEPT !.choice = "continue", !.session = s, !.number = n])
      PROVE  LockProtects'
  <2> DEFINE rec == [plan EXCEPT !.choice = "continue", !.session = s, !.number = n]
  <2>1. n \in Nat /\ ParticipantIndexFree(s, d, n)
    BY <1>1, OrdinalIsFree DEF Ordinals
  <2>2. /\ rec \in Transactions /\ rec.op = "approve" /\ rec.choice = "continue"
        /\ rec.table = t /\ rec.device = d /\ rec.session = s /\ rec.number = n
    BY <1>2, <1>3, <2>1 DEF NoTx, Transactions, Operations, Choices, LiveSessions
  <2> HIDE DEF rec
  <2>3. BeginLocked(v, t, rec)
    BY <1>8 DEF rec
  <2> QED
    BY <1>5, <2>1, <2>2, <2>3
<1> QED
  BY <1>4, <1>6, <1>7, <1>8 DEF Approve

\* and with an order that waits for its lock.
LEMMA CreateOrderKeeps ==
  ASSUME LockProtects, NEW v \in Workers, NEW s \in SessionIds,
         NEW d \in Devices \cup {None}, NEW k \in Keys, CreateOrder(v, s, d, k)
  PROVE  LockProtects'
<1> DEFINE t == sessions[s].table
           rec == [NoTx EXCEPT !.op = "createOrder", !.table = t, !.session = s,
                               !.device = d, !.key = k, !.choice = "start"]
<1>1. BeginUnlocked(v, rec) /\ sessions[s] # NoSession
  BY DEF CreateOrder
<1>2. sessions[s].status # "none" /\ t \in Tables
  BY <1>1 DEF LockProtects, RowsWellFormed
<1>3. rec \in Transactions
  BY <1>2 DEF NoTx, Transactions, Operations, Choices
<1>4. tx'[v] = rec => Protected(v)'
  BY <1>1, <1>2 DEF Protected, NoTx, PlanWellFormed, LockHeld, Locks, SessionHeld, UsesSession,
                    IndexesFree, Running, BeginUnlocked, db, SessionIds
<1> QED
  BY <1>1, <1>3, <1>4, BeginUnlockedKeeps

\* The second step of an order: the table is locked and the session read again.
LEMMA LockCreateOrderKeeps ==
  ASSUME LockProtects, NEW v \in Workers, LockCreateOrder(v)
  PROVE  LockProtects'
<1> DEFINE t == tx[v].table  s == tx[v].session  d == tx[v].device
           c == Placement(s, d)
<1>1. TypeOK /\ RowsWellFormed /\ OneLiveSession /\ PlanWellFormed(v)
  BY DEF LockProtects
<1>2. PICK n \in NextNumber(NumbersOf(s)) :
        tx' = [tx EXCEPT ![v].choice = c, ![v].number = n]
  BY DEF LockCreateOrder
<1>3. tx[v] \in Transactions /\ tx[v].op = "createOrder"
  BY <1>1 DEF TypeOK, LockCreateOrder, Running
<1>4. s \in SessionIds /\ s # 0 /\ sessions[s].status # "none" /\ t = sessions[s].table
  BY <1>1, <1>3 DEF PlanWellFormed, Transactions
<1>5. t \in Tables
  BY <1>1, <1>4 DEF RowsWellFormed
<1>6. n \in Nat /\ NumberIndexFree(s, n)
  BY <1>1, NumberIsFree
<1>7. /\ c \in {"submit", "await_confirmation"} /\ Live(s)
      /\ c = "await_confirmation" => d # None /\ PendingIndexFree(t, d)
  BY DEF LockCreateOrder, Placement, DecideOrderPlacement, Live, LiveStatuses, PendingIndexFree
<1> DEFINE rec == [tx[v] EXCEPT !.choice = c, !.number = n]
<1>8. rec \in Transactions /\ tx' = [tx EXCEPT ![v] = rec]
  <2>1. rec \in Transactions
    BY <1>3, <1>6, <1>7 DEF Transactions, Choices
  <2>2. tx' = [tx EXCEPT ![v] = rec]
    BY <1>2, Zenon
  <2> QED
    BY <2>1, <2>2
<1>9. UNCHANGED db /\ tx'[v] = rec /\ lock'[t] = v
  BY <1>1, <1>5, <1>8 DEF LockCreateOrder, TypeOK
<1>10. /\ lock' \in [Tables -> Workers \cup {None}]
       /\ \A u \in Tables : lock[u] \in Workers => lock'[u] = lock[u]
  BY <1>1, NoneAssumption DEF TypeOK, LockCreateOrder, LockFree
<1>11. LiveIndexFree(t, {s}) /\ s \in LiveSessions(t)
  BY <1>1, <1>4, <1>7 DEF LiveIndexFree, LiveSessions, OneLiveSession
<1>12. /\ LiveIndexFree(t, {s})' /\ (s \in LiveSessions(t))' /\ NumberIndexFree(s, n)'
       /\ c = "await_confirmation" => PendingIndexFree(t, d)'
       /\ (sessions[s].status # "none" /\ t = sessions[s].table)'
  BY <1>4, <1>6, <1>7, <1>9, <1>11
     DEF db, LiveIndexFree, LiveSessions, Live, NumberIndexFree, NumbersOf,
         PendingIndexFree, PendingOf, Pending
<1>13. /\ tx'[v].op = "createOrder" /\ tx'[v].choice = c /\ tx'[v].number = n
       /\ tx'[v].table = t /\ tx'[v].session = s /\ tx'[v].device = d
  BY <1>3, <1>9 DEF Transactions
<1>14. d \in Devices \cup {None}
  BY <1>3 DEF Transactions
<1>15. Protected(v)'
  BY <1>4, <1>5, <1>7, <1>9, <1>12, <1>13, <1>14
     DEF Protected, PlanWellFormed, LockHeld, Locks, SessionHeld, UsesSession,
         IndexesFree, Running
<1> QED
  BY <1>8, <1>9, <1>10, <1>15, BeginKeeps

-----------------------------------------------------------------------------
(* The handlers that end.                                                  *)

\* A transaction that ends leaves its lock and its plan.
LEMMA EndType ==
  ASSUME TypeOK, NEW v \in Workers, End(v)
  PROVE  lock' \in [Tables -> Workers \cup {None}] /\ tx' \in [Workers -> Transactions]
BY DEF TypeOK, End, NoTx, Transactions

\* What the plan of a worker in the middle of a handler says.
LEMMA PlanFacts ==
  ASSUME LockProtects, NEW v \in Workers
  PROVE  /\ TypeOK /\ RowsWellFormed /\ ParticipantsDistinct /\ OneLiveSession
         /\ tx[v] \in Transactions /\ PlanWellFormed(v) /\ IndexesFree(v)
         /\ Locks(v) => tx[v].table \in Tables /\ lock[tx[v].table] = v
         /\ UsesSession(v) => /\ tx[v].session \in SessionIds /\ Live(tx[v].session)
                              /\ sessions[tx[v].session].table = tx[v].table
BY DEF LockProtects, TypeOK, LockHeld, SessionHeld, LiveSessions

\* The request is inserted; the table is locked, so nobody else claims to insert
\* one for it.
LEMMA CommitRequestServiceKeeps ==
  ASSUME LockProtects, NEW v \in Workers, CommitRequestService(v)
  PROVE  LockProtects'
<1> DEFINE t == tx[v].table  d == tx[v].device
<1>1. PICK r \in RequestIds :
        requests' = [requests EXCEPT ![r] =
          [NoRequest EXCEPT !.status = "pending", !.type = "open_session",
                            !.table = t, !.device = d]]
  BY DEF CommitRequestService
<1>2. t \in Tables /\ lock[t] = v /\ d \in Devices
  BY PlanFacts DEF CommitRequestService, Running, Locks, PlanWellFormed
<1>3. /\ End(v) /\ UNCHANGED <<isActive, sessions, participants, named, orders>>
      /\ TypeOK /\ RowsWellFormed /\ ParticipantsDistinct /\ OneLiveSession
  BY PlanFacts DEF CommitRequestService
<1>4. \A q \in RequestIds : requests'[q] = requests[q] \/
        (requests'[q].table = t /\ requests'[q].device = d)
  BY <1>1, <1>3 DEF TypeOK, NoRequest
<1>5. TypeOK'
  BY <1>1, <1>2, <1>3, EndType DEF TypeOK, Requests, NoRequest, RequestStatuses, RequestTypes
<1>6. RowsInv'
  BY <1>2, <1>3, <1>4, <1>5
     DEF RowsInv, RowsWellFormed, Pending, ParticipantsDistinct, OneLiveSession, Live
<1>7. SessionsKept /\ \A u \in Tables : lock[u] # v => Untouched(u)
  BY <1>2, <1>3, <1>4 DEF SessionsKept, Untouched, LiveSessions, Live
<1> QED
  BY <1>3, <1>6, <1>7, EndKeeps

\* The participant is inserted in the session of the locked table.
LEMMA CommitJoinKeeps ==
  ASSUME LockProtects, NEW v \in Workers, CommitJoin(v)
  PROVE  LockProtects'
<1> DEFINE t == tx[v].table  s == tx[v].session  d == tx[v].device  n == tx[v].number
<1>1. /\ t \in Tables /\ lock[t] = v /\ d \in Devices /\ n \in Ordinals
      /\ s \in SessionIds /\ Live(s) /\ sessions[s].table = t
  BY PlanFacts DEF CommitJoin, Running, Locks, UsesSession, PlanWellFormed, Transactions, Ordinals
<1>2. /\ End(v) /\ UNCHANGED <<isActive, sessions, named, requests, orders>>
      /\ TypeOK /\ RowsWellFormed /\ ParticipantsDistinct /\ OneLiveSession
      /\ ParticipantIndexFree(s, d, n)
  BY PlanFacts DEF CommitJoin
<1>3. participants' = participants \cup {[session |-> s, device |-> d, ordinal |-> n]}
  BY DEF CommitJoin, WithParticipant
<1>4. TypeOK'
  BY <1>1, <1>2, <1>3, EndType DEF TypeOK, Participants
<1>5. ParticipantsDistinct'
  BY <1>2, <1>3 DEF ParticipantsDistinct, ParticipantIndexFree
<1>6. RowsWellFormed' /\ OneLiveSession'
  BY <1>1, <1>2, <1>3 DEF RowsWellFormed, OneLiveSession, Live, LiveStatuses, Pending
<1>7. SessionsKept /\ \A u \in Tables : lock[u] # v => Untouched(u)
  BY <1>1, <1>2, <1>3 DEF SessionsKept, Untouched, LiveSessions, Live
<1> QED
  BY <1>2, <1>4, <1>5, <1>6, <1>7, EndKeeps DEF RowsInv

\* The three handlers of the bill write two columns that no plan relies on.
LEMMA CommitBillKeeps ==
  ASSUME LockProtects, NEW v \in Workers,
         CommitRequestBill(v) \/ CommitCancelBill(v) \/ CommitAcknowledgeBill(v)
  PROVE  LockProtects'
<1> DEFINE s == tx[v].session
<1>1. /\ End(v) /\ UNCHANGED <<isActive, participants, named, requests, orders>>
      /\ TypeOK /\ RowsWellFormed /\ ParticipantsDistinct /\ OneLiveSession
      /\ s \in SessionIds \cup {0} /\ (s # 0 => sessions[s].status # "none")
  BY PlanFacts DEF CommitRequestBill, CommitCancelBill, CommitAcknowledgeBill, PlanWellFormed,
                   Transactions
<1> HIDE DEF s
<1>2. /\ sessions' \in [SessionIds -> Sessions]
      /\ \A q \in SessionIds : /\ sessions'[q].status = sessions[q].status
                               /\ sessions'[q].table = sessions[q].table
                               /\ q # s => sessions'[q] = sessions[q]
  <2>1. sessions \in [SessionIds -> Sessions]
    BY <1>1 DEF TypeOK
  <2>2. ASSUME NEW row, sessions' = [sessions EXCEPT ![s] = row],
               s \in SessionIds => /\ row \in Sessions /\ row.status = sessions[s].status
                                   /\ row.table = sessions[s].table
        PROVE  /\ sessions' \in [SessionIds -> Sessions]
               /\ \A q \in SessionIds : /\ sessions'[q].status = sessions[q].status
                                        /\ sessions'[q].table = sessions[q].table
                                        /\ q # s => sessions'[q] = sessions[q]
    BY <2>1, <2>2
  <2>3. CASE CommitRequestBill(v)
    <3> DEFINE row == [sessions[s] EXCEPT !.billRequested = TRUE, !.billAcknowledged = FALSE]
    <3>1. sessions' = [sessions EXCEPT ![s] = row]
      BY <2>3 DEF CommitRequestBill, s
    <3>2. s \in SessionIds => /\ row \in Sessions /\ row.status = sessions[s].status
                              /\ row.table = sessions[s].table
      BY <2>1 DEF Sessions
    <3> HIDE DEF row
    <3> QED
      BY <2>2, <3>1, <3>2
  <2>4. CASE CommitCancelBill(v)
    <3> DEFINE row == [sessions[s] EXCEPT !.billRequested = FALSE]
    <3>1. sessions' = [sessions EXCEPT ![s] = row]
      BY <2>4 DEF CommitCancelBill, s
    <3>2. s \in SessionIds => /\ row \in Sessions /\ row.status = sessions[s].status
                              /\ row.table = sessions[s].table
      BY <2>1 DEF Sessions
    <3> HIDE DEF row
    <3> QED
      BY <2>2, <3>1, <3>2
  <2>5. CASE CommitAcknowledgeBill(v)
    <3> DEFINE row == [sessions[s] EXCEPT !.billAcknowledged = TRUE]
    <3>1. sessions' = [sessions EXCEPT ![s] = row]
      BY <2>5 DEF CommitAcknowledgeBill, s
    <3>2. s \in SessionIds => /\ row \in Sessions /\ row.status = sessions[s].status
                              /\ row.table = sessions[s].table
      BY <2>1 DEF Sessions
    <3> HIDE DEF row
    <3> QED
      BY <2>2, <3>1, <3>2
  <2> QED
    BY <2>3, <2>4, <2>5
<1>3. TypeOK'
  BY <1>1, <1>2, EndType DEF TypeOK
<1>4. RowsInv'
  <2>1. RowsWellFormed'
    BY <1>1, <1>2 DEF RowsWellFormed, Pending, SessionIds, TypeOK, Participants
  <2> QED
    BY <1>1, <1>2, <1>3, <2>1 DEF RowsInv, ParticipantsDistinct, OneLiveSession, Live
<1>5. SessionsKept /\ \A u \in Tables : Untouched(u)
  BY <1>1, <1>2 DEF SessionsKept, Untouched, LiveSessions, Live
<1> QED
  BY <1>1, <1>4, <1>5, EndKeeps

\* No statement makes a request pending again, and setting the status of orders
\* moves none.
LEMMA RequestsApprovedFacts ==
  ASSUME TypeOK, NEW r, NEW t, NEW s \in SessionIds
  PROVE  /\ RequestsApproved(r, t, s) \in [RequestIds -> Requests]
         /\ \A q \in RequestIds : RequestsApproved(r, t, s)[q].status = "pending" =>
              RequestsApproved(r, t, s)[q] = requests[q]
<1> DEFINE row(q) == RequestsApproved(r, t, s)[q]
<1>1. ASSUME NEW q \in RequestIds
      PROVE  row(q) \in Requests /\ (row(q).status = "pending" => row(q) = requests[q])
  <2>1. requests[q] \in Requests
    BY DEF TypeOK
  <2>2. \/ row(q) = [requests[q] EXCEPT !.status = "approved", !.session = s]
        \/ row(q) = [requests[q] EXCEPT !.status = "expired"]
        \/ row(q) = requests[q]
    BY DEF RequestsApproved
  <2> QED
    BY <2>1, <2>2 DEF Requests, RequestStatuses
<1> QED
  BY <1>1 DEF RequestsApproved

\* Requests that are settled together keep their types, and none becomes pending.
LEMMA RequestsSetFacts ==
  ASSUME TypeOK, NEW R, NEW status \in RequestStatuses \ {"pending"}
  PROVE  /\ RequestsSet(requests, R, status) \in [RequestIds -> Requests]
         /\ \A q \in RequestIds : RequestsSet(requests, R, status)[q].status = "pending" =>
              RequestsSet(requests, R, status)[q] = requests[q]
BY DEF TypeOK, RequestsSet, Requests, RequestStatuses

\* Orders that change their status together keep their sessions and numbers.
LEMMA OrdersSetFacts ==
  ASSUME TypeOK, NEW O, NEW status \in OrderStatuses
  PROVE  /\ OrdersSet(O, status) \in [OrderIds -> Orders]
         /\ \A o \in OrderIds : /\ OrdersSet(O, status)[o].session = orders[o].session
                                /\ OrdersSet(O, status)[o].number = orders[o].number
BY DEF TypeOK, OrdersSet, Orders

\* An approval opens a session at the table that it has locked and found free.
LEMMA CommitApproveOpenKeeps ==
  ASSUME LockProtects, NEW v \in Workers, CommitApproveOpen(v)
  PROVE  LockProtects'
<1> DEFINE t == tx[v].table  d == tx[v].device  r == tx[v].request
<1>1. PICK s \in SessionIds :
        /\ IsNewSession(s)
        /\ sessions' = [sessions EXCEPT ![s] = OpenedSession(t)]
        /\ participants' = WithParticipant(s, d, 1)
        /\ requests' = RequestsApproved(r, t, s)
  BY DEF CommitApproveOpen
<1>2. t \in Tables /\ lock[t] = v /\ d \in Devices
  BY PlanFacts DEF CommitApproveOpen, Running, Locks, PlanWellFormed
<1>3. /\ End(v) /\ UNCHANGED <<isActive, named, orders>> /\ LiveIndexFree(t, {})
      /\ TypeOK /\ RowsWellFormed /\ ParticipantsDistinct /\ OneLiveSession
  BY PlanFacts DEF CommitApproveOpen
<1>4. /\ sessions[s] = NoSession /\ sessions[s].status = "none"
      /\ \A p \in participants : p.session # s
  BY <1>1, <1>3 DEF IsNewSession, NoSession, RowsWellFormed
<1>5. /\ sessions' \in [SessionIds -> Sessions]
      /\ sessions'[s].status = "active" /\ sessions'[s].table = t
      /\ \A q \in SessionIds : q # s => sessions'[q] = sessions[q]
  BY <1>1, <1>2, <1>3 DEF TypeOK, Sessions, OpenedSession, NoSession, LiveStatuses
<1>6. participants' = participants \cup {[session |-> s, device |-> d, ordinal |-> 1]}
  BY <1>1 DEF WithParticipant
<1>7. /\ requests' \in [RequestIds -> Requests]
      /\ \A q \in RequestIds : requests'[q].status = "pending" => requests'[q] = requests[q]
  BY <1>1, <1>3, RequestsApprovedFacts
<1>8. TypeOK'
  BY <1>2, <1>3, <1>5, <1>6, <1>7, EndType DEF TypeOK, Participants, Ordinals
<1>9. RowsWellFormed'
  BY <1>2, <1>3, <1>4, <1>5, <1>6, <1>7 DEF RowsWellFormed, Pending, TypeOK, Participants
<1>10. ParticipantsDistinct'
  BY <1>3, <1>4, <1>6 DEF ParticipantsDistinct
<1>11. OneLiveSession'
  BY <1>3, <1>5 DEF OneLiveSession, Live, LiveIndexFree, LiveSessions
<1>12. SessionsKept /\ \A u \in Tables : lock[u] # v => Untouched(u)
  BY <1>2, <1>3, <1>4, <1>5, <1>6, <1>7
     DEF SessionsKept, Untouched, LiveSessions, Live, LiveStatuses
<1> QED
  BY <1>3, <1>8, <1>9, <1>10, <1>11, <1>12, EndKeeps DEF RowsInv

MovedOrder(row, s, n, status, owner) ==
  [row EXCEPT !.session = s, !.number = n, !.status = status, !.participant = owner]

\* An order that moves is in the session it moves to.
LEMMA MovedOrderType ==
  ASSUME NEW row \in Orders, NEW s \in SessionIds, NEW n \in Nat, NEW status \in OrderStatuses,
         NEW owner \in Owners
  PROVE  /\ MovedOrder(row, s, n, status, owner) \in Orders
         /\ MovedOrder(row, s, n, status, owner).session = s
<1>1. s \in SessionIds \cup {0} /\ status \in OrderStatuses \cup {"none"}
  OBVIOUS
<1> QED
  BY <1>1 DEF Orders, MovedOrder

\* An approval closes the session of its table and opens another.
LEMMA CommitApproveNewKeeps ==
  ASSUME LockProtects, NEW v \in Workers, CommitApproveNew(v)
  PROVE  LockProtects'
<1> DEFINE t == tx[v].table  d == tx[v].device  r == tx[v].request  old == tx[v].session
           o == tx[v].order
<1>1. PICK s \in SessionIds :
        /\ IsNewSession(s)
        /\ sessions' = [sessions EXCEPT ![old] = ClosedSession(old), ![s] = OpenedSession(t)]
        /\ participants' = WithParticipant(s, d, 1)
        /\ orders' = PendingOrderMigrated(o, s, d)
        /\ requests' = RequestsApproved(r, t, s)
  BY DEF CommitApproveNew
<1>2. /\ t \in Tables /\ lock[t] = v /\ d \in Devices
      /\ old \in SessionIds /\ Live(old) /\ sessions[old].table = t
  BY PlanFacts DEF CommitApproveNew, Running, Locks, UsesSession, PlanWellFormed
<1>3. /\ End(v) /\ UNCHANGED isActive /\ named' = NamedExcept(old) /\ LiveIndexFree(t, {old})
      /\ TypeOK /\ RowsWellFormed /\ ParticipantsDistinct /\ OneLiveSession
  BY PlanFacts DEF CommitApproveNew
<1>4. /\ sessions[s] = NoSession /\ sessions[s].status = "none" /\ s # old
      /\ \A p \in participants : p.session # s
  BY <1>1, <1>2, <1>3 DEF IsNewSession, NoSession, RowsWellFormed, Live, LiveStatuses
<1>5. /\ sessions' \in [SessionIds -> Sessions]
      /\ sessions'[s].status = "active" /\ sessions'[s].table = t
      /\ sessions'[old].status = "closed" /\ sessions'[old].table = t
      /\ \A q \in SessionIds : q # s /\ q # old => sessions'[q] = sessions[q]
  BY <1>1, <1>2, <1>3, <1>4
     DEF TypeOK, Sessions, OpenedSession, ClosedSession, NoSession, LiveStatuses
<1>6. participants' = participants \cup {[session |-> s, device |-> d, ordinal |-> 1]}
  BY <1>1 DEF WithParticipant
<1>7. /\ requests' \in [RequestIds -> Requests]
      /\ \A q \in RequestIds : requests'[q].status = "pending" => requests'[q] = requests[q]
  BY <1>1, <1>3, RequestsApprovedFacts
<1>8. /\ orders' \in [OrderIds -> Orders]
      /\ \A q \in OrderIds : orders'[q] = orders[q] \/ orders'[q].session = s
  <2>1. ASSUME NEW q \in OrderIds
        PROVE  orders'[q] \in Orders /\ (orders'[q] = orders[q] \/ orders'[q].session = s)
    <3>1. orders[q] \in Orders
      BY <1>3 DEF TypeOK
    <3>2. \/ orders'[q] = orders[q]
          \/ orders'[q] = [orders[q] EXCEPT !.session = s, !.number = 1, !.status = "submitted",
                                            !.participant = <<s, d>>]
      BY <1>1 DEF PendingOrderMigrated
    <3> DEFINE owner == <<s, d>>
    <3>3. owner \in Owners
      BY <1>2 DEF Owners
    <3> HIDE DEF owner
    <3>4. orders'[q] = orders[q] \/ orders'[q] = MovedOrder(orders[q], s, 1, "submitted", owner)
      BY <3>2 DEF MovedOrder, owner
    <3> QED
      BY <3>1, <3>3, <3>4, MovedOrderType DEF OrderStatuses
  <2> QED
    BY <1>1, <2>1 DEF PendingOrderMigrated
<1>9. TypeOK'
  BY <1>2, <1>3, <1>5, <1>6, <1>7, <1>8, EndType
     DEF TypeOK, Participants, Ordinals, NamedExcept
<1>10. RowsWellFormed'
  BY <1>2, <1>3, <1>4, <1>5, <1>6, <1>7 DEF RowsWellFormed, Pending, TypeOK, Participants
<1>11. ParticipantsDistinct'
  BY <1>3, <1>4, <1>6 DEF ParticipantsDistinct
<1>12. OneLiveSession'
  BY <1>3, <1>5 DEF OneLiveSession, Live, LiveStatuses, LiveIndexFree, LiveSessions
<1>13. SessionsKept /\ \A u \in Tables : lock[u] # v => Untouched(u)
  <2>1. SessionsKept
    BY <1>2, <1>4, <1>5 DEF SessionsKept
  <2>2. ASSUME NEW u \in Tables, lock[u] # v
        PROVE  LiveSessions(u)' = LiveSessions(u) /\ s \notin LiveSessions(u)
    BY <1>2, <1>4, <1>5, <2>2 DEF LiveSessions, Live, LiveStatuses
  <2> QED
    BY <1>2, <1>6, <1>7, <1>8, <2>1, <2>2 DEF Untouched
<1> QED
  BY <1>3, <1>9, <1>10, <1>11, <1>12, <1>13, EndKeeps DEF RowsInv

\* An approval wakes the session of its table and adds the device to it.
LEMMA CommitApproveContinueKeeps ==
  ASSUME LockProtects, NEW v \in Workers, CommitApproveContinue(v)
  PROVE  LockProtects'
<1> DEFINE t == tx[v].table  d == tx[v].device  s == tx[v].session  n == tx[v].number
<1>1. /\ t \in Tables /\ lock[t] = v /\ d \in Devices /\ n \in Nat
      /\ s \in SessionIds /\ Live(s) /\ sessions[s].table = t
  BY PlanFacts DEF CommitApproveContinue, Running, Locks, UsesSession, PlanWellFormed,
                   Transactions
<1>2. /\ End(v) /\ UNCHANGED <<isActive, named>>
      /\ sessions' = [sessions EXCEPT ![s].status = "active"]
      /\ orders' = OrdersSet({tx[v].order}, "submitted")
      /\ requests' = RequestsApproved(tx[v].request, t, s)
      /\ TypeOK /\ RowsWellFormed /\ ParticipantsDistinct /\ OneLiveSession
  BY PlanFacts DEF CommitApproveContinue, PendingOrderConfirmed
<1>3. \/ participants' = participants
      \/ /\ n \in Ordinals /\ ParticipantIndexFree(s, d, n)
         /\ participants' = participants \cup {[session |-> s, device |-> d, ordinal |-> n]}
  BY <1>1 DEF CommitApproveContinue, WithParticipant, Ordinals
<1>4. /\ sessions' \in [SessionIds -> Sessions]
      /\ sessions'[s].status \in LiveStatuses
      /\ \A q \in SessionIds : /\ sessions'[q].table = sessions[q].table
                               /\ q # s => sessions'[q] = sessions[q]
  BY <1>1, <1>2 DEF TypeOK, Sessions, Live, LiveStatuses
<1>5. /\ requests' \in [RequestIds -> Requests]
      /\ \A q \in RequestIds : requests'[q].status = "pending" => requests'[q] = requests[q]
  BY <1>1, <1>2, RequestsApprovedFacts
<1>6. /\ orders' \in [OrderIds -> Orders]
      /\ \A o \in OrderIds : /\ orders'[o].session = orders[o].session
                             /\ orders'[o].number = orders[o].number
  BY <1>2, OrdersSetFacts DEF OrderStatuses
<1>7. TypeOK'
  <2>1. participants' \subseteq Participants
    BY <1>1, <1>2, <1>3 DEF TypeOK, Participants
  <2>2. lock' \in [Tables -> Workers \cup {None}] /\ tx' \in [Workers -> Transactions]
    BY <1>2, EndType
  <2> QED
    BY <1>2, <1>4, <1>5, <1>6, <2>1, <2>2 DEF TypeOK
<1>8. RowsWellFormed'
  <2>1. \A p \in participants' : p.session \in SessionIds /\ sessions[p.session].status # "none"
    BY <1>1, <1>2, <1>3 DEF RowsWellFormed, TypeOK, Participants, Live, LiveStatuses
  <2>2. \A p \in participants' : sessions'[p.session].status # "none"
    BY <1>4, <2>1 DEF LiveStatuses
  <2>3. \A q \in SessionIds :
          IF sessions'[q].status = "none" THEN sessions'[q] = NoSession
          ELSE sessions'[q].table \in Tables
    BY <1>1, <1>2, <1>4 DEF RowsWellFormed, LiveStatuses
  <2>4. \A q \in RequestIds : requests'[q].status = "pending" =>
          requests'[q].table \in Tables /\ requests'[q].device \in Devices
    BY <1>2, <1>5 DEF RowsWellFormed, Pending
  <2> QED
    BY <2>2, <2>3, <2>4 DEF RowsWellFormed, Pending
<1>9. ParticipantsDistinct'
  BY <1>2, <1>3 DEF ParticipantsDistinct, ParticipantIndexFree
<1>10. OneLiveSession'
  BY <1>1, <1>2, <1>4 DEF OneLiveSession, Live
<1>11. SessionsKept /\ \A u \in Tables : lock[u] # v => Untouched(u)
  <2>1. SessionsKept
    BY <1>4 DEF SessionsKept, Live, LiveStatuses
  <2>2. \A u \in Tables : LiveSessions(u)' = LiveSessions(u)
    BY <1>1, <1>4 DEF LiveSessions, Live
  <2> QED
    BY <1>1, <1>3, <1>5, <1>6, <2>1, <2>2 DEF Untouched, LiveSessions
<1> QED
  BY <1>2, <1>7, <1>8, <1>9, <1>10, <1>11, EndKeeps DEF RowsInv

\* The staff opens a session at a table that is locked and free.
LEMMA CommitOpenByStaffKeeps ==
  ASSUME LockProtects, NEW v \in Workers, CommitOpenByStaff(v)
  PROVE  LockProtects'
<1> DEFINE t == tx[v].table
<1>1. PICK s \in SessionIds :
        IsNewSession(s) /\ sessions' = [sessions EXCEPT ![s] = OpenedSession(t)]
  BY DEF CommitOpenByStaff
<1>2. t \in Tables /\ lock[t] = v
  BY PlanFacts DEF CommitOpenByStaff, Running, Locks
<1>3. /\ End(v) /\ UNCHANGED <<isActive, participants, named, orders>> /\ LiveIndexFree(t, {})
      /\ TypeOK /\ RowsWellFormed /\ ParticipantsDistinct /\ OneLiveSession
  BY PlanFacts DEF CommitOpenByStaff
<1>4. sessions[s] = NoSession /\ sessions[s].status = "none"
  BY <1>1 DEF IsNewSession, NoSession
<1>5. /\ sessions' \in [SessionIds -> Sessions]
      /\ sessions'[s].status = "active" /\ sessions'[s].table = t
      /\ \A q \in SessionIds : q # s => sessions'[q] = sessions[q]
  BY <1>1, <1>2, <1>3 DEF TypeOK, Sessions, OpenedSession, NoSession, LiveStatuses
<1>6. /\ requests' \in [RequestIds -> Requests]
      /\ \A q \in RequestIds : requests'[q].status = "pending" => requests'[q] = requests[q]
  BY <1>3, RequestsSetFacts DEF CommitOpenByStaff, RequestStatuses
<1>7. TypeOK'
  BY <1>2, <1>3, <1>5, <1>6, EndType DEF TypeOK
<1>8. RowsWellFormed'
  BY <1>2, <1>3, <1>4, <1>5, <1>6 DEF RowsWellFormed, Pending, TypeOK, Participants
<1>9. ParticipantsDistinct' /\ OneLiveSession'
  BY <1>3, <1>5 DEF ParticipantsDistinct, OneLiveSession, Live, LiveIndexFree, LiveSessions
<1>10. SessionsKept /\ \A u \in Tables : lock[u] # v => Untouched(u)
  BY <1>2, <1>3, <1>4, <1>5, <1>6
     DEF SessionsKept, Untouched, LiveSessions, Live, LiveStatuses
<1> QED
  BY <1>3, <1>7, <1>8, <1>9, <1>10, EndKeeps DEF RowsInv

\* The staff closes the session of a table that is locked: no other worker
\* decided on it.
LEMMA CommitCloseKeeps ==
  ASSUME LockProtects, NEW v \in Workers, CommitClose(v)
  PROVE  LockProtects'
<1> DEFINE t == tx[v].table  s == tx[v].session
<1>1. /\ t \in Tables /\ lock[t] = v
      /\ s \in SessionIds /\ Live(s) /\ sessions[s].table = t
  BY PlanFacts DEF CommitClose, Running, Locks, UsesSession
<1>2. /\ End(v) /\ UNCHANGED <<isActive, participants, requests>> /\ named' = NamedExcept(s)
      /\ sessions' = [sessions EXCEPT ![s] = ClosedSession(s)]
      /\ orders' = OrdersSet(tx[v].unacked, "cancelled")
      /\ TypeOK /\ RowsWellFormed /\ ParticipantsDistinct /\ OneLiveSession
  BY PlanFacts DEF CommitClose, OrdersCancelled
<1>3. /\ sessions' \in [SessionIds -> Sessions]
      /\ sessions'[s].status = "closed" /\ sessions'[s].table = t
      /\ \A q \in SessionIds : q # s => sessions'[q] = sessions[q]
  BY <1>1, <1>2 DEF TypeOK, Sessions, ClosedSession, LiveStatuses
<1>4. /\ orders' \in [OrderIds -> Orders]
      /\ \A o \in OrderIds : /\ orders'[o].session = orders[o].session
                             /\ orders'[o].number = orders[o].number
  BY <1>2, OrdersSetFacts DEF OrderStatuses
<1>5. TypeOK'
  BY <1>2, <1>3, <1>4, EndType DEF TypeOK, NamedExcept
<1>6. RowsWellFormed' /\ ParticipantsDistinct' /\ OneLiveSession'
  <2>1. RowsWellFormed'
    BY <1>1, <1>2, <1>3 DEF RowsWellFormed, Pending, TypeOK, Participants
  <2>2. ParticipantsDistinct'
    BY <1>2 DEF ParticipantsDistinct
  <2>3. OneLiveSession'
    BY <1>1, <1>2, <1>3 DEF OneLiveSession, Live, LiveStatuses
  <2> QED
    BY <2>1, <2>2, <2>3
<1>7. SessionsKept /\ \A u \in Tables : lock[u] # v => Untouched(u)
  <2>1. SessionsKept
    BY <1>1, <1>2, <1>3 DEF SessionsKept
  <2>2. ASSUME NEW u \in Tables, lock[u] # v PROVE LiveSessions(u)' = LiveSessions(u)
    BY <1>1, <1>3, <2>2 DEF LiveSessions, Live, LiveStatuses
  <2>3. UNCHANGED <<requests, participants>>
    BY <1>2
  <2>4. ASSUME NEW u \in Tables, lock[u] # v PROVE Untouched(u)
    BY <1>4, <2>2, <2>3, <2>4 DEF Untouched
  <2> QED
    BY <2>1, <2>4
<1> QED
  BY <1>2, <1>5, <1>6, <1>7, EndKeeps DEF RowsInv

\* An order enters the session its worker holds; nobody else's session gets one.
LEMMA InsertOrderFacts ==
  ASSUME LockProtects, NEW v \in Workers, NEW o \in OrderIds, NEW status \in OrderStatuses,
         InsertOrder(v, o, status), tx[v].session \in SessionIds
  PROVE  /\ orders' \in [OrderIds -> Orders]
         /\ \A q \in OrderIds : orders'[q] = orders[q] \/ orders'[q].session = tx[v].session
<1> DEFINE s == tx[v].session  d == tx[v].device
           owner == IF d = None THEN None ELSE <<s, d>>
           row == [status |-> status, session |-> s, number |-> tx[v].number,
                   participant |-> owner, key |-> tx[v].key]
<1>1. orders \in [OrderIds -> Orders] /\ tx[v] \in Transactions
  BY PlanFacts DEF TypeOK
<1>2. d \in Devices \cup {None} /\ tx[v].number \in Nat /\ tx[v].key \in Keys \cup {None}
  BY <1>1 DEF Transactions
<1>3. owner \in Owners
  BY <1>2 DEF Owners
<1>4. orders' = [orders EXCEPT ![o] = row]
  BY DEF InsertOrder
<1> HIDE DEF owner
<1>5. row \in Orders /\ row.session = s
  BY <1>2, <1>3 DEF Orders
<1> HIDE DEF row
<1> QED
  BY <1>1, <1>4, <1>5

\* An order enters the session of a locked table with the number that was free.
LEMMA CommitSubmitOrderKeeps ==
  ASSUME LockProtects, NEW v \in Workers, CommitSubmitOrder(v)
  PROVE  LockProtects'
<1> DEFINE t == tx[v].table  s == tx[v].session
<1>1. /\ t \in Tables /\ lock[t] = v
      /\ s \in SessionIds /\ Live(s) /\ sessions[s].table = t
  BY PlanFacts DEF CommitSubmitOrder, Locks, UsesSession
<1>2. /\ End(v) /\ UNCHANGED <<isActive, participants, named, requests>>
      /\ sessions' = [sessions EXCEPT ![s].status = "active"]
      /\ TypeOK /\ RowsWellFormed /\ ParticipantsDistinct /\ OneLiveSession
  BY PlanFacts DEF CommitSubmitOrder
<1>3. PICK o \in OrderIds : InsertOrder(v, o, "submitted")
  BY DEF CommitSubmitOrder
<1>4. /\ orders' \in [OrderIds -> Orders]
      /\ \A q \in OrderIds : orders'[q] = orders[q] \/ orders'[q].session = s
  BY <1>1, <1>3, InsertOrderFacts DEF OrderStatuses
<1>5. /\ sessions' \in [SessionIds -> Sessions]
      /\ sessions'[s].status \in LiveStatuses
      /\ \A q \in SessionIds : /\ sessions'[q].table = sessions[q].table
                               /\ q # s => sessions'[q] = sessions[q]
  BY <1>1, <1>2 DEF TypeOK, Sessions, Live, LiveStatuses
<1>6. TypeOK'
  BY <1>2, <1>4, <1>5, EndType DEF TypeOK
<1>7. RowsWellFormed' /\ ParticipantsDistinct' /\ OneLiveSession'
  BY <1>1, <1>2, <1>5 DEF RowsWellFormed, ParticipantsDistinct, OneLiveSession, Pending, Live,
                          LiveStatuses, TypeOK, Participants
<1>8. SessionsKept /\ \A u \in Tables : lock[u] # v => Untouched(u)
  <2>1. SessionsKept
    BY <1>5 DEF SessionsKept, LiveStatuses
  <2>2. \A u \in Tables : LiveSessions(u)' = LiveSessions(u)
    BY <1>1, <1>5 DEF LiveSessions, Live
  <2> QED
    BY <1>1, <1>2, <1>4, <2>1, <2>2 DEF Untouched, LiveSessions
<1> QED
  BY <1>2, <1>6, <1>7, <1>8, EndKeeps DEF RowsInv

\* An order and the request that holds it are inserted at a locked table.
LEMMA CommitAwaitOrderKeeps ==
  ASSUME LockProtects, NEW v \in Workers, CommitAwaitOrder(v)
  PROVE  LockProtects'
<1> DEFINE t == tx[v].table  s == tx[v].session  d == tx[v].device
<1>1. /\ t \in Tables /\ lock[t] = v /\ d \in Devices
      /\ s \in SessionIds /\ Live(s) /\ sessions[s].table = t
  BY PlanFacts DEF CommitAwaitOrder, Locks, UsesSession, PlanWellFormed
<1>2. /\ End(v) /\ UNCHANGED <<isActive, sessions, participants, named>>
      /\ TypeOK /\ RowsWellFormed /\ ParticipantsDistinct /\ OneLiveSession
  BY PlanFacts DEF CommitAwaitOrder
<1>3. PICK o \in OrderIds, r \in RequestIds :
        /\ InsertOrder(v, o, "pending_confirmation")
        /\ requests' = [requests EXCEPT ![r] =
             [status |-> "pending", type |-> "resume_session", table |-> t,
              device |-> d, session |-> s, order |-> o]]
  BY DEF CommitAwaitOrder
<1>4. /\ orders' \in [OrderIds -> Orders]
      /\ \A q \in OrderIds : orders'[q] = orders[q] \/ orders'[q].session = s
  BY <1>1, <1>3, InsertOrderFacts DEF OrderStatuses
<1>5. /\ requests' \in [RequestIds -> Requests]
      /\ \A q \in RequestIds : requests'[q] = requests[q] \/
           (requests'[q].table = t /\ requests'[q].device = d)
  BY <1>1, <1>2, <1>3 DEF TypeOK, Requests, RequestStatuses, RequestTypes
<1>6. TypeOK'
  BY <1>2, <1>4, <1>5, EndType DEF TypeOK
<1>7. RowsInv'
  BY <1>1, <1>2, <1>5, <1>6
     DEF RowsInv, RowsWellFormed, Pending, ParticipantsDistinct, OneLiveSession, Live
<1>8. SessionsKept /\ \A u \in Tables : lock[u] # v => Untouched(u)
  BY <1>1, <1>2, <1>4, <1>5 DEF SessionsKept, Untouched, LiveSessions, Live
<1> QED
  BY <1>2, <1>7, <1>8, EndKeeps

\* A cancellation changes statuses only.
LEMMA CommitCancelOrderKeeps ==
  ASSUME LockProtects, NEW v \in Workers, CommitCancelOrder(v)
  PROVE  LockProtects'
<1>1. /\ End(v) /\ UNCHANGED <<isActive, sessions, participants, named>>
      /\ orders' = OrdersSet({tx[v].order}, "cancelled")
      /\ TypeOK /\ RowsWellFormed /\ ParticipantsDistinct /\ OneLiveSession
  BY PlanFacts DEF CommitCancelOrder, OrdersCancelled
<1>2. /\ orders' \in [OrderIds -> Orders]
      /\ \A o \in OrderIds : /\ orders'[o].session = orders[o].session
                             /\ orders'[o].number = orders[o].number
  BY <1>1, OrdersSetFacts DEF OrderStatuses
<1>3. /\ requests' \in [RequestIds -> Requests]
      /\ \A q \in RequestIds : requests'[q].status = "pending" => requests'[q] = requests[q]
  BY <1>1, RequestsSetFacts DEF CommitCancelOrder, RequestStatuses, TypeOK
<1>4. TypeOK'
  BY <1>1, <1>2, <1>3, EndType DEF TypeOK
<1>5. RowsInv'
  BY <1>1, <1>3, <1>4
     DEF RowsInv, RowsWellFormed, Pending, ParticipantsDistinct, OneLiveSession, Live
<1>6. SessionsKept /\ \A u \in Tables : Untouched(u)
  BY <1>1, <1>2, <1>3 DEF SessionsKept, Untouched, LiveSessions, Live
<1> QED
  BY <1>1, <1>5, <1>6, EndKeeps

\* Neither the flag of a table nor the names of its participants matter to a plan.
LEMMA EndQuietKeeps ==
  ASSUME LockProtects, NEW v \in Workers, End(v),
         UNCHANGED <<sessions, participants, named, requests, orders>>,
         isActive' \in [Tables -> BOOLEAN]
  PROVE  LockProtects'
<1>1. TypeOK /\ RowsWellFormed /\ ParticipantsDistinct /\ OneLiveSession
  BY PlanFacts
<1>2. TypeOK'
  BY <1>1, EndType DEF TypeOK
<1>3. RowsInv'
  BY <1>1, <1>2 DEF RowsInv, RowsWellFormed, Pending, ParticipantsDistinct, OneLiveSession, Live
<1>4. SessionsKept /\ \A u \in Tables : Untouched(u)
  BY DEF SessionsKept, Untouched, LiveSessions, Live
<1> QED
  BY <1>3, <1>4, EndKeeps

\* A deactivation changes no row that a plan speaks of.
LEMMA CommitDeactivateTableKeeps ==
  ASSUME LockProtects, NEW v \in Workers, CommitDeactivateTable(v)
  PROVE  LockProtects'
<1>1. isActive' \in [Tables -> BOOLEAN]
  BY PlanFacts DEF TypeOK, CommitDeactivateTable
<1> QED
  BY <1>1, EndQuietKeeps DEF CommitDeactivateTable

\* A rollback gives up a plan and its lock.
LEMMA RollbackKeeps ==
  ASSUME LockProtects, NEW v \in Workers, Rollback(v)
  PROVE  LockProtects'
<1>1. UNCHANGED <<sessions, participants, named, requests, orders>>
  BY DEF Rollback, db
<1>2. isActive' \in [Tables -> BOOLEAN]
  BY PlanFacts DEF TypeOK, Rollback, db
<1> QED
  BY <1>1, <1>2, EndQuietKeeps DEF Rollback

-----------------------------------------------------------------------------
(* The handlers that are one statement, and the jobs.                      *)

\* A step that moves no session, participant, lock or order, and makes no request
\* pending, keeps all parts.
LEMMA AsideQuietKeeps ==
  ASSUME LockProtects, UNCHANGED <<sessions, participants, lock, tx>>, TypeOK',
         \A q \in RequestIds : requests'[q].status = "pending" => requests'[q] = requests[q],
         \A o \in OrderIds : /\ orders'[o].session = orders[o].session
                             /\ orders'[o].number = orders[o].number
  PROVE  LockProtects'
<1>1. RowsInv'
  BY DEF LockProtects, RowsInv, RowsWellFormed, Pending, ParticipantsDistinct, OneLiveSession, Live
<1>2. SessionsKept /\ \A u \in Tables : Untouched(u)
  BY DEF SessionsKept, Untouched, LiveSessions, Live
<1> QED
  BY <1>1, <1>2, AsideKeeps

\* The handlers that are one statement keep the invariant,
LEMMA OneStatementKeeps ==
  ASSUME LockProtects, OneStatement
  PROVE  LockProtects'
<1>1. TypeOK
  BY DEF LockProtects
<1>2. CASE \E s \in SessionIds, d \in Devices, given \in BOOLEAN : SetParticipantName(s, d, given)
  <2>1. TypeOK'
    BY <1>1, <1>2 DEF TypeOK, SetParticipantName
  <2> QED
    BY <1>2, <2>1, AsideQuietKeeps DEF SetParticipantName
<1>3. ASSUME NEW r \in RequestIds, Reject(r)
      PROVE  LockProtects'
  <2>1. /\ requests' \in [RequestIds -> Requests]
        /\ \A q \in RequestIds : requests'[q].status = "pending" => requests'[q] = requests[q]
    BY <1>1, <1>3, RequestsSetFacts DEF Reject, RequestStatuses
  <2>2. /\ orders' \in [OrderIds -> Orders]
        /\ \A o \in OrderIds : /\ orders'[o].session = orders[o].session
                               /\ orders'[o].number = orders[o].number
    BY <1>1, <1>3, OrdersSetFacts DEF Reject, OrdersCancelled, OrderStatuses
  <2>3. UNCHANGED <<isActive, sessions, participants, named, lock, tx>>
    BY <1>3 DEF Reject
  <2>4. TypeOK'
    BY <1>1, <2>1, <2>2, <2>3 DEF TypeOK
  <2> QED
    BY <2>1, <2>2, <2>3, <2>4, AsideQuietKeeps
<1>4. ASSUME NEW o \in OrderIds, AcknowledgeOrder(o)
      PROVE  LockProtects'
  <2>1. /\ orders' \in [OrderIds -> Orders]
        /\ \A q \in OrderIds : /\ orders'[q].session = orders[q].session
                               /\ orders'[q].number = orders[q].number
    BY <1>1, <1>4 DEF TypeOK, AcknowledgeOrder, Orders, OrderStatuses
  <2>2. UNCHANGED <<isActive, sessions, participants, named, requests, lock, tx>>
    BY <1>4 DEF AcknowledgeOrder
  <2>3. TypeOK'
    BY <1>1, <2>1, <2>2 DEF TypeOK
  <2> QED
    BY <2>1, <2>2, <2>3, AsideQuietKeeps
<1>5. CASE \E t \in Tables : ActivateTable(t)
  <2>1. TypeOK'
    BY <1>1, <1>5 DEF TypeOK, ActivateTable
  <2> QED
    BY <1>5, <2>1, AsideQuietKeeps DEF ActivateTable
<1> QED
  BY <1>2, <1>3, <1>4, <1>5 DEF OneStatement

\* and so do the jobs.
LEMMA JobsKeep ==
  ASSUME LockProtects, Jobs
  PROVE  LockProtects'
<1>1. TypeOK /\ RowsWellFormed /\ ParticipantsDistinct /\ OneLiveSession
  BY DEF LockProtects
<1>2. ASSUME NEW R \in SUBSET RequestIds, ExpireRequests(R)
      PROVE  LockProtects'
  <2>1. /\ requests' \in [RequestIds -> Requests]
        /\ \A q \in RequestIds : requests'[q].status = "pending" => requests'[q] = requests[q]
    BY <1>1, <1>2, RequestsSetFacts DEF ExpireRequests, RequestStatuses
  <2>2. /\ orders' \in [OrderIds -> Orders]
        /\ \A o \in OrderIds : /\ orders'[o].session = orders[o].session
                               /\ orders'[o].number = orders[o].number
    BY <1>1, <1>2, OrdersSetFacts DEF ExpireRequests, OrdersCancelled, OrderStatuses
  <2>3. UNCHANGED <<isActive, sessions, participants, named, lock, tx>>
    BY <1>2 DEF ExpireRequests
  <2>4. TypeOK'
    BY <1>1, <2>1, <2>2, <2>3 DEF TypeOK
  <2> QED
    BY <2>1, <2>2, <2>3, <2>4, AsideQuietKeeps
<1>3. ASSUME NEW S \in SUBSET SessionIds, MarkInactiveSessions(S)
      PROVE  LockProtects'
  <2>1. /\ sessions' \in [SessionIds -> Sessions]
        /\ \A s \in SessionIds : /\ sessions'[s].table = sessions[s].table
                                 /\ \/ sessions'[s] = sessions[s]
                                    \/ /\ sessions[s].status = "active"
                                       /\ sessions'[s].status = "inactive"
    BY <1>1, <1>3 DEF TypeOK, MarkInactiveSessions, Sessions, LiveStatuses
  <2>2. UNCHANGED <<isActive, participants, named, requests, orders, lock, tx>>
    BY <1>3 DEF MarkInactiveSessions
  <2>3. TypeOK'
    BY <1>1, <2>1, <2>2 DEF TypeOK
  <2>4. RowsWellFormed' /\ ParticipantsDistinct' /\ OneLiveSession'
    BY <1>1, <2>1, <2>2 DEF RowsWellFormed, ParticipantsDistinct, OneLiveSession, Pending, Live,
                            LiveStatuses, TypeOK, Participants
  <2>5. SessionsKept /\ \A u \in Tables : Untouched(u)
    BY <2>1, <2>2 DEF SessionsKept, Untouched, LiveSessions, Live, LiveStatuses
  <2> QED
    BY <2>2, <2>3, <2>4, <2>5, AsideKeeps DEF RowsInv
<1> QED
  BY <1>2, <1>3 DEF Jobs

-----------------------------------------------------------------------------
(* The theorems.                                                           *)

\* There are no rows and no transactions at first.
LEMMA InitProtects == Init => LockProtects
<1> SUFFICES ASSUME Init PROVE LockProtects
  OBVIOUS
<1>1. TypeOK
  BY DEF Init, TypeOK, NoSession, Sessions, NoRequest, Requests, NoOrder, Orders, Owners, NoTx,
         Transactions
<1>2. RowsWellFormed /\ ParticipantsDistinct /\ OneLiveSession
  BY DEF Init, RowsWellFormed, ParticipantsDistinct, OneLiveSession, Pending, Live, LiveStatuses,
         NoSession, NoRequest
<1>3. \A w \in Workers : tx[w] = NoTx
  BY DEF Init
<1> QED
  BY <1>1, <1>2, <1>3
     DEF LockProtects, NoTx, PlanWellFormed, LockHeld, Locks, SessionHeld, UsesSession,
         IndexesFree, Running

\* Every step keeps the invariant, and so does one that changes nothing.
LEMMA NextProtects == LockProtects /\ [Next]_vars => LockProtects'
<1> SUFFICES ASSUME LockProtects, [Next]_vars PROVE LockProtects'
  OBVIOUS
<1>1. ASSUME NEW w \in Workers, Customer(w)
      PROVE  LockProtects'
  BY <1>1, RequestServiceKeeps, JoinKeeps, BillKeeps, CreateOrderKeeps, CancelOrderKeeps
     DEF Customer
<1>2. ASSUME NEW w \in Workers, Staff(w)
      PROVE  LockProtects'
  BY <1>2, ApproveKeeps, OpenByStaffKeeps, DeactivateTableKeeps, CloseKeeps, BillKeeps,
     CreateOrderKeeps, CancelOrderKeeps
     DEF Staff
<1>3. ASSUME NEW w \in Workers, Commit(w)
      PROVE  LockProtects'
  BY <1>3, CommitRequestServiceKeeps, CommitJoinKeeps, CommitBillKeeps, CommitApproveOpenKeeps,
     CommitApproveNewKeeps, CommitApproveContinueKeeps, CommitOpenByStaffKeeps,
     CommitCloseKeeps, LockCreateOrderKeeps, CommitSubmitOrderKeeps, CommitAwaitOrderKeeps,
     CommitCancelOrderKeeps, CommitDeactivateTableKeeps
     DEF Commit
<1>4. CASE UNCHANGED vars
  <2>1. TypeOK'
    BY <1>4 DEF LockProtects, TypeOK, vars
  <2> QED
    BY <1>4, <2>1, AsideQuietKeeps DEF vars
<1> QED
  BY <1>1, <1>2, <1>3, <1>4, RollbackKeeps, OneStatementKeeps, JobsKeep DEF Next

\* The invariant holds in every instance: what a handler read under the lock of
\* its table stays true of the table until it writes.
THEOREM LockProtectsAlways == Spec => []LockProtects
BY InitProtects, NextProtects, PTL DEF Spec

\* Every row and every plan keeps its type.
THEOREM TypesAlwaysOK == Spec => []TypeOK
<1>1. LockProtects => TypeOK
  BY DEF LockProtects
<1> QED
  BY <1>1, LockProtectsAlways, PTL

\* However many tables, devices and workers there are, the lock of the table
\* alone keeps the inserts of session.service.ts and order.service.ts off the
\* indexes whose rows they read under it: those on live sessions, pending
\* requests, participants and order numbers.
THEOREM LockedReadsHoldAlways == Spec => []LockedReadsHold
<1>1. LockProtects => LockedReadsHold
  BY DEF LockProtects, LockedReadsHold
<1> QED
  BY <1>1, LockProtectsAlways, PTL

\* No table ever serves two sessions.
THEOREM OneLiveSessionAlways == Spec => []OneLiveSession
<1>1. LockProtects => OneLiveSession
  BY DEF LockProtects
<1> QED
  BY <1>1, LockProtectsAlways, PTL

=============================================================================
