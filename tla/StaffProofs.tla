----------------------------- MODULE StaffProofs ----------------------------
(***************************************************************************)
(* What holds of the staff's side for every number of panels, phones,      *)
(* tabs, restaurants and rows: its presence, its panel, its accounts and   *)
(* its teams. Each part is proved from an inductive invariant of its own,  *)
(* given first.                                                            *)
(***************************************************************************)
EXTENDS StaffPresence, StaffPanel, StaffAccounts, Members, FiniteSetTheorems,
        SequenceTheorems, TLAPS

-----------------------------------------------------------------------------
(***************************************************************************)
(* Proofs about StaffPresence: the announcements and the answer to a       *)
(* request agree, for any number of panels and phones, any period of       *)
(* grace and any length of a run.  It rests on the count of sockets (it is *)
(* never zero while one is open, or a disconnection would start a period   *)
(* of grace that nobody was told of) and on the one timer: it runs in a    *)
(* period of grace that was announced, and ends with it.                   *)
(***************************************************************************)

\* The counter of the entry is the number of the sockets that are open.
SocketsCounted == IsFiniteSet(open) /\ presence.sockets = Cardinality(open)

\* With a socket: announced, and no timer.  Without: announced as long as the
\* timer of the last disconnection runs, and otherwise past it.
TimerRight ==
    /\ presence.sockets > 0 => presence.announced = TRUE /\ presence.graceTimer = Never
    /\ presence.sockets = 0 /\ presence.announced = TRUE =>
           /\ presence.lastSeenAt # Never
           /\ presence.graceTimer = presence.lastSeenAt + Grace
    /\ presence.sockets = 0 /\ presence.announced = FALSE =>
           presence.lastSeenAt = Never \/ instant >= presence.lastSeenAt + Grace

PresenceInv ==
    /\ instant \in Nat
    /\ presence \in Entry
    /\ SocketsCounted
    /\ TimerRight

\* Nobody is connected and nothing was announced at the start.
LEMMA PresenceInitially == StaffPresenceInit => PresenceInv
  BY FS_EmptySet DEF StaffPresenceInit, PresenceInv, NoEntry, Entry, Never, SocketsCounted, TimerRight

\* The invariant is what the two answers need to agree.
LEMMA PresenceAgrees == PresenceInv => TwoAnswersAgree
<1> SUFFICES ASSUME PresenceInv PROVE TwoAnswersAgree
    OBVIOUS
<1>1. /\ instant \in Nat /\ Grace \in Nat /\ presence.sockets \in Nat
      /\ presence.lastSeenAt \in Nat \cup {Never} /\ presence.announced \in BOOLEAN
  BY StaffPresenceAssumption DEF PresenceInv, Entry
<1>2. CASE presence.sockets > 0
  BY <1>1, <1>2 DEF PresenceInv, TimerRight, TwoAnswersAgree, IsOnline, IsStaffOnline
<1>3. CASE presence.sockets = 0 /\ presence.announced = TRUE
  BY <1>1, <1>3 DEF PresenceInv, TimerRight, TwoAnswersAgree, IsOnline, IsStaffOnline, Never
<1>4. CASE presence.sockets = 0 /\ presence.announced = FALSE
  BY <1>1, <1>4 DEF PresenceInv, TimerRight, TwoAnswersAgree, IsOnline, IsStaffOnline, Never
<1>5. presence.announced = TRUE \/ presence.announced = FALSE
  BY <1>1, Zenon
<1>6. presence.sockets > 0 \/ presence.sockets = 0
  BY <1>1
<1> QED
  BY <1>2, <1>3, <1>4, <1>5, <1>6, Zenon

\* A panel connects: one more socket, online at once, and no timer.
LEMMA ConnectionKeeps ==
    ASSUME PresenceInv, NEW s \in Panels, HandleConnection(s)
    PROVE  PresenceInv'
<1>1. /\ presence \in Entry /\ presence.sockets \in Nat /\ instant' = instant /\ instant \in Nat
      /\ s \notin open /\ open' = open \cup {s}
  BY DEF HandleConnection, PresenceInv, Entry
<1>2. presence' = [presence EXCEPT !.sockets = presence.sockets + 1, !.graceTimer = Never,
                                   !.announced = TRUE]
  BY <1>1 DEF HandleConnection, Announce, StopTimer, Entry
<1>3. /\ presence' \in Entry /\ presence'.sockets = presence.sockets + 1
      /\ presence'.announced = TRUE /\ presence'.graceTimer = Never
  <2>1. presence.sockets + 1 \in Nat
    BY <1>1
  <2>2. presence \in Entry
    BY <1>1
  <2> QED
    BY <1>2, <2>1, <2>2, Zenon DEF Entry
<1>4. SocketsCounted'
  BY <1>1, <1>3, FS_AddElement DEF PresenceInv, SocketsCounted
<1> QED
  BY <1>1, <1>3, <1>4 DEF PresenceInv, TimerRight

\* A panel goes: only when it was the last the period of grace begins.
LEMMA DisconnectionKeeps ==
    ASSUME PresenceInv, NEW s \in Panels, HandleDisconnect(s)
    PROVE  PresenceInv'
<1>1. /\ presence \in Entry /\ presence.sockets \in Nat /\ instant' = instant /\ instant \in Nat
      /\ s \in open /\ open' = open \ {s} /\ Grace \in Nat
  BY StaffPresenceAssumption DEF HandleDisconnect, PresenceInv, Entry
<1>2. IsFiniteSet(open') /\ Cardinality(open') = presence.sockets - 1 /\ presence.sockets > 0
  <2>1. IsFiniteSet(open) /\ presence.sockets = Cardinality(open)
    BY DEF PresenceInv, SocketsCounted
  <2>2. IsFiniteSet(open') /\ Cardinality(open') = Cardinality(open) - 1
    BY <1>1, <2>1, FS_RemoveElement
  <2>3. Cardinality(open') \in Nat
    BY <2>2, FS_CardinalityType
  <2> QED
    BY <1>1, <2>1, <2>2, <2>3
<1>3. presence.announced = TRUE /\ presence.graceTimer = Never
  BY <1>2 DEF PresenceInv, TimerRight
<1>4. CASE presence.sockets > 1
  <2>1. presence' = [presence EXCEPT !.sockets = @ - 1]
    BY <1>4 DEF HandleDisconnect
  <2>2. /\ presence' \in Entry /\ presence'.sockets = presence.sockets - 1
        /\ presence'.announced = TRUE /\ presence'.graceTimer = Never
    BY <1>1, <1>3, <1>4, <2>1 DEF Entry
  <2> QED
    BY <1>1, <1>2, <1>4, <2>2 DEF PresenceInv, TimerRight, SocketsCounted
<1>5. CASE presence.sockets = 1
  <2>1. presence' = [presence EXCEPT !.sockets = 0, !.lastSeenAt = instant,
                                     !.graceTimer = instant + Grace]
    BY <1>5 DEF HandleDisconnect
  <2>3. instant + Grace \in Nat /\ instant \in Nat /\ 0 \in Nat
    BY <1>1
  <2>4. presence \in Entry
    BY <1>1
  <2>2. /\ presence' \in Entry /\ presence'.sockets = 0 /\ presence'.announced = TRUE
        /\ presence'.lastSeenAt = instant /\ presence'.graceTimer = instant + Grace
    BY <1>3, <2>1, <2>3, <2>4, Zenon DEF Entry
  <2> QED
    BY <1>1, <1>2, <1>5, <2>2 DEF PresenceInv, TimerRight, SocketsCounted, Never
<1> QED
  BY <1>1, <1>2, <1>4, <1>5

\* The timer fires at the end of the period that the last disconnection began.
LEMMA GraceKeeps == ASSUME PresenceInv, GraceEnds PROVE PresenceInv'
<1>1. /\ presence \in Entry /\ presence.sockets \in Nat /\ instant' = instant /\ instant \in Nat
      /\ open' = open /\ Grace \in Nat /\ presence.announced \in BOOLEAN
      /\ presence.graceTimer # Never /\ presence.graceTimer <= instant
  BY StaffPresenceAssumption DEF GraceEnds, PresenceInv, Entry
<1>2. presence' = [presence EXCEPT !.graceTimer = Never, !.announced = FALSE]
  BY <1>1 DEF GraceEnds, Announce, StopTimer, Entry
<1>3. /\ presence' \in Entry /\ presence'.sockets = presence.sockets
      /\ presence'.lastSeenAt = presence.lastSeenAt /\ presence'.announced = FALSE
  BY <1>1, <1>2 DEF Entry
<1>4. presence.sockets = 0
  BY <1>1 DEF PresenceInv, TimerRight
<1>5. presence.lastSeenAt = Never \/ instant >= presence.lastSeenAt + Grace
  BY <1>1, <1>4 DEF PresenceInv, TimerRight
<1> QED
  BY <1>1, <1>3, <1>4, <1>5 DEF PresenceInv, TimerRight, SocketsCounted

\* A restart forgets the entry and the sockets together.
LEMMA RestartKeeps == ASSUME PresenceInv, RestartServer PROVE PresenceInv'
  BY FS_EmptySet DEF RestartServer, PresenceInv, NoEntry, Entry, Never, SocketsCounted, TimerRight

\* Time and phones leave the entry alone.
LEMMA RestKeeps ==
    ASSUME PresenceInv, UNCHANGED <<presence, open>>,
           instant' = instant \/ instant' = instant + 1
    PROVE  PresenceInv'
<1>1. /\ instant \in Nat /\ instant' \in Nat /\ instant' >= instant /\ Grace \in Nat
      /\ presence \in Entry /\ presence.lastSeenAt \in Nat \cup {Never}
  BY StaffPresenceAssumption DEF PresenceInv, Entry
<1>2. presence.lastSeenAt # Never /\ instant >= presence.lastSeenAt + Grace =>
          instant' >= presence.lastSeenAt + Grace
  BY <1>1
<1> QED
  BY <1>1, <1>2 DEF PresenceInv, TimerRight, SocketsCounted

\* Every step keeps the count, the timer and what was announced in line.
LEMMA PresenceKept == PresenceInv /\ [StaffPresenceNext]_staffPresenceVars => PresenceInv'
<1> SUFFICES ASSUME PresenceInv, [StaffPresenceNext]_staffPresenceVars PROVE PresenceInv'
    OBVIOUS
<1>1. CASE \E s \in Panels : HandleConnection(s) \/ HandleDisconnect(s)
  BY <1>1, ConnectionKeeps, DisconnectionKeeps
<1>2. CASE \E d \in Diners : Link(d) \/ PollPresence(d)
  BY <1>2, RestKeeps DEF Link, PollPresence
<1>3. CASE GraceEnds
  BY <1>3, GraceKeeps
<1>4. CASE RestartServer
  BY <1>4, RestartKeeps
<1>5. CASE TimePasses
  BY <1>5, RestKeeps DEF TimePasses
<1>6. CASE UNCHANGED staffPresenceVars
  BY <1>6, RestKeeps DEF staffPresenceVars
<1> QED
  BY <1>1, <1>2, <1>3, <1>4, <1>5, <1>6 DEF StaffPresenceNext

\* Nobody is told that the restaurant is offline while it takes requests, and
\* when it takes none that is announced or due (StaffPresenceService).
THEOREM TwoAnswersAgreeAlways == StaffPresenceSpec => []TwoAnswersAgree
  BY PresenceInitially, PresenceKept, PresenceAgrees, PTL DEF StaffPresenceSpec

\* The counter of sockets never falls below zero, a timer that runs has an
\* instant to end at, and every phone shows either of the two answers
\* (StaffPresenceService, handleDisconnect).
THEOREM StaffPresenceTypes == StaffPresenceSpec => []StaffPresenceTypeOK
<1>1. StaffPresenceInit => StaffPresenceTypeOK
  BY StaffPresenceAssumption DEF StaffPresenceInit, StaffPresenceTypeOK, NoEntry, Entry, Never
<1>2. PresenceInv /\ PresenceInv' /\ StaffPresenceTypeOK /\ [StaffPresenceNext]_staffPresenceVars
          => StaffPresenceTypeOK'
  <2> SUFFICES ASSUME PresenceInv, PresenceInv', StaffPresenceTypeOK,
                      [StaffPresenceNext]_staffPresenceVars
               PROVE  StaffPresenceTypeOK'
      OBVIOUS
  <2>1. presence \in Entry /\ presence' \in Entry /\ instant \in Nat
    BY DEF PresenceInv
  <2>2. ASSUME NEW entry, NEW online \in BOOLEAN, Announce(entry, online)
        PROVE  told' \in [Diners -> BOOLEAN]
    BY <2>2 DEF Announce, StaffPresenceTypeOK
  <2>3. CASE \E s \in Panels : HandleConnection(s)
    BY <2>1, <2>2, <2>3 DEF HandleConnection, StaffPresenceTypeOK
  <2>4. CASE \E s \in Panels : HandleDisconnect(s)
    BY <2>1, <2>4 DEF HandleDisconnect, StaffPresenceTypeOK
  <2>5. CASE \E d \in Diners : Link(d)
    BY <2>1, <2>5 DEF Link, StaffPresenceTypeOK
  <2>6. CASE \E d \in Diners : PollPresence(d)
    <3>1. IsOnline \in BOOLEAN
      BY DEF IsOnline, IsStaffOnline
    <3> QED
      BY <2>1, <2>6, <3>1 DEF PollPresence, StaffPresenceTypeOK
  <2>7. CASE GraceEnds
    BY <2>1, <2>2, <2>7 DEF GraceEnds, StaffPresenceTypeOK
  <2>8. CASE RestartServer
    BY <2>1, <2>8 DEF RestartServer, StaffPresenceTypeOK
  <2>9. CASE TimePasses
    <3>1. instant' \in 0..MaxInstant
      BY <2>1, <2>9, StaffPresenceAssumption DEF TimePasses
    <3> QED
      BY <2>1, <2>9, <3>1 DEF TimePasses, StaffPresenceTypeOK
  <2>10. CASE UNCHANGED staffPresenceVars
    BY <2>10 DEF staffPresenceVars, StaffPresenceTypeOK
  <2> QED
    BY <2>3, <2>4, <2>5, <2>6, <2>7, <2>8, <2>9, <2>10 DEF StaffPresenceNext
<1> QED
  BY <1>1, <1>2, PresenceInitially, PresenceKept, PTL DEF StaffPresenceSpec

-----------------------------------------------------------------------------
(***************************************************************************)
(* Proofs about StaffPanel, for any number of requests, orders and reloads *)
(* under way: no request comes up in silence, whatever the order in which  *)
(* reloads are answered, and no order is cancelled by a close that did not *)
(* tell of orders.  What the reloads carry does not matter for the first;  *)
(* what the panel knew when it rang last does.                             *)
(***************************************************************************)

-----------------------------------------------------------------------------
(* What rings. *)

\* What the next answer is compared with has rung, or nothing was read yet.
SeenWasHeard == seen.primed => seen.requests \subseteq heard

RingsInv == EveryRequestRings /\ SeenWasHeard

\* Nothing is shown and nothing is known at the start, and after a reload of
\* the page.
LEMMA NothingOnScreen ==
    ASSUME screen = Blank, seen = NothingSeen
    PROVE  RingsInv
  BY DEF RingsInv, EveryRequestRings, SeenWasHeard, Blank, NothingSeen, Ids

\* The answer to a reload rings for what was not in the answer before it.
LEMMA AppliedRings ==
    ASSUME RingsInv, NEW r, ApplyReload(r)
    PROVE  RingsInv'
<1>1. /\ screen' = r /\ heard' = heard \cup Newcomers(r)
      /\ seen'.requests = Ids(r.requests)
  BY DEF ApplyReload
<1>2. Ids(r.requests) \subseteq heard'
  <2>1. CASE seen.primed
    BY <1>1, <2>1 DEF RingsInv, SeenWasHeard, Newcomers
  <2>2. CASE ~seen.primed
    BY <1>1, <2>2 DEF Newcomers
  <2> QED
    BY <2>1, <2>2
<1>3. Ids(screen.requests)' = Ids(r.requests)
  BY <1>1 DEF Ids
<1> QED
  BY <1>1, <1>2, <1>3 DEF RingsInv, EveryRequestRings, SeenWasHeard

\* What leaves the screen and the memory of the panel alone rings for nothing
\* and needs to ring for nothing.
LEMMA QuietKeeps ==
    ASSUME RingsInv, UNCHANGED <<screen, seen, heard>>
    PROVE  RingsInv'
  BY DEF RingsInv, EveryRequestRings, SeenWasHeard, Ids

\* The buttons change the table, start a reload and ask for confirmation.
LEMMA ButtonsAreQuiet ==
    ASSUME Operator \/ Confirm \/ Dismiss
    PROVE  UNCHANGED <<screen, seen, heard>>
<1>1. CASE Confirm
  BY <1>1 DEF Confirm, Close, CancelOrder, Run
<1>2. CASE Dismiss
  BY <1>2 DEF Dismiss
<1>3. CASE Operator
  <2>1. ASSUME NEW row \in screen.requests, RequestCard(row)
        PROVE  UNCHANGED <<screen, seen, heard>>
    BY <2>1 DEF RequestCard, RejectRow, ApproveRow, Run
  <2>2. ASSUME NEW row \in screen.orders, OrderCard(row)
        PROVE  UNCHANGED <<screen, seen, heard>>
    BY <2>2 DEF OrderCard, AcknowledgeOrder, AskFirst, Run
  <2>3. ASSUME BillCard PROVE UNCHANGED <<screen, seen, heard>>
    BY <2>3 DEF BillCard, AcknowledgeBill, AskToClose, AskFirst, Run
  <2>4. ASSUME TableDetail PROVE UNCHANGED <<screen, seen, heard>>
    BY <2>4 DEF TableDetail, OpenTable, AskToClose, AskFirst, Run
  <2> QED
    BY <1>3, <2>1, <2>2, <2>3, <2>4 DEF Operator
<1> QED
  BY <1>1, <1>2, <1>3

\* The server and the other people at it are not at the desk.
LEMMA OthersAreQuiet ==
    ASSUME Others
    PROVE  UNCHANGED atDesk
  BY DEF Others, OpenRequested, CustomerOrders, WaiterOrders, AskBill, WithdrawBill, FallAsleep,
         ExpireRequest

\* Every step of the panel keeps what rang.
LEMMA RingsKept == RingsInv /\ [StaffPanelNext]_staffPanelVars => RingsInv'
<1> SUFFICES ASSUME RingsInv, [StaffPanelNext]_staffPanelVars PROVE RingsInv'
    OBVIOUS
<1>1. CASE Others
  BY <1>1, OthersAreQuiet, QuietKeeps DEF atDesk
<1>2. CASE Operator \/ Confirm \/ Dismiss
  BY <1>2, ButtonsAreQuiet, QuietKeeps
<1>3. CASE BeginReload \/ Retry
  BY <1>3, QuietKeeps DEF BeginReload, Retry
<1>4. CASE Mount
  <2>1. screen' = Blank /\ seen' = NothingSeen
    BY <1>4 DEF Mount
  <2> QED
    BY <2>1 DEF RingsInv, EveryRequestRings, SeenWasHeard, Blank, NothingSeen, Ids
<1>5. ASSUME NEW r \in reloads, Read(r) \/ FailReload(r) PROVE RingsInv'
  BY <1>5, QuietKeeps DEF Read, FailReload
<1>6. ASSUME NEW r \in reloads, ApplyReload(r) PROVE RingsInv'
  BY <1>6, AppliedRings
<1>7. CASE UNCHANGED staffPanelVars
  BY <1>7, QuietKeeps DEF staffPanelVars, atDesk
<1> QED
  BY <1>1, <1>2, <1>3, <1>4, <1>5, <1>6, <1>7 DEF StaffPanelNext

\* A request that is on the screen has rung, or was there when the page was
\* opened, however reloads overtake each other (loadAll and the memory of what
\* was announced in staff/page.tsx).
THEOREM EveryRequestRingsAlways == StaffPanelSpec => []EveryRequestRings
<1>1. StaffPanelInit => RingsInv
  BY NothingOnScreen DEF StaffPanelInit
<1>2. RingsInv => EveryRequestRings
  BY DEF RingsInv
<1> QED
  BY <1>1, <1>2, RingsKept, PTL DEF StaffPanelSpec

-----------------------------------------------------------------------------
(* What the rows, the reads and the dialog are. *)

\* Only a session that there has been is alive or asks for the bill: an order
\* is written with its number, and a dialog about it names it.
Numbered(table) == table.status # "none" \/ table.bill # "none" => table.number > 0

\* Each of the three reads of a reload is of its type or still to come.
ReloadRow == [table : StaffTable \cup {NotRead}, requests : (SUBSET StaffRequest) \cup {NotRead},
              orders : (SUBSET StaffOrder) \cup {NotRead}]

TableRows ==
    /\ visit \in Visit /\ Numbered(visit)
    /\ queue \in Seq(RequestRow) /\ Len(queue) <= MaxRequests
    /\ placed \in Seq(OrderRow) /\ Len(placed) <= MaxOrders

DeskRows ==
    /\ screen \in [table : StaffTable, requests : SUBSET StaffRequest, orders : SUBSET StaffOrder]
    /\ Numbered(screen.table)
    /\ \A r \in reloads : r \in ReloadRow /\ (r.table # NotRead => Numbered(r.table))
    /\ seen \in [requests : SUBSET (1..MaxRequests), orders : SUBSET (1..MaxOrders),
                 bills : SUBSET (1..MaxVisits), primed : BOOLEAN]
    /\ heard \subseteq 1..MaxRequests
    /\ failures \in 0..OfflineAfter
    /\ dialog \in Dialog

PanelRows == TableRows /\ DeskRows

\* A rewritten sequence has its rows in the places of the old one.
LEMMA RowsRewritten ==
    ASSUME NEW Row, NEW rows \in Seq(Row), NEW new, DOMAIN new = DOMAIN rows,
           new = [j \in DOMAIN rows |-> new[j]], \A j \in DOMAIN rows : new[j] \in Row
    PROVE  new \in Seq(Row) /\ Len(new) = Len(rows)
<1>1. DOMAIN rows = 1..Len(rows) /\ Len(rows) \in Nat
  BY LenProperties
<1>2. new \in [1..Len(rows) -> Row]
  BY <1>1
<1> QED
  BY <1>1, <1>2

\* A row that is appended is one more.
LEMMA RowAppended ==
    ASSUME NEW Row, NEW rows \in Seq(Row), NEW row \in Row
    PROVE  Append(rows, row) \in Seq(Row) /\ Len(Append(rows, row)) = Len(rows) + 1
  OBVIOUS

\* A change of the status of an order, which may be of no order.
LEMMA StatusOfOrder ==
    ASSUME placed \in Seq(OrderRow), NEW o, NEW status \in {"acknowledged", "cancelled"}
    PROVE  WithOrder(o, status) \in Seq(OrderRow) /\ Len(WithOrder(o, status)) = Len(placed)
<1> DEFINE new == WithOrder(o, status)
<1>1. \A j \in DOMAIN placed : placed[j] \in OrderRow
  BY ElementOfSeq, LenProperties
<1>2. \A j \in DOMAIN placed : [placed[j] EXCEPT !.status = status] \in OrderRow
  BY <1>1 DEF OrderRow
<1>3. /\ DOMAIN new = DOMAIN placed /\ new = [j \in DOMAIN placed |-> new[j]]
      /\ \A j \in DOMAIN placed : new[j] \in OrderRow
  BY <1>1, <1>2 DEF WithOrder
<1> HIDE DEF new
<1>4. new \in Seq(OrderRow) /\ Len(new) = Len(placed)
  BY <1>3, RowsRewritten
<1> QED
  BY <1>4 DEF new

\* A change of the status of a request, which may be of none.
LEMMA StatusOfRequest ==
    ASSUME queue \in Seq(RequestRow), NEW i, NEW status \in {"rejected", "expired"}
    PROVE  /\ [queue EXCEPT ![i].status = status] \in Seq(RequestRow)
           /\ Len([queue EXCEPT ![i].status = status]) = Len(queue)
<1> DEFINE new == [queue EXCEPT ![i].status = status]
<1>1. \A j \in DOMAIN queue : queue[j] \in RequestRow
  BY ElementOfSeq, LenProperties
<1>2. \A j \in DOMAIN queue : [queue[j] EXCEPT !.status = status] \in RequestRow
  BY <1>1 DEF RequestRow
<1>3. /\ DOMAIN new = DOMAIN queue /\ new = [j \in DOMAIN queue |-> new[j]]
      /\ \A j \in DOMAIN queue : new[j] = IF j = i THEN [queue[j] EXCEPT !.status = status] ELSE queue[j]
  OBVIOUS
<1> HIDE DEF new
<1>4. \A j \in DOMAIN queue : new[j] \in RequestRow
  BY <1>1, <1>2, <1>3
<1>5. new \in Seq(RequestRow) /\ Len(new) = Len(queue)
  BY <1>3, <1>4, RowsRewritten
<1> QED
  BY <1>5 DEF new

\* Customers, waiters and jobs leave rows as they must be.
LEMMA OthersWriteRows == ASSUME TableRows, Others PROVE TableRows'
<1>1. /\ visit \in Visit /\ Numbered(visit) /\ queue \in Seq(RequestRow) /\ placed \in Seq(OrderRow)
      /\ Len(queue) \in Nat /\ Len(placed) \in Nat /\ Len(queue) <= MaxRequests /\ Len(placed) <= MaxOrders
      /\ {MaxVisits, MaxRequests, MaxOrders} \subseteq Nat
      /\ visit.number \in 0..MaxVisits
  BY LenProperties, StaffPanelAssumption DEF TableRows, Visit
<1>2. ASSUME Len(queue) < MaxRequests, NEW row \in RequestRow, queue' = Append(queue, row)
      PROVE  queue' \in Seq(RequestRow) /\ Len(queue)' <= MaxRequests
  BY <1>1, <1>2, RowAppended
<1>3. ASSUME visit.status # "none", Len(placed) < MaxOrders,
             NEW status \in {"waiting", "submitted"}, PlaceOrder(status)
      PROVE  placed' \in Seq(OrderRow) /\ Len(placed)' <= MaxOrders
  <2> DEFINE row == [visit |-> visit.number, status |-> status]
  <2>1. row \in OrderRow
    BY <1>1, <1>3 DEF OrderRow, Numbered
  <2>2. placed' = Append(placed, row)
    BY <1>3 DEF PlaceOrder
  <2> HIDE DEF row
  <2> QED
    BY <1>1, <1>3, <2>1, <2>2, RowAppended
<1>4. CASE OpenRequested
  <2>1. [type |-> "open_session", order |-> 0, status |-> "pending"] \in RequestRow
    BY <1>1 DEF RequestRow
  <2> QED
    BY <1>1, <1>2, <1>4, <2>1 DEF OpenRequested, TableRows
<1>5. CASE CustomerOrders
  <2>1. [type |-> "resume_session", order |-> Len(placed) + 1, status |-> "pending"] \in RequestRow
        \/ ~(Len(placed) < MaxOrders)
    BY <1>1 DEF RequestRow
  <2>2. placed' \in Seq(OrderRow) /\ Len(placed)' <= MaxOrders
    BY <1>3, <1>5 DEF CustomerOrders
  <2>3. queue' \in Seq(RequestRow) /\ Len(queue)' <= MaxRequests
    BY <1>1, <1>2, <1>5, <2>1 DEF CustomerOrders
  <2> QED
    BY <1>1, <1>5, <2>2, <2>3 DEF CustomerOrders, TableRows
<1>6. CASE WaiterOrders
  <2>1. placed' \in Seq(OrderRow) /\ Len(placed)' <= MaxOrders
    BY <1>3, <1>6 DEF WaiterOrders
  <2>2. visit' \in Visit /\ Numbered(visit)'
    BY <1>1, <1>6 DEF WaiterOrders, Visit, Numbered
  <2> QED
    BY <1>1, <1>6, <2>1, <2>2 DEF WaiterOrders, TableRows
<1>7. CASE AskBill \/ WithdrawBill \/ FallAsleep
  <2>1. visit' \in Visit /\ Numbered(visit)'
    BY <1>1, <1>7 DEF AskBill, WithdrawBill, FallAsleep, Visit, Numbered
  <2> QED
    BY <1>1, <1>7, <2>1 DEF AskBill, WithdrawBill, FallAsleep, TableRows
<1>8. ASSUME NEW i \in DOMAIN queue, ExpireRequest(i) PROVE TableRows'
  BY <1>1, <1>8, StatusOfRequest, StatusOfOrder DEF ExpireRequest, TableRows
<1> QED
  BY <1>4, <1>5, <1>6, <1>7, <1>8 DEF Others

\* What a read brings is of its type, whenever the server comes to it.
LEMMA ReadsAreRows ==
    ASSUME TableRows
    PROVE  /\ StaffTables \in StaffTable /\ Numbered(StaffTables)
           /\ StaffRequests \subseteq StaffRequest
           /\ StaffOrders \subseteq StaffOrder
<1>1. /\ visit \in Visit /\ Numbered(visit) /\ queue \in Seq(RequestRow) /\ placed \in Seq(OrderRow)
      /\ Len(queue) \in Nat /\ Len(placed) \in Nat /\ Len(queue) <= MaxRequests /\ Len(placed) <= MaxOrders
      /\ {MaxVisits, MaxRequests, MaxOrders} \subseteq Nat
      /\ DOMAIN queue = 1..Len(queue) /\ DOMAIN placed = 1..Len(placed)
  BY LenProperties, StaffPanelAssumption DEF TableRows
<1>2. /\ visit.number \in 0..MaxVisits /\ visit.status \in {"none", "active", "inactive"}
      /\ visit.bill \in {"none", "asked", "acknowledged"}
  BY <1>1 DEF Visit
<1>3. Cardinality(Unacknowledged(visit.number)) \in 0..MaxOrders
  <2>1. Unacknowledged(visit.number) \in SUBSET (1..Len(placed))
    BY <1>1 DEF Unacknowledged
  <2>2. IsFiniteSet(1..Len(placed)) /\ Cardinality(1..Len(placed)) = Len(placed)
    <3>1. 1 \in Int /\ Len(placed) \in Int
      BY <1>1
    <3>2. /\ IsFiniteSet(1..Len(placed))
          /\ Cardinality(1..Len(placed)) = IF 1 > Len(placed) THEN 0 ELSE Len(placed) - 1 + 1
      BY <3>1, FS_Interval, Zenon
    <3> QED
      BY <1>1, <3>2
  <2>3. /\ IsFiniteSet(Unacknowledged(visit.number))
        /\ Cardinality(Unacknowledged(visit.number)) <= Len(placed)
    BY <2>1, <2>2, FS_Subset
  <2>4. Cardinality(Unacknowledged(visit.number)) \in Nat
    BY <2>3, FS_CardinalityType
  <2> QED
    BY <1>1, <2>3, <2>4
<1>4. StaffTables \in StaffTable /\ Numbered(StaffTables)
  <2>1. 0 \in 0..MaxOrders
    BY <1>1
  <2> QED
    BY <1>1, <1>2, <1>3, <2>1 DEF StaffTables, StaffTable, Numbered
<1>5. StaffRequests \subseteq StaffRequest
  BY <1>1, <1>2 DEF StaffRequests, StaffRequest
<1>6. StaffOrders \subseteq StaffOrder
  BY <1>1 DEF StaffOrders, StaffOrder
<1> QED
  BY <1>4, <1>5, <1>6

\* A reload that begins has read nothing.
LEMMA NothingRead == Unread \in ReloadRow /\ Unread.table = NotRead
<1>1. /\ NotRead \in StaffTable \cup {NotRead} /\ NotRead \in (SUBSET StaffRequest) \cup {NotRead}
      /\ NotRead \in (SUBSET StaffOrder) \cup {NotRead}
  BY Zenon
<1> QED
  BY <1>1, Zenon DEF Unread, ReloadRow

\* A reload that begins changes nothing on the page but the question.
LEMMA ReloadBegins ==
    ASSUME DeskRows, reloads' = reloads \cup {Unread}, dialog' \in Dialog,
           UNCHANGED <<screen, seen, heard, failures>>
    PROVE  DeskRows'
  BY NothingRead DEF DeskRows

\* One of the reads of a reload is answered.
LEMMA ReadArrives ==
    ASSUME PanelRows, NEW r \in reloads, Read(r)
    PROVE  DeskRows'
<1>1. r \in ReloadRow /\ (r.table # NotRead => Numbered(r.table))
  BY DEF PanelRows, DeskRows
<1>2. /\ StaffTables \in StaffTable /\ Numbered(StaffTables)
      /\ StaffRequests \subseteq StaffRequest /\ StaffOrders \subseteq StaffOrder
  BY ReadsAreRows DEF PanelRows
<1>3. /\ [r EXCEPT !.table = StaffTables] \in ReloadRow
      /\ [r EXCEPT !.table = StaffTables].table = StaffTables
  BY <1>1, <1>2 DEF ReloadRow
<1>4. /\ [r EXCEPT !.requests = StaffRequests] \in ReloadRow
      /\ [r EXCEPT !.requests = StaffRequests].table = r.table
  BY <1>1, <1>2 DEF ReloadRow
<1>5. /\ [r EXCEPT !.orders = StaffOrders] \in ReloadRow
      /\ [r EXCEPT !.orders = StaffOrders].table = r.table
  BY <1>1, <1>2 DEF ReloadRow
<1>6. \A q \in reloads' : q \in ReloadRow /\ (q.table # NotRead => Numbered(q.table))
  <2>1. /\ reloads' \subseteq reloads \cup {[r EXCEPT !.table = StaffTables],
             [r EXCEPT !.requests = StaffRequests], [r EXCEPT !.orders = StaffOrders]}
    BY DEF Read
  <2>2. \A q \in reloads : q \in ReloadRow /\ (q.table # NotRead => Numbered(q.table))
    BY DEF PanelRows, DeskRows
  <2> QED
    BY <1>1, <1>2, <1>3, <1>4, <1>5, <2>1, <2>2
<1> QED
  BY <1>6 DEF Read, PanelRows, DeskRows

\* A reload that has read everything is what the panel shows from then on.
LEMMA ReloadShown ==
    ASSUME DeskRows, NEW r \in reloads, ApplyReload(r)
    PROVE  DeskRows'
<1>1. /\ r \in ReloadRow /\ Numbered(r.table)
      /\ r.table # NotRead /\ r.requests # NotRead /\ r.orders # NotRead
  BY DEF DeskRows, ApplyReload
<1>2. /\ r \in [table : StaffTable, requests : SUBSET StaffRequest, orders : SUBSET StaffOrder]
  BY <1>1 DEF ReloadRow
<1>3. Ids(r.requests) \subseteq 1..MaxRequests /\ Submitted(r.orders) \subseteq 1..MaxOrders
  BY <1>2 DEF Ids, Submitted, StaffRequest, StaffOrder
<1>4. BillsOf(r.table) \subseteq 1..MaxVisits
  BY <1>1, <1>2, StaffPanelAssumption DEF BillsOf, StaffTable, Numbered
<1>5. seen' \in [requests : SUBSET (1..MaxRequests), orders : SUBSET (1..MaxOrders),
                 bills : SUBSET (1..MaxVisits), primed : BOOLEAN]
  BY <1>3, <1>4 DEF ApplyReload
<1>6. heard' \subseteq 1..MaxRequests
  BY <1>3 DEF ApplyReload, DeskRows, Newcomers
<1>7. failures' \in 0..OfflineAfter
  BY DEF ApplyReload, OfflineAfter
<1> QED
  BY <1>1, <1>2, <1>5, <1>6, <1>7 DEF ApplyReload, DeskRows

\* What a page that is opened has on it.
LEMMA EmptyDesk ==
    /\ Blank \in [table : StaffTable, requests : SUBSET StaffRequest, orders : SUBSET StaffOrder]
    /\ Numbered(Blank.table)
    /\ NothingSeen \in [requests : SUBSET (1..MaxRequests), orders : SUBSET (1..MaxOrders),
                        bills : SUBSET (1..MaxVisits), primed : BOOLEAN]
    /\ Unread \in ReloadRow /\ Unread.table = NotRead
    /\ 0 \in 0..OfflineAfter /\ NoDialog \in Dialog
<1>1. Blank \in [table : StaffTable, requests : SUBSET StaffRequest, orders : SUBSET StaffOrder]
  BY StaffPanelAssumption DEF Blank, StaffTable
<1>2. Numbered(Blank.table)
  BY DEF Blank, Numbered
<1>3. NothingSeen \in [requests : SUBSET (1..MaxRequests), orders : SUBSET (1..MaxOrders),
                       bills : SUBSET (1..MaxVisits), primed : BOOLEAN]
  BY DEF NothingSeen
<1> QED
  BY <1>1, <1>2, <1>3, NothingRead DEF NoDialog, Dialog, OfflineAfter

\* The operator is asked about the session, or an order, that is shown.
LEMMA AskedOfRows ==
    ASSUME DeskRows, NEW about, NEW id, NEW left, AskFirst(about, id, left),
           [about |-> about, id |-> id, left |-> left] \in Dialog
    PROVE  DeskRows' /\ UNCHANGED atTable
  BY DEF AskFirst, DeskRows

\* An approval leaves a session with a number, and its order in it.
LEMMA ApprovalWritesRows ==
    ASSUME TableRows, NEW row, NEW resolution, ApproveRow(row, resolution)
    PROVE  TableRows'
<1> DEFINE i == row.id
           o == queue[i].order
           renew == visit.status = "none" \/ resolution = "new_session"
<1>1. /\ visit \in Visit /\ Numbered(visit) /\ queue \in Seq(RequestRow) /\ placed \in Seq(OrderRow)
      /\ visit.number \in 0..MaxVisits /\ MaxVisits \in Nat
      /\ \A j \in DOMAIN queue : queue[j] \in RequestRow
      /\ \A j \in DOMAIN placed : placed[j] \in OrderRow
  BY LenProperties, ElementOfSeq, StaffPanelAssumption DEF TableRows, Visit
<1>2. /\ Approvable(i, resolution) /\ queue' = ApprovedQueue(i)
      /\ visit' = IF renew THEN NewVisit(visit.number + 1) ELSE [visit EXCEPT !.status = "active"]
      /\ placed' = [j \in DOMAIN placed |->
                       IF j = o THEN [visit |-> visit'.number, status |-> "submitted"] ELSE placed[j]]
  BY DEF ApproveRow
<1>3. renew => visit.number < MaxVisits
  BY <1>1, <1>2 DEF Approvable, Visit
<1>4. visit' \in Visit /\ Numbered(visit)' /\ visit'.number \in 1..MaxVisits
  <2>1. CASE renew
    <3>1. visit.number + 1 \in 1..MaxVisits
      BY <1>1, <1>3, <2>1
    <3> QED
      BY <1>2, <2>1, <3>1 DEF NewVisit, Visit, Numbered
  <2>2. CASE ~renew
    <3>1. visit.number \in 1..MaxVisits
      BY <1>1, <2>2 DEF Numbered
    <3> QED
      BY <1>1, <1>2, <2>2, <3>1 DEF Visit, Numbered
  <2> QED
    BY <2>1, <2>2
<1>5. queue' \in Seq(RequestRow) /\ Len(queue)' = Len(queue)
  <2>1. \A j \in DOMAIN queue : [queue[j] EXCEPT !.status = "approved"] \in RequestRow
                             /\ [queue[j] EXCEPT !.status = "expired"] \in RequestRow
    BY <1>1 DEF RequestRow
  <2>2. /\ DOMAIN queue' = DOMAIN queue /\ queue' = [j \in DOMAIN queue |-> queue'[j]]
        /\ \A j \in DOMAIN queue : queue'[j] \in RequestRow
    BY <1>1, <1>2, <2>1 DEF ApprovedQueue
  <2> QED
    BY <1>1, <2>2, RowsRewritten
<1>6. placed' \in Seq(OrderRow) /\ Len(placed)' = Len(placed)
  <2>1. [visit |-> visit'.number, status |-> "submitted"] \in OrderRow
    BY <1>4 DEF OrderRow
  <2>2. /\ DOMAIN placed' = DOMAIN placed /\ placed' = [j \in DOMAIN placed |-> placed'[j]]
        /\ \A j \in DOMAIN placed : placed'[j] \in OrderRow
    BY <1>1, <1>2, <2>1
  <2> QED
    BY <1>1, <2>2, RowsRewritten
<1> QED
  BY <1>4, <1>5, <1>6 DEF TableRows

\* The staff opens a table, and its requests expire.
LEMMA OpeningWritesRows == ASSUME TableRows, OpenTable PROVE TableRows'
<1>1. /\ queue \in Seq(RequestRow) /\ visit \in Visit /\ MaxVisits \in Nat /\ visit.number \in 0..MaxVisits
      /\ \A j \in DOMAIN queue : queue[j] \in RequestRow
  BY LenProperties, ElementOfSeq, StaffPanelAssumption DEF TableRows, Visit
<1>2. visit' \in Visit /\ Numbered(visit)'
  <2>1. visit.number + 1 \in 0..MaxVisits /\ visit.number + 1 > 0
    BY <1>1 DEF OpenTable
  <2> QED
    BY <2>1 DEF OpenTable, NewVisit, Visit, Numbered
<1>3. queue' \in Seq(RequestRow) /\ Len(queue)' = Len(queue)
  <2>1. \A j \in DOMAIN queue : [queue[j] EXCEPT !.status = "expired"] \in RequestRow
    BY <1>1 DEF RequestRow
  <2>2. /\ DOMAIN queue' = DOMAIN queue /\ queue' = [j \in DOMAIN queue |-> queue'[j]]
        /\ \A j \in DOMAIN queue : queue'[j] \in RequestRow
    BY <1>1, <2>1 DEF OpenTable
  <2> QED
    BY <1>1, <2>2, RowsRewritten
<1> QED
  BY <1>2, <1>3 DEF OpenTable, TableRows

\* A close cancels what is left of the orders of the session.
LEMMA CloseWritesRows ==
    ASSUME TableRows, NEW n, NEW force, Close(n, force)
    PROVE  TableRows'
<1>1. /\ placed \in Seq(OrderRow) /\ visit \in Visit
      /\ \A j \in DOMAIN placed : placed[j] \in OrderRow
  BY LenProperties, ElementOfSeq DEF TableRows
<1>2. visit' \in Visit /\ Numbered(visit)'
  BY <1>1 DEF Close, Visit, Numbered
<1>3. placed' \in Seq(OrderRow) /\ Len(placed)' = Len(placed)
  <2>1. \A j \in DOMAIN placed : [placed[j] EXCEPT !.status = "cancelled"] \in OrderRow
    BY <1>1 DEF OrderRow
  <2>2. /\ DOMAIN placed' = DOMAIN placed /\ placed' = [j \in DOMAIN placed |-> placed'[j]]
        /\ \A j \in DOMAIN placed : placed'[j] \in OrderRow
    BY <1>1, <2>1 DEF Close
  <2> QED
    BY <1>1, <2>2, RowsRewritten
<1> QED
  BY <1>2, <1>3 DEF Close, TableRows

\* The buttons, the confirmation and its refusal.
LEMMA ButtonsWriteRows ==
    ASSUME PanelRows, Operator \/ Confirm \/ Dismiss
    PROVE  PanelRows'
<1>1. TableRows /\ DeskRows /\ NoDialog \in Dialog
  BY DEF PanelRows, NoDialog, Dialog
<1>2. ASSUME Run PROVE DeskRows'
  BY <1>1, <1>2, ReloadBegins DEF Run
<1>3. /\ screen.table \in StaffTable /\ Numbered(screen.table)
      /\ screen.orders \subseteq StaffOrder /\ MaxVisits \in Nat
  BY <1>1, StaffPanelAssumption DEF DeskRows
<1>4. ASSUME AskToClose, screen.table.status # "none" \/ screen.table.bill # "none" PROVE PanelRows'
  <2>1. /\ screen.table.number \in 1..MaxVisits /\ screen.table.unacknowledged \in 0..MaxOrders
    BY <1>3, <1>4 DEF StaffTable, Numbered
  <2>2. [about |-> "session", id |-> screen.table.number, left |-> screen.table.unacknowledged] \in Dialog
    BY <2>1 DEF Dialog
  <2>3. DeskRows' /\ UNCHANGED atTable
    BY <1>1, <1>4, <2>2, AskedOfRows DEF AskToClose
  <2> QED
    BY <1>1, <2>3 DEF PanelRows, TableRows, atTable
<1>5. ASSUME NEW o, CancelOrder(o) PROVE PanelRows'
  BY <1>1, <1>2, <1>5, StatusOfOrder DEF CancelOrder, TableRows, PanelRows
<1>6. ASSUME NEW n, NEW force, Close(n, force) PROVE PanelRows'
  <2>1. DeskRows'
    BY <1>2, <1>6 DEF Close
  <2> QED
    BY <1>1, <1>6, <2>1, CloseWritesRows DEF PanelRows
<1>7. CASE Confirm
  BY <1>5, <1>6, <1>7 DEF Confirm
<1>8. CASE Dismiss
  BY <1>1, <1>8 DEF Dismiss, PanelRows, TableRows, DeskRows, atTable
<1>9. ASSUME NEW row \in screen.requests, RequestCard(row) PROVE PanelRows'
  <2>1. CASE RejectRow(row)
    <3>1. DeskRows'
      BY <1>2, <2>1 DEF RejectRow
    <3>2. TableRows'
      BY <1>1, <2>1, StatusOfOrder, StatusOfRequest DEF RejectRow, TableRows
    <3> QED
      BY <3>1, <3>2 DEF PanelRows
  <2>2. ASSUME NEW resolution, ApproveRow(row, resolution) PROVE PanelRows'
    <3>1. DeskRows'
      BY <1>2, <2>2 DEF ApproveRow
    <3> QED
      BY <1>1, <2>2, <3>1, ApprovalWritesRows DEF PanelRows
  <2> QED
    BY <1>9, <2>1, <2>2 DEF RequestCard
<1>10. ASSUME NEW row \in screen.orders, OrderCard(row) PROVE PanelRows'
  <2>1. CASE AcknowledgeOrder(row)
    <3>1. DeskRows'
      BY <1>2, <2>1 DEF AcknowledgeOrder
    <3>2. TableRows'
      BY <1>1, <2>1, StatusOfOrder DEF AcknowledgeOrder, TableRows
    <3> QED
      BY <3>1, <3>2 DEF PanelRows
  <2>2. CASE AskFirst("order", row.id, 0)
    <3>1. row.id \in 1..MaxOrders
      BY <1>3, <1>10 DEF StaffOrder
    <3>2. [about |-> "order", id |-> row.id, left |-> 0] \in Dialog
      BY <3>1 DEF Dialog
    <3>3. DeskRows' /\ UNCHANGED atTable
      BY <1>1, <2>2, <3>2, AskedOfRows
    <3> QED
      BY <1>1, <3>3 DEF PanelRows, TableRows, atTable
  <2> QED
    BY <1>10, <2>1, <2>2 DEF OrderCard
<1>11. ASSUME BillCard PROVE PanelRows'
  <2>1. CASE AcknowledgeBill
    <3>1. DeskRows'
      BY <1>2, <2>1 DEF AcknowledgeBill
    <3>2. visit' \in Visit /\ Numbered(visit)'
      BY <1>1, <2>1 DEF AcknowledgeBill, TableRows, Visit, Numbered
    <3> QED
      BY <1>1, <2>1, <3>1, <3>2 DEF AcknowledgeBill, TableRows, PanelRows
  <2> QED
    BY <1>4, <1>11, <2>1 DEF BillCard
<1>12. ASSUME TableDetail PROVE PanelRows'
  <2>1. CASE OpenTable
    <3>1. DeskRows'
      BY <1>2, <2>1 DEF OpenTable
    <3> QED
      BY <1>1, <2>1, <3>1, OpeningWritesRows DEF PanelRows
  <2> QED
    BY <1>4, <1>12, <2>1 DEF TableDetail
<1> QED
  BY <1>7, <1>8, <1>9, <1>10, <1>11, <1>12 DEF Operator

\* Every step leaves rows, reads and dialog as they must be.
LEMMA RowsKept == PanelRows /\ [StaffPanelNext]_staffPanelVars => PanelRows'
<1> SUFFICES ASSUME PanelRows, [StaffPanelNext]_staffPanelVars PROVE PanelRows'
    OBVIOUS
<1>1. TableRows /\ DeskRows
  BY DEF PanelRows
<1>2. ASSUME UNCHANGED atTable PROVE TableRows'
  BY <1>1, <1>2 DEF atTable, TableRows
<1>3. CASE Others
  <2>1. UNCHANGED atDesk
    BY <1>3, OthersAreQuiet
  <2> QED
    BY <1>1, <1>3, <2>1, OthersWriteRows DEF atDesk, DeskRows, PanelRows
<1>4. CASE Operator \/ Confirm \/ Dismiss
  BY <1>4, ButtonsWriteRows
<1>5. CASE BeginReload \/ Retry
  <2>1. DeskRows'
    BY <1>1, <1>5, ReloadBegins DEF BeginReload, Retry, DeskRows
  <2> QED
    BY <1>2, <1>5, <2>1 DEF BeginReload, Retry, PanelRows
<1>6. CASE Mount
  <2>1. /\ screen' = Blank /\ seen' = NothingSeen /\ heard' = {} /\ failures' = 0 /\ dialog' = NoDialog
        /\ reloads' = {Unread}
    BY <1>6 DEF Mount
  <2>2. DeskRows'
    BY <2>1, EmptyDesk DEF DeskRows
  <2> QED
    BY <1>2, <1>6, <2>2 DEF Mount, PanelRows
<1>7. ASSUME NEW r \in reloads, Read(r) PROVE PanelRows'
  BY <1>2, <1>7, ReadArrives DEF Read, PanelRows
<1>8. ASSUME NEW r \in reloads, ApplyReload(r) PROVE PanelRows'
  BY <1>1, <1>2, <1>8, ReloadShown DEF ApplyReload, PanelRows
<1>9. ASSUME NEW r \in reloads, FailReload(r) PROVE PanelRows'
  <2>1. failures' \in 0..OfflineAfter
    BY <1>1, <1>9 DEF FailReload, DeskRows, OfflineAfter
  <2>2. DeskRows'
    BY <1>1, <1>9, <2>1 DEF FailReload, DeskRows
  <2> QED
    BY <1>2, <1>9, <2>2 DEF FailReload, PanelRows
<1>10. CASE UNCHANGED staffPanelVars
  BY <1>1, <1>10 DEF staffPanelVars, atTable, atDesk, PanelRows, TableRows, DeskRows
<1> QED
  BY <1>3, <1>4, <1>5, <1>6, <1>7, <1>8, <1>9, <1>10 DEF StaffPanelNext

\* The rows of the table, what a reload has read and the question on the screen
\* are what their types say: an order is of a session that there has been, and
\* a dialog names the session or the order that it was opened for
\* (staff/page.tsx and the operations that its buttons call).
THEOREM StaffPanelTypes == StaffPanelSpec => []StaffPanelTypeOK
<1>1. StaffPanelInit => PanelRows
  <2> SUFFICES ASSUME StaffPanelInit PROVE PanelRows
      OBVIOUS
  <2>1. DeskRows
    BY EmptyDesk DEF StaffPanelInit, DeskRows
  <2>2. TableRows
    BY StaffPanelAssumption, EmptySeq DEF StaffPanelInit, TableRows, NoVisit, Visit, Numbered
  <2> QED
    BY <2>1, <2>2 DEF PanelRows
<1>2. PanelRows => StaffPanelTypeOK
  BY DEF PanelRows, TableRows, DeskRows, ReloadRow, StaffPanelTypeOK
<1> QED
  BY <1>1, <1>2, RowsKept, PTL DEF StaffPanelSpec

-----------------------------------------------------------------------------
(* What a close cancels. *)

\* The fields of a visit, as far as a change of one must leave the others.
VisitInv == visit = [number |-> visit.number, status |-> visit.status, bill |-> visit.bill]

\* The status of a table after each step, but for a close.
StaysServed == visit.status # "none" => visit'.status # "none"

\* A close is the only step that ends a session.
LEMMA OnlyCloseEnds ==
    ASSUME VisitInv, [StaffPanelNext]_staffPanelVars
    PROVE  VisitInv' /\ (StaysServed \/ (dialog.about = "session" /\ Close(dialog.id, Forced(dialog.left))))
<1>1. CASE Others
  <2>1. CASE OpenRequested \/ CustomerOrders \/ \E i \in DOMAIN queue : ExpireRequest(i)
    BY <2>1 DEF OpenRequested, CustomerOrders, ExpireRequest, VisitInv, StaysServed
  <2>2. CASE WaiterOrders \/ FallAsleep
    BY <2>2 DEF WaiterOrders, FallAsleep, VisitInv, StaysServed
  <2>3. CASE AskBill \/ WithdrawBill
    BY <2>3 DEF AskBill, WithdrawBill, VisitInv, StaysServed
  <2> QED
    BY <1>1, <2>1, <2>2, <2>3 DEF Others
<1>2. CASE Operator
  <2>1. ASSUME NEW row \in screen.requests, RequestCard(row) PROVE VisitInv' /\ StaysServed
    <3>1. CASE RejectRow(row)
      BY <3>1 DEF RejectRow, VisitInv, StaysServed
    <3>2. ASSUME NEW resolution, ApproveRow(row, resolution) PROVE VisitInv' /\ StaysServed
      BY <3>2 DEF ApproveRow, NewVisit, VisitInv, StaysServed
    <3> QED
      BY <2>1, <3>1, <3>2 DEF RequestCard
  <2>2. ASSUME NEW row \in screen.orders, OrderCard(row) PROVE VisitInv' /\ StaysServed
    BY <2>2 DEF OrderCard, AcknowledgeOrder, AskFirst, atTable, VisitInv, StaysServed
  <2>3. ASSUME BillCard PROVE VisitInv' /\ StaysServed
    BY <2>3 DEF BillCard, AcknowledgeBill, AskToClose, AskFirst, atTable, VisitInv, StaysServed
  <2>4. ASSUME TableDetail PROVE VisitInv' /\ StaysServed
    BY <2>4 DEF TableDetail, OpenTable, NewVisit, AskToClose, AskFirst, atTable, VisitInv, StaysServed
  <2> QED
    BY <1>2, <2>1, <2>2, <2>3, <2>4 DEF Operator
<1>3. CASE Confirm
  <2>1. CASE dialog.about = "order" /\ CancelOrder(dialog.id)
    BY <2>1 DEF CancelOrder, VisitInv, StaysServed
  <2>2. CASE dialog.about = "session" /\ Close(dialog.id, Forced(dialog.left))
    BY <2>2 DEF Close, VisitInv
  <2> QED
    BY <1>3, <2>1, <2>2 DEF Confirm
<1>4. CASE Dismiss \/ BeginReload \/ Retry \/ Mount
  BY <1>4 DEF Dismiss, BeginReload, Retry, Mount, atTable, VisitInv, StaysServed
<1>5. ASSUME NEW r \in reloads, Read(r) \/ ApplyReload(r) \/ FailReload(r)
      PROVE  VisitInv' /\ StaysServed
  BY <1>5 DEF Read, ApplyReload, FailReload, atTable, VisitInv, StaysServed
<1>6. CASE UNCHANGED staffPanelVars
  BY <1>6 DEF staffPanelVars, atTable, VisitInv, StaysServed
<1> QED
  BY <1>1, <1>2, <1>3, <1>4, <1>5, <1>6 DEF StaffPanelNext

\* A close that cancels an order was confirmed in a dialog that counted some.
LEMMA CloseTells ==
    ASSUME dialog.about = "session", Close(dialog.id, Forced(dialog.left)),
           NEW o \in DOMAIN placed, placed[o].status = "submitted", placed'[o].status = "cancelled"
    PROVE  dialog.id = placed[o].visit /\ dialog.left > 0
<1> DEFINE left == Unacknowledged(dialog.id)
<1>1. /\ left = {} \/ Forced(dialog.left)
      /\ placed' = [j \in DOMAIN placed |-> IF j \in left THEN [placed[j] EXCEPT !.status = "cancelled"]
                                                          ELSE placed[j]]
  BY DEF Close
<1>2. o \in left
  BY <1>1
<1> QED
  BY <1>1, <1>2 DEF Unacknowledged, Forced

\* No order is cancelled by a close of its session that was not confirmed for
\* that session in a dialog that told of orders (staff/page.tsx, close), and
\* nothing else ends a session under the operator's hands.
THEOREM CloseWarnsAlways == StaffPanelSpec => CloseWarns
<1> DEFINE Warned == \A o \in DOMAIN placed :
                        /\ visit.status # "none" /\ visit'.status = "none"
                        /\ placed[o].status = "submitted" /\ placed'[o].status = "cancelled"
                        => dialog.about = "session" /\ dialog.id = placed[o].visit /\ dialog.left > 0
<1>1. StaffPanelInit => VisitInv
  BY DEF StaffPanelInit, VisitInv, NoVisit
<1>2. VisitInv /\ [StaffPanelNext]_staffPanelVars => VisitInv' /\ [Warned]_staffPanelVars
  <2> SUFFICES ASSUME VisitInv, [StaffPanelNext]_staffPanelVars PROVE VisitInv' /\ Warned
      OBVIOUS
  <2> QED
    BY OnlyCloseEnds, CloseTells DEF StaysServed
<1> QED
  BY <1>1, <1>2, PTL DEF StaffPanelSpec, CloseWarns

-----------------------------------------------------------------------------
(***************************************************************************)
(* Proofs about StaffAccounts, for any number of tabs, restaurants,        *)
(* devices and refreshes.  The browser loses its session only for cause    *)
(* because, while calls do not overlap and no answer is lost, the secret   *)
(* of its cookie is the one the server holds, or else the answer that      *)
(* brings it is on its way: that is what Undisturbed says of every state.  *)
(* A refusal is then for one of the other reasons that a server has.       *)
(***************************************************************************)

Issued(w) == call[w].pc = "issued"

CookiesNameDevices ==
    /\ jar # NoCookie => jar.device \in DOMAIN devices
    /\ \A w \in Tabs : call[w].cookie # NoCookie => call[w].cookie.device \in DOMAIN devices

CallsWellFormed ==
    \A w \in Tabs :
        /\ call[w].pc = "idle" => call[w] = NoCall
        /\ Issued(w) => call[w].cookie # NoCookie

InSync(cookie) == devices[cookie.device].secret = cookie.secret

\* The cookie a call was sent with is the browser's, unless that has expired.
Own(cookie) == cookie = jar \/ (cookie = NoCookie /\ devices[jar.device].expired)

Alone == \A v, w \in Tabs : call[v] # NoCall /\ call[w] # NoCall => v = w

Undisturbed ==
    /\ Alone
    /\ session => jar # NoCookie
    /\ \A w \in Tabs : Issued(w) => InSync(call[w].cookie)
    /\ jar # NoCookie /\ (\A w \in Tabs : ~Issued(w)) => InSync(jar)
    /\ \A w \in Tabs : session /\ call[w] # NoCall /\ ~Issued(w) => Own(call[w].cookie)

AccountsInv ==
    /\ StaffAccountsTypeOK /\ CookiesNameDevices /\ CallsWellFormed
    /\ DevicesFallWithThePassword
    /\ ~disturbed => Undisturbed

AccountRow == [password : 0..MaxResets, link : 0..MaxResets, links : 0..MaxResets,
               totp : {"none", "secret", "enabled"}]

\* A tab without a call is one of the calls there are.
LEMMA NoCallIsACall == /\ NoCall \in StaffCall
                       /\ NoCall.pc = "idle" /\ NoCall.cookie = NoCookie
  BY DEF NoCall, StaffCall, Workplace

\* Nobody is signed in, and nothing has been asked.
LEMMA AccountsInitially == StaffAccountsInit => AccountsInv
<1> SUFFICES ASSUME StaffAccountsInit PROVE AccountsInv
    OBVIOUS
<1>1. devices \in Seq(StaffDevice) /\ Len(devices) = 0 /\ DOMAIN devices = {}
  BY EmptySeq, LenProperties DEF StaffAccountsInit
<1>2. \A w \in Tabs : call[w] = NoCall
  BY DEF StaffAccountsInit
<1>3. StaffAccountsTypeOK
  <2>1. MaxDevices \in Nat /\ MaxResets \in Nat
    BY StaffAccountsAssumption
  <2>2. account \in [password : 0..MaxResets, link : 0..MaxResets, links : 0..MaxResets,
                     totp : {"none", "secret", "enabled"}]
    BY <2>1 DEF StaffAccountsInit
  <2>3. jar = NoCookie /\ session = FALSE /\ disturbed = FALSE /\ access = Workplaces
        /\ call = [w \in Tabs |-> NoCall]
    BY DEF StaffAccountsInit
  <2>4. call \in [Tabs -> StaffCall]
    BY <2>3, NoCallIsACall
  <2>5. Len(devices) <= MaxDevices
    BY <1>1, <2>1
  <2> QED
    BY <1>1, <2>2, <2>3, <2>4, <2>5, Zenon DEF StaffAccountsTypeOK
<1>4. CookiesNameDevices /\ CallsWellFormed /\ DevicesFallWithThePassword
  BY <1>1, <1>2, NoCallIsACall
  DEF CookiesNameDevices, CallsWellFormed, DevicesFallWithThePassword, Issued, StaffAccountsInit
<1>5. Undisturbed
  BY <1>2, NoCallIsACall DEF Undisturbed, Alone, Issued, StaffAccountsInit
<1> QED
  BY <1>3, <1>4, <1>5 DEF AccountsInv

\* What a tab has asked for changes, and what the others have does not.
LEMMA CallBecomes ==
    ASSUME StaffAccountsTypeOK, NEW w \in Tabs, NEW next, Become(w, next)
    PROVE  \A v \in Tabs : call'[v] = IF v = w THEN next ELSE call[v]
  BY DEF Become, StaffAccountsTypeOK

\* As long as calls do not overlap, the other tabs are idle.
LEMMA OthersIdle ==
    ASSUME AccountsInv, ~disturbed, NEW w \in Tabs, call[w] # NoCall
    PROVE  \A v \in Tabs \ {w} : call[v] = NoCall
  BY DEF AccountsInv, Undisturbed, Alone

\* The rows of the devices, as a function on an interval.
LEMMA RowsOfDevices ==
    ASSUME StaffAccountsTypeOK
    PROVE  /\ Len(devices) \in Nat
           /\ DOMAIN devices = 1..Len(devices)
           /\ \A d \in DOMAIN devices : devices[d] \in StaffDevice
  BY LenProperties, ElementOfSeq DEF StaffAccountsTypeOK

\* Rows that are written in place are as many as before.
LEMMA RowsMapped ==
    ASSUME StaffAccountsTypeOK, devices' = [d \in DOMAIN devices |-> devices'[d]],
           \A d \in DOMAIN devices : devices'[d] \in StaffDevice
    PROVE  /\ devices' \in Seq(StaffDevice) /\ Len(devices') = Len(devices)
           /\ DOMAIN devices' = DOMAIN devices
<1>1. Len(devices) \in Nat /\ DOMAIN devices = 1..Len(devices)
  BY RowsOfDevices
<1>2. devices' \in [1..Len(devices) -> StaffDevice]
  BY <1>1
<1>3. devices' \in Seq(StaffDevice)
  BY <1>1, <1>2, SeqDef
<1>4. Len(devices') = Len(devices)
  BY <1>1, <1>2, <1>3, LenProperties
<1> QED
  BY <1>1, <1>2, <1>3, <1>4

\* The device just opened has the first secret and the password in force; the
\* others are left as they are.
LEMMA DeviceOpened ==
    ASSUME StaffAccountsTypeOK, NEW w \in Tabs, NEW at \in Workplace, OpenDevice(w, at)
    PROVE  /\ devices' \in Seq(StaffDevice) /\ Len(devices') <= MaxDevices
           /\ DOMAIN devices' = DOMAIN devices \cup {Len(devices) + 1}
           /\ \A d \in DOMAIN devices : devices'[d] = devices[d]
           /\ devices'[Len(devices) + 1].secret = 1
           /\ devices'[Len(devices) + 1].under = account.password
           /\ [device |-> Len(devices) + 1, secret |-> 1] \in Cookie
<1> DEFINE row == [secret |-> 1, revoked |-> FALSE, expired |-> FALSE,
                   at |-> at, under |-> account.password]
<1>1. row \in StaffDevice /\ row.secret = 1 /\ row.under = account.password
  BY StaffAccountsAssumption DEF StaffDevice, StaffAccountsTypeOK
<1>2. devices \in Seq(StaffDevice)
  BY DEF StaffAccountsTypeOK
<1>3. devices' = Append(devices, row)
  BY DEF OpenDevice
<1> HIDE DEF row
<1>4. /\ devices' \in Seq(StaffDevice)
      /\ Len(devices') = Len(devices) + 1
      /\ \A d \in 1..Len(devices) : devices'[d] = devices[d]
      /\ devices'[Len(devices) + 1] = row
  BY <1>1, <1>2, <1>3, AppendProperties
<1>5. DOMAIN devices' = 1..(Len(devices) + 1) /\ DOMAIN devices = 1..Len(devices) /\ Len(devices) \in Nat
  BY <1>2, <1>4, LenProperties
<1>6. Len(devices) < MaxDevices /\ MaxDevices \in Nat
  BY StaffAccountsAssumption DEF OpenDevice
<1>7. [device |-> Len(devices) + 1, secret |-> 1] \in Cookie
  BY <1>5, <1>6 DEF Cookie
<1> QED
  BY <1>1, <1>4, <1>5, <1>6, <1>7

\* A refresh replaces the secret of its device and renews it, for a restaurant.
LEMMA DeviceRotated ==
    ASSUME StaffAccountsTypeOK, NEW w \in Tabs, NEW d \in DOMAIN devices, NEW at \in Workplace,
           RotateDevice(w, d, at)
    PROVE  /\ devices' \in Seq(StaffDevice) /\ Len(devices') = Len(devices)
           /\ DOMAIN devices' = DOMAIN devices
           /\ \A e \in DOMAIN devices : devices'[e].revoked = devices[e].revoked
                                        /\ devices'[e].under = devices[e].under
           /\ devices'[d].secret = devices[d].secret + 1
           /\ [device |-> d, secret |-> devices[d].secret + 1] \in Cookie
<1> DEFINE row == [devices[d] EXCEPT !.secret = @ + 1, !.expired = FALSE, !.at = at]
<1>1. /\ Len(devices) \in Nat /\ DOMAIN devices = 1..Len(devices)
      /\ \A e \in DOMAIN devices : devices[e] \in StaffDevice
  BY RowsOfDevices
<1>2. row \in StaffDevice /\ row.secret = devices[d].secret + 1
      /\ row.revoked = devices[d].revoked /\ row.under = devices[d].under
  <2> DEFINE s == devices[d].secret + 1
             one == [devices[d] EXCEPT !.secret = s]
             two == [one EXCEPT !.expired = FALSE]
  <2>1. s \in Nat
    BY <1>1 DEF StaffDevice
  <2> HIDE DEF s
  <2>2. one \in StaffDevice /\ one.secret = s
        /\ one.revoked = devices[d].revoked /\ one.under = devices[d].under
    BY <1>1, <2>1 DEF StaffDevice
  <2> HIDE DEF one
  <2>3. two \in StaffDevice /\ two.secret = s
        /\ two.revoked = devices[d].revoked /\ two.under = devices[d].under
    BY <2>2 DEF StaffDevice
  <2> HIDE DEF two
  <2>4. row = [two EXCEPT !.at = at]
    BY DEF one, two, s
  <2> HIDE DEF row
  <2> QED
    BY <2>3, <2>4 DEF StaffDevice, s
<1>3. devices' = [devices EXCEPT ![d] = row]
  BY DEF RotateDevice
<1> HIDE DEF row
<1>4. /\ devices' = [e \in DOMAIN devices |-> devices'[e]]
      /\ devices'[d] = row /\ \A e \in DOMAIN devices \ {d} : devices'[e] = devices[e]
  BY <1>3
<1>5. \A e \in DOMAIN devices : devices'[e] \in StaffDevice
  BY <1>1, <1>2, <1>4
<1>6. /\ devices' \in Seq(StaffDevice) /\ Len(devices') = Len(devices)
      /\ DOMAIN devices' = DOMAIN devices
  BY <1>4, <1>5, RowsMapped
<1>7. [device |-> d, secret |-> devices[d].secret + 1] \in Cookie
  BY <1>1, StaffAccountsAssumption DEF Cookie, StaffAccountsTypeOK, StaffDevice
<1>8. \A e \in DOMAIN devices : devices'[e].revoked = devices[e].revoked
                               /\ devices'[e].under = devices[e].under
  BY <1>2, <1>4
<1> QED
  BY <1>2, <1>4, <1>6, <1>7, <1>8

\* No secret is replaced, no device is opened, and none is brought back.
SecretsStay ==
    /\ devices' \in Seq(StaffDevice) /\ Len(devices') = Len(devices)
    /\ DOMAIN devices' = DOMAIN devices
    /\ \A d \in DOMAIN devices :
          /\ devices'[d].secret = devices[d].secret /\ devices'[d].under = devices[d].under
          /\ devices[d].revoked => devices'[d].revoked
          /\ devices[d].expired => devices'[d].expired

\* So it is when devices are revoked or expire, or nothing happens to them.
LEMMA SecretsStayWhenRevoked ==
    ASSUME StaffAccountsTypeOK,
           \/ UNCHANGED devices
           \/ RevokeAll
           \/ \E t \in Workplaces : RevokeAt(t)
           \/ \E d \in DOMAIN devices : devices' = [devices EXCEPT ![d].revoked = TRUE]
           \/ \E d \in DOMAIN devices : devices' = [devices EXCEPT ![d].expired = TRUE]
    PROVE  SecretsStay
<1>1. \A d \in DOMAIN devices : devices[d] \in StaffDevice
  BY RowsOfDevices
<1>2. CASE UNCHANGED devices
  BY <1>2 DEF SecretsStay, StaffAccountsTypeOK
<1>3. CASE RevokeAll
  <2>1. devices' = [d \in DOMAIN devices |-> devices'[d]]
        /\ \A d \in DOMAIN devices : devices'[d] = [devices[d] EXCEPT !.revoked = TRUE]
    BY <1>3 DEF RevokeAll
  <2>2. \A d \in DOMAIN devices :
            /\ devices'[d] \in StaffDevice /\ devices'[d].revoked
            /\ devices'[d].secret = devices[d].secret /\ devices'[d].under = devices[d].under
            /\ devices'[d].expired = devices[d].expired
    BY <1>1, <2>1 DEF StaffDevice
  <2> QED
    BY <2>1, <2>2, RowsMapped DEF SecretsStay
<1>4. ASSUME NEW t \in Workplaces, RevokeAt(t)
      PROVE  SecretsStay
  <2>1. devices' = [d \in DOMAIN devices |-> devices'[d]]
        /\ \A d \in DOMAIN devices :
              devices'[d] = [devices[d] EXCEPT !.revoked = devices[d].revoked \/ devices[d].at = t]
    BY <1>4 DEF RevokeAt
  <2>2. \A d \in DOMAIN devices :
            /\ devices'[d] \in StaffDevice /\ (devices[d].revoked => devices'[d].revoked)
            /\ devices'[d].secret = devices[d].secret /\ devices'[d].under = devices[d].under
            /\ devices'[d].expired = devices[d].expired
    <3> TAKE d \in DOMAIN devices
    <3> DEFINE b == devices[d].revoked \/ devices[d].at = t
    <3>1. b \in BOOLEAN /\ (devices[d].revoked => b)
      OBVIOUS
    <3>2. devices'[d] = [devices[d] EXCEPT !.revoked = b]
      BY <2>1
    <3> HIDE DEF b
    <3> QED
      BY <1>1, <3>1, <3>2 DEF StaffDevice
  <2> QED
    BY <2>1, <2>2, RowsMapped DEF SecretsStay
<1>5. ASSUME NEW d \in DOMAIN devices, NEW row \in StaffDevice, devices' = [devices EXCEPT ![d] = row],
             row.secret = devices[d].secret, row.under = devices[d].under,
             devices[d].revoked => row.revoked, devices[d].expired => row.expired
      PROVE  SecretsStay
  <2>1. /\ devices' = [e \in DOMAIN devices |-> devices'[e]]
        /\ \A e \in DOMAIN devices : devices'[e] = IF e = d THEN row ELSE devices[e]
    BY <1>5
  <2>2. \A e \in DOMAIN devices : devices'[e] \in StaffDevice
    BY <1>1, <1>5, <2>1
  <2> QED
    BY <1>5, <2>1, <2>2, RowsMapped DEF SecretsStay
<1>6. ASSUME NEW d \in DOMAIN devices, devices' = [devices EXCEPT ![d].revoked = TRUE]
      PROVE  SecretsStay
  <2> DEFINE row == [devices[d] EXCEPT !.revoked = TRUE]
  <2>1. row \in StaffDevice /\ row.secret = devices[d].secret /\ row.under = devices[d].under
        /\ row.revoked /\ row.expired = devices[d].expired
    BY <1>1 DEF StaffDevice
  <2>2. devices' = [devices EXCEPT ![d] = row]
    BY <1>6
  <2> HIDE DEF row
  <2> QED
    BY <1>5, <2>1, <2>2
<1>7. ASSUME NEW d \in DOMAIN devices, devices' = [devices EXCEPT ![d].expired = TRUE]
      PROVE  SecretsStay
  <2> DEFINE row == [devices[d] EXCEPT !.expired = TRUE]
  <2>1. row \in StaffDevice /\ row.secret = devices[d].secret /\ row.under = devices[d].under
        /\ row.expired /\ row.revoked = devices[d].revoked
    BY <1>1 DEF StaffDevice
  <2>2. devices' = [devices EXCEPT ![d] = row]
    BY <1>7
  <2> HIDE DEF row
  <2> QED
    BY <1>5, <2>1, <2>2
<1> QED
  BY <1>2, <1>3, <1>4, <1>6, <1>7

\* What a call may become, short of an answer that brings a cookie: in an
\* undisturbed browser it is the only one, and was sent with the browser's cookie.
NextCall(w, next) ==
    /\ next.pc # "issued"
    /\ next.pc = "idle" => next = NoCall
    /\ next.cookie # NoCookie => next.cookie.device \in DOMAIN devices
    /\ ~disturbed' => /\ ~Issued(w) /\ \A v \in Tabs \ {w} : call[v] = NoCall
                      /\ session' /\ next # NoCall => Own(next.cookie)

\* A step that replaces no secret keeps the invariant: the browser keeps its
\* cookie, or loses it with its session, and one call may go on.
LEMMA StaysKeeps ==
    ASSUME AccountsInv, SecretsStay, account' \in AccountRow, access' \subseteq Workplaces,
           account'.password = account.password \/ \A d \in DOMAIN devices' : devices'[d].revoked,
           session' \in BOOLEAN, session' => session,
           jar' = jar \/ (jar' = NoCookie /\ ~session'),
           disturbed' \in BOOLEAN, disturbed => disturbed',
           \/ UNCHANGED call
           \/ \E w \in Tabs, next \in StaffCall : Become(w, next) /\ NextCall(w, next)
    PROVE  AccountsInv'
<1>0. StaffAccountsTypeOK
  BY DEF AccountsInv
<1>1. /\ call' \in [Tabs -> StaffCall]
      /\ \A v \in Tabs : call'[v] = call[v] \/ NextCall(v, call'[v])
  BY <1>0, CallBecomes DEF Become, StaffAccountsTypeOK
<1>2. StaffAccountsTypeOK'
  BY <1>0, <1>1 DEF StaffAccountsTypeOK, SecretsStay, AccountRow
<1>3. CookiesNameDevices' /\ CallsWellFormed'
  BY <1>1 DEF AccountsInv, CookiesNameDevices, CallsWellFormed, Issued, SecretsStay, NextCall
<1>4. DevicesFallWithThePassword'
  BY DEF AccountsInv, DevicesFallWithThePassword, SecretsStay
<1>5. ASSUME ~disturbed'
      PROVE  Undisturbed'
  <2>1. Undisturbed /\ ~disturbed
    BY <1>5 DEF AccountsInv
  <2>2. \A cookie : cookie.device \in DOMAIN devices => (InSync(cookie) <=> InSync(cookie)')
    BY DEF InSync, SecretsStay
  <2> DEFINE OwnNext(cookie) == cookie = jar' \/ (cookie = NoCookie /\ devices'[jar'.device].expired)
  <2>3. \A cookie : session' /\ Own(cookie) => OwnNext(cookie)
    BY <2>1 DEF Own, SecretsStay, Undisturbed, AccountsInv, CookiesNameDevices
  <2>4. CASE UNCHANGED call
    <3>1. \A v \in Tabs : Issued(v)' <=> Issued(v)
      BY <2>4 DEF Issued
    <3>2. Alone' /\ (session' => jar' # NoCookie)
      BY <2>1, <2>4 DEF Undisturbed, Alone
    <3>3. \A v \in Tabs : Issued(v)' => InSync(call[v].cookie)'
      <4> SUFFICES ASSUME NEW v \in Tabs, Issued(v) PROVE InSync(call[v].cookie)'
        BY <3>1
      <4>1. call[v].cookie.device \in DOMAIN devices /\ InSync(call[v].cookie)
        BY <2>1 DEF AccountsInv, CookiesNameDevices, CallsWellFormed, Undisturbed
      <4> QED
        BY <2>2, <2>4, <4>1 DEF InSync
    <3>4. jar' # NoCookie /\ (\A v \in Tabs : ~Issued(v)') => InSync(jar)'
      <4> SUFFICES ASSUME jar' # NoCookie, \A v \in Tabs : ~Issued(v) PROVE InSync(jar)'
        BY <3>1
      <4>1. jar' = jar /\ jar.device \in DOMAIN devices /\ InSync(jar)
        BY <2>1 DEF AccountsInv, CookiesNameDevices, Undisturbed
      <4> QED
        BY <2>2, <4>1 DEF InSync
    <3>5. \A v \in Tabs : session' /\ call'[v] # NoCall /\ ~Issued(v)' => OwnNext(call'[v].cookie)
      <4> SUFFICES ASSUME NEW v \in Tabs, session', call[v] # NoCall, ~Issued(v)
                   PROVE  OwnNext(call[v].cookie)
        BY <2>4, <3>1
      <4>1. Own(call[v].cookie)
        BY <2>1 DEF Undisturbed
      <4> QED
        BY <2>3, <4>1
    <3> QED
      BY <3>2, <3>3, <3>4, <3>5 DEF Undisturbed, Own
  <2>5. ASSUME NEW w \in Tabs, NEW next \in StaffCall, Become(w, next), NextCall(w, next)
        PROVE  Undisturbed'
    <3>1. /\ \A v \in Tabs : call'[v] = IF v = w THEN next ELSE call[v]
          /\ \A v \in Tabs \ {w} : call[v] = NoCall
          /\ ~Issued(w) /\ next.pc # "issued"
          /\ session' /\ next # NoCall => Own(next.cookie)
      BY <1>0, <1>5, <2>5, CallBecomes DEF NextCall
    <3>2. \A v \in Tabs : ~Issued(v) /\ ~Issued(v)'
      BY <3>1, NoCallIsACall DEF Issued
    <3>3. Alone' /\ (session' => jar' # NoCookie)
      BY <2>1, <3>1 DEF Undisturbed, Alone
    <3>4. jar' # NoCookie => InSync(jar)'
      <4> SUFFICES ASSUME jar' # NoCookie PROVE InSync(jar)'
        OBVIOUS
      <4>1. jar' = jar /\ jar.device \in DOMAIN devices /\ InSync(jar)
        BY <2>1, <3>2 DEF AccountsInv, CookiesNameDevices, Undisturbed
      <4> QED
        BY <2>2, <4>1 DEF InSync
    <3>5. \A v \in Tabs : session' /\ call'[v] # NoCall => OwnNext(call'[v].cookie)
      <4> SUFFICES ASSUME NEW v \in Tabs, session', call'[v] # NoCall PROVE OwnNext(call'[v].cookie)
        OBVIOUS
      <4>1. v = w /\ call'[v] = next
        BY <3>1
      <4> QED
        BY <2>3, <3>1, <4>1
    <3> QED
      BY <3>2, <3>3, <3>4, <3>5 DEF Undisturbed, Own
  <2> QED
    BY <2>4, <2>5
<1> QED
  BY <1>2, <1>3, <1>4, <1>5 DEF AccountsInv

\* A call that begins is sent with the cookie of the browser, if it has not expired.
LEMMA BeginKeeps ==
    ASSUME AccountsInv, NEW w \in Tabs, NEW at \in Workplace,
           NEW pc \in {"login", "refresh", "switch", "reset", "setup", "enable"},
           Begin(w, pc, at)
    PROVE  AccountsInv'
<1>0. StaffAccountsTypeOK /\ call[w] = NoCall /\ UNCHANGED <<account, access, devices, jar, session>>
  BY DEF AccountsInv, Begin
<1> PICK cookie \in Sendable : Become(w, [pc |-> pc, cookie |-> cookie, at |-> at])
  BY DEF Begin
<1> DEFINE next == [pc |-> pc, cookie |-> cookie, at |-> at]
<1>1. Become(w, next) /\ next.pc = pc /\ next.cookie = cookie
  OBVIOUS
<1>2. Own(cookie) /\ cookie \in Cookie \cup {NoCookie}
      /\ (cookie # NoCookie => cookie.device \in DOMAIN devices)
  BY <1>0 DEF Sendable, Own, StaffAccountsTypeOK, AccountsInv, CookiesNameDevices
<1>3. next \in StaffCall
  BY <1>2 DEF StaffCall
<1> HIDE DEF next
<1>4. disturbed' \in BOOLEAN /\ (disturbed => disturbed')
      /\ (~disturbed' => \A v \in Tabs \ {w} : call[v] = NoCall)
  BY DEF Begin, Disturb
<1>5. NextCall(w, next)
  BY <1>0, <1>1, <1>2, <1>4, NoCallIsACall DEF NextCall, Issued
<1>6. SecretsStay
  BY <1>0, SecretsStayWhenRevoked
<1> QED
  BY <1>0, <1>1, <1>3, <1>4, <1>5, <1>6, StaysKeeps DEF StaffAccountsTypeOK, AccountRow

\* A call that comes to nothing, and what it may have written of the account.
LEMMA EndKeeps ==
    ASSUME AccountsInv, NEW w \in Tabs, Become(w, NoCall), UNCHANGED <<access, jar, session>>,
           SecretsStay, account' \in AccountRow,
           account'.password = account.password \/ \A d \in DOMAIN devices' : devices'[d].revoked,
           disturbed' \/ (disturbed' = disturbed /\ call[w].pc \notin {"idle", "issued"}),
           disturbed' \in BOOLEAN
    PROVE  AccountsInv'
<1>0. StaffAccountsTypeOK
  BY DEF AccountsInv
<1>1. ~disturbed' => ~Issued(w) /\ \A v \in Tabs \ {w} : call[v] = NoCall
  BY NoCallIsACall, OthersIdle DEF Issued
<1>2. NextCall(w, NoCall)
  BY <1>1, NoCallIsACall DEF NextCall
<1> QED
  BY <1>0, <1>2, NoCallIsACall, StaysKeeps DEF StaffAccountsTypeOK

\* Nothing is said of a browser one of whose answers is lost; a reset leaves no
\* device of before it; what makes a second factor writes the account.
LEMMA CallEnds ==
    ASSUME AccountsInv, NEW w \in Tabs, LoseAnswer(w) \/ ResetPassword(w) \/ WriteTotp(w)
    PROVE  AccountsInv'
<1>0. StaffAccountsTypeOK /\ account \in AccountRow
      /\ Become(w, NoCall) /\ UNCHANGED <<access, jar, session>>
  BY DEF AccountsInv, StaffAccountsTypeOK, AccountRow, LoseAnswer, ResetPassword, WriteTotp
<1>1. SecretsStay
  BY <1>0, SecretsStayWhenRevoked DEF LoseAnswer, ResetPassword, WriteTotp
<1>2. account' \in AccountRow
  <2>1. CASE LoseAnswer(w)
    BY <1>0, <2>1 DEF LoseAnswer
  <2>2. CASE ResetPassword(w)
    <3>1. MaxResets \in Nat /\ 0 \in 0..MaxResets
      BY StaffAccountsAssumption
    <3>2. account.password + 1 \in 0..MaxResets
      BY <1>0, <2>2, <3>1 DEF ResetPassword, AccountRow
    <3> QED
      BY <1>0, <2>2, <3>1, <3>2 DEF ResetPassword, AccountRow
  <2>3. CASE WriteTotp(w)
    BY <1>0, <2>3 DEF WriteTotp, AccountRow
  <2> QED
    BY <2>1, <2>2, <2>3
<1>3. account'.password = account.password \/ \A d \in DOMAIN devices' : devices'[d].revoked
  <2>1. CASE LoseAnswer(w)
    BY <2>1 DEF LoseAnswer
  <2>2. CASE ResetPassword(w)
    <3>1. devices' = [d \in DOMAIN devices |-> [devices[d] EXCEPT !.revoked = TRUE]]
      BY <2>2 DEF ResetPassword, RevokeAll
    <3>2. \A d \in DOMAIN devices : devices[d] \in StaffDevice
      BY <1>0, RowsOfDevices
    <3> QED
      BY <3>1, <3>2 DEF StaffDevice
  <2>3. CASE WriteTotp(w)
    BY <1>0, <2>3 DEF WriteTotp, AccountRow
  <2> QED
    BY <2>1, <2>2, <2>3
<1>4. disturbed' \in BOOLEAN
      /\ (disturbed' \/ (disturbed' = disturbed /\ call[w].pc \notin {"idle", "issued"}))
  BY <1>0 DEF StaffAccountsTypeOK, LoseAnswer, ResetPassword, WriteTotp
<1> QED
  BY <1>0, <1>1, <1>2, <1>3, <1>4, EndKeeps

\* A call goes on: as a refresh after the second factor was enabled, as the
\* refresh that follows a refused call, or as a refusal.
LEMMA CallGoesOn ==
    ASSUME AccountsInv, NEW w \in Tabs,
           WriteTotpEnabled(w) \/ RefuseRefresh(w) \/ FailRefresh(w)
    PROVE  AccountsInv'
<1>0. /\ StaffAccountsTypeOK /\ account \in AccountRow /\ call[w] \in StaffCall
      /\ UNCHANGED <<access, devices, jar, session>>
      /\ call[w].pc \in {"enable", "refresh", "renew"}
  BY DEF AccountsInv, StaffAccountsTypeOK, AccountRow, WriteTotpEnabled, RefuseRefresh, FailRefresh, Refuse
<1>1. PICK pc \in {"renew", "refresh", "refused"}, cookie \in {call[w].cookie} \cup Sendable :
          Become(w, [call[w] EXCEPT !.pc = pc, !.cookie = cookie])
  <2>1. \A pc : [call[w] EXCEPT !.pc = pc] = [call[w] EXCEPT !.pc = pc, !.cookie = call[w].cookie]
    BY <1>0 DEF StaffCall
  <2>2. CASE WriteTotpEnabled(w)
    BY <2>1, <2>2 DEF WriteTotpEnabled
  <2>3. CASE Refuse(w)
    BY <2>1, <2>3 DEF Refuse
  <2> QED
    BY <2>2, <2>3 DEF RefuseRefresh, FailRefresh
<1> DEFINE next == [call[w] EXCEPT !.pc = pc, !.cookie = cookie]
<1>2. cookie \in Cookie \cup {NoCookie}
      /\ (cookie # NoCookie => cookie.device \in DOMAIN devices)
  BY <1>0 DEF Sendable, StaffAccountsTypeOK, StaffCall, AccountsInv, CookiesNameDevices
<1>3. next \in StaffCall /\ next.pc = pc /\ next.cookie = cookie
  BY <1>0, <1>2 DEF StaffCall
<1>4. Become(w, next)
  BY <1>1
<1> HIDE DEF next
<1>5. account' \in AccountRow /\ account'.password = account.password
  BY <1>0 DEF WriteTotpEnabled, RefuseRefresh, FailRefresh, AccountRow
<1>6. disturbed' \in BOOLEAN /\ (disturbed => disturbed')
  BY <1>0 DEF StaffAccountsTypeOK, WriteTotpEnabled, RefuseRefresh, FailRefresh
<1>7. ASSUME ~disturbed'
      PROVE  /\ ~Issued(w) /\ \A v \in Tabs \ {w} : call[v] = NoCall
             /\ session' => Own(cookie)
  <2>1. ~disturbed /\ Undisturbed /\ call[w] # NoCall /\ ~Issued(w)
    BY <1>0, <1>6, <1>7, NoCallIsACall DEF AccountsInv, Issued
  <2>2. session => Own(call[w].cookie)
    BY <2>1 DEF Undisturbed
  <2>3. \A c \in Sendable : Own(c)
    BY DEF Sendable, Own
  <2> QED
    BY <1>0, <2>1, <2>2, <2>3, OthersIdle
<1>8. NextCall(w, next)
  BY <1>2, <1>3, <1>7 DEF NextCall
<1>9. SecretsStay
  BY <1>0, SecretsStayWhenRevoked
<1> QED
  BY <1>0, <1>3, <1>4, <1>5, <1>6, <1>8, <1>9, StaysKeeps DEF StaffAccountsTypeOK

\* What administrators do, time, and a new link leave the calls as they are.
LEMMA OutsideKeeps ==
    ASSUME AccountsInv,
           \/ RequestPasswordReset
           \/ \E t \in Workplaces :
                 RevokeDevices(t) \/ DisableMember(t) \/ BlockRestaurant(t) \/ RestoreAccess(t)
           \/ \E d \in DOMAIN devices : DeviceExpires(d)
    PROVE  AccountsInv'
<1>0. StaffAccountsTypeOK /\ account \in AccountRow /\ UNCHANGED <<jar, session, call, disturbed>>
  BY DEF AccountsInv, StaffAccountsTypeOK, AccountRow, RequestPasswordReset, RevokeDevices, DisableMember,
         BlockRestaurant, RestoreAccess, DeviceExpires
<1>1. SecretsStay
  BY <1>0, SecretsStayWhenRevoked
  DEF RequestPasswordReset, RevokeDevices, DisableMember, BlockRestaurant, RestoreAccess, DeviceExpires
<1>2. account' \in AccountRow /\ account'.password = account.password
  <2>1. CASE RequestPasswordReset
    <3>1. MaxResets \in Nat
      BY StaffAccountsAssumption
    <3>2. account.links + 1 \in 0..MaxResets
      BY <1>0, <2>1, <3>1 DEF RequestPasswordReset, AccountRow
    <3> QED
      BY <1>0, <2>1, <3>2 DEF RequestPasswordReset, AccountRow
  <2>2. CASE UNCHANGED account
    BY <1>0, <2>2
  <2> QED
    BY <2>1, <2>2 DEF RevokeDevices, DisableMember, BlockRestaurant, RestoreAccess, DeviceExpires
<1>3. access' \subseteq Workplaces
  BY <1>0 DEF StaffAccountsTypeOK, RequestPasswordReset, RevokeDevices, DisableMember, BlockRestaurant,
              RestoreAccess, DeviceExpires
<1> QED
  BY <1>0, <1>1, <1>2, <1>3, StaysKeeps DEF StaffAccountsTypeOK

\* A logout that reaches the server takes the cookie with it, and every logout
\* ends the stored session.
LEMMA LogoutKeeps == ASSUME AccountsInv, NEW w \in Tabs, Logout(w) PROVE AccountsInv'
<1>0. StaffAccountsTypeOK /\ account \in AccountRow /\ session' = FALSE
      /\ UNCHANGED <<account, access, call, disturbed>>
  BY DEF AccountsInv, StaffAccountsTypeOK, AccountRow, Logout
<1>1. SecretsStay /\ (jar' = jar \/ jar' = NoCookie)
  <2>1. CASE RevokeOwn
    <3>1. jar.device \in DOMAIN devices
      BY <2>1 DEF RevokeOwn, AccountsInv, CookiesNameDevices
    <3> QED
      BY <1>0, <2>1, <3>1, SecretsStayWhenRevoked DEF RevokeOwn
  <2>2. CASE UNCHANGED <<devices, jar>>
    BY <1>0, <2>2, SecretsStayWhenRevoked
  <2> QED
    BY <2>1, <2>2 DEF Logout
<1> QED
  BY <1>0, <1>1, StaysKeeps DEF StaffAccountsTypeOK

\* The answer to a call that opened a device or replaced its secret brings the
\* cookie that is in force, and nobody else has one on its way.
LEMMA AnswerKeeps ==
    ASSUME AccountsInv, NEW w \in Tabs, NEW d, NEW s, IssueCookie(w, d, s),
           [device |-> d, secret |-> s] \in Cookie,
           devices' \in Seq(StaffDevice), Len(devices') <= MaxDevices,
           d \in DOMAIN devices', DOMAIN devices \subseteq DOMAIN devices', devices'[d].secret = s,
           DevicesFallWithThePassword', UNCHANGED <<account, access, jar, session, disturbed>>,
           call[w] # NoCall
    PROVE  AccountsInv'
<1> DEFINE cookie == [device |-> d, secret |-> s]
           next == [pc |-> "issued", cookie |-> cookie, at |-> NoWorkplace]
<1>0. StaffAccountsTypeOK /\ Become(w, next)
  BY DEF AccountsInv, IssueCookie
<1>1. \A v \in Tabs : call'[v] = IF v = w THEN next ELSE call[v]
  BY <1>0, CallBecomes
<1>2. /\ next \in StaffCall /\ next.pc = "issued" /\ next.cookie = cookie
      /\ cookie # NoCookie /\ cookie.device = d /\ cookie.secret = s
  BY NoCookieAssumption DEF StaffCall, Workplace
<1>3. call' = [call EXCEPT ![w] = next]
  BY <1>0 DEF Become
<1> HIDE DEF next, cookie
<1>4. StaffAccountsTypeOK'
  BY <1>0, <1>2, <1>3 DEF StaffAccountsTypeOK
<1>5. CookiesNameDevices' /\ CallsWellFormed'
  BY <1>1, <1>2 DEF AccountsInv, CookiesNameDevices, CallsWellFormed, Issued
<1>6. ASSUME ~disturbed'
      PROVE  Undisturbed'
  <2>1. Undisturbed /\ \A v \in Tabs \ {w} : call[v] = NoCall
    BY <1>6, OthersIdle DEF AccountsInv
  <2>2. \A v \in Tabs \ {w} : call'[v] = NoCall /\ call'[v].pc = "idle"
    BY <1>1, <2>1, NoCallIsACall
  <2>3. Issued(w)' /\ call'[w].cookie = cookie
    BY <1>1, <1>2 DEF Issued
  <2> QED
    BY <1>2, <2>1, <2>2, <2>3 DEF Undisturbed, Alone, InSync, Issued
<1> QED
  BY <1>4, <1>5, <1>6 DEF AccountsInv

\* The answer that brings a new device.
LEMMA OpenKeeps ==
    ASSUME AccountsInv, NEW w \in Tabs, NEW at \in Workplace, OpenDevice(w, at), call[w] # NoCall,
           UNCHANGED <<account, access, jar, session, disturbed>>
    PROVE  AccountsInv'
<1>1. StaffAccountsTypeOK
  BY DEF AccountsInv
<1>2. /\ devices' \in Seq(StaffDevice) /\ Len(devices') <= MaxDevices
      /\ DOMAIN devices' = DOMAIN devices \cup {Len(devices) + 1}
      /\ \A d \in DOMAIN devices : devices'[d] = devices[d]
      /\ devices'[Len(devices) + 1].secret = 1
      /\ devices'[Len(devices) + 1].under = account.password
      /\ [device |-> Len(devices) + 1, secret |-> 1] \in Cookie
  BY <1>1, DeviceOpened
<1>3. DevicesFallWithThePassword'
  BY <1>2 DEF DevicesFallWithThePassword, AccountsInv
<1>4. IssueCookie(w, Len(devices) + 1, 1)
  BY DEF OpenDevice
<1> QED
  BY <1>2, <1>3, <1>4, AnswerKeeps

\* The answer that brings a new secret of a device.
LEMMA RotateKeeps ==
    ASSUME AccountsInv, NEW w \in Tabs, NEW d \in DOMAIN devices, NEW at \in Workplace,
           RotateDevice(w, d, at), call[w] # NoCall,
           UNCHANGED <<account, access, jar, session, disturbed>>
    PROVE  AccountsInv'
<1>1. StaffAccountsTypeOK
  BY DEF AccountsInv
<1>2. /\ devices' \in Seq(StaffDevice) /\ Len(devices') = Len(devices)
      /\ DOMAIN devices' = DOMAIN devices
      /\ \A e \in DOMAIN devices : devices'[e].revoked = devices[e].revoked
                                   /\ devices'[e].under = devices[e].under
      /\ devices'[d].secret = devices[d].secret + 1
      /\ [device |-> d, secret |-> devices[d].secret + 1] \in Cookie
  BY <1>1, DeviceRotated
<1>3. DevicesFallWithThePassword' /\ Len(devices') <= MaxDevices
  BY <1>1, <1>2 DEF DevicesFallWithThePassword, AccountsInv, StaffAccountsTypeOK
<1>4. IssueCookie(w, d, devices[d].secret + 1)
  BY DEF RotateDevice
<1> QED
  BY <1>2, <1>3, <1>4, AnswerKeeps

\* The restaurant that a device is used for is one, or none.
LEMMA PickActiveTypes == ASSUME NEW at \in Workplace PROVE PickActive(at) \in Workplace
<1>1. CASE at = NoWorkplace /\ \E t \in access : access = {t} /\ t \in Workplaces
  <2>1. (CHOOSE t \in Workplaces : access = {t}) \in Workplaces
    BY <1>1
  <2> QED
    BY <1>1, <2>1 DEF PickActive, Workplace
<1>2. CASE ~(at = NoWorkplace /\ \E t \in access : access = {t} /\ t \in Workplaces)
  <2> QED
    BY <1>2 DEF PickActive, Workplace
<1> QED
  BY <1>1, <1>2

\* A login that ends opens a device; a switch of restaurant uses the device of
\* the cookie, or opens one; a refresh is made with its device.
LEMMA AnswersKeep ==
    ASSUME AccountsInv, NEW w \in Tabs, FinishLogin(w) \/ FinishSwitch(w) \/ Refresh(w)
    PROVE  AccountsInv'
<1>0. /\ StaffAccountsTypeOK /\ call[w] \in StaffCall /\ call[w].at \in Workplace
      /\ UNCHANGED <<account, access, jar, session, disturbed>>
      /\ call[w] # NoCall
  BY NoCallIsACall DEF AccountsInv, StaffAccountsTypeOK, StaffCall, FinishLogin, FinishSwitch, Refresh
<1>1. call[w].cookie # NoCookie =>
         /\ call[w].cookie.device \in DOMAIN devices
         /\ devices[call[w].cookie.device].at \in Workplace
  BY <1>0, RowsOfDevices DEF AccountsInv, CookiesNameDevices, StaffDevice
<1>2. CASE FinishLogin(w) \/ (FinishSwitch(w) /\ call[w].cookie = NoCookie)
  BY <1>0, <1>2, OpenKeeps DEF FinishLogin, FinishSwitch
<1>3. CASE FinishSwitch(w) /\ call[w].cookie # NoCookie
  BY <1>0, <1>1, <1>3, RotateKeeps DEF FinishSwitch
<1>4. CASE Refresh(w)
  <2> DEFINE d == call[w].cookie.device
  <2>1. d \in DOMAIN devices /\ devices[d].at \in Workplace
    BY <1>1, <1>4 DEF Refresh, Refreshable
  <2>2. RotateDevice(w, d, PickActive(devices[d].at))
    BY <1>4 DEF Refresh
  <2> HIDE DEF d
  <2> QED
    BY <1>0, <2>1, <2>2, PickActiveTypes, RotateKeeps
<1> QED
  BY <1>2, <1>3, <1>4

\* The cookie of an answer is the one in force; a refusal ends the session.
LEMMA ReceiveKeeps == ASSUME AccountsInv, NEW w \in Tabs, Receive(w) PROVE AccountsInv'
<1>0. StaffAccountsTypeOK /\ Become(w, NoCall) /\ UNCHANGED <<account, access, devices, disturbed>>
  BY DEF AccountsInv, Receive
<1>1. /\ call' \in [Tabs -> StaffCall]
      /\ \A v \in Tabs : call'[v] = IF v = w THEN NoCall ELSE call[v]
  BY <1>0, CallBecomes, NoCallIsACall DEF Become, StaffAccountsTypeOK
<1>2. call[w].cookie \in Cookie \cup {NoCookie} /\ session' \in BOOLEAN
  BY <1>0 DEF StaffAccountsTypeOK, StaffCall, Receive
<1>3. StaffAccountsTypeOK'
  BY <1>0, <1>1, <1>2 DEF StaffAccountsTypeOK, Receive
<1>4. CookiesNameDevices' /\ CallsWellFormed' /\ DevicesFallWithThePassword'
  BY <1>0, <1>1, NoCallIsACall
  DEF AccountsInv, CookiesNameDevices, CallsWellFormed, DevicesFallWithThePassword, Issued, Receive
<1>5. ASSUME ~disturbed'
      PROVE  Undisturbed'
  <2>1. Undisturbed /\ ~disturbed /\ call[w] # NoCall
    BY <1>0, <1>5, NoCallIsACall DEF AccountsInv, Receive
  <2>2. \A v \in Tabs : call'[v] = NoCall /\ ~Issued(v)'
    BY <1>1, <2>1, NoCallIsACall, OthersIdle DEF Issued
  <2>3. CASE Issued(w)
    <3>1. jar' = call[w].cookie /\ call[w].cookie # NoCookie /\ InSync(call[w].cookie)
      BY <2>1, <2>3 DEF AccountsInv, CallsWellFormed, Undisturbed, Issued, Receive
    <3> QED
      BY <1>0, <2>2, <3>1 DEF Undisturbed, Alone, InSync
  <2>4. CASE ~Issued(w)
    <3>1. \A v \in Tabs : ~Issued(v)
      BY <2>1, <2>4, NoCallIsACall, OthersIdle DEF Issued
    <3>2. jar' = jar /\ ~session' /\ (jar # NoCookie => InSync(jar))
      BY <2>1, <2>4, <3>1 DEF Undisturbed, Issued, Receive
    <3> QED
      BY <1>0, <2>2, <3>2 DEF Undisturbed, Alone, InSync
  <2> QED
    BY <2>3, <2>4
<1> QED
  BY <1>3, <1>4, <1>5 DEF AccountsInv

\* The calls that begin.
LEMMA CallsBegin ==
    ASSUME AccountsInv, NEW w \in Tabs,
           \/ \E at \in Workplace : Login(w, at)
           \/ \E t \in Workplaces : SwitchTenant(w, t)
           \/ RefreshSession(w) \/ OpenShell(w) \/ FollowLink(w) \/ SetupTotp(w) \/ EnableTotp(w)
    PROVE  AccountsInv'
<1>1. CASE \E at \in Workplace : Login(w, at)
  BY <1>1, PickActiveTypes, BeginKeeps DEF Login
<1>2. CASE \E t \in Workplaces : SwitchTenant(w, t)
  BY <1>2, BeginKeeps DEF SwitchTenant, Workplace
<1>3. CASE RefreshSession(w) \/ OpenShell(w) \/ FollowLink(w) \/ SetupTotp(w) \/ EnableTotp(w)
  BY <1>3, BeginKeeps DEF RefreshSession, OpenShell, FollowLink, SetupTotp, EnableTotp, Workplace
<1> QED
  BY <1>1, <1>2, <1>3

\* Every action keeps the invariant.
LEMMA AccountsKept == AccountsInv /\ [StaffAccountsNext]_staffAccountsVars => AccountsInv'
<1> SUFFICES ASSUME AccountsInv, [StaffAccountsNext]_staffAccountsVars
             PROVE  AccountsInv'
  OBVIOUS
<1>1. CASE UNCHANGED staffAccountsVars
  BY <1>1 DEF staffAccountsVars, AccountsInv, StaffAccountsTypeOK, CookiesNameDevices, CallsWellFormed,
              DevicesFallWithThePassword, Undisturbed, Alone, InSync, Issued, Own
<1> QED
  BY <1>1, OutsideKeeps, CallsBegin, AnswersKeep, CallGoesOn, CallEnds, ReceiveKeeps, LogoutKeeps
  DEF StaffAccountsNext

\* The invariant holds in every state.
LEMMA AccountsInvariant == StaffAccountsSpec => []AccountsInv
  BY AccountsInitially, AccountsKept, PTL DEF StaffAccountsSpec

\* Resetting the password leaves no device of before it that can still refresh,
\* for any number of tabs, devices and resets (auth.service.ts, resetPassword).
THEOREM DevicesFallWithThePasswordAlways == StaffAccountsSpec => []DevicesFallWithThePassword
<1>1. AccountsInv => DevicesFallWithThePassword
  BY DEF AccountsInv
<1> QED
  BY <1>1, AccountsInvariant, PTL

SignedOutStep ==
    session /\ ~disturbed' =>
         /\ ~session' => \E w \in Tabs : Logout(w) \/ call[w].pc = "refused"
         /\ \A w \in Tabs : call[w].pc # "refused" /\ call'[w].pc = "refused" => CauseToRefuse

\* Only a logout and a refusal that arrives end a session.
LEMMA SessionEnds ==
    ASSUME [StaffAccountsNext]_staffAccountsVars, session, ~session'
    PROVE  \E w \in Tabs : Logout(w) \/ call[w].pc = "refused"
<1>1. \E w \in Tabs : Logout(w) \/ Receive(w)
  BY DEF StaffAccountsNext, staffAccountsVars, RequestPasswordReset, RevokeDevices, DisableMember,
         BlockRestaurant, RestoreAccess, DeviceExpires, Login, FinishLogin, SwitchTenant, FinishSwitch,
         RefreshSession, OpenShell, Refresh, RefuseRefresh, FailRefresh, LoseAnswer, FollowLink,
         ResetPassword, SetupTotp, WriteTotp, EnableTotp, WriteTotpEnabled, Begin
<1> QED
  BY <1>1 DEF Receive

\* A call is refused only where the server has looked at its cookie, or has failed.
LEMMA OnlyRefreshesAreRefused ==
    ASSUME AccountsInv, [StaffAccountsNext]_staffAccountsVars, ~disturbed',
           NEW w \in Tabs, call[w].pc # "refused", call'[w].pc = "refused"
    PROVE  /\ call[w].pc = "refresh" /\ ~Refreshable(call[w].cookie)
           /\ UNCHANGED disturbed
<1>0. StaffAccountsTypeOK /\ call[w] \in StaffCall
  BY DEF AccountsInv, StaffAccountsTypeOK
<1>1. ASSUME NEW v \in Tabs, NEW next, next.pc # "refused", Become(v, next)
      PROVE  FALSE
  BY <1>0, <1>1, CallBecomes
<1>2. \A v \in Tabs : \A d, s : ~IssueCookie(v, d, s)
  BY <1>1 DEF IssueCookie
<1>3. \A v \in Tabs : ~Become(v, NoCall)
  BY <1>1, NoCallIsACall
<1>4. \A v \in Tabs, pc \in {"login", "refresh", "switch", "reset", "setup", "enable"} : \A at : ~Begin(v, pc, at)
  <2> SUFFICES ASSUME NEW v \in Tabs, NEW at, NEW cookie,
                      NEW pc \in {"login", "refresh", "switch", "reset", "setup", "enable"},
                      Become(v, [pc |-> pc, cookie |-> cookie, at |-> at])
               PROVE  FALSE
    BY DEF Begin
  <2> QED
    BY <1>1
<1>5. \A v \in Tabs : ~WriteTotpEnabled(v)
  <2> SUFFICES ASSUME NEW v \in Tabs, Become(v, [call[v] EXCEPT !.pc = "renew"]) PROVE FALSE
    BY DEF WriteTotpEnabled
  <2>1. call[v] \in StaffCall
    BY <1>0 DEF StaffAccountsTypeOK
  <2> QED
    BY <1>1, <2>1 DEF StaffCall
<1>6. \E v \in Tabs : RefuseRefresh(v)
  <2>1. ~UNCHANGED call
    OBVIOUS
  <2> QED
    BY <1>2, <1>3, <1>4, <1>5, <2>1
    DEF StaffAccountsNext, staffAccountsVars, RequestPasswordReset, RevokeDevices, DisableMember,
        BlockRestaurant, RestoreAccess, DeviceExpires, Login, FinishLogin, SwitchTenant, FinishSwitch,
        RefreshSession, OpenShell, Refresh, FailRefresh, Receive, LoseAnswer, Logout, FollowLink,
        ResetPassword, SetupTotp, WriteTotp, EnableTotp, OpenDevice, RotateDevice
<1>7. ASSUME NEW v \in Tabs, RefuseRefresh(v)
      PROVE  v = w /\ call[w].pc = "refresh"
  <2>0. call[v] \in StaffCall
    BY <1>0 DEF StaffAccountsTypeOK
  <2>1. CASE call[v].pc = "refresh" /\ Become(v, [call[v] EXCEPT !.pc = "refused"])
    BY <1>0, <2>1, CallBecomes
  <2>2. ASSUME NEW cookie, Become(v, [call[v] EXCEPT !.pc = "refresh", !.cookie = cookie])
        PROVE  FALSE
    BY <1>1, <2>0, <2>2 DEF StaffCall
  <2> QED
    BY <1>7, <2>1, <2>2 DEF RefuseRefresh, Refuse
<1> QED
  BY <1>6, <1>7 DEF RefuseRefresh

\* A refusal, when nothing else is going on, comes to the cookie that the browser
\* has, whose secret is the one in force: the server has another reason.
LEMMA SignedOut == AccountsInv /\ [StaffAccountsNext]_staffAccountsVars => SignedOutStep
<1> SUFFICES ASSUME AccountsInv, [StaffAccountsNext]_staffAccountsVars, session, ~disturbed'
             PROVE  /\ ~session' => \E w \in Tabs : Logout(w) \/ call[w].pc = "refused"
                    /\ \A w \in Tabs : call[w].pc # "refused" /\ call'[w].pc = "refused" => CauseToRefuse
  BY DEF SignedOutStep
<1>1. ASSUME NEW w \in Tabs, call[w].pc # "refused", call'[w].pc = "refused"
      PROVE  CauseToRefuse
  <2>1. call[w].pc = "refresh" /\ ~Refreshable(call[w].cookie) /\ Undisturbed /\ ~disturbed
    BY <1>1, OnlyRefreshesAreRefused DEF AccountsInv
  <2>2. call[w] # NoCall /\ ~Issued(w)
    BY <2>1, NoCallIsACall DEF Issued
  <2>3. \A v \in Tabs : ~Issued(v)
    BY <2>1, <2>2, OthersIdle, NoCallIsACall DEF Issued
  <2>4. jar # NoCookie /\ InSync(jar) /\ Own(call[w].cookie)
    BY <2>1, <2>2, <2>3 DEF Undisturbed
  <2> QED
    BY <2>1, <2>4 DEF CauseToRefuse, Refreshable, InSync, Own
<1> QED
  BY <1>1, SessionEnds

\* A browser whose calls do not overlap and whose answers arrive keeps its
\* session until it logs out or the server refuses its device for a reason: no
\* chain of refreshes, switches of restaurant and set-ups signs it out, however
\* long.
THEOREM SignedOutForCauseAlways == StaffAccountsSpec => SignedOutForCause
<1>1. AccountsInv /\ [StaffAccountsNext]_staffAccountsVars => [SignedOutStep]_staffAccountsVars
  BY SignedOut
<1>2. StaffAccountsSpec => [][SignedOutStep]_staffAccountsVars
  BY <1>1, AccountsInvariant, PTL DEF StaffAccountsSpec
<1> QED
  BY <1>2 DEF SignedOutForCause, SignedOutStep

-----------------------------------------------------------------------------
(***************************************************************************)
(* Proofs about Members, for any number of restaurants and users: who is   *)
(* active can sign in or still has an invitation, and only a token that    *)
(* has outlived its role takes a restaurant its last administrator.  The   *)
(* first rests on two facts that nothing in the code states: an account    *)
(* without a password was made by an invitation, and only what stores a    *)
(* password takes an invitation away.                                      *)
(***************************************************************************)

\* Whoever is in a team has an account and the restaurant exists, and so it is
\* with whoever has a token or is accepting.
TeamsExist ==
    \A t \in Restaurants, u \in Users :
        /\ member[<<t, u>>] # Nobody => t \in Opened /\ u \in Accounts
        /\ token[<<t, u>>] # Nobody => t \in Opened
        /\ <<t, u>> \in accepting => member[<<t, u>>] # Nobody

PasswordlessAreInvited ==
    \A u \in Accounts : password[u] \/ \E t \in Restaurants : HasInvite(t, u)

MembersRows ==
    /\ restaurant \in [Restaurants -> Restaurant \cup {Nobody}]
    /\ member \in [Restaurants \X Users -> Membership \cup {Nobody}]
    /\ token \in [Restaurants \X Users -> Roles \cup {Nobody}]
    /\ Accounts \subseteq Users /\ password \in [Accounts -> BOOLEAN]
    /\ accepting \subseteq Restaurants \X Users

MembersInv == MembersRows /\ TeamsExist /\ PasswordlessAreInvited

\* There is no account and no team at first.
LEMMA MembersInitially == MembersInit => MembersInv
<1> SUFFICES ASSUME MembersInit PROVE MembersInv
    OBVIOUS
<1>1. Accounts = {}
  BY DEF MembersInit, Accounts
<1>2. MembersRows
  BY <1>1 DEF MembersRows, MembersInit, Accounts
<1> QED
  BY <1>1, <1>2 DEF MembersInv, TeamsExist, PasswordlessAreInvited, MembersInit

\* An account that a call may have made is there, and the others are as they were.
LEMMA AccountAdded ==
    ASSUME MembersRows, NEW u \in Users, NEW p \in BOOLEAN, WithAccount(u, p)
    PROVE  /\ Accounts' = Accounts \cup {u}
           /\ password' \in [Accounts' -> BOOLEAN]
           /\ \A v \in Accounts : password'[v] = password[v]
           /\ u \notin Accounts => password'[u] = p
  BY DEF WithAccount, MembersRows, Accounts

\* The new restaurant has no team before: its first row takes no invitation away.
LEMMA TenantInserted ==
    ASSUME MembersInv, NEW t \in Restaurants, NEW u \in Users, NEW slug \in Slugs,
           InsertTenantWithAdmin(t, u, slug)
    PROVE  MembersInv'
<1> DEFINE row == [role |-> "admin", status |-> "active", invite |-> FALSE]
<1>1. MembersRows /\ TeamsExist /\ PasswordlessAreInvited
  BY DEF MembersInv
<1>2. /\ Accounts' = Accounts \cup {u} /\ password' \in [Accounts' -> BOOLEAN]
      /\ \A v \in Accounts : password'[v] = password[v]
      /\ u \notin Accounts => password'[u] = TRUE
  BY <1>1, AccountAdded DEF InsertTenantWithAdmin
<1>3. row \in Membership /\ row # Nobody
  <2>1. row \in Membership
    BY DEF Membership, Roles
  <2> QED
    BY <2>1, MembersAssumption
<1>4. /\ [slug |-> slug, status |-> "active"] \in Restaurant
      /\ [slug |-> slug, status |-> "active"] # Nobody
  BY MembersAssumption DEF Restaurant
<1>5. Opened' = Opened \cup {t}
  BY <1>1, <1>4 DEF InsertTenantWithAdmin, Opened, MembersRows
<1>6. member' = [member EXCEPT ![<<t, u>>] = row] /\ UNCHANGED <<token, accepting>>
  BY DEF InsertTenantWithAdmin
<1>7. MembersRows'
  BY <1>1, <1>2, <1>3, <1>4, <1>6 DEF MembersRows, InsertTenantWithAdmin
<1>8. member'[<<t, u>>] = row
      /\ \A s \in Restaurants, v \in Users : s # t \/ v # u => member'[<<s, v>>] = member[<<s, v>>]
  BY <1>1, <1>6 DEF MembersRows
<1> HIDE DEF row
<1>9. TeamsExist'
  <2> SUFFICES ASSUME NEW s \in Restaurants, NEW v \in Users
               PROVE  /\ member'[<<s, v>>] # Nobody => s \in Opened' /\ v \in Accounts'
                      /\ token'[<<s, v>>] # Nobody => s \in Opened'
                      /\ <<s, v>> \in accepting' => member'[<<s, v>>] # Nobody
    BY DEF TeamsExist
  <2>1. CASE s = t /\ v = u
    BY <1>2, <1>3, <1>5, <1>8, <2>1
  <2>2. CASE s # t \/ v # u
    BY <1>1, <1>2, <1>5, <1>6, <1>8, <2>2 DEF TeamsExist
  <2> QED
    BY <2>1, <2>2
<1>10. \A s \in Restaurants, v \in Users : HasInvite(s, v) => HasInvite(s, v)'
  BY <1>1, <1>8 DEF HasInvite, TeamsExist, InsertTenantWithAdmin
<1>11. PasswordlessAreInvited'
  BY <1>1, <1>2, <1>10 DEF PasswordlessAreInvited, MembersRows
<1> QED
  BY <1>7, <1>9, <1>11 DEF MembersInv

\* A token, a restaurant's status and an invitation that is opened change no row
\* of a team.
LEMMA TeamsStay ==
    ASSUME MembersInv, UNCHANGED <<member, password>>, Opened' = Opened, MembersRows',
           \A t \in Restaurants, u \in Users :
               /\ token'[<<t, u>>] # Nobody => t \in Opened
               /\ <<t, u>> \in accepting' => member[<<t, u>>] # Nobody
    PROVE  MembersInv'
<1>1. Accounts' = Accounts
  BY DEF Accounts
<1>2. TeamsExist'
  BY <1>1 DEF MembersInv, TeamsExist
<1>3. PasswordlessAreInvited'
  BY <1>1 DEF MembersInv, PasswordlessAreInvited, HasInvite
<1> QED
  BY <1>2, <1>3 DEF MembersInv

\* A row of somebody with an account, of a restaurant that is there.
LEMMA TeamWritten ==
    ASSUME MembersInv, NEW t \in Opened, NEW u \in Accounts', NEW row \in Membership,
           member' = [member EXCEPT ![<<t, u>>] = row],
           Accounts \subseteq Accounts', Accounts' \subseteq Users,
           password' \in [Accounts' -> BOOLEAN],
           \A v \in Accounts : password[v] => password'[v],
           \A v \in Accounts' : v # u => v \in Accounts,
           password'[u] \/ row.invite \/ (u \in Accounts /\ ~HasInvite(t, u)),
           UNCHANGED <<restaurant, token>>, accepting' \subseteq accepting
    PROVE  MembersInv'
<1>1. MembersRows /\ TeamsExist /\ PasswordlessAreInvited
  BY DEF MembersInv
<1>2. row # Nobody /\ t \in Restaurants /\ u \in Users
  BY MembersAssumption DEF Opened
<1>3. /\ member'[<<t, u>>] = row
      /\ \A s \in Restaurants, v \in Users : s # t \/ v # u => member'[<<s, v>>] = member[<<s, v>>]
  BY <1>1, <1>2 DEF MembersRows
<1>4. MembersRows'
  BY <1>1, <1>2 DEF MembersRows
<1>5. Opened' = Opened
  BY DEF Opened
<1>6. TeamsExist'
  <2> SUFFICES ASSUME NEW s \in Restaurants, NEW v \in Users
               PROVE  /\ member'[<<s, v>>] # Nobody => s \in Opened' /\ v \in Accounts'
                      /\ token'[<<s, v>>] # Nobody => s \in Opened'
                      /\ <<s, v>> \in accepting' => member'[<<s, v>>] # Nobody
    BY DEF TeamsExist
  <2>1. CASE s = t /\ v = u
    BY <1>2, <1>3, <1>5, <2>1
  <2>2. CASE s # t \/ v # u
    BY <1>1, <1>3, <1>5, <2>2 DEF TeamsExist
  <2> QED
    BY <2>1, <2>2
<1>7. PasswordlessAreInvited'
  <2> SUFFICES ASSUME NEW v \in Accounts', ~password'[v]
               PROVE  \E s \in Restaurants : HasInvite(s, v)'
    BY DEF PasswordlessAreInvited
  <2>1. CASE v = u /\ row.invite
    BY <1>2, <1>3, <2>1 DEF HasInvite
  <2>2. CASE v # u \/ ~row.invite
    <3>1. v \in Accounts /\ ~password[v] /\ v \in Users
      BY <2>2
    <3>2. PICK s \in Restaurants : HasInvite(s, v)
      BY <1>1, <3>1 DEF PasswordlessAreInvited
    <3>3. s # t \/ v # u
      BY <2>2, <3>2
    <3> QED
      BY <1>3, <3>1, <3>2, <3>3 DEF HasInvite
  <2> QED
    BY <2>1, <2>2
<1> QED
  BY <1>4, <1>6, <1>7 DEF MembersInv

\* Whoever is invited without an account gets one, and has the invitation.
LEMMA InviteKeeps ==
    ASSUME MembersInv, NEW t \in Restaurants, NEW actor \in Users, NEW u \in Users,
           NEW role \in Roles, Invite(t, actor, u, role)
    PROVE  MembersInv'
<1> DEFINE active == u \in Accounts /\ password[u]
           row == [role |-> role, invite |-> ~active,
                   status |-> IF active THEN "active" ELSE "invited"]
<1>1. MembersRows /\ TeamsExist
  BY DEF MembersInv
<1>2. t \in Opened
  BY <1>1, MembersAssumption DEF Invite, TeamsExist, Roles
<1>3. /\ Accounts' = Accounts \cup {u} /\ password' \in [Accounts' -> BOOLEAN]
      /\ \A v \in Accounts : password'[v] = password[v]
      /\ u \notin Accounts => password'[u] = FALSE
  BY <1>1, AccountAdded DEF Invite
<1>4. active \in BOOLEAN
  OBVIOUS
<1>5. row \in Membership
  BY <1>4 DEF Membership
<1>6. password'[u] \/ row.invite
  BY <1>3
<1>7. member' = [member EXCEPT ![<<t, u>>] = row] /\ UNCHANGED <<restaurant, token, accepting>>
  BY DEF Invite
<1>8. Accounts' \subseteq Users
  BY <1>1, <1>3 DEF MembersRows
<1> HIDE DEF row
<1> QED
  BY <1>2, <1>3, <1>5, <1>6, <1>7, <1>8, TeamWritten

\* An invitation is taken with a password: given with it, or stored before.
LEMMA AcceptInviteKeeps ==
    ASSUME MembersInv, NEW t \in Restaurants, NEW u \in Users, AcceptInvite(t, u)
    PROVE  MembersInv'
<1> DEFINE row == [member[<<t, u>>] EXCEPT !.status = "active", !.invite = FALSE]
<1>1. MembersRows /\ TeamsExist
  BY DEF MembersInv
<1>2. member[<<t, u>>] # Nobody /\ t \in Opened /\ u \in Accounts
  BY <1>1 DEF AcceptInvite, TeamsExist
<1>3. member[<<t, u>>] \in Membership
  BY <1>1, <1>2 DEF MembersRows
<1>4. row \in Membership
  BY <1>3 DEF Membership
<1>5. member' = [member EXCEPT ![<<t, u>>] = row]
  BY <1>1 DEF AcceptInvite, MembersRows
<1>6. /\ Accounts' = Accounts /\ password' \in [Accounts' -> BOOLEAN] /\ password'[u] = TRUE
      /\ \A v \in Accounts : password[v] => password'[v]
  BY <1>1, <1>2 DEF AcceptInvite, MembersRows, Accounts
<1>7. Accounts \subseteq Users /\ UNCHANGED <<restaurant, token>> /\ accepting' \subseteq accepting
  BY <1>1 DEF MembersRows, AcceptInvite
<1> HIDE DEF row
<1> QED
  BY <1>2, <1>4, <1>5, <1>6, <1>7, TeamWritten

\* A change keeps the invitation of the row, and so whoever it makes active over
\* one can still take it up.
LEMMA UpdatedRow ==
    ASSUME MembersRows, NEW t \in Restaurants, NEW actor \in Users, NEW u \in Users,
           NEW change \in Changes, Update(t, actor, u, change)
    PROVE  LET row == member[<<t, u>>] IN
           /\ row \in Membership
           /\ member'[<<t, u>>] \in Membership
           /\ member'[<<t, u>>].role = Given(change.role, row.role)
           /\ member'[<<t, u>>].status = Given(change.status, row.status)
           /\ member'[<<t, u>>].invite = row.invite
           /\ member' = [member EXCEPT ![<<t, u>>] = member'[<<t, u>>]]
<1> DEFINE row == member[<<t, u>>]
           changed == [row EXCEPT !.role = Given(change.role, @), !.status = Given(change.status, @)]
<1>1. row \in Membership
  BY DEF MembersRows, Update
<1>2. member' = [member EXCEPT ![<<t, u>>] = changed]
  BY DEF MembersRows, Update
<1>3. member'[<<t, u>>] = changed
  BY <1>2 DEF MembersRows
<1>4. Given(change.role, row.role) \in Roles
  BY <1>1 DEF Given, Changes, Membership
<1>5. Given(change.status, row.status) \in {"invited", "active", "disabled"}
  BY <1>1 DEF Given, Changes, Membership
<1>6. /\ changed \in Membership /\ changed.role = Given(change.role, row.role)
      /\ changed.status = Given(change.status, row.status) /\ changed.invite = row.invite
  BY <1>1, <1>4, <1>5 DEF Membership
<1> HIDE DEF changed
<1> QED
  BY <1>1, <1>2, <1>3, <1>6

\* Changing a row leaves passwords and invitations alone.
LEMMA UpdateKeeps ==
    ASSUME MembersInv, NEW t \in Restaurants, NEW actor \in Users, NEW u \in Users,
           NEW change \in Changes, Update(t, actor, u, change)
    PROVE  MembersInv'
<1> DEFINE row == member'[<<t, u>>]
<1>1. MembersRows /\ TeamsExist
  BY DEF MembersInv
<1>2. member[<<t, u>>] # Nobody /\ t \in Opened /\ u \in Accounts
  BY <1>1 DEF Update, TeamsExist
<1>3. row \in Membership /\ row.invite = member[<<t, u>>].invite
      /\ member' = [member EXCEPT ![<<t, u>>] = row]
  BY <1>1, UpdatedRow
<1>4. row.invite \/ ~HasInvite(t, u)
  BY <1>3 DEF HasInvite
<1>5. UNCHANGED <<restaurant, password, token, accepting>>
  BY DEF Update
<1>6. Accounts' = Accounts /\ Accounts \subseteq Users /\ password' \in [Accounts' -> BOOLEAN]
  BY <1>1, <1>5 DEF Accounts, MembersRows
<1> HIDE DEF row
<1> QED
  BY <1>2, <1>3, <1>4, <1>5, <1>6, TeamWritten

\* An account that has its password set needs no invitation any more.
LEMMA PasswordSet ==
    ASSUME MembersInv, NEW u \in Users, ResetPasswordOf(u)
    PROVE  MembersInv'
<1>1. /\ Accounts' = Accounts /\ password' \in [Accounts' -> BOOLEAN]
      /\ \A v \in Accounts : password[v] => password'[v]
  BY DEF ResetPasswordOf, MembersInv, MembersRows, Accounts
<1>2. UNCHANGED <<restaurant, member, token, accepting>>
  BY DEF ResetPasswordOf
<1>3. MembersRows'
  BY <1>1, <1>2 DEF MembersInv, MembersRows
<1>4. TeamsExist'
  BY <1>1, <1>2 DEF MembersInv, TeamsExist, Opened
<1>5. PasswordlessAreInvited'
  BY <1>1, <1>2 DEF MembersInv, PasswordlessAreInvited, HasInvite
<1> QED
  BY <1>3, <1>4, <1>5 DEF MembersInv

\* Every action keeps the invariant.
LEMMA MembersKept == MembersInv /\ [MembersNext]_membersVars => MembersInv'
<1> SUFFICES ASSUME MembersInv, [MembersNext]_membersVars PROVE MembersInv'
    OBVIOUS
<1>1. MembersRows /\ TeamsExist
  BY DEF MembersInv
<1>2. ASSUME NEW t \in Restaurants, NEW u \in Users, NEW slug \in Slugs,
             Signup(t, u, slug) \/ Create(t, u, slug)
      PROVE  MembersInv'
  BY <1>2, TenantInserted DEF Signup, Create
<1>3. ASSUME NEW t \in Restaurants, NEW status \in {"active", "blocked"}, SetStatus(t, status)
      PROVE  MembersInv'
  <2>1. restaurant[t] \in Restaurant
    BY <1>1, <1>3 DEF SetStatus, Opened, MembersRows
  <2>2. restaurant' = [restaurant EXCEPT ![t] = [restaurant[t] EXCEPT !.status = status]]
    BY <1>1, <1>3 DEF SetStatus, MembersRows
  <2>3. [restaurant[t] EXCEPT !.status = status] \in Restaurant
    BY <2>1 DEF Restaurant
  <2>4. \A s \in Restaurants : restaurant'[s] \in Restaurant <=> restaurant[s] \in Restaurant
    BY <1>1, <2>1, <2>2, <2>3 DEF MembersRows
  <2>5. \A s \in Restaurants : restaurant[s] \in Restaurant \cup {Nobody}
                               /\ restaurant'[s] \in Restaurant \cup {Nobody}
    BY <1>1, <2>2, <2>3 DEF MembersRows
  <2>6. Opened' = Opened
    BY <2>4, <2>5, MembersAssumption DEF Opened
  <2>7. MembersRows'
    BY <1>1, <1>3, <2>2, <2>3 DEF MembersRows, SetStatus, Accounts
  <2> QED
    BY <1>1, <1>3, <2>6, <2>7, TeamsStay DEF SetStatus, TeamsExist
<1>4. ASSUME NEW t \in Restaurants, NEW u \in Users,
             Issue(t, u) \/ Expire(t, u) \/ FollowInvite(t, u)
      PROVE  MembersInv'
  <2>1. UNCHANGED <<restaurant, member, password>> /\ Opened' = Opened
    BY <1>4 DEF Issue, Expire, FollowInvite, Opened
  <2>2. CASE Issue(t, u)
    <3>1. t \in Opened /\ member[<<t, u>>] \in Membership
      BY <1>1, <2>2 DEF Issue, ActiveMember, TeamsExist, MembersRows
    <3>2. MembersRows'
      BY <1>1, <2>2, <3>1 DEF Issue, MembersRows, Membership, Accounts
    <3> QED
      BY <1>1, <2>1, <2>2, <3>1, <3>2, TeamsStay DEF Issue, MembersRows, TeamsExist
  <2>3. CASE Expire(t, u)
    <3>1. MembersRows'
      BY <1>1, <2>3 DEF Expire, MembersRows, Accounts
    <3> QED
      BY <1>1, <2>1, <2>3, <3>1, TeamsStay DEF Expire, MembersRows, TeamsExist
  <2>4. CASE FollowInvite(t, u)
    <3>1. MembersRows'
      BY <1>1, <2>4 DEF FollowInvite, MembersRows, Accounts
    <3> QED
      BY <1>1, <2>1, <2>4, <3>1, TeamsStay DEF FollowInvite, HasInvite, MembersRows, TeamsExist
  <2> QED
    BY <1>4, <2>2, <2>3, <2>4
<1>5. CASE UNCHANGED membersVars
  BY <1>5 DEF membersVars, MembersInv, MembersRows, TeamsExist, PasswordlessAreInvited,
              HasInvite, Accounts, Opened
<1> QED
  BY <1>2, <1>3, <1>4, <1>5, InviteKeeps, AcceptInviteKeeps, UpdateKeeps, PasswordSet
     DEF MembersNext

\* Whoever is active in a team has a password, or an invitation to set one, in
\* every instance: through invite, acceptInvite, update, create and a reset.
THEOREM ActiveMembersCanSignInAlways == MembersSpec => []ActiveMembersCanSignIn
<1>1. MembersInv => ActiveMembersCanSignIn
  BY DEF MembersInv, TeamsExist, PasswordlessAreInvited, ActiveMembersCanSignIn, ActiveMember
<1> QED
  BY <1>1, MembersInitially, MembersKept, PTL DEF MembersSpec

\* Only an update takes an administrator from its restaurant.
LEMMA AdminsFallToUpdates ==
    ASSUME MembersInv, [MembersNext]_membersVars, NEW t \in Restaurants, NEW u \in Users,
           u \in AdminsOf(t), u \notin AdminsOf(t)'
    PROVE  \E actor \in Users, change \in Changes : Update(t, actor, u, change)
<1>1. MembersRows /\ TeamsExist
  BY DEF MembersInv
<1>2. /\ member[<<t, u>>] \in Membership /\ member[<<t, u>>] # Nobody
      /\ member[<<t, u>>].role = "admin" /\ member[<<t, u>>].status = "active"
  BY <1>1 DEF AdminsOf, ActiveMember, MembersRows
<1>3. ~ (/\ member'[<<t, u>>] # Nobody
         /\ member'[<<t, u>>].role = "admin" /\ member'[<<t, u>>].status = "active")
  BY DEF AdminsOf, ActiveMember
<1>4. member'[<<t, u>>] # member[<<t, u>>]
  BY <1>2, <1>3
<1>5. ASSUME NEW s \in Restaurants, NEW v \in Users, NEW slug \in Slugs,
             InsertTenantWithAdmin(s, v, slug)
      PROVE  FALSE
  <2>1. t # s
    BY <1>1, <1>2, <1>5 DEF InsertTenantWithAdmin, TeamsExist
  <2> QED
    BY <1>1, <1>4, <1>5, <2>1 DEF InsertTenantWithAdmin, MembersRows
<1>6. ASSUME NEW s \in Restaurants, NEW actor \in Users, NEW v \in Users, NEW role \in Roles,
             Invite(s, actor, v, role)
      PROVE  FALSE
  <2>1. <<s, v>> # <<t, u>>
    BY <1>2, <1>6 DEF Invite
  <2> QED
    BY <1>1, <1>4, <1>6, <2>1 DEF Invite, MembersRows
<1>7. ASSUME NEW s \in Restaurants, NEW v \in Users, AcceptInvite(s, v)
      PROVE  FALSE
  <2>1. CASE <<s, v>> = <<t, u>>
    <3>1. member'[<<t, u>>] = [member[<<t, u>>] EXCEPT !.status = "active", !.invite = FALSE]
      BY <1>1, <1>7, <2>1 DEF AcceptInvite, MembersRows
    <3>2. /\ member'[<<t, u>>] \in Membership
          /\ member'[<<t, u>>].role = "admin" /\ member'[<<t, u>>].status = "active"
      BY <1>2, <3>1 DEF Membership
    <3> QED
      BY <1>3, <3>2, MembersAssumption
  <2>2. CASE <<s, v>> # <<t, u>>
    BY <1>1, <1>4, <1>7, <2>2 DEF AcceptInvite, MembersRows
  <2> QED
    BY <2>1, <2>2
<1>8. ASSUME NEW s \in Restaurants, NEW v \in Users,
             \/ \E status \in {"active", "blocked"} : SetStatus(s, status)
             \/ Issue(s, v) \/ Expire(s, v) \/ FollowInvite(s, v) \/ ResetPasswordOf(v)
             \/ UNCHANGED membersVars
      PROVE  FALSE
  BY <1>4, <1>8 DEF SetStatus, Issue, Expire, FollowInvite, ResetPasswordOf, membersVars
<1>9. ASSUME NEW s \in Restaurants, NEW actor \in Users, NEW v \in Users, NEW change \in Changes,
             Update(s, actor, v, change), s # t \/ v # u
      PROVE  FALSE
  BY <1>1, <1>4, <1>9 DEF Update, MembersRows
<1> QED
  BY <1>5, <1>6, <1>7, <1>8, <1>9 DEF MembersNext, Signup, Create

LastAdminStep ==
    \A t \in Restaurants : AdminsOf(t) # {} /\ AdminsOf(t)' = {} =>
         \E u \in Users : token[<<t, u>>] = "admin" /\ u \notin AdminsOf(t)

\* Whoever updates as an administrator and is one stays one.
LEMMA LastAdminFalls == MembersInv /\ [MembersNext]_membersVars => LastAdminStep
<1> SUFFICES ASSUME MembersInv, [MembersNext]_membersVars, NEW t \in Restaurants,
                    AdminsOf(t) # {}, AdminsOf(t)' = {}
             PROVE  \E u \in Users : token[<<t, u>>] = "admin" /\ u \notin AdminsOf(t)
  BY DEF LastAdminStep
<1>1. PICK u \in Users : u \in AdminsOf(t)
  BY DEF AdminsOf
<1>2. PICK actor \in Users, change \in Changes : Update(t, actor, u, change)
  BY <1>1, AdminsFallToUpdates
<1>3. token[<<t, actor>>] = "admin"
  BY <1>2 DEF Update
<1>4. ASSUME actor \in AdminsOf(t)
      PROVE  FALSE
  <2>1. CASE actor # u
    <3>1. member'[<<t, actor>>] = member[<<t, actor>>]
      BY <1>2, <2>1 DEF Update, MembersInv, MembersRows
    <3> QED
      BY <1>4, <3>1 DEF AdminsOf, ActiveMember
  <2>2. CASE actor = u
    <3>1. change.status # "disabled" /\ change.role \notin Roles \ {"admin"}
      BY <1>2, <2>2 DEF Update, SelfDemotion
    <3>2. change.role \in {"admin", Nobody} /\ change.status \in {"active", Nobody}
      BY <3>1 DEF Changes
    <3>3. member[<<t, u>>].role = "admin" /\ member[<<t, u>>].status = "active"
      BY <1>1 DEF AdminsOf, ActiveMember
    <3>4. /\ member'[<<t, u>>] \in Membership
          /\ member'[<<t, u>>].role = "admin" /\ member'[<<t, u>>].status = "active"
      BY <1>2, <3>2, <3>3, UpdatedRow DEF Given, MembersInv
    <3>5. member'[<<t, u>>] # Nobody
      BY <3>4, MembersAssumption
    <3> QED
      BY <3>4, <3>5 DEF AdminsOf, ActiveMember
  <2> QED
    BY <2>1, <2>2
<1> QED
  BY <1>3, <1>4

\* The last administrator of a restaurant falls only to somebody whose token
\* still says administrator when the membership does not, in every instance.
THEOREM LastAdminFallsToAStaleTokenAlways == MembersSpec => LastAdminFallsToAStaleToken
<1>1. MembersInv /\ [MembersNext]_membersVars => [LastAdminStep]_membersVars
  BY LastAdminFalls
<1>2. MembersSpec => [][LastAdminStep]_membersVars
  BY <1>1, MembersInitially, MembersKept, PTL DEF MembersSpec
<1> QED
  BY <1>2 DEF LastAdminFallsToAStaleToken, LastAdminStep

=============================================================================
