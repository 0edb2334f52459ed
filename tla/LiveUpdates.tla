---------------------------- MODULE LiveUpdates ----------------------------
(***************************************************************************)
(* How a phone at a table learns what became of its request and of its     *)
(* session: the outbox that transactions write to, the publisher and the   *)
(* rooms of the gateway (src/apps/api/src/modules/events), and the screen  *)
(* of the phone with its calls, its polling and its socket                 *)
(* (apps/web/src/app/t/[token]/menu-view.tsx).  Answers arrive late, in    *)
(* another order, or not at all; the process may die between two steps of  *)
(* the publisher.  One phone, one table; requests are numbered.            *)
(***************************************************************************)
EXTENDS Integers, Sequences, FiniteSets

CONSTANTS MaxRequests, MaxEvents, MaxCalls, MaxFaults   \* bounds of the runs

ASSUME LiveUpdatesAssumption == {MaxRequests, MaxEvents, MaxCalls, MaxFaults} \subseteq Nat

Verdicts == {"approved", "rejected", "expired"}

VARIABLES requests,  \* the status of each request of the phone, in order
          visit,     \* the session that an approval opens, one in a run
          outbox,    \* the rows of domain_events
          batch,     \* the rows that the publisher has locked and not yet marked
          unsent,    \* those of them that are still to be emitted
          emitted,   \* how often each row was emitted
          phone,     \* the screen, and what the browser keeps
          rooms,     \* the rooms that the socket of the phone is in
          calls,     \* answers to calls of the phone that have not arrived
          faults,    \* losses and crashes so far
          mishap     \* the phone has missed what nothing will repeat

server == <<requests, visit, outbox>>
publisher == <<batch, unsent, emitted>>
client == <<phone, rooms, calls, mishap>>
liveUpdatesVars == <<server, publisher, client, faults>>

\* "about" is the request that it names.
EventRow == [type : {"request.created", "request.resolved", "session.closed", "session.changed"},
             about : 0..MaxRequests, published : BOOLEAN]
Answer == [kind : {"ask", "join", "status", "boot", "restore", "refresh"}, id : 0..MaxRequests,
           says : {"pending", "none", "open", "closed", "refused"} \cup Verdicts]
\* A notice of an end ("over") has no way back, and one of a refusal has.
Screen == [ui : {"closed", "loading", "browsing", "waiting", "session", "notice", "over"},
           id : 0..MaxRequests, saved : 0..MaxRequests, participant : BOOLEAN]

LiveUpdatesTypeOK ==
    /\ requests \in Seq({"pending"} \cup Verdicts) /\ Len(requests) <= MaxRequests
    /\ visit \in {"none", "open", "closed"}
    /\ outbox \in Seq(EventRow) /\ Len(outbox) <= MaxEvents
    /\ batch \subseteq DOMAIN outbox /\ unsent \subseteq batch
    /\ emitted \in [1..MaxEvents -> Nat]
    /\ phone \in Screen
    /\ rooms \subseteq {"device", "session"}
    /\ calls \in Seq(Answer)
    /\ faults \in 0..MaxFaults
    /\ mishap \in BOOLEAN

LiveUpdatesInit ==
    /\ requests = <<>> /\ visit = "none" /\ outbox = <<>>
    /\ batch = {} /\ unsent = {} /\ emitted = [e \in 1..MaxEvents |-> 0]
    /\ phone = [ui |-> "browsing", id |-> 0, saved |-> 0, participant |-> FALSE]
    /\ rooms = {} /\ calls = <<>> /\ faults = 0 /\ mishap = FALSE

Newest == Len(requests)
Waits == Newest > 0 /\ requests[Newest] = "pending"

Fault == faults < MaxFaults /\ faults' = faults + 1

-----------------------------------------------------------------------------
(* Transactions of the server: each writes its event with its change.        *)

Append1(type, about) ==
    /\ Len(outbox) < MaxEvents
    /\ outbox' = Append(outbox, [type |-> type, about |-> about, published |-> FALSE])

ResolveRequest(verdict) ==
    /\ Waits
    /\ verdict = "approved" => visit = "none"
    /\ requests' = [requests EXCEPT ![Newest] = verdict]
    /\ visit' = IF verdict = "approved" THEN "open" ELSE visit
    /\ Append1("request.resolved", Newest)
    /\ UNCHANGED <<publisher, client, faults>>

\* Somebody joins, the bill is on its way: the session is still there.
ChangeVisit ==
    /\ visit = "open"
    /\ Append1("session.changed", 0)
    /\ UNCHANGED <<requests, visit, publisher, client, faults>>

CloseVisit ==
    /\ visit = "open"
    /\ visit' = "closed"
    /\ Append1("session.closed", 0)
    /\ UNCHANGED <<requests, publisher, client, faults>>

-----------------------------------------------------------------------------
(* Calls of the phone.  The server answers a call when it is made, and the   *)
(* answer arrives some time later.                                           *)

SessionSays == IF ~phone.participant THEN "refused" ELSE visit

StatusAnswer(kind, id) == [kind |-> kind, id |-> id, says |-> requests[id]]
SessionAnswer(kind) == [kind |-> kind, id |-> 0, says |-> SessionSays]

MayCall == Len(calls) < MaxCalls - 1

\* The buttons of the menu rest while a call of theirs is under way.
OffersService == phone.ui = "browsing" /\ \A i \in DOMAIN calls : calls[i].kind \notin {"ask", "join"}

\* A pending request is its own answer; an open session asks for its PIN.
RequestService ==
    /\ OffersService /\ MayCall
    /\ IF Waits \/ visit = "open" THEN UNCHANGED <<requests, outbox>>
       ELSE Newest < MaxRequests /\ requests' = Append(requests, "pending")
            /\ Append1("request.created", Newest + 1)
    /\ calls' = Append(calls, [kind |-> "ask", id |-> Len(requests'),
                               says |-> IF ~Waits /\ visit = "open" THEN "refused" ELSE "pending"])
    /\ UNCHANGED <<visit, publisher, phone, rooms, mishap, faults>>

\* With the right PIN, which is shown to those who are in.
JoinSession ==
    /\ OffersService /\ visit = "open" /\ MayCall
    /\ Append1("session.changed", 0)
    /\ calls' = Append(calls, [kind |-> "join", id |-> 0, says |-> "open"])
    /\ UNCHANGED <<requests, visit, publisher, phone, rooms, mishap, faults>>

\* variant Poll: only without a socket
PollWithoutSocket ==
    /\ phone.ui = "waiting" /\ rooms = {} /\ MayCall
    /\ calls' = Append(calls, StatusAnswer("status", phone.id))
    /\ UNCHANGED <<server, publisher, phone, rooms, mishap, faults>>

\* Every three seconds while it waits.
Poll ==
    /\ phone.ui = "waiting" /\ MayCall
    /\ calls' = Append(calls, StatusAnswer("status", phone.id))
    /\ UNCHANGED <<server, publisher, phone, rooms, mishap, faults>>

-----------------------------------------------------------------------------
(* Answers.  "rest" are the answers that are still to come.                  *)

\* bootstrap asks for the session of the cookie,
Boot(rest) == calls' = Append(rest, [SessionAnswer("boot") EXCEPT
                                        !.says = IF phone'.participant THEN visit ELSE "refused"])

\* then for the request that was saved, and shows the menu at last.
Browse(rest) ==
    /\ phone' = [phone EXCEPT !.saved = 0, !.ui = "browsing", !.id = 0]
    /\ calls' = rest

BootFromRequest(rest) ==
    IF phone.saved # 0
    THEN calls' = Append(rest, StatusAnswer("restore", phone.saved)) /\ UNCHANGED phone
    ELSE Browse(rest)

Show(rest, ui, id) == phone' = [phone EXCEPT !.ui = ui, !.id = id] /\ calls' = rest

ApplyBoot(rest, says) ==
    CASE says = "open"   -> Show(rest, "session", 0)
      [] says = "closed" -> /\ phone' = [phone EXCEPT !.ui = "over", !.id = 0, !.participant = FALSE]
                            /\ calls' = rest
      [] OTHER           -> BootFromRequest(rest)

\* variant ApplyRestored: an approval is taken for an end
ApplyRestoredPendingOnly(rest, id, says) ==
    IF says = "pending" THEN Show(rest, "waiting", id) ELSE Browse(rest)

ApplyRestored(rest, id, says) ==
    CASE says = "pending"  -> Show(rest, "waiting", id)
      [] says = "approved" -> phone' = [phone EXCEPT !.participant = TRUE] /\ Boot(rest)
      [] OTHER             -> Browse(rest)

\* It looks at no screen: the answer about an earlier request acts all the same.
ApplyRequest(rest, id, says) ==
    CASE says = "pending"  -> Show(rest, "waiting", id)
      [] says = "approved" -> phone' = [phone EXCEPT !.saved = 0, !.participant = TRUE] /\ Boot(rest)
      [] OTHER             -> /\ phone' = [phone EXCEPT !.saved = 0, !.ui = "notice", !.id = 0]
                              /\ calls' = rest

\* The request is saved, and its answer acts as that of a poll.
ApplyAsked(rest, id, says) ==
    IF says = "refused" THEN Show(rest, "browsing", 0)
    ELSE phone' = [phone EXCEPT !.saved = id, !.ui = "waiting", !.id = id] /\ calls' = rest

ApplyJoined(rest) ==
    phone' = [phone EXCEPT !.ui = "session", !.id = 0, !.participant = TRUE] /\ calls' = rest

\* After an event of the session: when it is gone only the cookie goes.
ApplyRefreshed(rest, says) ==
    IF says = "open" THEN Show(rest, "session", 0)
    ELSE phone' = [phone EXCEPT !.participant = @ /\ says # "closed"] /\ calls' = rest

ClosingEmitted ==
    \E e \in DOMAIN outbox : outbox[e].type = "session.closed" /\ emitted[e] > 0

\* An answer about another request than the one on the screen, or of a session
\* whose end was already told.
Overtaken(a) ==
    \/ a.kind = "status" /\ a.id # phone.id /\ phone.ui = "waiting"
    \/ a.kind = "status" /\ a.id # Newest
    \/ a.says = "open" /\ ClosingEmitted

Others(i) == SubSeq(calls, 1, i - 1) \o SubSeq(calls, i + 1, Len(calls))

Receive(i) ==
    /\ i \in DOMAIN calls
    /\ LET a == calls[i] IN
       /\ CASE a.kind = "ask"     -> ApplyAsked(Others(i), a.id, a.says)
            [] a.kind = "join"    -> ApplyJoined(Others(i))
            [] a.kind = "status"  -> ApplyRequest(Others(i), a.id, a.says)
            [] a.kind = "boot"    -> ApplyBoot(Others(i), a.says)
            [] a.kind = "restore" -> ApplyRestored(Others(i), a.id, a.says)
            [] a.kind = "refresh" -> ApplyRefreshed(Others(i), a.says)
       /\ mishap' = (mishap \/ Overtaken(a))
    /\ UNCHANGED <<server, publisher, rooms, faults>>

\* A poll is repeated; after any other call the phone goes on as it can.
LoseAnswer(i) ==
    /\ i \in DOMAIN calls
    /\ CASE calls[i].kind = "boot"    -> BootFromRequest(Others(i))
         [] calls[i].kind = "restore" -> Browse(Others(i))
         [] OTHER                     -> calls' = Others(i) /\ UNCHANGED phone
    /\ mishap' = (mishap \/ calls[i].kind # "status")
    /\ Fault
    /\ UNCHANGED <<server, publisher, rooms>>

-----------------------------------------------------------------------------
(* The page and its socket.                                                  *)

\* The browser is closed; cookies and what is saved stay.
CloseApp ==
    /\ phone.ui # "closed"
    /\ phone' = [phone EXCEPT !.ui = "closed", !.id = 0]
    /\ rooms' = {} /\ calls' = <<>>
    /\ mishap' = (mishap \/ \E i \in DOMAIN calls : calls[i].kind = "ask")
    /\ Fault
    /\ UNCHANGED <<server, publisher>>

\* The card is read again: what the browser remembers is asked for anew.
OpenApp ==
    /\ phone.ui = "closed"
    /\ phone' = [phone EXCEPT !.ui = "loading"]
    /\ Boot(<<>>)
    /\ mishap' = (mishap /\ ~phone.participant /\ phone.saved # Newest)
    /\ UNCHANGED <<server, publisher, rooms, faults>>

\* The button of a notice.
BackToMenu ==
    /\ phone.ui = "notice" /\ MayCall
    /\ calls' = Append(calls, SessionAnswer("boot"))
    /\ UNCHANGED <<server, publisher, phone, rooms, mishap, faults>>

\* The rooms that the cookies open to a socket when it connects.
RoomsOfCookies == {"device"} \cup IF phone.participant THEN {"session"} ELSE {}

\* The socket connects again whenever the screen is of another kind.
Connect ==
    /\ phone.ui \notin {"closed", "loading"} /\ requests # <<>>
    /\ rooms' = RoomsOfCookies
    /\ rooms' # rooms
    /\ UNCHANGED <<server, publisher, phone, calls, mishap, faults>>

Disconnect ==
    /\ rooms # {}
    /\ rooms' = {}
    /\ Fault
    /\ UNCHANGED <<server, publisher, phone, calls, mishap>>

-----------------------------------------------------------------------------
(* The publisher.                                                            *)

PickBatch ==
    /\ batch = {}
    /\ batch' = {e \in DOMAIN outbox : ~outbox[e].published}
    /\ batch' # {}
    /\ unsent' = batch'
    /\ UNCHANGED <<server, emitted, client, faults>>

\* The room of a phone that an event is emitted to, if any: a request that was
\* made is news for the staff only.
RoomOf(type) ==
    CASE type = "request.created"  -> "none"
      [] type = "request.resolved" -> "device"
      [] OTHER                     -> "session"

Reaches(event) == RoomOf(event.type) \in rooms

\* variant Handle: the end of the session is not listened for
HandleWithoutEnd(event) ==
    IF event.type = "request.resolved" /\ phone.ui = "waiting" /\ event.about = phone.id
    THEN calls' = Append(calls, StatusAnswer("status", phone.id)) /\ UNCHANGED phone
    ELSE UNCHANGED <<phone, calls>>

\* What the phone does at once with an event that reaches it.
Handle(event) ==
    CASE event.type = "request.resolved" /\ phone.ui = "waiting" /\ event.about = phone.id
           -> calls' = Append(calls, StatusAnswer("status", phone.id)) /\ UNCHANGED phone
      [] event.type = "session.closed" /\ phone.ui = "session"
           -> Show(calls, "over", 0)
      [] event.type = "session.changed" /\ phone.ui = "session"
           -> calls' = Append(calls, SessionAnswer("refresh")) /\ UNCHANGED phone
      [] event.type # "request.resolved" /\ phone.ui = "browsing"
           -> calls' = Append(calls, SessionAnswer("boot")) /\ UNCHANGED phone
      [] OTHER -> UNCHANGED <<phone, calls>>

\* The rows are emitted in the order they were written.
EmitNext ==
    /\ Len(calls) < MaxCalls
    /\ \E e \in unsent :
          /\ \A other \in unsent : e <= other
          /\ IF Reaches(outbox[e]) THEN Handle(outbox[e]) ELSE UNCHANGED <<phone, calls>>
          /\ mishap' = (mishap \/ (outbox[e].type = "session.closed" /\ phone.ui = "session"
                                  /\ ~Reaches(outbox[e])))
          /\ emitted' = [emitted EXCEPT ![e] = @ + 1]
          /\ unsent' = unsent \ {e}
    /\ UNCHANGED <<server, batch, rooms, faults>>

MarkBatch ==
    /\ outbox' = [e \in DOMAIN outbox |-> [outbox[e] EXCEPT !.published = @ \/ e \in batch]]
    /\ batch' = {} /\ unsent' = {}
    /\ UNCHANGED <<requests, visit, emitted, client, faults>>

\* variant MarkPublished: marked before all are emitted
MarkPublishedEarly == batch # {} /\ MarkBatch

MarkPublished == batch # {} /\ unsent = {} /\ MarkBatch

\* The transaction of the publisher is undone, and all sockets fall.
CrashServer ==
    /\ batch' = {} /\ unsent' = {}
    /\ rooms' = {}
    /\ Fault
    /\ UNCHANGED <<server, emitted, phone, calls, mishap>>

PublisherStep == PickBatch \/ EmitNext \/ MarkPublished

LiveUpdatesNext ==
    \/ \E verdict \in Verdicts : ResolveRequest(verdict)
    \/ ChangeVisit \/ CloseVisit
    \/ RequestService \/ JoinSession \/ Poll
    \/ \E i \in 1..MaxCalls : Receive(i) \/ LoseAnswer(i)
    \/ CloseApp \/ OpenApp \/ BackToMenu \/ Connect \/ Disconnect
    \/ PublisherStep \/ CrashServer

LiveUpdatesSpec == LiveUpdatesInit /\ [][LiveUpdatesNext]_liveUpdatesVars

(***************************************************************************)
(* Fairness: the two interval timers, the calls that were made, and a      *)
(* customer who comes back to the card.  Sockets need not connect.         *)
(***************************************************************************)
LiveUpdatesFairness ==
    /\ WF_liveUpdatesVars(PublisherStep)
    /\ WF_liveUpdatesVars(Poll)
    /\ WF_liveUpdatesVars(Receive(1))
    /\ WF_liveUpdatesVars(OpenApp)

FairLiveUpdatesSpec == LiveUpdatesSpec /\ LiveUpdatesFairness

-----------------------------------------------------------------------------
(* Properties. *)

\* At least once: no row is marked that was not emitted, whenever the process
\* died between the emission of a batch and its commit.
OnlyEmittedIsMarked ==
    \A e \in DOMAIN outbox : outbox[e].published => emitted[e] > 0

\* A phone shows a session that has ended only for as long as the event is on
\* its way, unless its socket was out of the room when it came, or an older
\* answer overtook it: the session itself is not polled.
ClosedSessionIsSeen ==
    phone.ui = "session" /\ visit = "closed" /\ ClosingEmitted => mishap

\* A phone does not wait for a request that was answered, whatever was lost,
\* late or crashed: polling alone brings it on.
WaitingCustomerLearns ==
    []<>(phone.ui = "waiting" => requests[phone.id] = "pending")

\* Who was approved comes to sit in the session, unless the answer of a call
\* that is not repeated was lost or one about an earlier request came after it.
ApprovedCustomerIsSeated ==
    []<>(visit = "open" /\ ~mishap => phone.ui = "session")
=============================================================================
