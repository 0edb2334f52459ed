------------------------- MODULE LiveUpdatesProofs -------------------------
(***************************************************************************)
(* Proofs about LiveUpdates, for any number of requests, events, calls and *)
(* faults.  A row that is marked was emitted because what the publisher    *)
(* has locked is emitted or still to be; and a phone that shows a session  *)
(* after its end was emitted has missed something, because the end itself  *)
(* takes a phone in the room to another screen and an answer that brings   *)
(* it back is one that the end has overtaken.                              *)
(***************************************************************************)
EXTENDS LiveUpdates, SequenceTheorems, TLAPS

\* An answer is about a request that there is, and whoever has joined is in.
Sound(a) ==
    /\ a.id <= Newest
    /\ a.kind \in {"status", "restore"} => a.id # 0
    /\ a.kind = "ask" /\ a.says # "refused" => a.id # 0
    /\ a.kind = "join" => a.says = "open"

SoundCalls(s) == s \in Seq(Answer) /\ \A i \in DOMAIN s : Sound(s[i])

\* The phone knows no request that there is not.
SoundScreen(screen) ==
    /\ screen \in Screen
    /\ screen.id <= Newest /\ screen.saved <= Newest
    /\ screen.ui = "waiting" => screen.id # 0

\* No row is emitted before it is written.
EmittedAreWritten == \A e \in 1..MaxEvents : emitted[e] > 0 => e \in DOMAIN outbox

BatchIsEmitted == \A e \in batch \ unsent : emitted[e] > 0

ClosingIsTrue == \A e \in DOMAIN outbox : outbox[e].type = "session.closed" => visit = "closed"

OutboxInv == EmittedAreWritten /\ BatchIsEmitted /\ ClosingIsTrue /\ OnlyEmittedIsMarked

LiveInv == LiveUpdatesTypeOK /\ SoundCalls(calls) /\ SoundScreen(phone) /\ OutboxInv /\ ClosedSessionIsSeen

\* The bounds are numbers.
LEMMA LiveBounds == MaxRequests \in Nat /\ MaxEvents \in Nat /\ MaxCalls \in Nat /\ MaxFaults \in Nat
  BY LiveUpdatesAssumption

\* The requests, the rows and the answers, as functions on intervals.
LEMMA LiveRows ==
    ASSUME LiveInv
    PROVE  /\ Newest \in 0..MaxRequests /\ Newest \in Nat /\ DOMAIN requests = 1..Newest
           /\ \A r \in DOMAIN requests : requests[r] \in {"pending"} \cup Verdicts
           /\ Len(outbox) \in 0..MaxEvents /\ DOMAIN outbox = 1..Len(outbox)
           /\ \A e \in DOMAIN outbox : outbox[e] \in EventRow
           /\ DOMAIN calls = 1..Len(calls) /\ Len(calls) \in Nat
           /\ \A i \in DOMAIN calls : calls[i] \in Answer /\ Sound(calls[i])
<1>1. /\ requests \in Seq({"pending"} \cup Verdicts) /\ Len(requests) <= MaxRequests
      /\ outbox \in Seq(EventRow) /\ Len(outbox) <= MaxEvents
      /\ calls \in Seq(Answer) /\ \A i \in DOMAIN calls : Sound(calls[i])
  BY DEF LiveInv, LiveUpdatesTypeOK, SoundCalls
<1>2. /\ Len(requests) \in Nat /\ DOMAIN requests = 1..Len(requests)
      /\ Len(outbox) \in Nat /\ DOMAIN outbox = 1..Len(outbox)
      /\ Len(calls) \in Nat /\ DOMAIN calls = 1..Len(calls)
  BY <1>1, LenProperties
<1>3. \A r \in DOMAIN requests : requests[r] \in {"pending"} \cup Verdicts
  BY <1>1, <1>2, ElementOfSeq
<1>4. \A e \in DOMAIN outbox : outbox[e] \in EventRow
  BY <1>1, <1>2, ElementOfSeq
<1>5. \A i \in DOMAIN calls : calls[i] \in Answer
  BY <1>1, <1>2, ElementOfSeq
<1> QED
  BY <1>1, <1>2, <1>3, <1>4, <1>5, LiveBounds DEF Newest

\* An answer that comes to the others.
LEMMA AnswerAdded ==
    ASSUME NEW s, SoundCalls(s), NEW a \in Answer, Sound(a)
    PROVE  SoundCalls(Append(s, a))
<1>1. s \in Seq(Answer)
  BY DEF SoundCalls
<1>2. /\ Append(s, a) \in Seq(Answer) /\ Len(Append(s, a)) = Len(s) + 1
      /\ Append(s, a)[Len(s) + 1] = a /\ \A i \in 1..Len(s) : Append(s, a)[i] = s[i]
  BY <1>1, AppendProperties
<1>3. DOMAIN Append(s, a) = 1..(Len(s) + 1) /\ DOMAIN s = 1..Len(s) /\ Len(s) \in Nat
  BY <1>1, <1>2, LenProperties
<1> QED
  BY <1>2, <1>3 DEF SoundCalls

\* What a part of the answers is.
LEMMA PartOfAnswers ==
    ASSUME NEW s, NEW m \in Int, NEW n \in Int, \A j \in m..n : s[j] \in Answer
    PROVE  /\ SubSeq(s, m, n) \in Seq(Answer)
           /\ Len(SubSeq(s, m, n)) = IF m <= n THEN n - m + 1 ELSE 0
           /\ \A j \in 1..(n - m + 1) : SubSeq(s, m, n)[j] = s[m + j - 1]
  BY SubSeqProperties

\* The answers without one of them.
LEMMA AnswerTaken ==
    ASSUME LiveInv, NEW i \in DOMAIN calls
    PROVE  SoundCalls(Others(i))
<1> DEFINE before == SubSeq(calls, 1, i - 1)
           after == SubSeq(calls, i + 1, Len(calls))
<1>1. /\ DOMAIN calls = 1..Len(calls) /\ Len(calls) \in Nat
      /\ \A j \in DOMAIN calls : calls[j] \in Answer /\ Sound(calls[j])
  BY LiveRows
<1>2. i \in Int /\ i - 1 \in Int /\ i + 1 \in Int /\ Len(calls) \in Int /\ 1 \in Int
  BY <1>1
<1>3. /\ before \in Seq(Answer) /\ Len(before) = i - 1
      /\ \A j \in 1..(i - 1) : before[j] = calls[j]
  <2>1. \A j \in 1..(i - 1) : calls[j] \in Answer
    BY <1>1
  <2>2. /\ before \in Seq(Answer)
        /\ Len(before) = IF 1 <= i - 1 THEN i - 1 - 1 + 1 ELSE 0
        /\ \A j \in 1..(i - 1 - 1 + 1) : before[j] = calls[1 + j - 1]
    BY <1>2, <2>1, PartOfAnswers
  <2> HIDE DEF before
  <2> QED
    BY <1>1, <2>2
<1>4. /\ after \in Seq(Answer) /\ Len(after) = Len(calls) - i
      /\ \A j \in 1..(Len(calls) - i) : after[j] = calls[i + j]
  <2>1. \A j \in (i + 1)..Len(calls) : calls[j] \in Answer
    BY <1>1
  <2>2. /\ after \in Seq(Answer)
        /\ Len(after) = IF i + 1 <= Len(calls) THEN Len(calls) - (i + 1) + 1 ELSE 0
        /\ \A j \in 1..(Len(calls) - (i + 1) + 1) : after[j] = calls[i + 1 + j - 1]
    BY <1>2, <2>1, PartOfAnswers
  <2> HIDE DEF after
  <2>3. Len(after) = Len(calls) - i
    BY <1>1, <2>2
  <2>4. ASSUME NEW j \in 1..(Len(calls) - i)
        PROVE  after[j] = calls[i + j]
    <3>1. j \in 1..(Len(calls) - (i + 1) + 1) /\ i + 1 + j - 1 = i + j
      BY <1>1
    <3> QED
      BY <2>2, <3>1
  <2> QED
    BY <2>2, <2>3, <2>4
<1> HIDE DEF before, after
<1>5. /\ before \o after \in Seq(Answer) /\ Len(before \o after) = Len(before) + Len(after)
      /\ \A j \in 1..(Len(before) + Len(after)) :
            (before \o after)[j] = IF j <= Len(before) THEN before[j] ELSE after[j - Len(before)]
  BY <1>3, <1>4, ConcatProperties
<1>6. /\ DOMAIN (before \o after) = 1..(Len(calls) - 1)
      /\ Len(before) = i - 1 /\ Len(before) + Len(after) = Len(calls) - 1
  <2>1. Len(before) + Len(after) = Len(calls) - 1
    BY <1>1, <1>3, <1>4
  <2>2. DOMAIN (before \o after) = 1..Len(before \o after)
    BY <1>5, LenProperties
  <2> QED
    BY <1>3, <1>5, <2>1, <2>2
<1>7. ASSUME NEW j \in DOMAIN (before \o after)
      PROVE  \E k \in DOMAIN calls : (before \o after)[j] = calls[k]
  <2>1. /\ j \in 1..(Len(calls) - 1)
        /\ (before \o after)[j] = IF j <= i - 1 THEN before[j] ELSE after[j - (i - 1)]
    BY <1>5, <1>6
  <2>2. CASE j <= i - 1
    <3>1. j \in 1..(i - 1) /\ j \in DOMAIN calls
      BY <1>1, <2>1, <2>2
    <3> QED
      BY <1>3, <2>1, <2>2, <3>1
  <2>3. CASE ~(j <= i - 1)
    <3>1. j - (i - 1) \in 1..(Len(calls) - i) /\ i + (j - (i - 1)) \in DOMAIN calls
      BY <1>1, <2>1, <2>3
    <3>2. (before \o after)[j] = after[j - (i - 1)]
      BY <2>1, <2>3
    <3> QED
      BY <1>4, <3>1, <3>2
  <2> QED
    BY <2>2, <2>3
<1>8. SoundCalls(before \o after)
  BY <1>1, <1>5, <1>7 DEF SoundCalls
<1> QED
  BY <1>8 DEF Others, before, after

Kinds == {"ask", "join", "status", "boot", "restore", "refresh"}
Sayings == {"pending", "none", "open", "closed", "refused"} \cup Verdicts

\* An answer about a request that there is, or about a session.
LEMMA AnswersGiven ==
    ASSUME LiveInv
    PROVE  /\ \A id \in 1..Newest, kind \in {"status", "restore"} :
                 StatusAnswer(kind, id) \in Answer /\ Sound(StatusAnswer(kind, id))
           /\ \A kind \in {"boot", "refresh"} : SessionAnswer(kind) \in Answer /\ Sound(SessionAnswer(kind))
<1>1. /\ Newest \in 0..MaxRequests /\ Newest \in Nat /\ DOMAIN requests = 1..Newest
      /\ \A r \in DOMAIN requests : requests[r] \in {"pending"} \cup Verdicts
  BY LiveRows
<1>2. visit \in {"none", "open", "closed"}
  BY DEF LiveInv, LiveUpdatesTypeOK
<1>3. ASSUME NEW id \in 1..Newest, NEW kind \in {"status", "restore"}
      PROVE  StatusAnswer(kind, id) \in Answer /\ Sound(StatusAnswer(kind, id))
  <2>1. requests[id] \in Sayings /\ id \in 0..MaxRequests /\ id <= Newest /\ id # 0
    BY <1>1, LiveBounds DEF Sayings
  <2>2. StatusAnswer(kind, id) \in Answer
    BY <2>1 DEF StatusAnswer, Answer, Sayings
  <2>3. Sound(StatusAnswer(kind, id))
    BY <2>1 DEF StatusAnswer, Sound
  <2> QED
    BY <2>2, <2>3
<1>4. ASSUME NEW kind \in {"boot", "refresh"}
      PROVE  SessionAnswer(kind) \in Answer /\ Sound(SessionAnswer(kind))
  <2>1. SessionSays \in Sayings /\ 0 \in 0..MaxRequests
    BY <1>2, LiveBounds DEF SessionSays, Sayings
  <2>2. SessionAnswer(kind) \in Answer
    BY <2>1 DEF SessionAnswer, Answer, Sayings
  <2>3. Sound(SessionAnswer(kind))
    BY <1>1 DEF SessionAnswer, Sound
  <2> QED
    BY <2>2, <2>3
<1> QED
  BY <1>3, <1>4

\* The call that asks for the session of the cookie anew.
LEMMA Booted ==
    ASSUME LiveInv, NEW rest, SoundCalls(rest), Boot(rest)
    PROVE  SoundCalls(calls')
<1> DEFINE says == IF phone'.participant THEN visit ELSE "refused"
           a == [SessionAnswer("boot") EXCEPT !.says = says]
<1>1. visit \in {"none", "open", "closed"} /\ Newest \in Nat
  BY LiveRows DEF LiveInv, LiveUpdatesTypeOK
<1>2. says \in Sayings
  BY <1>1 DEF Sayings
<1> HIDE DEF says
<1>3. a = [kind |-> "boot", id |-> 0, says |-> says]
  BY DEF SessionAnswer
<1>4. a \in Answer /\ Sound(a)
  BY <1>1, <1>2, <1>3, LiveBounds DEF Answer, Sayings, Sound
<1>5. calls' = Append(rest, a)
  BY DEF Boot, says
<1> PICK answer \in Answer : answer = a
  BY <1>4
<1> HIDE DEF a
<1> QED
  BY <1>4, <1>5, AnswerAdded

\* A screen that changes keeps what the browser has saved, or forgets it.
LEMMA ScreenChanged ==
    ASSUME LiveInv,
           NEW ui \in {"closed", "loading", "browsing", "waiting", "session", "notice", "over"},
           NEW id \in 0..Newest, ui = "waiting" => id # 0,
           NEW saved \in 0..Newest, NEW participant \in BOOLEAN
    PROVE  SoundScreen([ui |-> ui, id |-> id, saved |-> saved, participant |-> participant])
<1>1. Newest \in Nat /\ MaxRequests \in Nat /\ Newest <= MaxRequests
  BY LiveRows, LiveBounds
<1>2. id \in 0..MaxRequests /\ saved \in 0..MaxRequests
  BY <1>1
<1> QED
  BY <1>1, <1>2 DEF SoundScreen, Screen

\* The screen is the record of its four parts.
LEMMA ScreenParts ==
    ASSUME LiveInv
    PROVE  /\ phone = [ui |-> phone.ui, id |-> phone.id, saved |-> phone.saved,
                       participant |-> phone.participant]
           /\ phone.ui \in {"closed", "loading", "browsing", "waiting", "session", "notice", "over"}
           /\ phone.id \in 0..Newest /\ phone.saved \in 0..Newest /\ phone.participant \in BOOLEAN
           /\ phone.ui = "waiting" => phone.id # 0
           /\ 0 \in 0..Newest
<1>1. Newest \in Nat
  BY LiveRows
<1> QED
  BY <1>1 DEF LiveInv, SoundScreen, Screen

\* Another screen, which the answer names.
LEMMA Shown ==
    ASSUME LiveInv, NEW rest, SoundCalls(rest),
           NEW ui \in {"closed", "loading", "browsing", "waiting", "session", "notice", "over"},
           NEW id \in 0..Newest, ui = "waiting" => id # 0, Show(rest, ui, id)
    PROVE  SoundScreen(phone') /\ SoundCalls(calls') /\ phone'.ui = ui
<1>1. phone' = [ui |-> ui, id |-> id, saved |-> phone.saved, participant |-> phone.participant]
  BY ScreenParts DEF Show
<1>2. SoundScreen(phone')
  BY <1>1, ScreenParts, ScreenChanged
<1> QED
  BY <1>1, <1>2 DEF Show

\* The menu, with nothing saved.
LEMMA Browsed ==
    ASSUME LiveInv, NEW rest, SoundCalls(rest), Browse(rest)
    PROVE  SoundScreen(phone') /\ SoundCalls(calls') /\ phone'.ui = "browsing"
<1>1. phone' = [ui |-> "browsing", id |-> 0, saved |-> 0, participant |-> phone.participant]
  BY ScreenParts DEF Browse
<1>2. SoundScreen(phone')
  BY <1>1, ScreenParts, ScreenChanged
<1> QED
  BY <1>1, <1>2 DEF Browse

\* The saved request is asked for, or the menu is shown: no session either way.
LEMMA BootedFromRequest ==
    ASSUME LiveInv, NEW rest, SoundCalls(rest), BootFromRequest(rest)
    PROVE  SoundScreen(phone') /\ SoundCalls(calls') /\ (phone'.ui = "session" => phone.ui = "session")
<1>1. CASE phone.saved # 0
  <2>1. phone' = phone /\ calls' = Append(rest, StatusAnswer("restore", phone.saved))
    BY <1>1 DEF BootFromRequest
  <2>2. phone.saved \in 1..Newest
    BY <1>1, ScreenParts, LiveRows
  <2>3. StatusAnswer("restore", phone.saved) \in Answer /\ Sound(StatusAnswer("restore", phone.saved))
    BY <2>2, AnswersGiven
  <2>4. SoundCalls(calls')
    BY <2>1, <2>3, AnswerAdded
  <2> QED
    BY <2>1, <2>4 DEF LiveInv
<1>2. CASE phone.saved = 0
  BY <1>2, Browsed DEF BootFromRequest
<1> QED
  BY <1>1, <1>2

\* What an answer does leaves a sound screen and sound calls; a session comes to
\* the screen only with an answer that says that it is open.
LEMMA AnswerApplied ==
    ASSUME LiveInv, NEW i \in DOMAIN calls, Receive(i)
    PROVE  /\ SoundScreen(phone') /\ SoundCalls(calls')
           /\ phone'.ui = "session" => phone.ui = "session" \/ calls[i].says = "open"
<1> DEFINE a == calls[i]
           rest == Others(i)
<1>1. /\ a \in Answer /\ Sound(a) /\ SoundCalls(rest) /\ Newest \in Nat
  BY LiveRows, AnswerTaken
<1>2. a.kind \in Kinds /\ a.says \in Sayings /\ a.id \in 0..Newest
  BY <1>1 DEF Answer, Kinds, Sayings, Sound
<1>3. /\ a.kind \in {"status", "restore"} => a.id # 0
      /\ a.kind = "ask" /\ a.says # "refused" => a.id # 0
      /\ a.kind = "join" => a.says = "open"
  BY <1>1 DEF Sound
<1>4. CASE a.kind = "ask"
  <2>1. ApplyAsked(rest, a.id, a.says)
    BY <1>4 DEF Receive
  <2> HIDE DEF rest
  <2>2. CASE a.says = "refused"
    BY <1>1, <2>1, <2>2, Shown, ScreenParts DEF ApplyAsked
  <2>3. CASE a.says # "refused"
    <3>1. /\ calls' = rest
          /\ phone' = [ui |-> "waiting", id |-> a.id, saved |-> a.id, participant |-> phone.participant]
      BY <2>1, <2>3, ScreenParts DEF ApplyAsked
    <3>2. SoundScreen(phone')
      BY <1>2, <1>3, <1>4, <2>3, <3>1, ScreenParts, ScreenChanged
    <3> QED
      BY <1>1, <3>1, <3>2
  <2> QED
    BY <2>2, <2>3
<1>5. CASE a.kind = "join"
  <2>1. ApplyJoined(rest)
    BY <1>5 DEF Receive
  <2> HIDE DEF rest
  <2>2. /\ calls' = rest
        /\ phone' = [ui |-> "session", id |-> 0, saved |-> phone.saved, participant |-> TRUE]
    BY <2>1, ScreenParts DEF ApplyJoined
  <2>3. SoundScreen(phone')
    BY <2>2, ScreenParts, ScreenChanged
  <2> QED
    BY <1>1, <1>3, <1>5, <2>2, <2>3
<1>6. CASE a.kind = "status"
  <2>1. ApplyRequest(rest, a.id, a.says)
    BY <1>6 DEF Receive
  <2> HIDE DEF rest
  <2>2. CASE a.says = "pending"
    BY <1>1, <1>2, <1>3, <1>6, <2>1, <2>2, Shown DEF ApplyRequest
  <2>3. CASE a.says = "approved"
    <3>1. /\ Boot(rest)
          /\ phone' = [ui |-> phone.ui, id |-> phone.id, saved |-> 0, participant |-> TRUE]
      BY <2>1, <2>3, ScreenParts DEF ApplyRequest
    <3>2. SoundScreen(phone')
      BY <3>1, ScreenParts, ScreenChanged
    <3>3. SoundCalls(calls')
      BY <1>1, <3>1, Booted
    <3> QED
      BY <3>1, <3>2, <3>3
  <2>4. CASE a.says \notin {"pending", "approved"}
    <3>1. /\ calls' = rest
          /\ phone' = [ui |-> "notice", id |-> 0, saved |-> 0, participant |-> phone.participant]
      BY <2>1, <2>4, ScreenParts DEF ApplyRequest
    <3>2. SoundScreen(phone')
      BY <3>1, ScreenParts, ScreenChanged
    <3> QED
      BY <1>1, <3>1, <3>2
  <2> QED
    BY <2>2, <2>3, <2>4
<1>7. CASE a.kind = "boot"
  <2>1. ApplyBoot(rest, a.says)
    BY <1>7 DEF Receive
  <2> HIDE DEF rest
  <2>2. CASE a.says = "open"
    BY <1>1, <2>1, <2>2, Shown, ScreenParts DEF ApplyBoot
  <2>3. CASE a.says = "closed"
    <3>1. /\ calls' = rest
          /\ phone' = [ui |-> "over", id |-> 0, saved |-> phone.saved, participant |-> FALSE]
      BY <2>1, <2>3, ScreenParts DEF ApplyBoot
    <3>2. SoundScreen(phone')
      BY <3>1, ScreenParts, ScreenChanged
    <3> QED
      BY <1>1, <3>1, <3>2
  <2>4. CASE a.says \notin {"open", "closed"}
    BY <1>1, <2>1, <2>4, BootedFromRequest DEF ApplyBoot
  <2> QED
    BY <2>2, <2>3, <2>4
<1>8. CASE a.kind = "restore"
  <2>1. ApplyRestored(rest, a.id, a.says)
    BY <1>8 DEF Receive
  <2> HIDE DEF rest
  <2>2. CASE a.says = "pending"
    BY <1>1, <1>2, <1>3, <1>8, <2>1, <2>2, Shown DEF ApplyRestored
  <2>3. CASE a.says = "approved"
    <3>1. /\ Boot(rest)
          /\ phone' = [ui |-> phone.ui, id |-> phone.id, saved |-> phone.saved, participant |-> TRUE]
      BY <2>1, <2>3, ScreenParts DEF ApplyRestored
    <3>2. SoundScreen(phone')
      BY <3>1, ScreenParts, ScreenChanged
    <3>3. SoundCalls(calls')
      BY <1>1, <3>1, Booted
    <3> QED
      BY <3>1, <3>2, <3>3
  <2>4. CASE a.says \notin {"pending", "approved"}
    BY <1>1, <2>1, <2>4, Browsed DEF ApplyRestored
  <2> QED
    BY <2>2, <2>3, <2>4
<1>9. CASE a.kind = "refresh"
  <2>1. ApplyRefreshed(rest, a.says)
    BY <1>9 DEF Receive
  <2> HIDE DEF rest
  <2>2. CASE a.says = "open"
    BY <1>1, <2>1, <2>2, Shown, ScreenParts DEF ApplyRefreshed
  <2>3. CASE a.says # "open"
    <3> DEFINE in == phone.participant /\ a.says # "closed"
    <3>1. /\ calls' = rest
          /\ phone' = [ui |-> phone.ui, id |-> phone.id, saved |-> phone.saved, participant |-> in]
      BY <2>1, <2>3, ScreenParts DEF ApplyRefreshed
    <3>2. in \in BOOLEAN
      OBVIOUS
    <3> HIDE DEF in
    <3>3. SoundScreen(phone')
      BY <3>1, <3>2, ScreenParts, ScreenChanged
    <3> QED
      BY <1>1, <3>1, <3>3
  <2> QED
    BY <2>2, <2>3
<1> QED
  BY <1>2, <1>4, <1>5, <1>6, <1>7, <1>8, <1>9 DEF Kinds

\* A step that writes a row: nothing more is emitted, and an end is written with
\* the end itself.
LEMMA RowAppended ==
    ASSUME LiveInv,
           NEW type \in {"request.created", "request.resolved", "session.closed", "session.changed"},
           NEW about \in 0..MaxRequests, Append1(type, about), UNCHANGED publisher,
           type = "session.closed" => visit' = "closed",
           visit = "closed" => visit' = "closed"
    PROVE  /\ outbox' \in Seq(EventRow) /\ Len(outbox') <= MaxEvents
           /\ batch' \subseteq DOMAIN outbox' /\ unsent' \subseteq batch'
           /\ emitted' \in [1..MaxEvents -> Nat]
           /\ OutboxInv' /\ ClosingEmitted' = ClosingEmitted
<1> DEFINE row == [type |-> type, about |-> about, published |-> FALSE]
<1>1. /\ outbox \in Seq(EventRow) /\ batch \subseteq DOMAIN outbox /\ unsent \subseteq batch
      /\ emitted \in [1..MaxEvents -> Nat]
  BY DEF LiveInv, LiveUpdatesTypeOK
<1>2. row \in EventRow
  BY DEF EventRow
<1>3. outbox' = Append(outbox, row) /\ Len(outbox) < MaxEvents
  BY DEF Append1
<1>4. row.type = type /\ row.published = FALSE
  OBVIOUS
<1> HIDE DEF row
<1>5. /\ outbox' \in Seq(EventRow) /\ Len(outbox') = Len(outbox) + 1
      /\ outbox'[Len(outbox) + 1] = row /\ \A e \in 1..Len(outbox) : outbox'[e] = outbox[e]
  BY <1>1, <1>2, <1>3, AppendProperties
<1>6. /\ Len(outbox) \in Nat /\ MaxEvents \in Nat /\ DOMAIN outbox = 1..Len(outbox)
      /\ DOMAIN outbox' = 1..(Len(outbox) + 1) /\ Len(outbox') <= MaxEvents
  BY <1>3, <1>5, LiveRows, LiveBounds, LenProperties
<1>7. ASSUME NEW e \in DOMAIN outbox'
      PROVE  \/ e \in DOMAIN outbox /\ outbox'[e] = outbox[e]
             \/ e = Len(outbox) + 1 /\ outbox'[e] = row
  <2>1. e \in 1..Len(outbox) \/ e = Len(outbox) + 1
    BY <1>6
  <2>2. CASE e \in 1..Len(outbox)
    BY <1>5, <1>6, <2>2
  <2>3. CASE e = Len(outbox) + 1
    BY <1>5, <2>3
  <2> QED
    BY <2>1, <2>2, <2>3
<1>8. DOMAIN outbox \subseteq DOMAIN outbox'
  BY <1>6
<1>9. ~(emitted[Len(outbox) + 1] > 0)
  <2>1. Len(outbox) + 1 \in 1..MaxEvents /\ Len(outbox) + 1 \notin DOMAIN outbox
    BY <1>3, <1>6
  <2> QED
    BY <2>1 DEF LiveInv, OutboxInv, EmittedAreWritten
<1>10. EmittedAreWritten'
  BY <1>8 DEF LiveInv, OutboxInv, EmittedAreWritten, publisher
<1>11. BatchIsEmitted'
  BY DEF LiveInv, OutboxInv, BatchIsEmitted, publisher
<1>12. ClosingIsTrue'
  BY <1>4, <1>7 DEF LiveInv, OutboxInv, ClosingIsTrue
<1>13. OnlyEmittedIsMarked'
  BY <1>4, <1>7 DEF LiveInv, OutboxInv, OnlyEmittedIsMarked, publisher
<1>14. ClosingEmitted' = ClosingEmitted
  <2>1. ClosingEmitted' => ClosingEmitted
    BY <1>7, <1>9 DEF ClosingEmitted, publisher
  <2>2. ClosingEmitted => ClosingEmitted'
    BY <1>5, <1>6, <1>8 DEF ClosingEmitted, publisher
  <2> QED
    BY <2>1, <2>2 DEF ClosingEmitted
<1> QED
  BY <1>1, <1>5, <1>6, <1>8, <1>10, <1>11, <1>12, <1>13, <1>14 DEF publisher, OutboxInv

\* What was told stays told: a step that emits no end and brings no session to
\* the screen leaves the promise about the end as it was.
LEMMA NothingUnseen ==
    ASSUME LiveInv, ClosingEmitted' => ClosingEmitted,
           phone'.ui = "session" => phone.ui = "session", mishap => mishap'
    PROVE  ClosedSessionIsSeen'
<1>1. ClosingEmitted => visit = "closed"
  BY DEF LiveInv, OutboxInv, ClosingIsTrue, ClosingEmitted
<1> QED
  BY <1>1 DEF LiveInv, ClosedSessionIsSeen

\* A transaction of the server that the phone takes no part in.
LEMMA ServerSteps ==
    ASSUME LiveInv,
           ChangeVisit \/ CloseVisit \/ \E verdict \in Verdicts : ResolveRequest(verdict)
    PROVE  LiveInv'
<1>1. /\ Newest \in 0..MaxRequests /\ Newest \in Nat /\ DOMAIN requests = 1..Newest
      /\ 0 \in 0..MaxRequests
  BY LiveRows, LiveBounds
<1>2. /\ UNCHANGED <<publisher, client, faults>>
      /\ requests' \in Seq({"pending"} \cup Verdicts) /\ Len(requests') = Len(requests)
      /\ visit' \in {"none", "open", "closed"}
      /\ \E type \in {"request.resolved", "session.closed", "session.changed"}, about \in 0..MaxRequests :
            /\ Append1(type, about)
            /\ type = "session.closed" => visit' = "closed"
            /\ visit = "closed" => visit' = "closed"
  <2>1. requests \in Seq({"pending"} \cup Verdicts) /\ visit \in {"none", "open", "closed"}
    BY DEF LiveInv, LiveUpdatesTypeOK
  <2>2. CASE ChangeVisit
    BY <1>1, <2>1, <2>2 DEF ChangeVisit
  <2>3. CASE CloseVisit
    BY <1>1, <2>1, <2>3 DEF CloseVisit
  <2>4. ASSUME NEW verdict \in Verdicts, ResolveRequest(verdict)
        PROVE  <1>2
    <3>1. Newest \in 1..Len(requests)
      BY <1>1, <2>4 DEF ResolveRequest, Waits, Newest
    <3>2. /\ requests' \in Seq({"pending"} \cup Verdicts) /\ Len(requests') = Len(requests)
      BY <2>1, <2>4, <3>1, ExceptSeq DEF ResolveRequest
    <3>3. visit = "closed" => verdict # "approved"
      BY <2>4 DEF ResolveRequest
    <3> QED
      BY <1>1, <2>1, <2>4, <3>2, <3>3 DEF ResolveRequest
  <2> QED
    BY <2>2, <2>3, <2>4
<1>3. PICK type \in {"request.resolved", "session.closed", "session.changed"}, about \in 0..MaxRequests :
            /\ Append1(type, about)
            /\ type = "session.closed" => visit' = "closed"
            /\ visit = "closed" => visit' = "closed"
  BY <1>2
<1>4. UNCHANGED publisher
  BY <1>2
<1>5. /\ outbox' \in Seq(EventRow) /\ Len(outbox') <= MaxEvents
      /\ batch' \subseteq DOMAIN outbox' /\ unsent' \subseteq batch'
      /\ emitted' \in [1..MaxEvents -> Nat]
      /\ OutboxInv' /\ ClosingEmitted' = ClosingEmitted
  BY <1>3, <1>4, RowAppended
<1>6. LiveUpdatesTypeOK'
  BY <1>2, <1>5 DEF LiveInv, LiveUpdatesTypeOK, client
<1>7. SoundCalls(calls)' /\ SoundScreen(phone)'
  BY <1>2 DEF LiveInv, SoundCalls, SoundScreen, Sound, Newest, client
<1>8. ClosedSessionIsSeen'
  BY <1>2, <1>5, NothingUnseen DEF client
<1> QED
  BY <1>5, <1>6, <1>7, <1>8 DEF LiveInv

\* A call to the server that writes.
LEMMA WritingCalls ==
    ASSUME LiveInv, RequestService \/ JoinSession
    PROVE  LiveInv'
<1>1. /\ Newest \in 0..MaxRequests /\ Newest \in Nat /\ MaxRequests \in Nat /\ DOMAIN requests = 1..Newest
      /\ Newest = Len(requests) /\ \A r \in DOMAIN requests : requests[r] \in {"pending"} \cup Verdicts
  BY LiveRows, LiveBounds DEF Newest
<1>2. /\ requests \in Seq({"pending"} \cup Verdicts) /\ visit \in {"none", "open", "closed"}
      /\ calls \in Seq(Answer)
  BY DEF LiveInv, LiveUpdatesTypeOK
<1>3. UNCHANGED <<visit, publisher, phone, rooms, mishap, faults>>
  BY DEF RequestService, JoinSession
<1>4. /\ requests' \in Seq({"pending"} \cup Verdicts) /\ Len(requests') <= MaxRequests
      /\ Len(requests') \in Nat /\ Len(requests) <= Len(requests')
      /\ \E a \in Answer : /\ calls' = Append(calls, a) /\ a.id <= Len(requests')
                           /\ a.kind = "ask" /\ a.says # "refused" => a.id # 0
                           /\ a.kind = "join" => a.says = "open"
                           /\ a.kind \in {"ask", "join"}
  <2>1. CASE JoinSession
    <3> DEFINE a == [kind |-> "join", id |-> 0, says |-> "open"]
    <3>1. a \in Answer
      BY <1>1 DEF Answer
    <3>2. requests' = requests /\ calls' = Append(calls, a)
      BY <2>1 DEF JoinSession
    <3> QED
      BY <1>1, <1>2, <3>1, <3>2
  <2>2. CASE RequestService
    <3> DEFINE says == IF ~Waits /\ visit = "open" THEN "refused" ELSE "pending"
               a == [kind |-> "ask", id |-> Len(requests'), says |-> says]
    <3>1. calls' = Append(calls, a)
      BY <2>2 DEF RequestService
    <3>2. says \in {"refused", "pending"}
      OBVIOUS
    <3>3. /\ requests' \in Seq({"pending"} \cup Verdicts) /\ Len(requests') <= MaxRequests
          /\ Len(requests') \in Nat /\ Len(requests) <= Len(requests')
          /\ says # "refused" => Len(requests') # 0
      <4>1. CASE Waits \/ visit = "open"
        BY <1>1, <1>2, <2>2, <4>1 DEF RequestService, Waits
      <4>2. CASE ~(Waits \/ visit = "open")
        <5>1. Newest < MaxRequests /\ requests' = Append(requests, "pending")
          BY <2>2, <4>2 DEF RequestService
        <5>2. requests' \in Seq({"pending"} \cup Verdicts) /\ Len(requests') = Len(requests) + 1
          BY <1>2, <5>1, AppendProperties
        <5> QED
          BY <1>1, <5>1, <5>2
      <4> QED
        BY <4>1, <4>2
    <3> HIDE DEF says
    <3>4. a \in Answer /\ a.kind = "ask" /\ a.id = Len(requests') /\ a.says = says
      BY <1>1, <3>2, <3>3 DEF Answer
    <3> QED
      BY <3>1, <3>3, <3>4
  <2> QED
    BY <2>1, <2>2
<1>5. Newest' \in Nat /\ Newest <= Newest' /\ Newest' <= MaxRequests
  BY <1>1, <1>4 DEF Newest
<1>6. PICK a \in Answer : /\ calls' = Append(calls, a) /\ a.id <= Newest'
                          /\ a.kind = "ask" /\ a.says # "refused" => a.id # 0
                          /\ a.kind = "join" => a.says = "open"
                          /\ a.kind \in {"ask", "join"}
  BY <1>4 DEF Newest
<1>7. SoundCalls(calls)'
  <2>1. /\ calls' \in Seq(Answer) /\ Len(calls') = Len(calls) + 1
        /\ calls'[Len(calls) + 1] = a /\ \A i \in 1..Len(calls) : calls'[i] = calls[i]
    BY <1>2, <1>6, AppendProperties
  <2>2. DOMAIN calls' = 1..(Len(calls) + 1) /\ DOMAIN calls = 1..Len(calls) /\ Len(calls) \in Nat
    BY <1>2, <2>1, LenProperties
  <2>3. ASSUME NEW i \in DOMAIN calls
        PROVE  Sound(calls[i]) /\ calls[i].id \in Nat
    BY <1>1, LiveRows DEF Answer
  <2>4. ASSUME NEW i \in DOMAIN calls
        PROVE  /\ calls'[i].id <= Newest'
               /\ calls'[i].kind \in {"status", "restore"} => calls'[i].id # 0
               /\ calls'[i].kind = "ask" /\ calls'[i].says # "refused" => calls'[i].id # 0
               /\ calls'[i].kind = "join" => calls'[i].says = "open"
    BY <1>1, <1>5, <2>1, <2>2, <2>3 DEF Sound
  <2>5. ASSUME NEW i \in DOMAIN calls'
        PROVE  /\ calls'[i].id <= Newest'
               /\ calls'[i].kind \in {"status", "restore"} => calls'[i].id # 0
               /\ calls'[i].kind = "ask" /\ calls'[i].says # "refused" => calls'[i].id # 0
               /\ calls'[i].kind = "join" => calls'[i].says = "open"
    <3>1. i \in DOMAIN calls \/ (i = Len(calls) + 1 /\ calls'[i] = a)
      BY <2>1, <2>2
    <3> QED
      BY <1>6, <2>4, <3>1
  <2> QED
    BY <2>1, <2>5 DEF SoundCalls, Sound
<1>8. SoundScreen(phone)'
  <2>1. phone.id \in 0..Newest /\ phone.saved \in 0..Newest /\ phone \in Screen
    BY ScreenParts DEF LiveInv, SoundScreen
  <2>2. phone.id <= Newest' /\ phone.saved <= Newest'
    BY <1>1, <1>5, <2>1
  <2> QED
    BY <1>3, <2>1, <2>2 DEF LiveInv, SoundScreen
<1>9. /\ outbox' \in Seq(EventRow) /\ Len(outbox') <= MaxEvents
      /\ batch' \subseteq DOMAIN outbox' /\ unsent' \subseteq batch'
      /\ emitted' \in [1..MaxEvents -> Nat]
      /\ OutboxInv' /\ ClosingEmitted' = ClosingEmitted
  <2>1. CASE UNCHANGED outbox
    BY <1>3, <2>1 DEF LiveInv, LiveUpdatesTypeOK, publisher, OutboxInv, EmittedAreWritten,
                      BatchIsEmitted, ClosingIsTrue, OnlyEmittedIsMarked, ClosingEmitted
  <2>2. CASE outbox' # outbox
    <3>1. PICK type \in {"request.created", "session.changed"}, about \in 0..MaxRequests :
             Append1(type, about)
      BY <1>1, <2>2 DEF RequestService, JoinSession
    <3> QED
      BY <1>3, <3>1, RowAppended
  <2> QED
    BY <2>1, <2>2
<1>10. LiveUpdatesTypeOK'
  BY <1>3, <1>4, <1>7, <1>9 DEF LiveInv, LiveUpdatesTypeOK, SoundCalls
<1>11. ClosedSessionIsSeen'
  BY <1>3, <1>9, NothingUnseen
<1> QED
  BY <1>7, <1>8, <1>9, <1>10, <1>11 DEF LiveInv

\* A step of the phone that writes nothing at the server.
LEMMA PhoneSteps ==
    ASSUME LiveInv, UNCHANGED <<server, publisher>>,
           SoundCalls(calls'), SoundScreen(phone'), rooms' \subseteq {"device", "session"},
           faults' = faults \/ Fault, mishap' \in BOOLEAN,
           phone'.ui = "session" /\ ClosingEmitted => mishap'
    PROVE  LiveInv'
<1>1. faults' \in 0..MaxFaults
  BY LiveBounds DEF LiveInv, LiveUpdatesTypeOK, Fault
<1>2. LiveUpdatesTypeOK'
  BY <1>1 DEF LiveInv, LiveUpdatesTypeOK, SoundCalls, SoundScreen, server, publisher
<1>3. SoundCalls(calls)' /\ SoundScreen(phone)'
  BY DEF SoundCalls, SoundScreen, Sound, Newest, server
<1>4. OutboxInv' /\ ClosingEmitted' = ClosingEmitted
  BY DEF LiveInv, OutboxInv, EmittedAreWritten, BatchIsEmitted, ClosingIsTrue, OnlyEmittedIsMarked,
         ClosingEmitted, server, publisher
<1>5. ClosedSessionIsSeen'
  BY <1>4 DEF ClosedSessionIsSeen
<1> QED
  BY <1>2, <1>3, <1>4, <1>5 DEF LiveInv

\* Once the end was emitted, a session on the screen is a mishap already.
LEMMA EndIsMissed ==
    ASSUME LiveInv, phone.ui = "session", ClosingEmitted
    PROVE  mishap = TRUE
<1>1. visit = "closed" /\ mishap \in BOOLEAN
  BY DEF LiveInv, OutboxInv, ClosingIsTrue, ClosingEmitted, LiveUpdatesTypeOK
<1> QED
  BY <1>1 DEF LiveInv, ClosedSessionIsSeen

\* A call that only reads, the socket, and the page that opens or closes.
LEMMA QuietSteps ==
    ASSUME LiveInv, Poll \/ BackToMenu \/ Connect \/ Disconnect \/ CloseApp \/ OpenApp
    PROVE  LiveInv'
<1>1. /\ SoundCalls(calls) /\ SoundScreen(phone) /\ rooms \subseteq {"device", "session"}
      /\ mishap \in BOOLEAN /\ calls \in Seq(Answer)
  BY DEF LiveInv, LiveUpdatesTypeOK
<1>2. CASE Poll
  <2>1. phone.id \in 1..Newest
    BY <1>2, ScreenParts, LiveRows DEF Poll
  <2>2. StatusAnswer("status", phone.id) \in Answer /\ Sound(StatusAnswer("status", phone.id))
    BY <2>1, AnswersGiven
  <2>3. SoundCalls(calls') /\ UNCHANGED <<server, publisher, phone, rooms, mishap, faults>>
    BY <1>1, <1>2, <2>2, AnswerAdded DEF Poll
  <2> QED
    BY <1>1, <1>2, <2>3, EndIsMissed, PhoneSteps DEF Poll
<1>3. CASE BackToMenu
  <2>1. SessionAnswer("boot") \in Answer /\ Sound(SessionAnswer("boot"))
    BY AnswersGiven
  <2>2. SoundCalls(calls') /\ UNCHANGED <<server, publisher, phone, rooms, mishap, faults>>
    BY <1>1, <1>3, <2>1, AnswerAdded DEF BackToMenu
  <2> QED
    BY <1>1, <2>2, EndIsMissed, PhoneSteps
<1>4. CASE Connect
  <2>1. rooms' \subseteq {"device", "session"}
    BY <1>4 DEF Connect, RoomsOfCookies
  <2>2. UNCHANGED <<server, publisher, phone, calls, mishap, faults>>
    BY <1>4 DEF Connect
  <2> QED
    BY <1>1, <2>1, <2>2, EndIsMissed, PhoneSteps
<1>5. CASE Disconnect
  <2>1. rooms' = {} /\ Fault /\ UNCHANGED <<server, publisher, phone, calls, mishap>>
    BY <1>5 DEF Disconnect
  <2> QED
    BY <1>1, <2>1, EndIsMissed, PhoneSteps
<1>6. CASE CloseApp
  <2>1. phone' = [ui |-> "closed", id |-> 0, saved |-> phone.saved, participant |-> phone.participant]
    BY <1>6, ScreenParts DEF CloseApp
  <2>2. SoundScreen(phone') /\ phone'.ui = "closed"
    BY <2>1, ScreenParts, ScreenChanged
  <2>3. /\ calls' = <<>> /\ rooms' = {} /\ Fault /\ UNCHANGED <<server, publisher>>
        /\ mishap' \in BOOLEAN
    BY <1>1, <1>6 DEF CloseApp
  <2>4. SoundCalls(calls')
    BY <2>3 DEF SoundCalls
  <2> QED
    BY <2>2, <2>3, <2>4, PhoneSteps
<1>7. CASE OpenApp
  <2>1. phone' = [ui |-> "loading", id |-> phone.id, saved |-> phone.saved, participant |-> phone.participant]
    BY <1>7, ScreenParts DEF OpenApp
  <2>2. SoundScreen(phone') /\ phone'.ui = "loading"
    BY <2>1, ScreenParts, ScreenChanged
  <2>3. SoundCalls(<<>>)
    BY DEF SoundCalls
  <2>4. Boot(<<>>) /\ UNCHANGED <<server, publisher, rooms, faults>> /\ mishap' \in BOOLEAN
    BY <1>1, <1>7 DEF OpenApp
  <2>5. SoundCalls(calls')
    BY <2>3, <2>4, Booted
  <2> QED
    BY <1>1, <2>2, <2>4, <2>5, PhoneSteps
<1> QED
  BY <1>2, <1>3, <1>4, <1>5, <1>6, <1>7

\* An answer that brings a session whose end was emitted is one that the end has
\* overtaken.
LEMMA AnswerArrives ==
    ASSUME LiveInv, NEW i, Receive(i)
    PROVE  LiveInv'
<1>1. i \in DOMAIN calls /\ UNCHANGED <<server, publisher, rooms, faults>>
  BY DEF Receive
<1>2. /\ SoundScreen(phone') /\ SoundCalls(calls')
      /\ phone'.ui = "session" => phone.ui = "session" \/ calls[i].says = "open"
  BY <1>1, AnswerApplied
<1>3. mishap' = (mishap \/ Overtaken(calls[i]))
  BY DEF Receive
<1>4. mishap \in BOOLEAN /\ rooms \subseteq {"device", "session"}
  BY DEF LiveInv, LiveUpdatesTypeOK
<1>5. mishap' \in BOOLEAN
  BY <1>3, <1>4
<1>6. ASSUME phone'.ui = "session", ClosingEmitted
      PROVE  mishap'
  <2>1. CASE phone.ui = "session"
    BY <1>3, <1>6, <2>1, EndIsMissed
  <2>2. CASE calls[i].says = "open"
    <3>1. Overtaken(calls[i])
      BY <1>6, <2>2 DEF Overtaken
    <3> QED
      BY <1>3, <3>1
  <2> QED
    BY <1>2, <1>6, <2>1, <2>2
<1> QED
  BY <1>1, <1>2, <1>4, <1>5, <1>6, PhoneSteps

\* A lost answer brings no session to the screen.
LEMMA AnswerLost ==
    ASSUME LiveInv, NEW i, LoseAnswer(i)
    PROVE  LiveInv'
<1>1. i \in DOMAIN calls /\ Fault /\ UNCHANGED <<server, publisher, rooms>>
  BY DEF LoseAnswer
<1>2. SoundCalls(Others(i))
  BY <1>1, AnswerTaken
<1>3. /\ SoundScreen(phone') /\ SoundCalls(calls')
      /\ phone'.ui = "session" => phone.ui = "session"
  <2> DEFINE rest == Others(i)
  <2>1. CASE calls[i].kind = "boot"
    <3>1. BootFromRequest(rest)
      BY <2>1 DEF LoseAnswer
    <3> HIDE DEF rest
    <3> QED
      BY <1>2, <3>1, BootedFromRequest DEF rest
  <2>2. CASE calls[i].kind = "restore"
    <3>1. Browse(rest)
      BY <2>2 DEF LoseAnswer
    <3> HIDE DEF rest
    <3> QED
      BY <1>2, <3>1, Browsed DEF rest
  <2>3. CASE calls[i].kind \notin {"boot", "restore"}
    BY <1>2, <2>3 DEF LoseAnswer, LiveInv
  <2> QED
    BY <2>1, <2>2, <2>3
<1>4. mishap \in BOOLEAN /\ rooms \subseteq {"device", "session"}
  BY DEF LiveInv, LiveUpdatesTypeOK
<1>5. mishap' \in BOOLEAN /\ (mishap = TRUE => mishap' = TRUE)
  BY <1>4 DEF LoseAnswer
<1> QED
  BY <1>1, <1>3, <1>4, <1>5, EndIsMissed, PhoneSteps

\* The publisher takes all rows that are not marked.
LEMMA BatchPicked ==
    ASSUME LiveInv, PickBatch
    PROVE  LiveInv'
<1>1. /\ batch' = {e \in DOMAIN outbox : ~outbox[e].published} /\ unsent' = batch'
      /\ UNCHANGED <<server, emitted, client, faults>>
  BY DEF PickBatch
<1>2. LiveUpdatesTypeOK'
  BY <1>1 DEF LiveInv, LiveUpdatesTypeOK, server, client
<1>3. SoundCalls(calls)' /\ SoundScreen(phone)'
  BY <1>1 DEF LiveInv, SoundCalls, SoundScreen, Sound, Newest, server, client
<1>4. OutboxInv' /\ ClosingEmitted' = ClosingEmitted
  BY <1>1 DEF LiveInv, OutboxInv, EmittedAreWritten, BatchIsEmitted, ClosingIsTrue, OnlyEmittedIsMarked,
         ClosingEmitted, server
<1> QED
  BY <1>1, <1>2, <1>3, <1>4, NothingUnseen DEF LiveInv, client

\* A crash lets go of the batch, and of the rooms.
LEMMA ServerCrashed ==
    ASSUME LiveInv, CrashServer
    PROVE  LiveInv'
<1>1. /\ batch' = {} /\ unsent' = {} /\ rooms' = {} /\ Fault
      /\ UNCHANGED <<server, emitted, phone, calls, mishap>>
  BY DEF CrashServer
<1>2. faults' \in 0..MaxFaults
  BY <1>1, LiveBounds DEF LiveInv, LiveUpdatesTypeOK, Fault
<1>3. LiveUpdatesTypeOK'
  BY <1>1, <1>2 DEF LiveInv, LiveUpdatesTypeOK, server
<1>4. SoundCalls(calls)' /\ SoundScreen(phone)'
  BY <1>1 DEF LiveInv, SoundCalls, SoundScreen, Sound, Newest, server
<1>5. OutboxInv' /\ ClosingEmitted' = ClosingEmitted
  BY <1>1 DEF LiveInv, OutboxInv, EmittedAreWritten, BatchIsEmitted, ClosingIsTrue, OnlyEmittedIsMarked,
         ClosingEmitted, server
<1> QED
  BY <1>1, <1>3, <1>4, <1>5, NothingUnseen DEF LiveInv

\* A batch is marked when all of it was emitted.
LEMMA BatchMarked ==
    ASSUME LiveInv, MarkPublished
    PROVE  LiveInv'
<1>1. /\ unsent = {} /\ batch' = {} /\ unsent' = {}
      /\ outbox' = [e \in DOMAIN outbox |-> [outbox[e] EXCEPT !.published = @ \/ e \in batch]]
      /\ UNCHANGED <<requests, visit, emitted, client, faults>>
  BY DEF MarkPublished, MarkBatch
<1>2. /\ Len(outbox) \in 0..MaxEvents /\ Len(outbox) \in Nat /\ DOMAIN outbox = 1..Len(outbox)
      /\ \A e \in DOMAIN outbox : outbox[e] \in EventRow
  BY LiveRows, LiveBounds
<1>3. ASSUME NEW e \in DOMAIN outbox
      PROVE  /\ outbox'[e] \in EventRow /\ outbox'[e].type = outbox[e].type
             /\ outbox'[e].published => outbox[e].published \/ e \in batch
  <2> DEFINE marked == outbox[e].published \/ e \in batch
  <2>1. outbox[e] \in EventRow
    BY <1>2
  <2>2. outbox[e] = [type |-> outbox[e].type, about |-> outbox[e].about, published |-> outbox[e].published]
    BY <2>1 DEF EventRow
  <2>3. outbox'[e] = [type |-> outbox[e].type, about |-> outbox[e].about, published |-> marked]
    BY <1>1, <2>1, <2>2
  <2>4. marked \in BOOLEAN
    OBVIOUS
  <2> HIDE DEF marked
  <2>5. outbox'[e] \in EventRow /\ outbox'[e].type = outbox[e].type /\ outbox'[e].published = marked
    BY <2>1, <2>3, <2>4 DEF EventRow
  <2> QED
    BY <2>5 DEF marked
<1>4. DOMAIN outbox' = DOMAIN outbox
  BY <1>1
<1>5. outbox' \in Seq(EventRow) /\ Len(outbox') = Len(outbox)
  <2>1. outbox' = [e \in 1..Len(outbox) |-> outbox'[e]]
    BY <1>1, <1>2, <1>4
  <2>2. \A e \in 1..Len(outbox) : outbox'[e] \in EventRow
    BY <1>2, <1>3
  <2>3. outbox' \in [1..Len(outbox) -> EventRow]
    BY <2>1, <2>2
  <2>4. outbox' \in Seq(EventRow)
    BY <1>2, <2>3, SeqDef
  <2> QED
    BY <1>2, <1>4, <2>4, LenProperties
<1>6. LiveUpdatesTypeOK'
  BY <1>1, <1>4, <1>5 DEF LiveInv, LiveUpdatesTypeOK, client
<1>7. SoundCalls(calls)' /\ SoundScreen(phone)'
  BY <1>1 DEF LiveInv, SoundCalls, SoundScreen, Sound, Newest, client
<1>8. OnlyEmittedIsMarked'
  BY <1>1, <1>3, <1>4 DEF LiveInv, OutboxInv, OnlyEmittedIsMarked, BatchIsEmitted
<1>9. EmittedAreWritten' /\ BatchIsEmitted' /\ ClosingIsTrue'
  BY <1>1, <1>3, <1>4 DEF LiveInv, OutboxInv, EmittedAreWritten, BatchIsEmitted, ClosingIsTrue
<1>10. ClosingEmitted' => ClosingEmitted
  BY <1>1, <1>3, <1>4 DEF ClosingEmitted
<1> QED
  BY <1>1, <1>6, <1>7, <1>8, <1>9, <1>10, NothingUnseen DEF LiveInv, OutboxInv, client

\* What the phone does at once with an event; an end takes it from the session.
LEMMA EventHandled ==
    ASSUME LiveInv, NEW event \in EventRow, Handle(event)
    PROVE  /\ SoundScreen(phone') /\ SoundCalls(calls')
           /\ phone'.ui = "session" => phone.ui = "session" /\ event.type # "session.closed"
<1>1. SoundCalls(calls) /\ SoundScreen(phone) /\ Newest \in Nat
  BY LiveRows DEF LiveInv
<1>2. CASE event.type = "request.resolved" /\ phone.ui = "waiting" /\ event.about = phone.id
  <2>1. phone' = phone /\ calls' = Append(calls, StatusAnswer("status", phone.id))
    BY <1>2 DEF Handle
  <2>2. phone.id \in 1..Newest
    BY <1>1, <1>2, ScreenParts
  <2>3. StatusAnswer("status", phone.id) \in Answer /\ Sound(StatusAnswer("status", phone.id))
    BY <2>2, AnswersGiven
  <2> QED
    BY <1>1, <1>2, <2>1, <2>3, AnswerAdded
<1>3. CASE event.type = "session.closed" /\ phone.ui = "session"
  <2>1. Show(calls, "over", 0)
    BY <1>3 DEF Handle
  <2> QED
    BY <1>1, <2>1, Shown, ScreenParts
<1>4. CASE event.type = "session.changed" /\ phone.ui = "session"
  <2>1. phone' = phone /\ calls' = Append(calls, SessionAnswer("refresh"))
    BY <1>4 DEF Handle
  <2>2. SessionAnswer("refresh") \in Answer /\ Sound(SessionAnswer("refresh"))
    BY AnswersGiven
  <2> QED
    BY <1>1, <1>4, <2>1, <2>2, AnswerAdded
<1>5. CASE event.type # "request.resolved" /\ phone.ui = "browsing"
  <2>1. phone' = phone /\ calls' = Append(calls, SessionAnswer("boot"))
    BY <1>5 DEF Handle
  <2>2. SessionAnswer("boot") \in Answer /\ Sound(SessionAnswer("boot"))
    BY AnswersGiven
  <2> QED
    BY <1>1, <1>5, <2>1, <2>2, AnswerAdded
<1>6. CASE /\ ~(event.type = "request.resolved" /\ phone.ui = "waiting" /\ event.about = phone.id)
           /\ ~(event.type = "session.closed" /\ phone.ui = "session")
           /\ ~(event.type = "session.changed" /\ phone.ui = "session")
           /\ ~(event.type # "request.resolved" /\ phone.ui = "browsing")
  <2>1. UNCHANGED <<phone, calls>>
    BY <1>6 DEF Handle
  <2> QED
    BY <1>1, <1>6, <2>1
<1> QED
  BY <1>2, <1>3, <1>4, <1>5, <1>6

\* The least row that is still to be emitted goes out; if it is the end, a phone
\* in a session leaves it or has missed it.
LEMMA RowEmitted ==
    ASSUME LiveInv, EmitNext
    PROVE  LiveInv'
<1>1. PICK e \in unsent :
          /\ IF Reaches(outbox[e]) THEN Handle(outbox[e]) ELSE UNCHANGED <<phone, calls>>
          /\ mishap' = (mishap \/ (outbox[e].type = "session.closed" /\ phone.ui = "session"
                                  /\ ~Reaches(outbox[e])))
          /\ emitted' = [emitted EXCEPT ![e] = @ + 1]
          /\ unsent' = unsent \ {e}
  BY DEF EmitNext
<1>2. UNCHANGED <<server, batch, rooms, faults>>
  BY DEF EmitNext
<1>3. /\ emitted \in [1..MaxEvents -> Nat] /\ unsent \subseteq batch /\ batch \subseteq DOMAIN outbox
      /\ mishap \in BOOLEAN
  BY DEF LiveInv, LiveUpdatesTypeOK
<1>4. /\ e \in DOMAIN outbox /\ outbox[e] \in EventRow /\ DOMAIN outbox = 1..Len(outbox)
      /\ Len(outbox) \in 0..MaxEvents /\ MaxEvents \in Nat /\ e \in 1..MaxEvents
  BY <1>3, LiveRows, LiveBounds
<1>5. /\ emitted' \in [1..MaxEvents -> Nat] /\ emitted'[e] > 0
      /\ \A other \in 1..MaxEvents \ {e} : emitted'[other] = emitted[other]
  BY <1>1, <1>3, <1>4
<1>6. /\ SoundScreen(phone') /\ SoundCalls(calls')
      /\ phone'.ui = "session" => phone.ui = "session"
      /\ phone'.ui = "session" /\ outbox[e].type = "session.closed" => ~Reaches(outbox[e])
  <2>1. CASE Reaches(outbox[e])
    BY <1>1, <1>4, <2>1, EventHandled
  <2>2. CASE ~Reaches(outbox[e])
    BY <1>1, <2>2 DEF LiveInv
  <2> QED
    BY <2>1, <2>2
<1>7. mishap' \in BOOLEAN /\ (mishap = TRUE => mishap' = TRUE)
  BY <1>1, <1>3
<1>8. LiveUpdatesTypeOK'
  BY <1>1, <1>2, <1>5, <1>6, <1>7 DEF LiveInv, LiveUpdatesTypeOK, SoundCalls, SoundScreen, server
<1>9. SoundCalls(calls)' /\ SoundScreen(phone)'
  BY <1>2, <1>6 DEF SoundCalls, SoundScreen, Sound, Newest, server
<1>10. outbox' = outbox /\ visit' = visit /\ batch' = batch
  BY <1>2 DEF server
<1>11. EmittedAreWritten'
  BY <1>4, <1>5, <1>10 DEF LiveInv, OutboxInv, EmittedAreWritten
<1>12. BatchIsEmitted'
  <2>1. \A other \in batch : other \in 1..MaxEvents
    BY <1>3, <1>4
  <2> QED
    BY <1>1, <1>5, <1>10, <2>1 DEF LiveInv, OutboxInv, BatchIsEmitted
<1>13. ClosingIsTrue'
  BY <1>10 DEF LiveInv, OutboxInv, ClosingIsTrue
<1>14. OnlyEmittedIsMarked'
  <2>1. \A other \in DOMAIN outbox : other \in 1..MaxEvents
    BY <1>4
  <2> QED
    BY <1>5, <1>10, <2>1 DEF LiveInv, OutboxInv, OnlyEmittedIsMarked
<1>15. ClosedSessionIsSeen'
  <2>1. CASE ClosingEmitted
    <3>1. ClosingEmitted => visit = "closed"
      BY DEF LiveInv, OutboxInv, ClosingIsTrue, ClosingEmitted
    <3> QED
      BY <1>6, <1>7, <2>1, EndIsMissed DEF ClosedSessionIsSeen
  <2>2. CASE ~ClosingEmitted
    <3> SUFFICES ASSUME phone'.ui = "session", ClosingEmitted'
                 PROVE  mishap'
      BY DEF ClosedSessionIsSeen
    <3>1. outbox[e].type = "session.closed"
      <4>1. PICK row \in DOMAIN outbox : outbox[row].type = "session.closed" /\ emitted'[row] > 0
        BY <1>10 DEF ClosingEmitted
      <4>2. row \in 1..MaxEvents /\ ~(emitted[row] > 0)
        BY <1>4, <2>2, <4>1 DEF ClosingEmitted
      <4> QED
        BY <1>5, <4>1, <4>2
    <3> QED
      BY <1>1, <1>6, <3>1
  <2> QED
    BY <2>1, <2>2
<1> QED
  BY <1>8, <1>9, <1>11, <1>12, <1>13, <1>14, <1>15 DEF LiveInv, OutboxInv

\* The inductive invariant holds at first.
LEMMA LiveStarts == LiveUpdatesInit => LiveInv
<1> SUFFICES ASSUME LiveUpdatesInit PROVE LiveInv
  OBVIOUS
<1>1. MaxRequests \in Nat /\ MaxEvents \in Nat /\ MaxFaults \in Nat
  BY LiveBounds
<1>2. /\ <<>> \in Seq({"pending"} \cup Verdicts) /\ <<>> \in Seq(EventRow) /\ <<>> \in Seq(Answer)
      /\ Len(<<>>) = 0 /\ DOMAIN <<>> = {}
  OBVIOUS
<1>3. requests = <<>> /\ outbox = <<>> /\ calls = <<>>
  BY DEF LiveUpdatesInit
<1>4. phone \in Screen /\ phone.id = 0 /\ phone.saved = 0 /\ phone.ui = "browsing"
  BY <1>1 DEF LiveUpdatesInit, Screen
<1>5. SoundScreen(phone) /\ SoundCalls(calls)
  BY <1>2, <1>3, <1>4 DEF SoundScreen, SoundCalls, Newest
<1>6. LiveUpdatesTypeOK
  <2>1. emitted \in [1..MaxEvents -> Nat]
    BY DEF LiveUpdatesInit
  <2>2. /\ batch = {} /\ unsent = {} /\ rooms = {} /\ faults = 0 /\ mishap = FALSE /\ visit = "none"
    BY DEF LiveUpdatesInit
  <2> QED
    <3>1. requests \in Seq({"pending"} \cup Verdicts) /\ outbox \in Seq(EventRow) /\ calls \in Seq(Answer)
      BY <1>2, <1>3
    <3>2. Len(requests) <= MaxRequests /\ Len(outbox) <= MaxEvents /\ faults \in 0..MaxFaults
      BY <1>1, <1>2, <1>3, <2>2
    <3>3. batch \subseteq DOMAIN outbox /\ unsent \subseteq batch /\ rooms \subseteq {"device", "session"}
      BY <2>2
    <3>4. mishap \in BOOLEAN /\ visit \in {"none", "open", "closed"}
      BY <2>2
    <3> QED
      BY <1>4, <2>1, <3>1, <3>2, <3>3, <3>4 DEF LiveUpdatesTypeOK
<1>7. OutboxInv
  BY <1>2, <1>3 DEF LiveUpdatesInit, OutboxInv, EmittedAreWritten, BatchIsEmitted, ClosingIsTrue, OnlyEmittedIsMarked
<1>8. ClosedSessionIsSeen
  BY <1>4 DEF ClosedSessionIsSeen
<1> QED
  BY <1>5, <1>6, <1>7, <1>8 DEF LiveInv

\* Every step keeps it, and so does one that changes nothing.
LEMMA LiveKept == LiveInv /\ [LiveUpdatesNext]_liveUpdatesVars => LiveInv'
<1> SUFFICES ASSUME LiveInv, [LiveUpdatesNext]_liveUpdatesVars PROVE LiveInv'
  OBVIOUS
<1>1. CASE ChangeVisit \/ CloseVisit \/ \E verdict \in Verdicts : ResolveRequest(verdict)
  BY <1>1, ServerSteps
<1>2. CASE RequestService \/ JoinSession
  BY <1>2, WritingCalls
<1>3. CASE Poll \/ BackToMenu \/ Connect \/ Disconnect \/ CloseApp \/ OpenApp
  BY <1>3, QuietSteps
<1>4. CASE \E i \in 1..MaxCalls : Receive(i) \/ LoseAnswer(i)
  BY <1>4, AnswerArrives, AnswerLost
<1>5. CASE PublisherStep \/ CrashServer
  BY <1>5, BatchPicked, RowEmitted, BatchMarked, ServerCrashed DEF PublisherStep
<1>6. CASE UNCHANGED liveUpdatesVars
  BY <1>6 DEF liveUpdatesVars, server, publisher, client, LiveInv, LiveUpdatesTypeOK, SoundCalls, SoundScreen,
              Sound, Newest, OutboxInv, EmittedAreWritten, BatchIsEmitted, ClosingIsTrue,
              OnlyEmittedIsMarked, ClosedSessionIsSeen, ClosingEmitted
<1> QED
  BY <1>1, <1>2, <1>3, <1>4, <1>5, <1>6 DEF LiveUpdatesNext

\* The inductive invariant holds always.
LEMMA LiveInvAlways == LiveUpdatesSpec => []LiveInv
  BY LiveStarts, LiveKept, PTL DEF LiveUpdatesSpec

\* Requests, rows, answers and the screen keep their types.
THEOREM LiveUpdatesTypes == LiveUpdatesSpec => []LiveUpdatesTypeOK
<1>1. LiveInv => LiveUpdatesTypeOK
  BY DEF LiveInv
<1> QED
  BY <1>1, LiveInvAlways, PTL

\* At least once: the publisher marks no row that it has not emitted, whenever
\* the process dies between the two.
THEOREM OnlyEmittedIsMarkedAlways == LiveUpdatesSpec => []OnlyEmittedIsMarked
<1>1. LiveInv => OnlyEmittedIsMarked
  BY DEF LiveInv, OutboxInv
<1> QED
  BY <1>1, LiveInvAlways, PTL

\* A phone that shows a session after the event of its end was emitted was out of
\* the room of the session when it came, or received an older answer after it.
THEOREM ClosedSessionIsSeenAlways == LiveUpdatesSpec => []ClosedSessionIsSeen
<1>1. LiveInv => ClosedSessionIsSeen
  BY DEF LiveInv
<1> QED
  BY <1>1, LiveInvAlways, PTL
=============================================================================
