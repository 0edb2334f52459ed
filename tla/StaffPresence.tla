--------------------------- MODULE StaffPresence ---------------------------
(***************************************************************************)
(* Whether somebody of the staff is connected (staff-presence.service.ts,  *)
(* realtime.gateway.ts): derived from the sockets of the panels, announced *)
(* to the phones on a change, and asked by the server before it takes a    *)
(* request that only a human can answer.                                   *)
(***************************************************************************)
EXTENDS Integers

CONSTANTS Panels, Diners,   \* sockets of the staff, and phones with a socket
          Grace,            \* how long the restaurant counts as online alone
          MaxInstant        \* bound of the runs

ASSUME StaffPresenceAssumption == {Grace, MaxInstant} \subseteq Nat /\ Grace > 0

Never == -1   \* null, for an instant

VARIABLES instant,
          open,       \* the sockets of the panels that are connected
          presence,   \* the entry of the tenant in the service
          told,       \* what each phone shows
          linked      \* the phones whose socket is connected

staffPresenceVars == <<instant, open, presence, told, linked>>

Entry == [sockets : Nat, lastSeenAt : Nat \cup {Never}, graceTimer : Nat \cup {Never},
          announced : BOOLEAN]

StaffPresenceTypeOK ==
    /\ instant \in 0..MaxInstant
    /\ open \subseteq Panels
    /\ presence \in Entry
    /\ told \in [Diners -> BOOLEAN]
    /\ linked \subseteq Diners

NoEntry == [sockets |-> 0, lastSeenAt |-> Never, graceTimer |-> Never, announced |-> FALSE]

StaffPresenceInit ==
    /\ instant = 0
    /\ open = {}
    /\ presence = NoEntry
    /\ told = [d \in Diners |-> FALSE]
    /\ linked = {}

IsStaffOnline(sockets, lastSeenAt) ==
    sockets > 0 \/ (lastSeenAt # Never /\ instant - lastSeenAt < Grace)

IsOnline == IsStaffOnline(presence.sockets, presence.lastSeenAt)

\* Only a change is told, to the phones that are connected.
Announce(entry, online) ==
    /\ presence' = [entry EXCEPT !.announced = online]
    /\ told' = IF presence.announced = online THEN told
               ELSE [d \in Diners |-> IF d \in linked THEN online ELSE told[d]]

\* variant StopTimer: the timer runs on
LetTimerRun(entry) == entry

StopTimer(entry) == [entry EXCEPT !.graceTimer = Never]

\* The token is verified and the room joined with nothing in between.
HandleConnection(s) ==
    /\ s \notin open
    /\ open' = open \cup {s}
    /\ Announce([StopTimer(presence) EXCEPT !.sockets = @ + 1], TRUE)
    /\ UNCHANGED <<instant, linked>>

HandleDisconnect(s) ==
    /\ s \in open
    /\ open' = open \ {s}
    /\ presence' = IF presence.sockets > 1 THEN [presence EXCEPT !.sockets = @ - 1]
                   ELSE [presence EXCEPT !.sockets = 0, !.lastSeenAt = instant,
                                         !.graceTimer = instant + Grace]
    /\ UNCHANGED <<instant, told, linked>>

GraceEnds ==
    /\ presence.graceTimer # Never /\ presence.graceTimer <= instant
    /\ Announce(StopTimer(presence), FALSE)
    /\ UNCHANGED <<instant, open, linked>>

\* A phone connects in order to listen, and drops out and comes back unnoticed.
Link(d) ==
    /\ linked' = IF d \in linked THEN linked \ {d} ELSE linked \cup {d}
    /\ UNCHANGED <<instant, open, presence, told>>

\* Every twenty seconds, and when the page is opened.
PollPresence(d) ==
    /\ told' = [told EXCEPT ![d] = IsOnline]
    /\ UNCHANGED <<instant, open, presence, linked>>

\* All is in memory, and all sockets fall with it.
RestartServer ==
    /\ open' = {} /\ linked' = {}
    /\ presence' = NoEntry
    /\ UNCHANGED <<instant, told>>

TimePasses ==
    /\ instant < MaxInstant
    /\ instant' = instant + 1
    /\ UNCHANGED <<open, presence, told, linked>>

StaffPresenceNext ==
    \/ \E s \in Panels : HandleConnection(s) \/ HandleDisconnect(s)
    \/ \E d \in Diners : Link(d) \/ PollPresence(d)
    \/ GraceEnds \/ RestartServer \/ TimePasses

StaffPresenceSpec == StaffPresenceInit /\ [][StaffPresenceNext]_staffPresenceVars

-----------------------------------------------------------------------------
(* Properties. *)

\* What was announced and what a request is answered do not part: nobody is
\* told that the restaurant is offline while it takes requests, and when it
\* takes none any more, that is announced or a timer is due to announce it.
TwoAnswersAgree ==
    /\ IsOnline => presence.announced
    /\ presence.announced /\ ~IsOnline =>
           presence.graceTimer # Never /\ presence.graceTimer <= instant

=============================================================================
