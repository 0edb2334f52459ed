------------------------- MODULE TableServiceSlots -------------------------
(***************************************************************************)
(* The handlers implement TableSlots.                                      *)
(***************************************************************************)
EXTENDS TableService

Serving ==
  [t \in Tables |->
     IF LiveSessions(t) = {} THEN 0 ELSE CHOOSE s \in LiveSessions(t) : TRUE]
Ended == {s \in SessionIds : sessions[s].status = "closed"}
Guests ==
  [s \in SessionIds |-> {d \in Devices : Participates(s, d)}]

Slots == INSTANCE TableSlots
           WITH serving <- Serving, ended <- Ended, guests <- Guests

\* Whatever the handlers and the jobs do, each table serves one session after
\* another, and only a session being served admits a device: a join or an
\* approval that raced with a close never shows.
ImplementsSlots == Slots!Spec

=============================================================================
