----------------------------- MODULE TableSlots -----------------------------
(***************************************************************************)
(* What the service promises of its tables, without requests, orders,      *)
(* locks or transactions: a table serves one session at a time or none, a  *)
(* session that has ended never serves again, and a device becomes a guest *)
(* only of a session that is being served.                                 *)
(***************************************************************************)
EXTENDS Naturals

CONSTANTS Tables, Devices, SessionIds

VARIABLES
  serving,    \* the session each table serves, 0 if none
  ended,      \* the sessions that are over
  guests      \* the devices that take part in each session

vars == <<serving, ended, guests>>

Init ==
  /\ serving = [t \in Tables |-> 0]
  /\ ended = {}
  /\ guests = [s \in SessionIds |-> {}]

Unused(s) == s \notin ended /\ (\A t \in Tables : serving[t] # s) /\ guests[s] = {}

Open(t, s, first) ==
  /\ serving[t] = 0 /\ Unused(s)
  /\ serving' = [serving EXCEPT ![t] = s]
  /\ guests' = [guests EXCEPT ![s] = first]
  /\ UNCHANGED ended

Close(t) ==
  /\ serving[t] # 0
  /\ serving' = [serving EXCEPT ![t] = 0]
  /\ ended' = ended \cup {serving[t]}
  /\ UNCHANGED guests

\* The old session ends and the new one starts at once: the table is never free
\* in between.
Replace(t, s, first) ==
  /\ serving[t] # 0 /\ Unused(s)
  /\ serving' = [serving EXCEPT ![t] = s]
  /\ ended' = ended \cup {serving[t]}
  /\ guests' = [guests EXCEPT ![s] = first]

Admit(t, d) ==
  /\ serving[t] # 0
  /\ guests' = [guests EXCEPT ![serving[t]] = @ \cup {d}]
  /\ UNCHANGED <<serving, ended>>

Next ==
  \E t \in Tables :
    \/ \E s \in SessionIds, first \in SUBSET Devices : Open(t, s, first) \/ Replace(t, s, first)
    \/ Close(t)
    \/ \E d \in Devices : Admit(t, d)

Spec == Init /\ [][Next]_vars

=============================================================================
