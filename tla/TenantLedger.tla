---------------------------- MODULE TenantLedger ----------------------------
(***************************************************************************)
(* What billing promises of its tenants' accounts, without calls, locks,   *)
(* transactions, a job or a provider: bills are issued for good, each is   *)
(* paid for and credited at most once, and a credit is worth a whole cycle *)
(* of its bill's plan from the day it is given.  Nothing else moves the    *)
(* end of a subscription.                                                  *)
(***************************************************************************)
EXTENDS Integers, Sequences

CONSTANTS Tenants, Plans,
          Cycle       \* days that a plan pays for

VARIABLES
  today,
  until,       \* the end of each tenant's subscription
  bills,       \* the bills, by their order of issue
  received,    \* the bills there is money for
  credited     \* the bills that were credited

vars == <<today, until, bills, received, credited>>

Bill == [tenant : Tenants, plan : Plans]

Init ==
  /\ today = 1
  /\ until = [t \in Tenants |-> 0]
  /\ bills = <<>>
  /\ received = {} /\ credited = {}

\* One bill at most for each tenant at a time, and none is changed or withdrawn.
Issue ==
  /\ bills' \in Seq(Bill)
  /\ DOMAIN bills \subseteq DOMAIN bills'
  /\ \A b \in DOMAIN bills : bills'[b] = bills[b]
  /\ \A b, c \in DOMAIN bills' \ DOMAIN bills : bills'[b].tenant = bills'[c].tenant => b = c
  /\ UNCHANGED <<today, until, received, credited>>

Receive(b) ==
  /\ b \notin received
  /\ received' = received \cup {b}
  /\ UNCHANGED <<today, until, bills, credited>>

\* The end may lie farther ahead, when time was left.
Credit(b) ==
  /\ b \in received \ credited
  /\ credited' = credited \cup {b}
  /\ until' \in [Tenants -> Nat]
  /\ until'[bills[b].tenant] >= today + Cycle[bills[b].plan]
  /\ \A t \in Tenants \ {bills[b].tenant} : until'[t] = until[t]
  /\ UNCHANGED <<today, bills, received>>

PassDay ==
  /\ today' = today + 1
  /\ UNCHANGED <<until, bills, received, credited>>

Next ==
  \/ Issue
  \/ \E b \in DOMAIN bills : Receive(b) \/ Credit(b)
  \/ PassDay

Spec == Init /\ [][Next]_vars

=============================================================================
