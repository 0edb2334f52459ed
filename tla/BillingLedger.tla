--------------------------- MODULE BillingLedger ---------------------------
(***************************************************************************)
(* The concurrent calls of billing implement TenantLedger.                 *)
(***************************************************************************)
EXTENDS Billing

Until == [t \in Tenants |-> tenants[t].subscriptionEndsAt]
Bills == [c \in Ids |-> [tenant |-> charges[c].tenant, plan |-> charges[c].plan]]
Received == {c \in 1..MaxCharges : paid[c]}
Credited == {c \in 1..MaxCharges : credited[c] > 0}

Ledger == INSTANCE TenantLedger
            WITH today <- now, until <- Until, bills <- Bills,
                 received <- Received, credited <- Credited

\* Whatever screens, jobs, errors and crashes do to a settlement, the tenant's
\* account changes once per payment, by a whole cycle from that moment on, and
\* neither a charge nor the end of a subscription changes in any other way.
ImplementsLedger == Ledger!Spec

=============================================================================
