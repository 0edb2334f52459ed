----------------------------- MODULE MCBilling -----------------------------
(* Small instances of Billing: a year is three months long. *)
EXTENDS BillingLedger
MCCycle == [p \in {"monthly", "annual"} |-> IF p = "monthly" THEN 1 ELSE 3]
=============================================================================
