------------------------------ MODULE Billing ------------------------------
(***************************************************************************)
(* The subscription of a tenant: its phases over time, the Pix charges at  *)
(* an external provider, the administrator's screen and the job that both  *)
(* confirm payments, and the milestones that are written on a connection   *)
(* of their own while a transaction is open (src/apps/api/src/modules/     *)
(* billing, src/packages/domain/src/billing.ts).  A tick of the clock is   *)
(* half the life of a charge.                                              *)
(***************************************************************************)
EXTENDS Integers, Sequences, FiniteSets

CONSTANTS Tenants, None,
          Plans, DefaultPlan,
          Cycle,         \* ticks that a plan pays for
          Workers, Job,  \* concurrent calls of the API, and the interval job
          TrialTime, GraceTime, LeadTime, ChargeTTL,
          PoolSize,      \* connections to the database
          MaxTime, MaxCharges, MaxFaults   \* bounds of the runs

Callers == Workers \cup {Job}

ASSUME BillingAssumption ==
    /\ DefaultPlan \in Plans /\ \A p \in Plans : Cycle[p] \in Nat \ {0}
    /\ {TrialTime, GraceTime, LeadTime, ChargeTTL, PoolSize, MaxTime, MaxCharges,
        MaxFaults} \subseteq Nat
    /\ Job \notin Workers /\ None \notin Plans \cup Tenants
    /\ IsFiniteSet(Tenants)

NoDate == 0    \* null, for a date: the clock starts at 1

VARIABLES now,
          tenants,   \* the billing columns of each tenant
          charges,   \* the rows of pix_charges, by their order of insertion
          paid,      \* what the provider would answer for each charge
          credited,  \* the events billing.paid that each charge has left
          milestone, \* the tenants with a row "pagou" in origem_evento
          op,        \* what each caller is in the middle of
          jobStep,   \* the next step of the job
          faults     \* errors and crashes so far

billingVars == <<now, tenants, charges, paid, credited, milestone, op, jobStep, faults>>

Ids == DOMAIN charges

TenantRow == [billingStatus : {"trial", "active"}, billingPlan : Plans \cup {None},
              trialEndsAt : Nat, subscriptionEndsAt : Nat]
ChargeRow == [tenant : Tenants, plan : Plans, status : {"pending", "paid", "expired"},
              expiresAt : Nat]

\* What is being created: the plans by tenant.
Creations == UNION {[some -> Plans] : some \in SUBSET Tenants}

Idle == [pc |-> "idle", creating |-> [t \in {} |-> DefaultPlan], tenant |-> None, charge |-> 0,
         at |-> NoDate, base |-> NoDate, todo |-> {}]

Op == [pc : {"idle", "create", "expire", "ask", "extend", "commit"}, creating : Creations,
       tenant : Tenants \cup {None}, charge : Nat, at : Nat, base : Nat, todo : SUBSET Nat]

BillingTypeOK ==
    /\ now \in Nat
    /\ tenants \in [Tenants -> TenantRow]
    /\ milestone \in SUBSET Tenants
    /\ charges \in Seq(ChargeRow)
    /\ paid \in [1..MaxCharges -> BOOLEAN]
    /\ credited \in [1..MaxCharges -> Nat]
    /\ op \in [Callers -> Op]
    /\ jobStep \in {"create", "confirm", "expire"}
    /\ faults \in 0..MaxFaults

\* A tenant starts in its trial; one that is older than billing has no date.
NewTenant == [billingStatus |-> "trial", billingPlan |-> None,
              trialEndsAt |-> now + TrialTime, subscriptionEndsAt |-> NoDate]
MigratedTenant == [NewTenant EXCEPT !.trialEndsAt = NoDate]

BillingInit ==
    /\ milestone = {}
    /\ now = 1
    /\ tenants \in [Tenants -> {NewTenant, MigratedTenant}]
    /\ charges = <<>>
    /\ paid = [c \in 1..MaxCharges |-> FALSE]
    /\ credited = [c \in 1..MaxCharges |-> 0]
    /\ op = [w \in Callers |-> Idle]
    /\ jobStep = "create"
    /\ faults = 0

-----------------------------------------------------------------------------
(* The rules of the domain. *)

Deadline(t) == IF tenants[t].billingStatus = "trial" THEN tenants[t].trialEndsAt
                                                     ELSE tenants[t].subscriptionEndsAt

Phase(t) ==
    CASE Deadline(t) = NoDate                -> "active"
      [] Deadline(t) # NoDate /\ now <= Deadline(t) -> tenants[t].billingStatus
      [] Deadline(t) < now /\ now <= Deadline(t) + GraceTime /\ Deadline(t) # NoDate -> "past_due"
      [] OTHER                               -> "blocked"

CanServeCustomers(t) == Phase(t) # "blocked"

\* variant NextBillingCycleEnd: from now, whatever is left
CycleFromNow(plan, currentEnd) == now + Cycle[plan]

\* A payment extends from the current end when that is still to come.
NextBillingCycleEnd(plan, currentEnd) ==
    (IF currentEnd > now THEN currentEnd ELSE now) + Cycle[plan]

\* A pending charge that can still be paid.
Payable(c) == charges[c].status = "pending" /\ charges[c].expiresAt > now

HasPendingCharge(t) == \E c \in Ids : charges[c].tenant = t /\ Payable(c)

ShouldGenerateRenewalCharge(t) ==
    /\ ~HasPendingCharge(t)
    /\ Deadline(t) # NoDate
    /\ now >= Deadline(t) - LeadTime

ChosenPlan(t) == IF tenants[t].billingPlan = None THEN DefaultPlan ELSE tenants[t].billingPlan

-----------------------------------------------------------------------------
(* Transactions and the connections they hold. *)

InTransaction == {w \in Callers : op[w].pc \in {"create", "extend", "commit"}}

ConnectionFree == Cardinality(InTransaction) < PoolSize

Step(w, next) == op' = [op EXCEPT ![w] = next]

\* What a confirming call does next: the charges it has still to ask about.
Continue(todo) == IF todo = {} THEN Idle ELSE [Idle EXCEPT !.pc = "ask", !.todo = todo]

\* The row of a charge is written and not yet committed.
ChargeLocked(c) == \E w \in Callers : op[w].pc \in {"extend", "commit"} /\ op[w].charge = c
TenantLocked(t) == \E w \in Callers : op[w].pc = "commit" /\ op[w].tenant = t

-----------------------------------------------------------------------------
(* The administrator's choice. *)

ChoosePlan(t, plan) ==
    /\ tenants' = [tenants EXCEPT ![t].billingPlan = plan]
    /\ UNCHANGED <<milestone, now, charges, paid, credited, op, jobStep, faults>>

-----------------------------------------------------------------------------
(* A charge is created at the provider inside the transaction that inserts *)
(* it, which has looked for a pending one and locked nothing.              *)

Room(n) ==
    Len(charges) + Cardinality(UNION {{w} \X DOMAIN op[w].creating : w \in Callers}) + n <= MaxCharges

BeginCharges(w, some) ==
    /\ op[w] = Idle
    /\ Room(Cardinality(some))
    /\ ConnectionFree
    /\ Step(w, [Idle EXCEPT !.pc = "create", !.creating = [t \in some |-> ChosenPlan(t)],
                            !.at = now + ChargeTTL])
    /\ UNCHANGED <<milestone, now, tenants, charges, paid, credited, faults>>

GetOrCreateCharge(w, t) ==
    /\ ~HasPendingCharge(t)
    /\ BeginCharges(w, {t})
    /\ UNCHANGED jobStep

\* One transaction for all that are due and that the provider does not refuse.
GenerateRenewalCharges ==
    /\ jobStep = "create"
    /\ op[Job] = Idle
    /\ \E accepted \in SUBSET {t \in Tenants : ShouldGenerateRenewalCharge(t)} :
          IF accepted = {} THEN UNCHANGED <<milestone, now, tenants, charges, paid, credited, op, faults>>
                           ELSE BeginCharges(Job, accepted)
    /\ jobStep' = "confirm"

CommitCharges(w) ==
    LET some == DOMAIN op[w].creating IN
    /\ op[w].pc = "create"
    /\ \E order \in [1..Cardinality(some) -> some] :
          /\ {order[i] : i \in DOMAIN order} = some
          /\ charges' = charges \o [i \in DOMAIN order |->
                 [tenant |-> order[i], plan |-> op[w].creating[order[i]],
                  status |-> "pending", expiresAt |-> op[w].at]]
    /\ Step(w, Idle)
    /\ UNCHANGED <<milestone, now, tenants, paid, credited, jobStep, faults>>

\* The provider takes money for as long as the code is valid.
Pay(c) ==
    /\ c \in Ids /\ ~paid[c]
    /\ now <= charges[c].expiresAt
    /\ paid' = [paid EXCEPT ![c] = TRUE]
    /\ UNCHANGED <<milestone, now, tenants, charges, credited, op, jobStep, faults>>

-----------------------------------------------------------------------------
(* Confirmation, by the screen for one charge and by the job for all that   *)
(* were payable when it looked.                                             *)

VerifyCharge(w, c) ==
    /\ op[w] = Idle
    /\ c \in Ids /\ charges[c].status = "pending"
    /\ Step(w, IF charges[c].expiresAt < now
               THEN [Idle EXCEPT !.pc = "expire", !.charge = c] ELSE Continue({c}))
    /\ UNCHANGED <<milestone, now, tenants, charges, paid, credited, jobStep, faults>>

\* Written by id, whatever the row has become.
ExpireVerified(w) ==
    /\ op[w].pc = "expire"
    /\ ~ChargeLocked(op[w].charge)
    /\ charges' = [charges EXCEPT ![op[w].charge].status = "expired"]
    /\ Step(w, Idle)
    /\ UNCHANGED <<milestone, now, tenants, paid, credited, jobStep, faults>>

\* variant ConfirmPendingCharges: the oldest alone
ConfirmOldestCharge ==
    /\ jobStep = "confirm"
    /\ op[Job] = Idle
    /\ Step(Job, Continue({c \in Ids : Payable(c) /\ \A d \in Ids : Payable(d) => c <= d}))
    /\ jobStep' = "expire"
    /\ UNCHANGED <<milestone, now, tenants, charges, paid, credited, faults>>

ConfirmPendingCharges ==
    /\ jobStep = "confirm"
    /\ op[Job] = Idle
    /\ Step(Job, Continue({c \in Ids : Payable(c)}))
    /\ jobStep' = "expire"
    /\ UNCHANGED <<milestone, now, tenants, charges, paid, credited, faults>>

ExpireStaleCharges ==
    /\ jobStep = "expire"
    /\ op[Job] = Idle
    /\ \A c \in Ids : charges[c].status = "pending" /\ charges[c].expiresAt < now
                          => ~ChargeLocked(c)
    /\ charges' = [c \in Ids |-> IF charges[c].status = "pending" /\ charges[c].expiresAt < now
                                 THEN [charges[c] EXCEPT !.status = "expired"] ELSE charges[c]]
    /\ jobStep' = "create"
    /\ UNCHANGED <<milestone, now, tenants, paid, credited, op, faults>>

AskInVain(w, c) ==
    /\ op[w].pc = "ask" /\ c \in op[w].todo
    /\ ~paid[c]
    /\ Step(w, Continue(op[w].todo \ {c}))
    /\ UNCHANGED <<milestone, now, tenants, charges, paid, credited, jobStep, faults>>

-----------------------------------------------------------------------------
(* settle: the charge is marked if it is still pending, the tenant read, its *)
(* row extended, the milestone written on a second connection; then commit.  *)

\* variant IsPaid: a payment in process counts
IsPaidOrInProcess(c) == TRUE

\* Only "approved" is money, not what is being processed.
IsPaid(c) == paid[c]

\* variant SettleCharge: without the condition on its status
SettleChargeAgain(w, c) ==
    LET t == charges[c].tenant IN
    /\ op[w].pc = "ask" /\ c \in op[w].todo
    /\ IsPaid(c)
    /\ ConnectionFree
    /\ ~ChargeLocked(c)
    /\ Step(w, [Idle EXCEPT !.pc = "extend", !.tenant = t, !.charge = c,
                !.at = NextBillingCycleEnd(charges[c].plan, tenants[t].subscriptionEndsAt),
                !.base = tenants[t].subscriptionEndsAt, !.todo = op[w].todo \ {c}])
    /\ UNCHANGED <<milestone, now, tenants, charges, paid, credited, jobStep, faults>>

SettleCharge(w, c) ==
    LET t == charges[c].tenant
        rest == op[w].todo \ {c} IN
    /\ op[w].pc = "ask" /\ c \in op[w].todo
    /\ IsPaid(c)
    /\ ConnectionFree
    /\ ~ChargeLocked(c)
    /\ Step(w, IF charges[c].status # "pending" THEN Continue(rest)
               ELSE [Idle EXCEPT !.pc = "extend", !.tenant = t, !.charge = c,
                     !.at = NextBillingCycleEnd(charges[c].plan, tenants[t].subscriptionEndsAt),
                     !.base = tenants[t].subscriptionEndsAt, !.todo = rest])
    /\ UNCHANGED <<milestone, now, tenants, charges, paid, credited, jobStep, faults>>

ExtendSubscription(w) ==
    /\ op[w].pc = "extend"
    /\ ~TenantLocked(op[w].tenant)
    /\ ConnectionFree
    /\ milestone' \in {milestone, milestone \cup {op[w].tenant}}
    /\ Step(w, [op[w] EXCEPT !.pc = "commit"])
    /\ UNCHANGED <<now, tenants, charges, paid, credited, jobStep, faults>>

CommitSettle(w) ==
    LET c == op[w].charge
        t == op[w].tenant IN
    /\ op[w].pc = "commit"
    /\ charges' = [charges EXCEPT ![c].status = "paid"]
    /\ tenants' = [tenants EXCEPT ![t].billingStatus = "active", ![t].subscriptionEndsAt = op[w].at]
    /\ credited' = [credited EXCEPT ![c] = @ + 1]
    /\ Step(w, Continue(op[w].todo))
    /\ UNCHANGED <<milestone, now, paid, jobStep, faults>>

-----------------------------------------------------------------------------
Fault == faults < MaxFaults /\ faults' = faults + 1

\* variant Fail: the tenant's row written on a connection of its own, as the
\* milestone is, so that its new end outlives the rollback
FailHalfway(w) ==
    /\ op[w] # Idle
    /\ IF op[w].pc = "ask" THEN \E c \in op[w].todo : Step(w, Continue(op[w].todo \ {c}))
                            ELSE Step(w, Continue(op[w].todo))
    /\ tenants' = IF op[w].pc = "commit"
                  THEN [tenants EXCEPT ![op[w].tenant].subscriptionEndsAt = op[w].at] ELSE tenants
    /\ Fault
    /\ UNCHANGED <<milestone, now, charges, paid, credited, jobStep>>

\* An error, of the provider or the database, rolls the transaction back, but
\* not what another connection wrote; the job goes on with the next charge.
Fail(w) ==
    /\ op[w] # Idle
    /\ IF op[w].pc = "ask" THEN \E c \in op[w].todo : Step(w, Continue(op[w].todo \ {c}))
                            ELSE Step(w, Continue(op[w].todo))
    /\ Fault
    /\ UNCHANGED <<milestone, now, tenants, charges, paid, credited, jobStep>>

Crash ==
    /\ op' = [w \in Callers |-> Idle]
    /\ jobStep' = "create"
    /\ Fault
    /\ UNCHANGED <<milestone, now, tenants, charges, paid, credited>>

\* A tick stands for half an hour: no settlement lasts that long.
Tick ==
    /\ now < MaxTime
    /\ \A w \in Callers : op[w].pc \notin {"extend", "commit"}
    /\ now' = now + 1
    /\ UNCHANGED <<milestone, tenants, charges, paid, credited, op, jobStep, faults>>

CallerStep(w) ==
    \/ CommitCharges(w) \/ ExpireVerified(w)
    \/ ExtendSubscription(w) \/ CommitSettle(w)
    \/ \E c \in Ids : SettleCharge(w, c) \/ AskInVain(w, c)

JobTick == GenerateRenewalCharges \/ ConfirmPendingCharges \/ ExpireStaleCharges

BillingNext ==
    \/ \E t \in Tenants, p \in Plans : ChoosePlan(t, p)
    \/ \E w \in Workers, t \in Tenants : GetOrCreateCharge(w, t)
    \/ \E w \in Workers, c \in Ids : VerifyCharge(w, c)
    \/ \E c \in Ids : Pay(c)
    \/ \E w \in Callers : CallerStep(w) \/ Fail(w)
    \/ JobTick
    \/ Crash \/ Tick

BillingSpec == BillingInit /\ [][BillingNext]_billingVars

-----------------------------------------------------------------------------
(* Fairness.  The interval timer calls the job again and again, and a call   *)
(* that is under way goes on: errors and crashes end (MaxFaults).            *)

BillingFairness ==
    /\ WF_billingVars(JobTick \/ CallerStep(Job))
    /\ \A w \in Workers : WF_billingVars(CallerStep(w))

FairBillingSpec == BillingSpec /\ BillingFairness

-----------------------------------------------------------------------------
(* Properties. *)

\* No charge is credited twice, however many screens and jobs confirm it, and
\* only for money that has arrived.
CreditedOnce ==
    \A c \in Ids : /\ credited[c] <= 1
                   /\ credited[c] = 1 => paid[c]
                   /\ charges[c].status = "paid" => credited[c] = 1

\* The milestone of the first paid, though it is written before the commit
\* and outlives a rollback, is never set for a tenant that has not paid.
PaidMilestoneMeansMoney ==
    \A t \in milestone :
        \E c \in Ids : charges[c].tenant = t /\ paid[c]

Credits(t) == \E c \in Ids : charges[c].tenant = t /\ credited'[c] > credited[c]

\* A payment that is confirmed lets the tenant serve, whatever phase it was in.
PaymentServes == [][\A t \in Tenants : Credits(t) => CanServeCustomers(t)']_billingVars

\* A settled charge adds its whole cycle to the time that is left, unless the
\* settlement of another charge ended between its read and its write.
EveryPaymentExtends ==
    [][\A t \in Tenants, c \in Ids :
         /\ charges[c].tenant = t /\ credited'[c] > credited[c]
         /\ ~\E w \in Callers : /\ op[w].pc = "commit" /\ op[w].charge = c
                               /\ op[w].base # tenants[t].subscriptionEndsAt
         => tenants'[t].subscriptionEndsAt >= tenants[t].subscriptionEndsAt + Cycle[charges[c].plan]]_billingVars

\* A payment that the job can see in time is credited: again and again there
\* is none that waits.
PaymentsAreCredited ==
    []<>(\A c \in Ids : Payable(c) /\ paid[c] => credited[c] = 1)

\* Not all connections are held by transactions that wait for a second one:
\* waiting for a milestone to be written "risks nothing" (acquisition.service.ts).
AHolderCanGoOn ==
    Cardinality(InTransaction) >= PoolSize => \E w \in InTransaction : op[w].pc # "extend"
=============================================================================
