SPECIFICATION FairBillingSpec
CONSTANTS
    Tenants = {t1}
    None = None
    Plans = {"monthly"}
    DefaultPlan = "monthly"
    Cycle <- MCCycle
    Workers = {w1}
    Job = job
    TrialTime = 0
    GraceTime = 1
    LeadTime = 1
    ChargeTTL = 1
    PoolSize = 3
    MaxTime = 3
    MaxCharges = 2
    MaxFaults = 2
INVARIANTS CreditedOnce PaidMilestoneMeansMoney
CHECK_DEADLOCK FALSE
PROPERTIES ImplementsLedger EveryPaymentExtends PaymentsAreCredited
