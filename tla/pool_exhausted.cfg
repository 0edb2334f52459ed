SPECIFICATION BillingSpec
CONSTANTS
    Tenants = {t1, t2}
    None = None
    Plans = {"monthly"}
    DefaultPlan = "monthly"
    Cycle <- MCCycle
    Workers = {w1, w2}
    Job = job
    TrialTime = 0
    GraceTime = 1
    LeadTime = 1
    ChargeTTL = 1
    PoolSize = 2
    MaxTime = 2
    MaxCharges = 2
    MaxFaults = 0
INVARIANT AHolderCanGoOn
CHECK_DEADLOCK FALSE
