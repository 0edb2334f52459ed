SPECIFICATION FairLiveUpdatesSpec
CONSTANTS
    MaxRequests = 2
    MaxEvents = 5
    MaxCalls = 2
    MaxFaults = 1
INVARIANTS OnlyEmittedIsMarked ClosedSessionIsSeen
PROPERTIES WaitingCustomerLearns ApprovedCustomerIsSeated
CHECK_DEADLOCK FALSE
