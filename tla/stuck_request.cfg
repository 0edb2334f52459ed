SPECIFICATION StaffPanelSpec
CONSTANTS
    MaxVisits = 2
    MaxRequests = 1
    MaxOrders = 2
    MaxReloads = 1
    NotRead = NotRead
INVARIANT OperatorCanApprove
CHECK_DEADLOCK FALSE
