SPECIFICATION Spec
CONSTANTS
  Tables = {t1}
  Devices = {d1}
  Workers = {w1, w2}
  Keys = {k1, k2}
  None = None
  MaxSessions = 1
  MaxRequests = 1
  MaxOrders = 2
  Called = {"requestService", "join", "setParticipantName", "approve", "reject", "openByStaff",
            "close", "createOrder", "acknowledgeOrder", "cancelOrder", "requestBill",
            "cancelBill", "acknowledgeBill", "updateTable"}
SYMMETRY Symmetry
INVARIANTS
  TypeOK
  LockProtects
PROPERTIES
  CloseLeavesNothingUnacknowledged
