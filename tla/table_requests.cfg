SPECIFICATION Spec
CONSTANTS
  Tables = {t1}
  Devices = {d1, d2}
  Workers = {w1, w2}
  Keys = {k1}
  None = None
  MaxSessions = 2
  MaxRequests = 2
  MaxOrders = 1
  Called = {"requestService", "join", "approve", "reject", "openByStaff", "close", "createOrder"}
SYMMETRY Symmetry
INVARIANTS
  LockedReadsHold
  ApprovedDeviceTakesPart
PROPERTIES
  ImplementsSlots
