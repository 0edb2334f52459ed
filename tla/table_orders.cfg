SPECIFICATION Spec
CONSTANTS
  Tables = {t1}
  Devices = {d1, d2}
  Workers = {w1, w2}
  Keys = {k1, k2}
  None = None
  MaxSessions = 2
  MaxRequests = 2
  MaxOrders = 2
  Called = {"join", "approve", "reject", "openByStaff", "close", "createOrder", "cancelOrder"}
SYMMETRY Symmetry
INVARIANTS
  OrderOwnerTakesPart
  OrdersAreDistinct
  AnswerSettlesOrder
PROPERTIES
  ClosedSessionIsFinal
  StaffAnswerIsFinal
