SPECIFICATION Spec
CONSTANTS
  Tables = {t1}
  Devices = {d1}
  Workers = {w1, w2}
  Keys = {k1}
  None = None
  MaxSessions = 2
  MaxRequests = 1
  MaxOrders = 1
  Called = {"openByStaff", "join", "createOrder", "close"}
INVARIANT
  WaitingOrderIsHeld
