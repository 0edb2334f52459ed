SPECIFICATION Spec
CONSTANTS
  Tables = {t1}
  Devices = {d1}
  Workers = {w1, w2}
  Keys = {k1}
  None = None
  MaxSessions = 1
  MaxRequests = 0
  MaxOrders = 0
  Called = {"openByStaff", "updateTable"}
INVARIANT
  DisabledTableServesNobody
