CONSTANTS
  c1 = c1
  c2 = c2
  i1 = i1
  i2 = i2
  r1 = r1
  o1 = o1
  o2 = o2
  None = None
  Customers = {c1, c2}
  Routers = {r1}
  IPs = {i1, i2}
  Requests = {o1, o2}
  Edits <- MCEdits
  Buffer = 2
  MaxOps = 3
SPECIFICATION AccessSpec
SYMMETRY MCSymmetry
INVARIANTS
  LastWordStands
  AccessSettles
  LeaseOnce
CHECK_DEADLOCK FALSE
