SPECIFICATION Spec
CONSTANTS
  d1 = d1  d2 = d2  r1 = r1  r2 = r2  r3 = r3
  Device = {d1, d2}
  Field = {temperature, humidity}
  Rule = {r1, r2, r3}
  Owner <- TwoOwners
  NoRule = NoRule
  NoField = NoField
  Proc = {p1, p2}
  p1 = p1  p2 = p2
  Lookahead = 2
  MaxDelay = 1
  MaxMinute = 2
  MaxOps = 3
  Ops = {"new", "edit", "toggle", "delete", "clear"}
  Faults = {"throw", "lost"}
  Serial = TRUE
INVARIANTS TypeOK BlobCurrent
CHECK_DEADLOCK FALSE
