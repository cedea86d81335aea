SPECIFICATION Spec
CONSTANTS
  d1 = d1  d2 = d2  r1 = r1  r2 = r2  r3 = r3
  Device = {d1}
  Field = {temperature, humidity}
  Rule = {r1, r2}
  Owner <- OneOwner
  NoRule = NoRule
  NoField = NoField
  Proc = {p1, p2}
  p1 = p1  p2 = p2
  Lookahead = 2
  MaxDelay = 1
  MaxMinute = 1
  MaxOps = 4
  Ops = {"new", "edit", "toggle", "delete", "clear"}
  Faults = {"lost"}
  Serial = FALSE
INVARIANT UniqueField
CHECK_DEADLOCK FALSE
PROPERTIES NoLostChange FutureBlobsOnly
SYMMETRY Threads
