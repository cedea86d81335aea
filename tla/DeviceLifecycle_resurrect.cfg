SPECIFICATION Spec
CONSTANTS
  Device = {d1}
  Simulated = {d1}
  Proc = {p1, p2}
  Guid = {g1, g2}
  Etag = {e1, e2, e3, e4}
  NoDevice = NoDevice
  NoGuid = NoGuid
  NoEtag = NoEtag
  RetryCount = 0
  Ops = {"add", "remove", "update"}
  Faults = {}
  Serial = FALSE
PROPERTY UpdateNeverCreates
