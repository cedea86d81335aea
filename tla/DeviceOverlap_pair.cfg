SPECIFICATION OSpec
CONSTANTS
  Device = {d1}
  Simulated = {}
  Proc = {p1, p2}
  Guid = {g1, g2, g3}
  Etag = {e1, e2}
  NoDevice = NoDevice
  NoGuid = NoGuid
  NoEtag = NoEtag
  RetryCount = 1
  Ops = {"add", "remove", "update"}
  Faults = {"refused", "lost", "crash"}
  Serial = FALSE
SYMMETRY ProcNames
INVARIANTS OneDocument RegistriesMatch
