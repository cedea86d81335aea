SPECIFICATION FairSpec
CONSTANTS
  Device = {d1}
  Simulated = {d1}
  Proc = {p1}
  Guid = {g1, g2}
  Etag = {e1, e2, e3}
  NoDevice = NoDevice
  NoGuid = NoGuid
  NoEtag = NoEtag
  RetryCount = 2
  Ops = {"add", "remove", "status", "update"}
  Faults = {"refused", "lost", "crash"}
  Serial = TRUE
INVARIANTS TypeOK SerialInv StoresAgree
PROPERTY Terminates
