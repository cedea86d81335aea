SPECIFICATION FairSpec
CONSTANTS
  a = a  b = b  c = c  x = x  y = y  l1 = l1  l2 = l2  d1 = d1  d2 = d2
  p1 = p1  p2 = p2  w1 = w1  w2 = w2
  Item = {a, b, c, x, y}
  Loc <- McLoc
  Dev <- McDev
  Kind <- McKind
  Partition = {p1}
  Messages <- OneStream
  Worker = {w1, w2}
  PartOf <- OnePartition
  Editor = {}
  NoWorker = NoWorker
  MaxFaults = 3
  MaxEdits = 0
  Faults = {"crash", "save", "checkpoint"}
INVARIANTS TypeOK CheckpointedStored StoredOncePerDelivery
PROPERTY Drained
CHECK_DEADLOCK FALSE
