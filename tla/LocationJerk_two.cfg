SPECIFICATION Spec
CONSTANTS
  a = a  b = b  c = c  x = x  y = y  l1 = l1  l2 = l2  d1 = d1  d2 = d2
  p1 = p1  p2 = p2  w1 = w1  w2 = w2
  Item = {a, b, c}
  Loc <- McLoc
  Dev <- McDev
  Kind <- McKind
  Partition = {p1, p2}
  Messages <- TwoStreams
  Worker = {w1, w2}
  PartOf <- TwoPartitions
  Editor = {u}
  NoWorker = NoWorker
  MaxFaults = 2
  MaxEdits = 1
  Faults = {"steal", "crash", "checkpoint"}
PROPERTY ConsistentMerge
CHECK_DEADLOCK FALSE
