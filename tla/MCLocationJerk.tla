--------------------------- MODULE MCLocationJerk ---------------------------
(* Values of the constants of LocationJerk for TLC.                        *)
EXTENDS LocationJerk

CONSTANTS a, b, c, x, y, l1, l2, d1, d2, p1, p2, w1, w2

\* a and b are jerks of one device at l1; c is a good jerk at l2; x has no
\* jerks and is of a device at l2; y cannot be read at all.
McLoc == [i \in Item |-> IF i \in {a, b} THEN l1 ELSE l2]
McDev == [i \in Item |-> IF i = x THEN d2 ELSE d1]
McKind == [i \in Item |-> IF i = x THEN "noJerks" ELSE IF i = y THEN "noDevice" ELSE "good"]

\* One partition, with a message that throws half way; two partitions.
OneStream == [p \in {p1} |-> << <<a>>, <<b, y>>, <<x, c>> >>]
TwoStreams == [p \in {p1, p2} |-> IF p = p1 THEN << <<a>>, <<b>> >> ELSE << <<c>> >>]
OnePartition == [w \in {w1, w2} |-> p1]
TwoPartitions == [w \in {w1, w2} |-> IF w = w1 THEN p1 ELSE p2]
=============================================================================
