---------------------------- MODULE MCDeltaWire ----------------------------
(* Small instances of DeltaWire for TLC. *)
EXTENDS DeltaTree

CONSTANTS h1, h2, h3

\* h2 and h3 are confusable with each other.
MCHandles == {h1, h2, h3}
MCSkeletons == {"s1", "s2"}
MCSkeleton == [h \in Handles |-> IF h = h1 THEN "s1" ELSE "s2"]
=============================================================================
