--------------------------- MODULE MCOrgTrieSync ---------------------------
(* Small instances of OrgTrieSync for TLC. *)
EXTENDS OrgTrieSync, TLC

CONSTANTS h1, h2, h3

\* h2 and h3 are confusable with each other.
MCHandles == {h1, h2, h3}
MCSkeletons == {"s1", "s2"}
MCSkeleton == [h \in Handles |-> IF h = h1 THEN "s1" ELSE "s2"]

\* Member keys and device keys are only ever compared for equality.
KeySymmetry == Permutations(Keys) \cup Permutations(Devices)
=============================================================================
