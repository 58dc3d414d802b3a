----------------------------- MODULE DeltaTree -----------------------------
(***************************************************************************)
(* The receiver of module DeltaWire with the tree it really keeps.  The    *)
(* shape of that tree depends on its past: a removal leaves a path of      *)
(* internal nodes over empty ones, and the unchanged subtrees keep the     *)
(* hashes that an earlier version computed.                                *)
(***************************************************************************)
EXTENDS DeltaWire, Smt

\* The ids of n bits.
IdsOfBits[n \in 0 .. SmtDepth] ==
  IF n = 0 THEN {0} ELSE UNION {{2 * i, 2 * i + 1} : i \in IdsOfBits[n - 1]}

AllIds == IdsOfBits[SmtDepth]

\* An id is as long as the tree is deep, and the device sub-trie has four slots.
ASSUME TreeAssumption == MemberIds \subseteq AllIds /\ MaxDevices <= 4

VARIABLE tree   \* the root node of local

treeVars == <<wireVars, tree>>

\* Entry k is the tree after k inserts of a loop.
InsertAll(start, entries) ==
  LET done[k \in 0 .. Len(entries)] ==
        IF k = 0 THEN start
        ELSE SmtInsert(done[k - 1], entries[k].id, entries[k].leaf)
  IN done

\* Entry k is the tree after k removals of a loop.
RemoveAll(start, ids) ==
  LET done[k \in 0 .. Len(ids)] ==
        IF k = 0 THEN start ELSE SmtRemove(done[k - 1], ids[k])
  IN done

\* The inserts of genesis, in the order in which it is given the members, which
\* is arbitrary, and its recalculate_hashes.
GenesisTree(root) ==
  LET ids == SetToSeq(DOMAIN root)
      members == [n \in 1 .. Len(ids) |-> [id |-> ids[n], leaf |-> root[ids[n]]]]
  IN RecalculateHashes(InsertAll(EmptyRoot, members)[Len(members)])

\* The inserts and removals of apply_delta's loops.
CandidateTree(t, w) ==
  LET left == RemoveAll(t, w.removed)[Len(w.removed)]
  IN RecalculateHashes(InsertAll(left, w.upserted)[Len(w.upserted)])

TreeInit == Init /\ tree = GenesisTree(local.root)

TreeNext ==
  \/ Accept /\ tree' = CandidateTree(tree, wire[1])
  \/ (Arrive \/ Reject) /\ UNCHANGED tree

TreeSpec == TreeInit /\ [][TreeNext]_treeVars

-----------------------------------------------------------------------------
(* Properties.                                                             *)

\* After any sequence of accepted deltas the tree holds the members that the
\* indexes and the count speak of: a lookup by any id finds its leaf or nothing,
\* and collect_members lists each member once, by increasing id.
TreeHoldsMembers ==
  /\ \A i \in AllIds :
       GetMember(tree, i) = IF i \in DOMAIN local.root THEN {local.root[i]} ELSE {}
  /\ LET listed == CollectMembers(tree)
     IN /\ Range(listed) = {[id |-> i, leaf |-> local.root[i]] : i \in DOMAIN local.root}
        /\ StrictlyIncreasing(Ids(listed))

\* The root hash says exactly what the members are.  It does not depend on how
\* the tree came about: it is the hash of the tree that genesis builds from the
\* same members, however many cached hashes were reused; and a delta changes it
\* if and only if it changes a member.
HashTellsMembers ==
  /\ tree.hash = GenesisTree(local.root).hash
  /\ \A w \in Range(wire) :
       WireVerdict(local, w) = "Ok" =>
         ((CandidateTree(tree, w).hash = tree.hash)
            <=> (WireCandidate(local, w).root = local.root))

\* diff_tries on the trees, which skips the subtrees whose hashes agree, gives
\* back the very delta that was applied, in its canonical order, also when the
\* two trees were built independently and have different shapes.  So at most one
\* wire form is accepted for a pair of roots, the one an honest sender produces:
\* the uniqueness half of the promise in delta.rs.
TreeDiffIsDelta ==
  \A w \in Range(wire) :
    WireVerdict(local, w) = "Ok" =>
      LET delta == [removed |-> w.removed, upserted |-> w.upserted]
      IN /\ DiffTrees(tree, CandidateTree(tree, w)) = delta
         /\ DiffTrees(tree, GenesisTree(WireCandidate(local, w).root)) = delta
=============================================================================
