-------------------------------- MODULE Smt --------------------------------
(***************************************************************************)
(* The binary Sparse Merkle Tree of org-members: nodes that share their    *)
(* unchanged subtrees with earlier versions and cache their hash, and the  *)
(* functions of smt.rs on them.                                            *)
(*                                                                         *)
(* A hash is the term that was hashed, tagged with its domain, so two      *)
(* hashes are equal exactly when their inputs are.  Terms hold tuples      *)
(* only, which makes any two of them comparable.                           *)
(***************************************************************************)
EXTENDS Integers, Sequences, SequencesExt

CONSTANT SmtDepth   \* SMT_DEPTH, 256 in the code

ASSUME SmtDepthAssumption == SmtDepth \in Nat

-----------------------------------------------------------------------------
(* TrieHasher, and the device sub-trie of a leaf.                          *)

HashMemberLeaf(data) == <<"member-leaf", data>>
HashMemberNode(left, right) == <<"member-node", left, right>>
HashDeviceLeaf(data) == <<"device-leaf", data>>
HashDeviceNode(left, right) == <<"device-node", left, right>>

Sentinel == <<>>   \* the EMPTY_SENTINEL strings

\* compute_device_root: four slots, the used ones first, in the order of the keys.
DeviceRoot(devices) ==
  LET used == SetToSeq(devices)
      slot(i) == HashDeviceLeaf(IF i <= Len(used) THEN <<used[i]>> ELSE Sentinel)
  IN HashDeviceNode(HashDeviceNode(slot(1), slot(2)),
                    HashDeviceNode(slot(3), slot(4)))

\* MemberLeaf::canonical_bytes; lengths are written, so the fields stay apart.
CanonicalBytes(id, leaf) ==
  <<id, leaf.handle, leaf.p2p_key, leaf.name, DeviceRoot(leaf.p2p_devices)>>

DefaultHash[level \in 0 .. SmtDepth] ==
  IF level = 0 THEN HashMemberLeaf(Sentinel)
  ELSE HashMemberNode(DefaultHash[level - 1], DefaultHash[level - 1])

-----------------------------------------------------------------------------
(* Nodes.  The cached hash is an Option: a set of at most one element.     *)

Empty(level) == [kind |-> "Empty", hash |-> {DefaultHash[level]}]
Leaf(id, leaf) == [kind |-> "Leaf", hash |-> {}, id |-> id, leaf |-> leaf]
Internal(left, right) ==
  [kind |-> "Internal", hash |-> {}, left |-> left, right |-> right]

EmptyRoot == Empty(SmtDepth)

\* Entry n is id without its n least significant bits.
Prefix(id) ==
  LET prefix[n \in 0 .. SmtDepth] == IF n = 0 THEN id ELSE prefix[n - 1] \div 2
  IN prefix

\* The bit of an id that is read at a depth, the most significant one first.
Bit(id, depth) == Prefix(id)[SmtDepth - depth - 1] % 2 = 1

\* Mutant: the sibling of the inserted path starts empty.
InsertStep_DropsSibling(node, depth) ==
  [left |-> Empty(SmtDepth - depth - 1), right |-> Empty(SmtDepth - depth - 1)]

\* Mutant: the default child has the hash of its parent's level.
InsertStep_WrongLevel(node, depth) ==
  IF node.kind = "Internal" THEN [left |-> node.left, right |-> node.right]
  ELSE [left |-> Empty(SmtDepth - depth), right |-> Empty(SmtDepth - depth)]

\* The children insert_at starts from at a node.
InsertStep(node, depth) ==
  IF node.kind = "Internal" THEN [left |-> node.left, right |-> node.right]
  ELSE [left |-> Empty(SmtDepth - depth - 1), right |-> Empty(SmtDepth - depth - 1)]

\* The child on the side of id, and the node with that child replaced.
ChildOn(id, depth, child) == IF Bit(id, depth) THEN child.right ELSE child.left

ParentOn(id, depth, child, new) ==
  IF Bit(id, depth) THEN Internal(child.left, new) ELSE Internal(new, child.right)

\* Entry depth is the node that insert_at meets at that depth on the way to id.
InsertPath(root, id) ==
  LET met[depth \in 0 .. SmtDepth] ==
        IF depth = 0 THEN root
        ELSE ChildOn(id, depth - 1, InsertStep(met[depth - 1], depth - 1))
  IN met

\* Entry n is the node that insert_at returns n levels above the leaf.
Inserted(root, id, new) ==
  LET built[n \in 0 .. SmtDepth] ==
        IF n = 0 THEN new
        ELSE ParentOn(id, SmtDepth - n,
                      InsertStep(InsertPath(root, id)[SmtDepth - n], SmtDepth - n),
                      built[n - 1])
  IN built

SmtInsert(root, id, leaf) == Inserted(root, id, Leaf(id, leaf))[SmtDepth]

SmtRemove(root, id) == Inserted(root, id, Empty(0))[SmtDepth]

\* Entry depth is get_member's current node at that depth; an Option.
Reached(root, id) ==
  LET current[depth \in 0 .. SmtDepth] ==
        IF depth = 0 THEN {root}
        ELSE {ChildOn(id, depth - 1, node) :
                node \in {n \in current[depth - 1] : n.kind = "Internal"}}
  IN current

GetMember(root, id) ==
  {node.leaf : node \in {n \in Reached(root, id)[SmtDepth] : n.kind = "Leaf"}}

-----------------------------------------------------------------------------
(* The functions that descend into both children are defined level by      *)
(* level, from the leaves up: entry n of such a function is what the code  *)
(* returns for the nodes that are n levels above the leaves.               *)

\* The children; a node without any stands for its own children, as the side
\* that has none does in diff_recursive.
Left(node) == IF node.kind = "Internal" THEN node.left ELSE node
Right(node) == IF node.kind = "Internal" THEN node.right ELSE node

\* Entry depth is the set of the nodes at that depth.
NodesAt(root) ==
  LET at[depth \in 0 .. SmtDepth] ==
        IF depth = 0 THEN {root}
        ELSE UNION {{Left(node), Right(node)} : node \in at[depth - 1]}
  IN at

HashOf(node) == CHOOSE h \in node.hash : TRUE

\* recalculate_hashes fills the caches that are empty, and trusts the others.
HashLeaf(node) ==
  IF node.kind = "Leaf" /\ node.hash = {}
  THEN [node EXCEPT !.hash = {HashMemberLeaf(CanonicalBytes(node.id, node.leaf))}]
  ELSE node

HashNode(node, below) ==
  IF node.kind = "Internal" /\ node.hash = {}
  THEN LET left == below[node.left]
           right == below[node.right]
       IN [kind |-> "Internal", hash |-> {HashMemberNode(HashOf(left), HashOf(right))},
           left |-> left, right |-> right]
  ELSE HashLeaf(node)

Recalculated(root) ==
  LET at[n \in 0 .. SmtDepth] ==
        IF n = 0 THEN [node \in NodesAt(root)[SmtDepth] |-> HashLeaf(node)]
        ELSE [node \in NodesAt(root)[SmtDepth - n] |-> HashNode(node, at[n - 1])]
  IN at

RecalculateHashes(root) == Recalculated(root)[SmtDepth][root]

CollectLeaf(node) ==
  IF node.kind = "Leaf" THEN <<[id |-> node.id, leaf |-> node.leaf]>> ELSE <<>>

CollectNode(node, below) ==
  IF node.kind = "Internal" THEN below[node.left] \o below[node.right]
  ELSE CollectLeaf(node)

Collected(root) ==
  LET at[n \in 0 .. SmtDepth] ==
        IF n = 0 THEN [node \in NodesAt(root)[SmtDepth] |-> CollectLeaf(node)]
        ELSE [node \in NodesAt(root)[SmtDepth - n] |-> CollectNode(node, at[n - 1])]
  IN at

CollectMembers(root) == Collected(root)[SmtDepth][root]

NoDiff == [removed |-> <<>>, upserted |-> <<>>]

Join(d, e) == [removed  |-> d.removed \o e.removed,
               upserted |-> d.upserted \o e.upserted]

\* Mutant: a leaf that changed is not an upsert.
LeafDiff_NoChange(old, new) ==
  IF new.kind = "Leaf" /\ old.kind = "Empty"
  THEN [NoDiff EXCEPT !.upserted = <<[id |-> new.id, leaf |-> new.leaf]>>]
  ELSE IF new.kind = "Empty" /\ old.kind = "Leaf"
  THEN [NoDiff EXCEPT !.removed = <<old.id>>]
  ELSE NoDiff

\* The cases of diff_recursive in which neither node is internal.
LeafDiff(old, new) ==
  IF new.kind = "Leaf" /\ (old.kind = "Leaf" => old.leaf # new.leaf)
  THEN [NoDiff EXCEPT !.upserted = <<[id |-> new.id, leaf |-> new.leaf]>>]
  ELSE IF new.kind = "Empty" /\ old.kind = "Leaf"
  THEN [NoDiff EXCEPT !.removed = <<old.id>>]
  ELSE NoDiff

DiffLeaf(old, new) ==
  IF old.hash # {} /\ old.hash = new.hash THEN NoDiff ELSE LeafDiff(old, new)

DiffNode(old, new, below) ==
  IF "Internal" \in {old.kind, new.kind} /\ (old.hash # {} => old.hash # new.hash)
  THEN Join(below[<<Left(old), Left(new)>>], below[<<Right(old), Right(new)>>])
  ELSE DiffLeaf(old, new)

Diffs(old, new) ==
  LET at[n \in 0 .. SmtDepth] ==
        IF n = 0
        THEN [pair \in NodesAt(old)[SmtDepth] \X NodesAt(new)[SmtDepth] |->
                DiffLeaf(pair[1], pair[2])]
        ELSE [pair \in NodesAt(old)[SmtDepth - n] \X NodesAt(new)[SmtDepth - n] |->
                DiffNode(pair[1], pair[2], at[n - 1])]
  IN at

DiffTrees(old, new) == Diffs(old, new)[SmtDepth][<<old, new>>]
=============================================================================
