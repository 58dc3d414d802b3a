----------------------------- MODULE OrgMembers -----------------------------
(***************************************************************************)
(* The values of the org-members crate and the pure operators on them: a   *)
(* member leaf, the OrgTrie structure (org-members/src/trie.rs), deltas    *)
(* and the candidate a delta produces.                                     *)
(*                                                                         *)
(* The Sparse Merkle Tree is represented by what it stores: a partial      *)
(* function from member ids to leaves.  Its root hash is that function     *)
(* itself: two tries have the same hash exactly when they hold the same    *)
(* leaves (the hash is assumed collision-free).                            *)
(*                                                                         *)
(* Handles are validated, normalised handles: validate_handle is a text    *)
(* check made before any operator below is reached.                        *)
(***************************************************************************)
EXTENDS Integers, FiniteSets, Functions

CONSTANTS
  MemberIds,    \* member ids, ordered like the 32-byte ids of the code
  Handles,      \* validated handles
  Skeletons,    \* UTS#39 skeletons
  Skeleton,     \* handle_skeleton: two confusable handles share a skeleton
  Names,        \* (name, surname) pairs that passed the length check
  Keys,         \* peer-to-peer member keys
  Devices,      \* peer-to-peer device keys
  MaxDevices    \* MAX_DEVICES, 4 in the code

ASSUME MemberIdsAssumption == MemberIds \subseteq Nat /\ IsFiniteSet(MemberIds)

ASSUME SkeletonAssumption == Skeleton \in [Handles -> Skeletons]

ASSUME MaxDevicesAssumption == MaxDevices \in Nat /\ IsFiniteSet(Devices)

-----------------------------------------------------------------------------
(* Partial functions: the hash maps and the tree of the code.              *)

PartialFunctions(S, T) == UNION {[D -> T] : D \in SUBSET S}

Put(f, k, v) == [x \in DOMAIN f \cup {k} |-> IF x = k THEN v ELSE f[x]]

Drop(f, k) == Restrict(f, DOMAIN f \ {k})

Overlay(f, g) == [x \in DOMAIN f \cup DOMAIN g |->
                    IF x \in DOMAIN g THEN g[x] ELSE f[x]]

-----------------------------------------------------------------------------
(* Leaves.  The id of a leaf is its position in the tree.                  *)

P2pDeviceSlots == {D \in SUBSET Devices : Cardinality(D) <= MaxDevices}

MemberLeaf == [handle      : Handles,
               p2p_key     : Keys,
               name        : Names,
               p2p_devices : P2pDeviceSlots]

\* What MemberLeaf::new accepts: a new member has at least one device.
NewMemberLeaf == {leaf \in MemberLeaf : leaf.p2p_devices # {}}

Roots == PartialFunctions(MemberIds, MemberLeaf)

\* smt::recalculate_hashes of a tree holding `root'.
RootHash(root) == root

\* Option<RootHash>: None is the empty set.
NoHash == {}

OrgTrie == [root                 : Roots,
            member_count         : Nat,
            cached_root_hash     : {NoHash} \cup {{h} : h \in Roots},
            last_calculated_root : Roots,
            skeleton_index       : PartialFunctions(Skeletons, Handles),
            handle_index         : PartialFunctions(Handles, MemberIds)]

-----------------------------------------------------------------------------
(* Construction.                                                           *)

\* genesis accepts a set of members with pairwise distinct skeletons
\* (a duplicate handle is a duplicate skeleton).
GenesisOk(root) ==
  \A i, j \in DOMAIN root :
    i # j => Skeleton[root[i].handle] # Skeleton[root[j].handle]

\* The two indexes that genesis fills while it inserts the members.
SkeletonIndexOf(root) ==
  [s \in {Skeleton[root[i].handle] : i \in DOMAIN root} |->
     root[CHOOSE i \in DOMAIN root : Skeleton[root[i].handle] = s].handle]

HandleIndexOf(root) ==
  [h \in {root[i].handle : i \in DOMAIN root} |->
     CHOOSE i \in DOMAIN root : root[i].handle = h]

Genesis(root) ==
  [root                 |-> root,
   member_count         |-> Cardinality(DOMAIN root),
   cached_root_hash     |-> {RootHash(root)},
   last_calculated_root |-> root,
   skeleton_index       |-> SkeletonIndexOf(root),
   handle_index         |-> HandleIndexOf(root)]

-----------------------------------------------------------------------------
(* Crate-private mutations.  Each has a verdict, the error the code        *)
(* returns or "Ok", and the trie returned when the verdict is "Ok".        *)

\* The index lookup shared by every handle change.
HandleVerdict(skeleton_index, handle) ==
  IF Skeleton[handle] \notin DOMAIN skeleton_index THEN "Ok"
  ELSE IF skeleton_index[Skeleton[handle]] # handle THEN "ConfusableHandle"
  ELSE "DuplicateHandle"

InsertLeafVerdict(t, id, leaf) ==
  IF id \in DOMAIN t.root THEN "DuplicateId"
  ELSE HandleVerdict(t.skeleton_index, leaf.handle)

InsertLeaf(t, id, leaf) ==
  [t EXCEPT !.root             = Put(@, id, leaf),
            !.member_count     = @ + 1,
            !.cached_root_hash = NoHash,
            !.skeleton_index   = Put(@, Skeleton[leaf.handle], leaf.handle),
            !.handle_index     = Put(@, leaf.handle, id)]

\* The old handle leaves the index before the new one is looked up.
UpdateLeafVerdict(t, id, leaf) ==
  IF id \notin DOMAIN t.root THEN "IdNotFound"
  ELSE IF t.root[id].handle = leaf.handle THEN "Ok"
  ELSE HandleVerdict(Drop(t.skeleton_index, Skeleton[t.root[id].handle]),
                     leaf.handle)

\* Mutant: the old handle stays in the indexes.
UpdateLeaf_KeepsOldHandle(t, id, leaf) ==
  [t EXCEPT !.root             = Put(@, id, leaf),
            !.cached_root_hash = NoHash,
            !.skeleton_index   = Put(@, Skeleton[leaf.handle], leaf.handle),
            !.handle_index     = Put(@, leaf.handle, id)]

UpdateLeaf(t, id, leaf) ==
  LET old == t.root[id].handle
      moved == old # leaf.handle
  IN [t EXCEPT
        !.root             = Put(@, id, leaf),
        !.cached_root_hash = NoHash,
        !.skeleton_index   =
           IF moved THEN Put(Drop(@, Skeleton[old]),
                             Skeleton[leaf.handle], leaf.handle)
           ELSE @,
        !.handle_index     =
           IF moved THEN Put(Drop(@, old), leaf.handle, id) ELSE @]

DeleteByIdVerdict(t, id) ==
  IF id \notin DOMAIN t.root THEN "IdNotFound" ELSE "Ok"

\* Mutant: the cached root hash survives the removal.
DeleteById_KeepsHash(t, id) ==
  [t EXCEPT !.root           = Drop(@, id),
            !.member_count   = @ - 1,
            !.skeleton_index = Drop(@, Skeleton[t.root[id].handle]),
            !.handle_index   = Drop(@, t.root[id].handle)]

DeleteById(t, id) ==
  [t EXCEPT !.root             = Drop(@, id),
            !.member_count     = @ - 1,
            !.cached_root_hash = NoHash,
            !.skeleton_index   = Drop(@, Skeleton[t.root[id].handle]),
            !.handle_index     = Drop(@, t.root[id].handle)]

-----------------------------------------------------------------------------
(* Device slots.  The capacity is checked before the duplicate.            *)

\* Mutant: the capacity check is off by one.
AddDeviceVerdict_OffByOne(slots, device) ==
  IF Cardinality(slots) > MaxDevices THEN "DeviceSlotsFull"
  ELSE IF device \in slots THEN "DuplicateDevice"
  ELSE "Ok"

AddDeviceVerdict(slots, device) ==
  IF Cardinality(slots) >= MaxDevices THEN "DeviceSlotsFull"
  ELSE IF device \in slots THEN "DuplicateDevice"
  ELSE "Ok"

RemoveDeviceVerdict(slots, device) ==
  IF device \notin slots THEN "DeviceNotFound" ELSE "Ok"

-----------------------------------------------------------------------------
(* Deltas.  A delta on the wire is two vectors that the receiver requires  *)
(* to be strictly increasing by id, so it is the set and the partial       *)
(* function below; module DeltaWire checks that step.                      *)

Delta == [base_root : Roots, removed : SUBSET MemberIds, upserted : Roots]

\* smt::diff_tries
DiffTries(old, new) ==
  [removed  |-> DOMAIN old \ DOMAIN new,
   upserted |-> Restrict(new, {i \in DOMAIN new :
                                 i \in DOMAIN old => old[i] # new[i]})]

PendingChanges(t) ==
  LET diff == DiffTries(t.last_calculated_root, t.root)
  IN [base_root |-> RootHash(t.last_calculated_root),
      removed   |-> diff.removed,
      upserted  |-> diff.upserted]

Recalculate(t) ==
  [t EXCEPT !.cached_root_hash     = {RootHash(t.root)},
            !.last_calculated_root = t.root]

\* validate_canonical_delta, without the two ordering checks.
CanonicalDelta(t, d) ==
  /\ d.removed \subseteq DOMAIN t.root
  /\ \A i \in DOMAIN d.upserted \cap DOMAIN t.root : d.upserted[i] # t.root[i]
  /\ d.removed \cap DOMAIN d.upserted = {}

\* The upserts that change a handle: the ones the code looks up.
Rehandled(t, d) ==
  {i \in DOMAIN d.upserted :
     i \in DOMAIN t.root => t.root[i].handle # d.upserted[i].handle}

\* Members whose old handle has left the indexes once every removal and the
\* upserts of the ids in S have been processed.
Released(t, d, S) == d.removed \cup (Rehandled(t, d) \cap S \cap DOMAIN t.root)

SkeletonsOf(root, S) == {Skeleton[root[i].handle] : i \in S}

HandlesOf(root, S) == {root[i].handle : i \in S}

\* Mutant: a member's own old handle still counts against its new one.
UpsertAccepted_OwnHandleCounts(t, d, i) ==
  LET earlier == {j \in Rehandled(t, d) : j < i}
  IN Skeleton[d.upserted[i].handle] \notin
       (DOMAIN t.skeleton_index \ SkeletonsOf(t.root, Released(t, d, earlier)))
       \cup SkeletonsOf(d.upserted, earlier)

\* The loop processes the upserts by increasing id.  When it looks up the new
\* handle of id i, the index holds the base's handles that have not been
\* released yet and the new handles of the smaller ids.
UpsertAccepted(t, d, i) ==
  LET earlier == {j \in Rehandled(t, d) : j < i}
  IN Skeleton[d.upserted[i].handle] \notin
       (DOMAIN t.skeleton_index
          \ SkeletonsOf(t.root, Released(t, d, earlier \cup {i})))
       \cup SkeletonsOf(d.upserted, earlier)

ApplyDeltaVerdict(t, d) ==
  IF t.cached_root_hash = NoHash THEN "HashesNotCalculated"
  ELSE IF t.cached_root_hash # {d.base_root} THEN "DeltaBaseMismatch"
  ELSE IF ~CanonicalDelta(t, d) THEN "MalformedDelta"
  ELSE IF \E i \in Rehandled(t, d) : ~UpsertAccepted(t, d, i)
       THEN "HandleCollision"     \* ConfusableHandle or DuplicateHandle
  ELSE "Ok"

\* The root that the removals and the upserts produce.
Patch(root, d) ==
  Overlay(Restrict(root, DOMAIN root \ d.removed), d.upserted)

\* The CandidateTrie of an accepted delta, as the OrgTrie that
\* verify_against / from_candidate make of it.
ApplyDelta(t, d) ==
  LET root == Patch(t.root, d)
      changed == Rehandled(t, d)
      released == Released(t, d, MemberIds)
      added == Restrict(d.upserted, changed)
  IN [root                 |-> root,
      member_count         |-> t.member_count - Cardinality(d.removed)
                                 + Cardinality(DOMAIN d.upserted \ DOMAIN t.root),
      cached_root_hash     |-> {RootHash(root)},
      last_calculated_root |-> root,
      skeleton_index       |->
        Overlay(Restrict(t.skeleton_index,
                         DOMAIN t.skeleton_index \ SkeletonsOf(t.root, released)),
                SkeletonIndexOf(added)),
      handle_index         |->
        Overlay(Restrict(t.handle_index,
                         DOMAIN t.handle_index \ HandlesOf(t.root, released)),
                HandleIndexOf(added))]

\* Mutant: the trusted root is not consulted.
VerifyAgainst_Always(candidate, expected_root) == TRUE

\* CandidateTrie::verify_against
VerifyAgainst(candidate, expected_root) ==
  candidate.cached_root_hash = {expected_root}

-----------------------------------------------------------------------------
(* What the fields of an OrgTrie that are kept by hand owe to its tree.    *)

\* The two lookup maps and the count.
IndexesAgree(t) ==
  /\ DOMAIN t.handle_index = HandlesOf(t.root, DOMAIN t.root)
  /\ \A i \in DOMAIN t.root : t.handle_index[t.root[i].handle] = i
  /\ DOMAIN t.skeleton_index = SkeletonsOf(t.root, DOMAIN t.root)
  /\ \A i \in DOMAIN t.root :
       t.skeleton_index[Skeleton[t.root[i].handle]] = t.root[i].handle
  /\ t.member_count = Cardinality(DOMAIN t.root)

\* The cached hash, when there is one, and the base of the next diff.
CacheFresh(t) ==
  t.cached_root_hash # NoHash =>
    /\ t.cached_root_hash = {RootHash(t.root)}
    /\ t.last_calculated_root = t.root
=============================================================================
