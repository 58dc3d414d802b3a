----------------------------- MODULE DeltaWire -----------------------------
(***************************************************************************)
(* A trie that receives deltas in wire form: two vectors, in any order,    *)
(* with repetitions, from a sender that need not be honest.  The checks of *)
(* validate_canonical_delta and the two loops of apply_delta are written   *)
(* here as the code runs them, one entry after the other, and compared     *)
(* with the set form of module OrgMembers that the other modules use.      *)
(***************************************************************************)
EXTENDS OrgMembers, Sequences, SequencesExt

CONSTANT MaxEntries   \* bound on the length of each vector of a wire delta

ASSUME MaxEntriesAssumption == MaxEntries \in Nat

VARIABLES
  local,   \* the receiver's OrgTrie
  wire     \* the delta being handled, as a sequence of at most one element

wireVars == <<local, wire>>

\* An entry of the upserted vector: a leaf carries its id.
Upsert == {[id |-> i, leaf |-> leaf] : i \in MemberIds, leaf \in MemberLeaf}

Ids(upserted) == [n \in DOMAIN upserted |-> upserted[n].id]

-----------------------------------------------------------------------------
(* validate_canonical_delta                                                *)

StrictlyIncreasing(ids) == \A n \in 1 .. Len(ids) - 1 : ids[n] < ids[n + 1]

ValidateCanonicalDelta(t, w) ==
  /\ StrictlyIncreasing(w.removed)
  /\ Range(w.removed) \subseteq DOMAIN t.root
  /\ StrictlyIncreasing(Ids(w.upserted))
  /\ \A u \in Range(w.upserted) :
       u.id \in DOMAIN t.root => t.root[u.id] # u.leaf
  /\ Range(w.removed) \cap Range(Ids(w.upserted)) = {}

-----------------------------------------------------------------------------
(* The loops of apply_delta.  `work' holds the local variables of the      *)
(* function and the error that stopped it, "Ok" while there is none.       *)

RemoveEntry(work, id) ==
  LET old == work.root[id].handle
  IN [work EXCEPT !.root           = Drop(@, id),
                  !.count          = @ - 1,
                  !.skeleton_index = Drop(@, Skeleton[old]),
                  !.handle_index   = Drop(@, old)]

\* Mutant: handles are not looked up, and the old one is not released.
UpsertEntry_NoLookup(work, u) ==
  [work EXCEPT !.root           = Put(@, u.id, u.leaf),
               !.count          = IF u.id \in DOMAIN work.root THEN @ ELSE @ + 1,
               !.skeleton_index = Put(@, Skeleton[u.leaf.handle], u.leaf.handle),
               !.handle_index   = Put(@, u.leaf.handle, u.id)]

\* Mutant: a member that keeps its handle is looked up against itself.
UpsertEntry_AlwaysLooksUp(work, u) ==
  LET verdict == HandleVerdict(work.skeleton_index, u.leaf.handle)
  IN IF work.verdict # "Ok" THEN work
     ELSE IF verdict # "Ok" THEN [work EXCEPT !.verdict = verdict]
     ELSE UpsertEntry_NoLookup(work, u)

UpsertEntry(work, u) ==
  LET known == u.id \in DOMAIN work.root
      old == work.root[u.id].handle
      needs_check == known => old # u.leaf.handle
      released == IF known /\ needs_check
                  THEN [work EXCEPT !.skeleton_index = Drop(@, Skeleton[old]),
                                    !.handle_index   = Drop(@, old)]
                  ELSE work
      verdict == IF needs_check
                 THEN HandleVerdict(released.skeleton_index, u.leaf.handle)
                 ELSE "Ok"
      indexed == IF needs_check
                 THEN [released EXCEPT
                         !.skeleton_index =
                            Put(@, Skeleton[u.leaf.handle], u.leaf.handle),
                         !.handle_index = Put(@, u.leaf.handle, u.id)]
                 ELSE released
  IN IF work.verdict # "Ok" THEN work
     ELSE IF verdict # "Ok" THEN [work EXCEPT !.verdict = verdict]
     ELSE [indexed EXCEPT !.root  = Put(@, u.id, u.leaf),
                          !.count = IF known THEN @ ELSE @ + 1]

\* The first loop: entry k of the result is the work after k removals.
Removals(t, w) ==
  LET start == [root |-> t.root, count |-> t.member_count, verdict |-> "Ok",
                skeleton_index |-> t.skeleton_index,
                handle_index |-> t.handle_index]
      work[k \in 0 .. Len(w.removed)] ==
        IF k = 0 THEN start ELSE RemoveEntry(work[k - 1], w.removed[k])
  IN work

\* The second loop, which goes on from what the first one left.
Upserts(start, w) ==
  LET work[k \in 0 .. Len(w.upserted)] ==
        IF k = 0 THEN start ELSE UpsertEntry(work[k - 1], w.upserted[k])
  IN work

RunLoops(t, w) ==
  Upserts(Removals(t, w)[Len(w.removed)], w)[Len(w.upserted)]

WireVerdict(t, w) ==
  IF t.cached_root_hash = NoHash THEN "HashesNotCalculated"
  ELSE IF t.cached_root_hash # {w.base_root} THEN "DeltaBaseMismatch"
  ELSE IF ~ValidateCanonicalDelta(t, w) THEN "MalformedDelta"
  ELSE RunLoops(t, w).verdict

WireCandidate(t, w) ==
  LET work == RunLoops(t, w)
  IN [root                 |-> work.root,
      member_count         |-> work.count,
      cached_root_hash     |-> {RootHash(work.root)},
      last_calculated_root |-> work.root,
      skeleton_index       |-> work.skeleton_index,
      handle_index         |-> work.handle_index]

-----------------------------------------------------------------------------
(* The receiver.                                                           *)

Init ==
  /\ \E root \in Roots : GenesisOk(root) /\ local = Genesis(root)
  /\ wire = <<>>

\* A delta arrives.  Its vectors are arbitrary; its base is the receiver's own
\* root or the empty trie.
Arrive ==
  /\ wire = <<>>
  /\ \E own \in BOOLEAN,
        removed \in BoundedSeq(MemberIds, MaxEntries),
        upserted \in BoundedSeq(Upsert, MaxEntries) :
       wire' = <<[base_root |-> IF own THEN local.root ELSE <<>>,
                  removed   |-> removed,
                  upserted  |-> upserted]>>
  /\ UNCHANGED local

\* apply_delta, then verify_against the root its candidate has.
Accept ==
  /\ wire # <<>>
  /\ WireVerdict(local, wire[1]) = "Ok"
  /\ local' = WireCandidate(local, wire[1])
  /\ wire' = <<>>

Reject ==
  /\ wire # <<>>
  /\ WireVerdict(local, wire[1]) # "Ok"
  /\ wire' = <<>>
  /\ UNCHANGED local

Next ==
  \/ Arrive
  \/ Accept
  \/ Reject

Spec == Init /\ [][Next]_wireVars

-----------------------------------------------------------------------------
(* Properties.                                                             *)

\* The delta a wire form stands for once its ids are known to be increasing.
SetForm(w) ==
  [base_root |-> w.base_root,
   removed   |-> Range(w.removed),
   upserted  |-> [i \in Range(Ids(w.upserted)) |->
                    (CHOOSE u \in Range(w.upserted) : u.id = i).leaf]]

\* The one-entry-at-a-time loops of apply_delta decide and compute exactly what
\* the set form of OrgMembers does, whatever the vectors hold.
LoopsMatchSetForm ==
  \A w \in Range(wire) :
    LET ordered == StrictlyIncreasing(w.removed)
                     /\ StrictlyIncreasing(Ids(w.upserted))
        verdict == ApplyDeltaVerdict(local, SetForm(w))
    IN /\ (WireVerdict(local, w) = "Ok") <=> (ordered /\ verdict = "Ok")
       /\ ordered =>
            \/ WireVerdict(local, w) = verdict
            \/ /\ verdict = "HandleCollision"
               /\ WireVerdict(local, w) \in {"ConfusableHandle", "DuplicateHandle"}
       /\ WireVerdict(local, w) = "Ok" =>
            WireCandidate(local, w) = ApplyDelta(local, SetForm(w))

\* Whatever a sender puts in the vectors, the accepted trie is one that genesis
\* could have built from its members: unique handles, exact indexes and count.
AcceptedTrieIsGenesis ==
  GenesisOk(local.root) /\ local = Genesis(local.root)
=============================================================================
