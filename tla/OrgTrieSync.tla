---------------------------- MODULE OrgTrieSync ----------------------------
(***************************************************************************)
(* An administrator edits an OrgTrie with the domain operations of the     *)
(* org-members crate, commits with recalculate(), and hands the delta to a *)
(* replica; the committed root is anchored where the replica can read it   *)
(* (the chain, in the whole system).  Deltas arrive late, several times or *)
(* never.  The replica applies one with apply_delta and keeps the result   *)
(* only when verify_against accepts the anchored root.                     *)
(***************************************************************************)
EXTENDS OrgMembers, Sequences

CONSTANTS
  MaxCommits,   \* bound on the number of recalculate() calls
  FreshKeys     \* whether callers only supply member keys not seen before

ASSUME MaxCommitsAssumption == MaxCommits \in Nat /\ FreshKeys \in BOOLEAN

VARIABLES
  admin,     \* the administrator's OrgTrie
  replica,   \* the replica's OrgTrie
  anchored,  \* every root committed so far, oldest first; the last is trusted
  sent       \* sent[n] is the delta from anchored[n] to anchored[n+1]

vars == <<admin, replica, anchored, sent>>

Trusted == anchored[Len(anchored)]

\* The member keys a caller may pass.  The code takes any key; with FreshKeys
\* the caller mints one that no committed root and no current leaf carries.
OfferedKeys ==
  IF FreshKeys
  THEN Keys \ UNION {{root[i].p2p_key : i \in DOMAIN root} :
                       root \in Range(anchored) \cup {admin.root}}
  ELSE Keys

Init ==
  \E root \in Roots :
    /\ GenesisOk(root)
    /\ \A i \in DOMAIN root : root[i] \in NewMemberLeaf
    /\ admin = Genesis(root)
    /\ replica = Genesis(root)
    /\ anchored = <<RootHash(root)>>
    /\ sent = <<>>

-----------------------------------------------------------------------------
(* The administrator's domain operations.  A rejected call returns an      *)
(* error and leaves the trie as it was, so only accepted calls are steps.  *)

AddMember(id, leaf) ==
  /\ leaf \in NewMemberLeaf
  /\ leaf.p2p_key \in OfferedKeys
  /\ InsertLeafVerdict(admin, id, leaf) = "Ok"
  /\ admin' = InsertLeaf(admin, id, leaf)
  /\ UNCHANGED <<replica, anchored, sent>>

DeleteMember(id) ==
  /\ DeleteByIdVerdict(admin, id) = "Ok"
  /\ admin' = DeleteById(admin, id)
  /\ UNCHANGED <<replica, anchored, sent>>

\* The tail of every operation that edits an existing leaf.
EditLeaf(id, leaf) ==
  /\ UpdateLeafVerdict(admin, id, leaf) = "Ok"
  /\ admin' = UpdateLeaf(admin, id, leaf)
  /\ UNCHANGED <<replica, anchored, sent>>

UpdateNameSurname(id, name) ==
  /\ id \in DOMAIN admin.root
  /\ EditLeaf(id, [admin.root[id] EXCEPT !.name = name])

UpdateHandle(id, handle) ==
  /\ id \in DOMAIN admin.root
  /\ EditLeaf(id, [admin.root[id] EXCEPT !.handle = handle])

RotateP2pKey(id, key) ==
  /\ id \in DOMAIN admin.root
  /\ EditLeaf(id, [admin.root[id] EXCEPT !.p2p_key = key])

AddP2pDevice(id, device) ==
  /\ id \in DOMAIN admin.root
  /\ AddDeviceVerdict(admin.root[id].p2p_devices, device) = "Ok"
  /\ EditLeaf(id, [admin.root[id] EXCEPT !.p2p_devices = @ \cup {device}])

\* Mutant: the member key stays.
DeleteP2pDevice_KeepsKey(id, device, key) ==
  /\ id \in DOMAIN admin.root
  /\ RemoveDeviceVerdict(admin.root[id].p2p_devices, device) = "Ok"
  /\ EditLeaf(id, [admin.root[id] EXCEPT !.p2p_devices = @ \ {device}])

\* Removes the device and replaces the member key in one edit.
DeleteP2pDevice(id, device, key) ==
  /\ id \in DOMAIN admin.root
  /\ RemoveDeviceVerdict(admin.root[id].p2p_devices, device) = "Ok"
  /\ EditLeaf(id, [admin.root[id] EXCEPT !.p2p_devices = @ \ {device},
                                         !.p2p_key = key])

EmergencyIsolateMember(id, key) ==
  /\ id \in DOMAIN admin.root
  /\ EditLeaf(id, [admin.root[id] EXCEPT !.p2p_devices = {}, !.p2p_key = key])

\* recalculate(): the pending changes become a delta, the new root is anchored.
Commit ==
  /\ Len(sent) < MaxCommits
  /\ sent' = Append(sent, PendingChanges(admin))
  /\ admin' = Recalculate(admin)
  /\ anchored' = Append(anchored, RootHash(admin.root))
  /\ UNCHANGED replica

-----------------------------------------------------------------------------
(* The replica applies any delta sent so far and verifies the candidate    *)
(* against the root that is anchored at that moment.                       *)

ReceiveDelta(n) ==
  /\ ApplyDeltaVerdict(replica, sent[n]) = "Ok"
  /\ VerifyAgainst(ApplyDelta(replica, sent[n]), Trusted)
  /\ replica' = ApplyDelta(replica, sent[n])
  /\ UNCHANGED <<admin, anchored, sent>>

Next ==
  \/ \E id \in MemberIds :
       \/ \E leaf \in MemberLeaf : AddMember(id, leaf)
       \/ DeleteMember(id)
       \/ \E name \in Names : UpdateNameSurname(id, name)
       \/ \E handle \in Handles : UpdateHandle(id, handle)
       \/ \E key \in OfferedKeys : RotateP2pKey(id, key)
       \/ \E device \in Devices : AddP2pDevice(id, device)
       \/ \E device \in Devices, key \in OfferedKeys : DeleteP2pDevice(id, device, key)
       \/ \E key \in OfferedKeys : EmergencyIsolateMember(id, key)
  \/ Commit
  \/ \E n \in DOMAIN sent : ReceiveDelta(n)

Spec == Init /\ [][Next]_vars

-----------------------------------------------------------------------------
(* Properties.                                                             *)

\* Every trie, root and delta of the model has the shape of its Rust type.
TypeOK ==
  /\ admin \in OrgTrie
  /\ replica \in OrgTrie
  /\ anchored \in Seq(Roots)
  /\ sent \in Seq(Delta)

\* The two lookup maps and member_count say exactly what the tree says, so
\* contains_handle, get_by_handle and the collision check of the next edit can be
\* trusted: they are maintained by hand in insert_leaf, update_leaf, delete_by_id
\* and apply_delta.  As both maps are functions, no two members ever carry equal
\* or confusable handles, whatever edits, hand-overs and deltas led there.
IndexesMatchTree == IndexesAgree(admin) /\ IndexesAgree(replica)

\* A cached root hash is never stale: when one is present it is the hash of the
\* current tree, and no change is pending against the diff base.
CachesFresh == CacheFresh(admin) /\ CacheFresh(replica)

\* What delta.rs documents: "for any (base_root, target_root) pair, there is
\* exactly one postcard byte string of a Delta that apply_delta will accept".  The
\* one delta recalculate() makes is accepted by a replica that stands at its base,
\* and takes it to the anchored root.  apply_delta does not keep this promise.
HonestDeltaAccepted ==
  LET n == Len(sent)
  IN n > 0 /\ replica.root = anchored[n] =>
       /\ ApplyDeltaVerdict(replica, sent[n]) = "Ok"
       /\ VerifyAgainst(ApplyDelta(replica, sent[n]), Trusted)

\* A handle moved, within one commit, from a member to a member with a smaller
\* id: apply_delta looks it up for the new owner before the old owner, later in
\* the vector, has released it.
HandedDown(base, d) ==
  \E i, j \in DOMAIN d.upserted :
    /\ i < j
    /\ j \in DOMAIN base
    /\ Skeleton[d.upserted[i].handle] = Skeleton[base[j].handle]

\* Handing a handle down is the only way to break that promise: every other
\* delta, whatever handles it frees, takes or passes to larger ids at once, is
\* accepted at its base and reaches the anchored root.
AcceptedUnlessHandedDown ==
  LET n == Len(sent)
  IN /\ n > 0
     /\ replica.root = anchored[n]
     /\ ~HandedDown(anchored[n], sent[n])
     => /\ ApplyDeltaVerdict(replica, sent[n]) = "Ok"
        /\ VerifyAgainst(ApplyDelta(replica, sent[n]), Trusted)

\* A device that left a member never finds, in a later committed root, the member
\* key it held: delete_p2p_device and emergency_isolate_member replace the key in
\* the same edit, and edits between two commits must not undo that.
RemovedDeviceLosesKey ==
  \A m \in DOMAIN anchored : \A n \in 1 .. m :
    \A i \in DOMAIN anchored[m] \cap DOMAIN anchored[n] :
      LET old == anchored[n][i]
          new == anchored[m][i]
      IN ~(old.p2p_devices \subseteq new.p2p_devices) => old.p2p_key # new.p2p_key

\* The replica only ever moves onto the root that is anchored at that moment,
\* and it never loses its own calculated hash: a delta that is replayed,
\* reordered or late cannot take it anywhere else.
ReplicaMovesToTrusted ==
  [][replica' # replica => replica' = Genesis(Trusted)]_vars
=============================================================================
