--------------------------- MODULE OrgTrieProofs ---------------------------
(***************************************************************************)
(* Proofs about OrgTrie and its replicas, for any members, handles,        *)
(* confusability relation, keys and devices: the lookup maps agree with    *)
(* the tree, cached hashes are fresh, a replica moves only to the trusted  *)
(* root, and a removed device does not keep a valid member key.            *)
(***************************************************************************)
EXTENDS OrgTrieSync, OrgMembersProofs

-----------------------------------------------------------------------------
(* The steps of the administrator, in three shapes.                        *)

\* What an edit may do to the key and the devices of a member: it mints a fresh
\* key, or keeps the key and takes no device away.
Careful(old, leaf) ==
  \/ leaf.p2p_key \in OfferedKeys
  \/ leaf.p2p_key = old.p2p_key /\ old.p2p_devices \subseteq leaf.p2p_devices

\* Every operation that edits an existing leaf is a careful update_leaf with a
\* well-formed leaf.
Edits ==
  \E id \in DOMAIN admin.root, leaf \in MemberLeaf :
    EditLeaf(id, leaf) /\ Careful(admin.root[id], leaf)

\* A well-formed leaf, field by field.
LEMMA LeafFields ==
  ASSUME NEW leaf
  PROVE  leaf \in MemberLeaf =>
           /\ leaf.handle \in Handles /\ leaf.p2p_key \in Keys /\ leaf.name \in Names
           /\ leaf.p2p_devices \subseteq Devices /\ IsFiniteSet(leaf.p2p_devices)
           /\ Cardinality(leaf.p2p_devices) \in Nat
           /\ Cardinality(leaf.p2p_devices) <= MaxDevices
<1>1. ASSUME leaf \in MemberLeaf
      PROVE  /\ leaf.handle \in Handles /\ leaf.p2p_key \in Keys /\ leaf.name \in Names
             /\ leaf.p2p_devices \subseteq Devices
             /\ Cardinality(leaf.p2p_devices) <= MaxDevices
  BY <1>1 DEF MemberLeaf, P2pDeviceSlots
<1>2. ASSUME leaf \in MemberLeaf
      PROVE  IsFiniteSet(leaf.p2p_devices) /\ Cardinality(leaf.p2p_devices) \in Nat
  BY <1>1, <1>2, MaxDevicesAssumption, FS_Subset, FS_CardinalityType
<1>. QED  BY <1>1, <1>2

\* The operations on an existing member are such edits.
LEMMA EditShapes ==
  ASSUME TypeOK, NEW id \in MemberIds
  PROVE  /\ \A name \in Names : UpdateNameSurname(id, name) => Edits
         /\ \A handle \in Handles : UpdateHandle(id, handle) => Edits
         /\ \A key \in OfferedKeys : RotateP2pKey(id, key) => Edits
         /\ \A device \in Devices : AddP2pDevice(id, device) => Edits
         /\ \A device \in Devices, key \in OfferedKeys : DeleteP2pDevice(id, device, key) => Edits
         /\ \A key \in OfferedKeys : EmergencyIsolateMember(id, key) => Edits
<1>0. OfferedKeys \subseteq Keys
  BY DEF OfferedKeys
<1>1. \A i \in DOMAIN admin.root : admin.root[i] \in MemberLeaf
  BY RootIs DEF TypeOK, OrgTrie
<1>2. ASSUME NEW name \in Names, UpdateNameSurname(id, name)  PROVE Edits
  <2>. DEFINE old == admin.root[id]
              leaf == [old EXCEPT !.name = name]
  <2>1. id \in DOMAIN admin.root /\ EditLeaf(id, leaf) /\ old \in MemberLeaf
    BY <1>1, <1>2 DEF UpdateNameSurname
  <2>2. /\ leaf \in MemberLeaf /\ leaf.p2p_key = old.p2p_key
        /\ leaf.p2p_devices = old.p2p_devices
    <3>. HIDE DEF old
    <3>. QED  BY <2>1 DEF MemberLeaf
  <2>. QED  BY <2>1, <2>2 DEF Edits, Careful
<1>3. ASSUME NEW handle \in Handles, UpdateHandle(id, handle)  PROVE Edits
  <2>. DEFINE old == admin.root[id]
              leaf == [old EXCEPT !.handle = handle]
  <2>1. id \in DOMAIN admin.root /\ EditLeaf(id, leaf) /\ old \in MemberLeaf
    BY <1>1, <1>3 DEF UpdateHandle
  <2>2. /\ leaf \in MemberLeaf /\ leaf.p2p_key = old.p2p_key
        /\ leaf.p2p_devices = old.p2p_devices
    <3>. HIDE DEF old
    <3>. QED  BY <2>1 DEF MemberLeaf
  <2>. QED  BY <2>1, <2>2 DEF Edits, Careful
<1>4. ASSUME NEW key \in OfferedKeys, RotateP2pKey(id, key)  PROVE Edits
  <2>. DEFINE old == admin.root[id]
              leaf == [old EXCEPT !.p2p_key = key]
  <2>1. id \in DOMAIN admin.root /\ EditLeaf(id, leaf) /\ old \in MemberLeaf
    BY <1>1, <1>4 DEF RotateP2pKey
  <2>2. leaf \in MemberLeaf /\ leaf.p2p_key = key
    <3>1. key \in Keys
      BY <1>0
    <3>. HIDE DEF old
    <3>. QED  BY <2>1, <3>1 DEF MemberLeaf
  <2>. QED  BY <2>1, <2>2 DEF Edits, Careful
<1>5. ASSUME NEW device \in Devices, AddP2pDevice(id, device)  PROVE Edits
  <2>. DEFINE old == admin.root[id]
              slots == old.p2p_devices \cup {device}
              leaf == [old EXCEPT !.p2p_devices = slots]
  <2>1. id \in DOMAIN admin.root /\ EditLeaf(id, leaf) /\ old \in MemberLeaf
    BY <1>1, <1>5 DEF AddP2pDevice
  <2>2. Cardinality(slots) <= MaxDevices
    <3>1. ~(Cardinality(old.p2p_devices) >= MaxDevices) /\ device \notin old.p2p_devices
      BY <1>5 DEF AddP2pDevice, AddDeviceVerdict
    <3>2. IsFiniteSet(old.p2p_devices) /\ Cardinality(old.p2p_devices) \in Nat
      BY <2>1, LeafFields
    <3>3. Cardinality(slots) = Cardinality(old.p2p_devices) + 1
      BY <3>1, <3>2, FS_AddElement
    <3>. HIDE DEF old, slots
    <3>. QED  BY <3>1, <3>2, <3>3, MaxDevicesAssumption
  <2>3. slots \subseteq Devices /\ old.p2p_key \in Keys
    BY <2>1, LeafFields
  <2>4. leaf \in MemberLeaf /\ leaf.p2p_key = old.p2p_key /\ leaf.p2p_devices = slots
    <3>1. slots \in P2pDeviceSlots
      BY <2>2, <2>3 DEF P2pDeviceSlots
    <3>. HIDE DEF old, slots
    <3>. QED  BY <2>1, <3>1 DEF MemberLeaf
  <2>. QED  BY <2>1, <2>4 DEF Edits, Careful
<1>6. ASSUME NEW device \in Devices, NEW key \in OfferedKeys,
             DeleteP2pDevice(id, device, key)
      PROVE  Edits
  <2>. DEFINE old == admin.root[id]
              slots == old.p2p_devices \ {device}
              leaf == [old EXCEPT !.p2p_devices = slots, !.p2p_key = key]
  <2>1. id \in DOMAIN admin.root /\ EditLeaf(id, leaf) /\ old \in MemberLeaf
    BY <1>1, <1>6 DEF DeleteP2pDevice
  <2>2. /\ old.p2p_devices \subseteq Devices /\ IsFiniteSet(old.p2p_devices)
        /\ Cardinality(old.p2p_devices) <= MaxDevices
        /\ Cardinality(old.p2p_devices) \in Nat
    BY <2>1, LeafFields
  <2>3. Cardinality(slots) <= MaxDevices
    <3>1. Cardinality(slots) <= Cardinality(old.p2p_devices) /\ IsFiniteSet(slots)
      BY <2>2, FS_Subset
    <3>2. Cardinality(slots) \in Nat
      BY <3>1, FS_CardinalityType
    <3>. HIDE DEF old, slots
    <3>. QED  BY <2>2, <3>1, <3>2, MaxDevicesAssumption
  <2>4. leaf \in MemberLeaf /\ leaf.p2p_key = key
    <3>1. key \in Keys /\ slots \subseteq Devices
      BY <1>0, <2>2
    <3>2. slots \in P2pDeviceSlots
      BY <2>3, <3>1 DEF P2pDeviceSlots
    <3>. HIDE DEF old, slots
    <3>. QED  BY <2>1, <3>1, <3>2 DEF MemberLeaf
  <2>. QED  BY <2>1, <2>4 DEF Edits, Careful
<1>7. ASSUME NEW key \in OfferedKeys, EmergencyIsolateMember(id, key)  PROVE Edits
  <2>. DEFINE old == admin.root[id]
              leaf == [old EXCEPT !.p2p_devices = {}, !.p2p_key = key]
  <2>1. id \in DOMAIN admin.root /\ EditLeaf(id, leaf) /\ old \in MemberLeaf
    BY <1>1, <1>7 DEF EmergencyIsolateMember
  <2>2. Cardinality({}) <= MaxDevices
    BY FS_EmptySet, MaxDevicesAssumption
  <2>3. leaf \in MemberLeaf /\ leaf.p2p_key = key
    <3>1. key \in Keys
      BY <1>0
    <3>2. {} \in P2pDeviceSlots
      BY <2>2 DEF P2pDeviceSlots
    <3>. HIDE DEF old
    <3>. QED  BY <2>1, <3>1, <3>2 DEF MemberLeaf
  <2>. QED  BY <2>1, <2>3 DEF Edits, Careful
<1>. QED  BY <1>2, <1>3, <1>4, <1>5, <1>6, <1>7

\* The shapes a step of the specification has.
LEMMA StepShapes ==
  ASSUME TypeOK, Next
  PROVE  \/ \E id \in MemberIds, leaf \in MemberLeaf : AddMember(id, leaf)
         \/ \E id \in MemberIds : DeleteMember(id)
         \/ Edits
         \/ Commit
         \/ \E n \in DOMAIN sent : ReceiveDelta(n)
BY EditShapes DEF Next

-----------------------------------------------------------------------------
(* The inductive invariant.                                                *)

\* The replica always knows the hash of its trie.
ReplicaSettled == replica.cached_root_hash # NoHash

\* The delta that recalculate produces between two roots.
DeltaBetween(old, new) ==
  [base_root |-> RootHash(old),
   removed   |-> DiffTries(old, new).removed,
   upserted  |-> DiffTries(old, new).upserted]

\* Every anchored root came from a trie with distinct skeletons, every delta
\* leads from one anchored root to the next, and the administrator's diff base
\* is the root that is trusted now.
Lineage ==
  /\ Len(anchored) = Len(sent) + 1
  /\ admin.last_calculated_root = Trusted
  /\ \A n \in 1 .. Len(anchored) : GenesisOk(anchored[n])
  /\ \A n \in 1 .. Len(sent) : sent[n] = DeltaBetween(anchored[n], anchored[n + 1])

\* A leaf that lacks a device of an older leaf has another key.
LosesKey(old, new) ==
  ~(old.p2p_devices \subseteq new.p2p_devices) => old.p2p_key # new.p2p_key

\* The edits since the last commit have not handed a lost device its key back.
EditsLoseKey ==
  \A n \in DOMAIN anchored : \A i \in DOMAIN anchored[n] \cap DOMAIN admin.root :
    LosesKey(anchored[n][i], admin.root[i])

TrieInv ==
  /\ TypeOK
  /\ TrieOK(admin)
  /\ TrieOK(replica)
  /\ ReplicaSettled
  /\ Lineage

\* The delta between two roots is well typed, canonical, and says which leaves
\* of the new root it carries.
LEMMA DeltaBetweenIs ==
  ASSUME NEW old \in Roots, NEW new \in Roots
  PROVE  LET d == DeltaBetween(old, new) IN
         /\ d \in Delta
         /\ d.base_root = old
         /\ d.removed = DOMAIN old \ DOMAIN new
         /\ DOMAIN d.upserted = {i \in DOMAIN new : i \in DOMAIN old => old[i] # new[i]}
         /\ \A i \in DOMAIN d.upserted : d.upserted[i] = new[i]
<1>. DEFINE d == DeltaBetween(old, new)
            U == {i \in DOMAIN new : i \in DOMAIN old => old[i] # new[i]}
<1>1. d.base_root = old /\ d.removed = DOMAIN old \ DOMAIN new /\ d.upserted = Restrict(new, U)
  BY DEF DeltaBetween, DiffTries, RootHash
<1>2. /\ Restrict(new, U) \in Roots /\ DOMAIN Restrict(new, U) = U
      /\ \A i \in U : Restrict(new, U)[i] = new[i]
  BY RestrictType DEF Roots
<1>3. DOMAIN old \ DOMAIN new \in SUBSET MemberIds
  BY RootIs
<1>4. d = [base_root |-> d.base_root, removed |-> d.removed, upserted |-> d.upserted]
  BY DEF DeltaBetween
<1>. HIDE DEF d, U
<1>5. d \in Delta
  BY <1>1, <1>2, <1>3, <1>4 DEF Delta
<1>. QED  BY <1>1, <1>2, <1>5 DEF d, U

\* Every initial state satisfies the invariant.
LEMMA TrieInitInv ==
  ASSUME Init
  PROVE  TrieInv
<1>1. PICK root \in Roots :
        /\ GenesisOk(root)
        /\ admin = Genesis(root) /\ replica = Genesis(root)
        /\ anchored = <<root>> /\ sent = << >>
  BY DEF Init, RootHash
<1>2. TrieOK(admin) /\ TrieOK(replica)
  BY <1>1, GenesisTrie
<1>3. ReplicaSettled
  BY <1>1 DEF ReplicaSettled, Genesis, NoHash
<1>4. Lineage
  <2>1. admin.last_calculated_root = root
    BY <1>1 DEF Genesis
  <2>2. Len(anchored) = 1 /\ Len(sent) = 0 /\ anchored[1] = root
    BY <1>1
  <2>. QED  BY <1>1, <2>1, <2>2 DEF Lineage, Trusted
<1>5. TypeOK
  BY <1>1, <1>2 DEF TypeOK, TrieOK
<1>. QED  BY <1>2, <1>3, <1>4, <1>5 DEF TrieInv

\* The steps that edit the administrator's trie keep its lineage.
LEMMA EditsKeepLineage ==
  ASSUME TrieInv, UNCHANGED <<replica, anchored, sent>>, TrieOK(admin'),
         admin'.last_calculated_root = admin.last_calculated_root
  PROVE  TrieInv'
<1>1. TypeOK'
  BY DEF TrieInv, TypeOK, TrieOK
<1>2. TrieOK(replica') /\ ReplicaSettled'
  BY DEF TrieInv, ReplicaSettled
<1>3. Lineage'
  BY DEF TrieInv, Lineage, Trusted
<1>. QED  BY <1>1, <1>2, <1>3 DEF TrieInv

\* Every step preserves the invariant.
LEMMA TrieStep ==
  ASSUME TrieInv, [Next]_vars
  PROVE  TrieInv'
<1>0. CASE UNCHANGED vars
  <2>1. admin' = admin /\ replica' = replica /\ anchored' = anchored /\ sent' = sent
    BY <1>0 DEF vars
  <2>2. TypeOK' /\ TrieOK(admin') /\ TrieOK(replica') /\ ReplicaSettled' /\ Lineage'
    BY <2>1 DEF TrieInv, TypeOK, ReplicaSettled, Lineage, Trusted
  <2>. QED  BY <2>2 DEF TrieInv
<1>1. ASSUME NEW id \in MemberIds, NEW leaf \in MemberLeaf, AddMember(id, leaf)
      PROVE  TrieInv'
  <2>1. admin' = InsertLeaf(admin, id, leaf) /\ UNCHANGED <<replica, anchored, sent>>
    BY <1>1 DEF AddMember
  <2>2. TrieOK(admin')
    BY <1>1, <2>1, InsertTrie DEF AddMember, TrieInv
  <2>3. admin'.last_calculated_root = admin.last_calculated_root
    BY <2>1 DEF InsertLeaf, TrieInv, TypeOK, OrgTrie
  <2>. QED  BY <2>1, <2>2, <2>3, EditsKeepLineage
<1>2. ASSUME NEW id \in MemberIds, DeleteMember(id)
      PROVE  TrieInv'
  <2>1. admin' = DeleteById(admin, id) /\ UNCHANGED <<replica, anchored, sent>>
    BY <1>2 DEF DeleteMember
  <2>2. TrieOK(admin')
    BY <1>2, <2>1, DeleteTrie DEF DeleteMember, TrieInv
  <2>3. admin'.last_calculated_root = admin.last_calculated_root
    BY <2>1 DEF DeleteById, TrieInv, TypeOK, OrgTrie
  <2>. QED  BY <2>1, <2>2, <2>3, EditsKeepLineage
<1>3. ASSUME Edits
      PROVE  TrieInv'
  <2>0. PICK id \in DOMAIN admin.root, leaf \in MemberLeaf : EditLeaf(id, leaf)
    BY <1>3 DEF Edits
  <2>1. admin' = UpdateLeaf(admin, id, leaf) /\ UNCHANGED <<replica, anchored, sent>>
    BY <2>0 DEF EditLeaf
  <2>2. TrieOK(admin')
    BY <2>0, <2>1, UpdateTrie DEF EditLeaf, TrieInv
  <2>3. admin'.last_calculated_root = admin.last_calculated_root
    BY <2>1 DEF UpdateLeaf, TrieInv, TypeOK, OrgTrie
  <2>. QED  BY <2>1, <2>2, <2>3, EditsKeepLineage
<1>4. ASSUME Commit
      PROVE  TrieInv'
  <2>. DEFINE d == DeltaBetween(Trusted, admin.root)
  <2>0. TrieOK(admin) /\ Lineage /\ TypeOK /\ TrieOK(replica) /\ ReplicaSettled
    BY DEF TrieInv
  <2>1. PendingChanges(admin) = d
    BY <2>0 DEF PendingChanges, DeltaBetween, Lineage, RootHash
  <2>2. /\ sent' = Append(sent, d) /\ anchored' = Append(anchored, admin.root)
        /\ admin' = Recalculate(admin) /\ replica' = replica
    BY <1>4, <2>1 DEF Commit, RootHash
  <2>3. TrieOK(admin')
    BY <2>0, <2>2, RecalculateTrie
  <2>4. /\ anchored \in Seq(Roots) /\ sent \in Seq(Delta)
        /\ Len(anchored) = Len(sent) + 1 /\ Len(sent) \in Nat
    BY <2>0 DEF TypeOK, Lineage
  <2>5. admin.root \in Roots /\ Trusted \in Roots /\ Trusted = anchored[Len(sent) + 1]
    BY <2>0, <2>4, TrieFields DEF Trusted
  <2>6. d \in Delta
    BY <2>5, DeltaBetweenIs
  <2>. HIDE DEF d
  <2>7. anchored' \in Seq(Roots) /\ sent' \in Seq(Delta)
    BY <2>2, <2>4, <2>5, <2>6
  <2>8. /\ Len(anchored') = Len(sent) + 2 /\ Len(sent') = Len(sent) + 1
        /\ \A n \in 1 .. Len(sent) + 1 : anchored'[n] = anchored[n]
        /\ anchored'[Len(sent) + 2] = admin.root
        /\ \A n \in 1 .. Len(sent) : sent'[n] = sent[n]
        /\ sent'[Len(sent) + 1] = d
    BY <2>2, <2>4
  <2>9. admin'.last_calculated_root = admin.root
    BY <2>0, <2>2 DEF Recalculate, TrieOK, OrgTrie
  <2>10. GenesisOk(admin.root)
    BY <2>0, TrieFields, AgreeDistinct
  <2>11. \A n \in 1 .. Len(anchored') : GenesisOk(anchored'[n])
    BY <2>0, <2>4, <2>8, <2>10 DEF Lineage
  <2>12. \A n \in 1 .. Len(sent') : sent'[n] = DeltaBetween(anchored'[n], anchored'[n + 1])
    <3>1. ASSUME NEW n \in 1 .. Len(sent)
          PROVE  sent'[n] = DeltaBetween(anchored'[n], anchored'[n + 1])
      <4>1. n \in 1 .. Len(sent) + 1 /\ n + 1 \in 1 .. Len(sent) + 1
        BY <2>4
      <4>2. sent[n] = DeltaBetween(anchored[n], anchored[n + 1])
        BY <2>0 DEF Lineage
      <4>. QED  BY <2>8, <4>1, <4>2
    <3>2. sent'[Len(sent) + 1] = DeltaBetween(anchored'[Len(sent) + 1], anchored'[Len(sent) + 2])
      <4>1. Len(sent) + 1 \in 1 .. Len(sent) + 1
        BY <2>4
      <4>. QED  BY <2>5, <2>8, <4>1 DEF d
    <3>3. ASSUME NEW n \in 1 .. Len(sent')
          PROVE  n \in 1 .. Len(sent) \/ (n = Len(sent) + 1 /\ n + 1 = Len(sent) + 2)
      BY <2>4, <2>8
    <3>. QED  BY <3>1, <3>2, <3>3
  <2>13. Trusted' = admin.root
    BY <2>8 DEF Trusted
  <2>14. Lineage'
    BY <2>4, <2>8, <2>9, <2>11, <2>12, <2>13 DEF Lineage
  <2>15. TypeOK' /\ TrieOK(replica') /\ ReplicaSettled'
    BY <2>0, <2>2, <2>3, <2>7 DEF TypeOK, TrieOK, ReplicaSettled
  <2>. QED  BY <2>3, <2>14, <2>15 DEF TrieInv
<1>5. ASSUME NEW n \in DOMAIN sent, ReceiveDelta(n)
      PROVE  TrieInv'
  <2>1. /\ ApplyDeltaVerdict(replica, sent[n]) = "Ok"
        /\ replica' = ApplyDelta(replica, sent[n])
        /\ admin' = admin /\ anchored' = anchored /\ sent' = sent
    BY <1>5 DEF ReceiveDelta
  <2>2. sent[n] \in Delta
    BY DEF TrieInv, TypeOK
  <2>3. TrieOK(replica')
    BY <2>1, <2>2, ApplyTrie DEF TrieInv
  <2>4. ReplicaSettled'
    BY <2>1 DEF ReplicaSettled, ApplyDelta, NoHash
  <2>5. TypeOK' /\ TrieOK(admin')
    BY <2>1, <2>3 DEF TrieInv, TypeOK, TrieOK
  <2>6. Lineage'
    BY <2>1 DEF TrieInv, Lineage, Trusted
  <2>. QED  BY <2>3, <2>4, <2>5, <2>6 DEF TrieInv
<1>6. TypeOK
  BY DEF TrieInv
<1>. QED  BY <1>0, <1>1, <1>2, <1>3, <1>4, <1>5, <1>6, StepShapes

\* The invariant holds in every behaviour.
LEMMA TrieInvariant == Spec => []TrieInv
BY TrieInitInv, TrieStep, PTL DEF Spec

\* The tries, roots and deltas of every behaviour have the shapes of their types.
THEOREM TriesWellTyped == Spec => []TypeOK
<1>1. TrieInv => TypeOK
  BY DEF TrieInv
<1>. QED  BY <1>1, TrieInvariant, PTL

\* insert_leaf, update_leaf, delete_by_id and apply_delta keep the handle map, the
\* skeleton map and member_count in step with the tree, so no two members ever
\* carry equal or confusable handles.
THEOREM MapsMatchTree == Spec => []IndexesMatchTree
<1>1. TrieInv => IndexesMatchTree
  BY DEF TrieInv, TrieOK, IndexesMatchTree
<1>. QED  BY <1>1, TrieInvariant, PTL

\* A cached root hash is the hash of the tree it stands next to, on both sides.
THEOREM HashesStayFresh == Spec => []CachesFresh
<1>1. TrieInv => CachesFresh
  BY DEF TrieInv, TrieOK, CachesFresh
<1>. QED  BY <1>1, TrieInvariant, PTL

\* A replica that changes becomes exactly the trie that genesis would build from
\* the root that is trusted at that moment, indexes and counter included,
\* whichever of the deltas it was given.
THEOREM ReplicaFollowsTrust == Spec => ReplicaMovesToTrusted
<1>1. ASSUME TrieInv, [Next]_vars
      PROVE  [replica' # replica => replica' = Genesis(Trusted)]_vars
  <2>1. SUFFICES ASSUME Next, replica' # replica
                 PROVE  replica' = Genesis(Trusted)
    BY <1>1 DEF vars
  <2>2. TypeOK
    BY <1>1 DEF TrieInv
  <2>3. PICK n \in DOMAIN sent : ReceiveDelta(n)
    BY <2>1, <2>2, StepShapes DEF AddMember, DeleteMember, Edits, EditLeaf, Commit
  <2>. DEFINE c == ApplyDelta(replica, sent[n])
  <2>4. replica' = c /\ c.cached_root_hash = {Trusted}
    BY <2>3 DEF ReceiveDelta, VerifyAgainst
  <2>5. TrieOK(c)
    <3>1. sent[n] \in Delta /\ TrieOK(replica)
      BY <1>1 DEF TrieInv, TypeOK
    <3>. QED  BY <2>3, <3>1, ApplyTrie DEF ReceiveDelta
  <2>6. c = [root |-> c.root, member_count |-> c.member_count,
             cached_root_hash |-> c.cached_root_hash,
             last_calculated_root |-> c.last_calculated_root,
             skeleton_index |-> c.skeleton_index, handle_index |-> c.handle_index]
    BY DEF ApplyDelta
  <2>. HIDE DEF c
  <2>7. c.root = Trusted /\ c.last_calculated_root = Trusted
    BY <2>4, <2>5 DEF TrieOK, CacheFresh, NoHash, RootHash
  <2>8. /\ c.handle_index = HandleIndexOf(c.root)
        /\ c.skeleton_index = SkeletonIndexOf(c.root)
        /\ c.member_count = Cardinality(DOMAIN c.root)
    BY <2>5, TrieFields, AgreeUnique
  <2>9. c = Genesis(Trusted)
    BY <2>4, <2>6, <2>7, <2>8 DEF Genesis, RootHash
  <2>. QED  BY <2>4, <2>9
<1>. QED  BY <1>1, TrieInvariant, PTL DEF Spec, ReplicaMovesToTrusted

-----------------------------------------------------------------------------
(* Which honest deltas apply_delta accepts.                                *)

\* The delta between two roots, applied to the first, gives the second.
LEMMA PatchBetween ==
  ASSUME NEW old \in Roots, NEW new \in Roots
  PROVE  Patch(old, DeltaBetween(old, new)) = new
<1>. DEFINE d == DeltaBetween(old, new)
            r == Patch(old, d)
<1>1. /\ d.removed = DOMAIN old \ DOMAIN new
      /\ DOMAIN d.upserted = {i \in DOMAIN new : i \in DOMAIN old => old[i] # new[i]}
      /\ \A i \in DOMAIN d.upserted : d.upserted[i] = new[i]
  BY DeltaBetweenIs
<1>. HIDE DEF d
<1>2. /\ DOMAIN r = (DOMAIN old \ d.removed) \cup DOMAIN d.upserted
      /\ \A i \in DOMAIN d.upserted : r[i] = d.upserted[i]
      /\ \A i \in DOMAIN old \ (d.removed \cup DOMAIN d.upserted) : r[i] = old[i]
  BY DEF Patch, Overlay, Restrict
<1>3. r = [i \in DOMAIN r |-> r[i]]
  BY DEF Patch, Overlay
<1>4. new = [i \in DOMAIN new |-> new[i]]
  BY PartialFunction DEF Roots
<1>. HIDE DEF r
<1>5. DOMAIN r = DOMAIN new
  BY <1>1, <1>2
<1>6. \A i \in DOMAIN new : r[i] = new[i]
  BY <1>1, <1>2
<1>7. r = new
  BY <1>3, <1>4, <1>5, <1>6
<1>. QED  BY <1>7 DEF r, d

\* A delta between two roots with distinct skeletons that hands no handle down
\* passes the handle checks.
LEMMA UpsertsAccepted ==
  ASSUME NEW t, TrieOK(t), NEW new \in Roots, GenesisOk(new),
         ~HandedDown(t.root, DeltaBetween(t.root, new)),
         NEW i \in Rehandled(t, DeltaBetween(t.root, new))
  PROVE  UpsertAccepted(t, DeltaBetween(t.root, new), i)
<1>. DEFINE d == DeltaBetween(t.root, new)
            C == Rehandled(t, d)
            earlier == {k \in C : k < i}
            out == Released(t, d, earlier \cup {i})
            s == Skeleton[d.upserted[i].handle]
<1>0. t.root \in Roots /\ Agree(t.root, t.handle_index, t.skeleton_index)
  BY TrieFields
<1>1. /\ d.removed = DOMAIN t.root \ DOMAIN new
      /\ DOMAIN d.upserted = {k \in DOMAIN new : k \in DOMAIN t.root => t.root[k] # new[k]}
      /\ \A k \in DOMAIN d.upserted : d.upserted[k] = new[k]
  BY <1>0, DeltaBetweenIs
<1>2. ~HandedDown(t.root, d) /\ i \in C
  OBVIOUS
<1>. HIDE DEF d
<1>3. C \subseteq DOMAIN d.upserted /\ C \subseteq DOMAIN new /\ C \subseteq Nat
  <2>1. DOMAIN new \subseteq Nat
    BY RootIs
  <2>. QED  BY <1>1, <2>1 DEF Rehandled
<1>4. s \notin SkeletonsOf(d.upserted, earlier)
  <2>1. \A k \in earlier : k # i /\ k \in C /\ i \in C
    BY <1>2, <1>3
  <2>2. \A k \in earlier : Skeleton[d.upserted[k].handle] # s
    BY <1>1, <1>3, <2>1 DEF GenesisOk
  <2>. QED  BY <2>2 DEF SkeletonsOf
<1>5. ASSUME s \in DOMAIN t.skeleton_index, s \notin SkeletonsOf(t.root, out)
      PROVE  FALSE
  <2>1. PICK j \in DOMAIN t.root : s = Skeleton[t.root[j].handle]
    BY <1>0, <1>5 DEF Agree, SkeletonsOf
  <2>2. j \notin out
    BY <1>5, <2>1 DEF SkeletonsOf
  <2>3. j \notin d.removed /\ j \notin C \cap (earlier \cup {i})
    BY <2>2 DEF Released
  <2>4. j \in DOMAIN new /\ j # i
    BY <1>1, <1>2, <2>3
  <2>5. s = Skeleton[new[i].handle] /\ i \in DOMAIN new
    BY <1>1, <1>2, <1>3
  <2>6. new[j].handle # t.root[j].handle
    BY <2>1, <2>4, <2>5 DEF GenesisOk
  <2>7. j \in DOMAIN d.upserted /\ j \in C
    BY <1>1, <2>4, <2>6 DEF Rehandled
  <2>8. i < j
    BY <1>2, <1>3, <2>3, <2>4, <2>7
  <2>. QED  BY <1>2, <1>3, <2>1, <2>7, <2>8 DEF HandedDown
<1>6. UpsertAccepted(t, d, i)
  BY <1>4, <1>5 DEF UpsertAccepted
<1>. QED  BY <1>6 DEF d

\* A replica at the base of the newest delta accepts it and lands on the trusted
\* root unless the delta hands a handle to a smaller id, for every confusability
\* relation and every pair of roots.
THEOREM HonestDeltas == Spec => []AcceptedUnlessHandedDown
<1>1. ASSUME TrieInv  PROVE AcceptedUnlessHandedDown
  <2>. DEFINE n == Len(sent)
              d == sent[n]
              new == anchored[n + 1]
  <2>1. SUFFICES ASSUME n > 0, replica.root = anchored[n], ~HandedDown(anchored[n], d)
                 PROVE  /\ ApplyDeltaVerdict(replica, d) = "Ok"
                        /\ VerifyAgainst(ApplyDelta(replica, d), Trusted)
    BY DEF AcceptedUnlessHandedDown
  <2>2. /\ TrieOK(replica) /\ ReplicaSettled /\ Lineage
        /\ anchored \in Seq(Roots) /\ sent \in Seq(Delta) /\ n \in Nat
    BY <1>1 DEF TrieInv, TypeOK
  <2>3. /\ n \in 1 .. Len(sent) /\ n \in 1 .. Len(anchored) /\ n + 1 \in 1 .. Len(anchored)
        /\ Len(anchored) = n + 1
    BY <2>1, <2>2 DEF Lineage
  <2>4. /\ d = DeltaBetween(replica.root, new) /\ new \in Roots /\ GenesisOk(new)
        /\ replica.root \in Roots /\ Trusted = new
    BY <2>1, <2>2, <2>3 DEF Lineage, Trusted
  <2>5. /\ d \in Delta /\ d.base_root = replica.root
        /\ d.removed = DOMAIN replica.root \ DOMAIN new
        /\ DOMAIN d.upserted = {i \in DOMAIN new :
                                  i \in DOMAIN replica.root => replica.root[i] # new[i]}
        /\ \A i \in DOMAIN d.upserted : d.upserted[i] = new[i]
    <3>. HIDE DEF d, new
    <3>. QED  BY <2>4, DeltaBetweenIs
  <2>. HIDE DEF n, d, new
  <2>6. /\ replica.cached_root_hash # NoHash
        /\ replica.cached_root_hash = {d.base_root}
    BY <2>2, <2>5 DEF ReplicaSettled, TrieOK, CacheFresh, RootHash
  <2>7. CanonicalDelta(replica, d)
    BY <2>5 DEF CanonicalDelta
  <2>8. \A i \in Rehandled(replica, d) : UpsertAccepted(replica, d, i)
    BY <2>1, <2>2, <2>4, UpsertsAccepted
  <2>9. ApplyDeltaVerdict(replica, d) = "Ok"
    BY <2>6, <2>7, <2>8 DEF ApplyDeltaVerdict
  <2>10. ApplyDelta(replica, d).cached_root_hash = {Patch(replica.root, d)}
    BY DEF ApplyDelta, RootHash
  <2>11. Patch(replica.root, d) = Trusted
    BY <2>4, PatchBetween
  <2>. QED  BY <2>9, <2>10, <2>11 DEF VerifyAgainst
<1>. QED  BY <1>1, TrieInvariant, PTL

-----------------------------------------------------------------------------
(* Keys of removed devices, when callers mint fresh keys.                  *)

\* A freshly minted key is on no anchored leaf.
LEMMA FreshIsNew ==
  ASSUME FreshKeys = TRUE, NEW key \in OfferedKeys, NEW n \in DOMAIN anchored,
         NEW i \in DOMAIN anchored[n]
  PROVE  anchored[n][i].p2p_key # key
<1>1. anchored[n] \in Range(anchored)
  BY DEF Range
<1>. QED  BY <1>1 DEF OfferedKeys

\* A step that edits one leaf carefully, or adds one with a fresh key, hands no
\* lost device its key back.
LEMMA CarefulStep ==
  ASSUME FreshKeys = TRUE, EditsLoseKey, anchored' = anchored,
         NEW id, NEW leaf, admin'.root = Put(admin.root, id, leaf),
         \/ leaf.p2p_key \in OfferedKeys
         \/ id \in DOMAIN admin.root /\ Careful(admin.root[id], leaf)
  PROVE  EditsLoseKey'
<1>1. SUFFICES ASSUME NEW n \in DOMAIN anchored,
                      NEW i \in DOMAIN anchored[n] \cap DOMAIN admin'.root
               PROVE  LosesKey(anchored[n][i], admin'.root[i])
  BY DEF EditsLoseKey
<1>2. CASE i = id
  <2>1. admin'.root[i] = leaf
    BY <1>2 DEF Put
  <2>2. CASE leaf.p2p_key \in OfferedKeys
    BY <2>1, <2>2, FreshIsNew DEF LosesKey
  <2>3. CASE /\ id \in DOMAIN admin.root
             /\ leaf.p2p_key = admin.root[id].p2p_key
             /\ admin.root[id].p2p_devices \subseteq leaf.p2p_devices
    <3>1. LosesKey(anchored[n][i], admin.root[i])
      BY <1>2, <2>3 DEF EditsLoseKey
    <3>. QED  BY <1>2, <2>1, <2>3, <3>1 DEF LosesKey
  <2>. QED  BY <2>2, <2>3 DEF Careful
<1>3. CASE i # id
  <2>1. i \in DOMAIN admin.root /\ admin'.root[i] = admin.root[i]
    BY <1>3 DEF Put
  <2>. QED  BY <2>1 DEF EditsLoseKey
<1>. QED  BY <1>2, <1>3

\* The edits never hand a lost device its key back, and what is anchored is what
\* the edits produced.
LEMMA KeysStep ==
  ASSUME FreshKeys = TRUE, TrieInv, EditsLoseKey, RemovedDeviceLosesKey, [Next]_vars
  PROVE  EditsLoseKey' /\ RemovedDeviceLosesKey'
<1>0. CASE UNCHANGED vars
  BY <1>0 DEF vars, EditsLoseKey, RemovedDeviceLosesKey
<1>1. ASSUME NEW id \in MemberIds, NEW leaf \in MemberLeaf, AddMember(id, leaf)
      PROVE  EditsLoseKey' /\ RemovedDeviceLosesKey'
  <2>1. /\ admin' = InsertLeaf(admin, id, leaf) /\ leaf.p2p_key \in OfferedKeys
        /\ anchored' = anchored
    BY <1>1 DEF AddMember
  <2>2. admin'.root = Put(admin.root, id, leaf)
    BY <2>1 DEF InsertLeaf, TrieInv, TypeOK, OrgTrie
  <2>. QED  BY <2>1, <2>2, CarefulStep DEF RemovedDeviceLosesKey
<1>2. ASSUME NEW id \in MemberIds, DeleteMember(id)
      PROVE  EditsLoseKey' /\ RemovedDeviceLosesKey'
  <2>1. admin' = DeleteById(admin, id) /\ anchored' = anchored
    BY <1>2 DEF DeleteMember
  <2>2. admin'.root = Drop(admin.root, id)
    BY <2>1 DEF DeleteById, TrieInv, TypeOK, OrgTrie
  <2>3. /\ DOMAIN admin'.root \subseteq DOMAIN admin.root
        /\ \A i \in DOMAIN admin'.root : admin'.root[i] = admin.root[i]
    BY <2>2 DEF Drop, Restrict
  <2>4. EditsLoseKey'
    BY <2>1, <2>3 DEF EditsLoseKey
  <2>. QED  BY <2>1, <2>4 DEF RemovedDeviceLosesKey
<1>3. ASSUME Edits
      PROVE  EditsLoseKey' /\ RemovedDeviceLosesKey'
  <2>0. PICK id \in DOMAIN admin.root, leaf \in MemberLeaf :
          EditLeaf(id, leaf) /\ Careful(admin.root[id], leaf)
    BY <1>3 DEF Edits
  <2>1. admin' = UpdateLeaf(admin, id, leaf) /\ anchored' = anchored
    BY <2>0 DEF EditLeaf
  <2>2. admin'.root = Put(admin.root, id, leaf)
    BY <2>1 DEF UpdateLeaf, TrieInv, TypeOK, OrgTrie
  <2>. QED  BY <2>0, <2>1, <2>2, CarefulStep DEF RemovedDeviceLosesKey
<1>4. ASSUME Commit
      PROVE  EditsLoseKey' /\ RemovedDeviceLosesKey'
  <2>. DEFINE root == admin.root
              k == Len(anchored)
  <2>1. anchored' = Append(anchored, root) /\ admin' = Recalculate(admin)
    BY <1>4 DEF Commit, RootHash
  <2>2. admin'.root = root
    BY <2>1 DEF Recalculate, TrieInv, TypeOK, OrgTrie
  <2>3. anchored \in Seq(Roots) /\ k \in Nat /\ root \in Roots
    BY TrieFields DEF TrieInv, TypeOK
  <2>4. /\ Len(anchored') = k + 1 /\ DOMAIN anchored' = 1 .. k + 1
        /\ DOMAIN anchored = 1 .. k
        /\ \A n \in 1 .. k : anchored'[n] = anchored[n]
        /\ anchored'[k + 1] = root
    BY <2>1, <2>3
  <2>5. \A n \in 1 .. k + 1 : n \in 1 .. k \/ n = k + 1
    BY <2>3
  <2>. HIDE DEF root, k
  <2>6. ASSUME NEW n \in 1 .. k + 1, NEW i \in DOMAIN anchored'[n] \cap DOMAIN root
        PROVE  LosesKey(anchored'[n][i], root[i])
    <3>1. CASE n = k + 1
      BY <2>4, <3>1 DEF LosesKey
    <3>2. CASE n \in 1 .. k
      BY <2>4, <3>2 DEF EditsLoseKey, root
    <3>. QED  BY <2>5, <3>1, <3>2
  <2>7. EditsLoseKey'
    BY <2>2, <2>4, <2>6 DEF EditsLoseKey
  <2>8. ASSUME NEW m \in 1 .. k + 1, NEW n \in 1 .. m,
               NEW i \in DOMAIN anchored'[m] \cap DOMAIN anchored'[n]
        PROVE  LosesKey(anchored'[n][i], anchored'[m][i])
    <3>1. CASE m = k + 1
      BY <2>4, <2>6, <3>1
    <3>2. CASE m \in 1 .. k
      <4>1. n \in 1 .. k
        BY <2>3, <3>2
      <4>2. i \in DOMAIN anchored[m] \cap DOMAIN anchored[n]
        BY <2>4, <3>2, <4>1
      <4>3. LosesKey(anchored[n][i], anchored[m][i])
        BY <2>4, <3>2, <4>2 DEF RemovedDeviceLosesKey, LosesKey
      <4>. QED  BY <2>4, <3>2, <4>1, <4>3
    <3>. QED  BY <2>5, <3>1, <3>2
  <2>9. RemovedDeviceLosesKey'
    BY <2>4, <2>8 DEF RemovedDeviceLosesKey, LosesKey
  <2>. QED  BY <2>7, <2>9
<1>5. ASSUME NEW n \in DOMAIN sent, ReceiveDelta(n)
      PROVE  EditsLoseKey' /\ RemovedDeviceLosesKey'
  BY <1>5 DEF ReceiveDelta, EditsLoseKey, RemovedDeviceLosesKey
<1>6. TypeOK
  BY DEF TrieInv
<1>. QED  BY <1>0, <1>1, <1>2, <1>3, <1>4, <1>5, <1>6, StepShapes

\* When every key a caller passes is fresh, no committed root gives a member back
\* the key that a device it has lost since an earlier root knew, whatever edits
\* (isolation, re-adding the device, deleting and re-adding the member) and
\* commits came between.
THEOREM LostDevicesLoseKey ==
  ASSUME FreshKeys = TRUE
  PROVE  Spec => []RemovedDeviceLosesKey
<1>1. Init => EditsLoseKey /\ RemovedDeviceLosesKey
  <2>1. ASSUME Init  PROVE EditsLoseKey /\ RemovedDeviceLosesKey
    <3>1. PICK root \in Roots : anchored = <<root>> /\ admin = Genesis(root)
      BY <2>1 DEF Init, RootHash
    <3>2. admin.root = root /\ DOMAIN anchored = {1} /\ anchored[1] = root
      BY <3>1 DEF Genesis
    <3>3. EditsLoseKey
      BY <3>2 DEF EditsLoseKey, LosesKey
    <3>4. RemovedDeviceLosesKey
      <4>1. \A n \in 1 .. 1 : n = 1
        OBVIOUS
      <4>. QED  BY <3>2, <4>1 DEF RemovedDeviceLosesKey
    <3>. QED  BY <3>3, <3>4
  <2>. QED  BY <2>1
<1>2. TrieInv /\ EditsLoseKey /\ RemovedDeviceLosesKey /\ [Next]_vars
        => EditsLoseKey' /\ RemovedDeviceLosesKey'
  BY KeysStep
<1>. QED  BY <1>1, <1>2, TrieInvariant, PTL DEF Spec

=============================================================================
