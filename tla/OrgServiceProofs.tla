-------------------------- MODULE OrgServiceProofs --------------------------
(***************************************************************************)
(* Proofs about module OrgService, for any set of nodes, any relays, both  *)
(* chain modes, any receivers and any number of calls and faults.          *)
(***************************************************************************)
EXTENDS OrgService, FiniteSetTheorems, TLAPS

-----------------------------------------------------------------------------
(* Types.                                                                  *)

\* Record builds an OrgRecord, and NoOrg is one.
LEMMA RecordType ==
  /\ NoOrg \in OrgRecord
  /\ \A members \in Members, epoch, seq \in Nat :
       Record(members, epoch, seq) \in OrgRecord
BY DEF NoOrg, Record, OrgRecord, Members

\* Saving well-typed data keeps both stores and the fault counter well-typed.
LEMMA CommitType ==
  ASSUME TypeOK, NEW n \in Nodes, NEW data \in StoreData, Commit(n, data)
  PROVE  /\ mem' \in [Nodes -> StoreData]
         /\ disk' \in [Nodes -> StoreData]
         /\ faults' \in Nat
BY DEF TypeOK, Commit

\* Submitting an update when no call is in flight.
LEMMA SubmitType ==
  ASSUME TypeOK, NEW u \in Update, op = {}, SubmitUpdate(u)
  PROVE  TypeOK'
<1>1. op' = {u}
  BY DEF SubmitUpdate, MockSubmit, SubxtSubmit
<1>2. IsFiniteSet({u}) /\ Cardinality({u}) = 1
  BY FS_Singleton
<1>3. u.target \in Members
  BY DEF Update
<1>4. Append(anchors, u.target) \in Seq(Members) /\ Append(pool, u) \in Seq(Update)
  BY <1>3 DEF TypeOK
<1>5. anchors' \in Seq(Members) /\ pool' \in Seq(Update)
  BY <1>4 DEF SubmitUpdate, MockSubmit, SubxtSubmit, TypeOK
<1> QED
  BY <1>1, <1>2, <1>5 DEF SubmitUpdate, MockSubmit, SubxtSubmit, TypeOK

\* op is emptied: the part of TypeOK that speaks of it.
LEMMA EmptyOpType == {} \subseteq Update /\ IsFiniteSet({}) /\ Cardinality({}) <= 1
BY FS_EmptySet

\* What admit_member and revoke_member put into op is an update.
LEMMA NextUpdateType ==
  ASSUME TypeOK, NEW n \in Nodes, NEW target \in Members
  PROVE  NextUpdate(n, target) \in Update
BY NodesAssumption DEF TypeOK, NextUpdate, Update, StoreData, OrgRecord

\* receive_and_verify saves the record of the verified envelope.
LEMMA VerifyCommits ==
  ASSUME TypeOK, NEW n \in Nodes, NEW from \in Nodes, NEW m \in sent,
         NEW e \in ReadableEpochs, ReceiveAndVerify(n, from, m, e)
  PROVE  \E data \in StoreData :
           Commit(n, data) /\ data.org = Record(m.target, e, m.seq)
<1>1. m.target \in Members /\ m.seq \in Nat /\ e \in Nat
  BY DEF TypeOK, Update, ReadableEpochs
<1>2. Record(m.target, e, m.seq) \in OrgRecord
  BY <1>1, RecordType
<1>3. mem[n] \in StoreData
  BY DEF TypeOK
<1> DEFINE mine == n \in m.target /\ n # Admin
           new == [org    |-> Record(m.target, e, m.seq),
                   linked |-> mem[n].linked \/ mine,
                   status |-> IF mine THEN "Active" ELSE mem[n].status,
                   invite |-> mem[n].invite /\ ~(~mem[n].org.held)]
<1>4. new \in StoreData
  BY <1>2, <1>3 DEF StoreData
<1>5. Commit(n, new)
  BY DEF ReceiveAndVerify
<1>6. new.org = Record(m.target, e, m.seq)
  OBVIOUS
<1> HIDE DEF new
<1> QED
  BY <1>4, <1>5, <1>6

\* receive_and_self_delete_if_revoked saves that record or none.
LEMMA SelfDeleteCommits ==
  ASSUME TypeOK, NEW n \in Nodes, NEW from \in Nodes, NEW m \in sent,
         NEW e \in ReadableEpochs, ReceiveAndSelfDelete(n, from, m, e)
  PROVE  \E data \in StoreData :
           Commit(n, data) /\ data.org \in {Record(m.target, e, m.seq), NoOrg}
<1>1. m.target \in Members /\ m.seq \in Nat /\ e \in Nat
  BY DEF TypeOK, Update, ReadableEpochs
<1>2. Record(m.target, e, m.seq) \in OrgRecord /\ NoOrg \in OrgRecord
  BY <1>1, RecordType
<1>3. mem[n] \in StoreData
  BY DEF TypeOK
<1> DEFINE updated == [mem[n] EXCEPT !.org = Record(m.target, e, m.seq)]
           deleted == [mem[n] EXCEPT !.org = NoOrg,
                                     !.status = IF mem[n].linked THEN "Revoked"
                                                ELSE @]
<1>4. /\ updated \in StoreData /\ updated.org = Record(m.target, e, m.seq)
      /\ deleted \in StoreData /\ deleted.org = NoOrg
  BY <1>2, <1>3 DEF StoreData
<1>5. Commit(n, updated) \/ Commit(n, deleted)
  BY DEF ReceiveAndSelfDelete
<1> HIDE DEF updated, deleted
<1> QED
  BY <1>4, <1>5

\* Type correctness is inductive.
LEMMA TypeStep == TypeOK /\ [Next]_vars => TypeOK'
<1> SUFFICES ASSUME TypeOK, [Next]_vars PROVE TypeOK'
  OBVIOUS
<1>1. CASE CreateOrganisation
  <2>1. [expected_epoch |-> 0, seq |-> 0, to |-> Admin,
         base |-> {}, target |-> {Admin}] \in Update
    BY NodesAssumption DEF Update, Members
  <2> QED
    BY <1>1, <2>1, SubmitType DEF CreateOrganisation
<1>2. ASSUME NEW n \in Nodes, AdmitMember(n) PROVE TypeOK'
  <2>1. mem[Admin].org.trie_members \cup {n} \in Members
    BY NodesAssumption DEF TypeOK, StoreData, OrgRecord, Members
  <2> QED
    BY <1>2, <2>1, NextUpdateType, SubmitType DEF AdmitMember
<1>3. ASSUME NEW n \in Nodes, RevokeMember(n) PROVE TypeOK'
  <2>1. mem[Admin].org.trie_members \ {n} \in Members
    BY NodesAssumption DEF TypeOK, StoreData, OrgRecord, Members
  <2> QED
    BY <1>3, <2>1, NextUpdateType, SubmitType DEF RevokeMember
<1>4. ASSUME NEW n \in Nodes, ImportInvite(n) PROVE TypeOK'
  <2>1. [mem[n] EXCEPT !.invite = TRUE] \in StoreData
    BY DEF TypeOK, StoreData
  <2> QED
    BY <1>4, <2>1, CommitType DEF ImportInvite, TypeOK
<1>5. ASSUME NEW n \in Nodes, NEW from \in Nodes, NEW m \in sent,
             NEW e \in ReadableEpochs, ReceiveAndVerify(n, from, m, e)
      PROVE TypeOK'
  BY <1>5, VerifyCommits, CommitType DEF ReceiveAndVerify, TypeOK
<1>6. ASSUME NEW n \in Nodes, NEW from \in Nodes, NEW m \in sent,
             NEW e \in ReadableEpochs, ReceiveAndSelfDelete(n, from, m, e)
      PROVE TypeOK'
  BY <1>6, SelfDeleteCommits, CommitType DEF ReceiveAndSelfDelete, TypeOK
<1>7. ASSUME NEW n \in Nodes, Restart(n) PROVE TypeOK'
  BY <1>7, EmptyOpType DEF Restart, TypeOK
<1>8. ASSUME NEW u \in op, FinishGenesis(u) PROVE TypeOK'
  <2>1. Record(u.target, 1, 0) \in OrgRecord
    BY RecordType DEF TypeOK, Update
  <2>2. mem[Admin] \in StoreData
    BY NodesAssumption DEF TypeOK
  <2>3. [mem[Admin] EXCEPT !.org = Record(u.target, 1, 0),
                           !.linked = TRUE, !.status = "Active"] \in StoreData
    BY <2>1, <2>2 DEF StoreData
  <2> QED
    BY <1>8, <2>3, NodesAssumption, EmptyOpType, CommitType
       DEF FinishGenesis, TypeOK
<1>9. ASSUME NEW u \in op, PushAndRecord(u) PROVE TypeOK'
  <2>1. Record(u.target, u.expected_epoch + 1, u.seq) \in OrgRecord
    BY RecordType DEF TypeOK, Update
  <2>2. mem[Admin] \in StoreData
    BY NodesAssumption DEF TypeOK
  <2>3. [mem[Admin] EXCEPT !.org = Record(u.target, u.expected_epoch + 1, u.seq)]
          \in StoreData
    BY <2>1, <2>2 DEF StoreData
  <2>4. sent' \subseteq Update
    BY <1>9 DEF PushAndRecord, TypeOK
  <2> QED
    BY <1>9, <2>3, <2>4, NodesAssumption, EmptyOpType, CommitType
       DEF PushAndRecord, TypeOK
<1>10. ASSUME NEW u \in op, PushFails(u) PROVE TypeOK'
  <2>1. sent' \subseteq Update /\ faults' \in Nat
    BY <1>10 DEF PushFails, TypeOK
  <2> QED
    BY <1>10, <2>1, EmptyOpType DEF PushFails, TypeOK
<1>11. CASE ExecuteExtrinsic
  <2>1. Head(pool) \in Update /\ Tail(pool) \in Seq(Update)
    BY <1>11 DEF ExecuteExtrinsic, TypeOK
  <2>2. Head(pool).target \in Members
    BY <2>1 DEF Update
  <2>3. anchors' \in Seq(Members)
    BY <1>11, <2>2 DEF ExecuteExtrinsic, TypeOK
  <2> QED
    BY <1>11, <2>1, <2>3 DEF ExecuteExtrinsic, TypeOK
<1>12. CASE UNCHANGED vars
  BY <1>12 DEF vars, TypeOK
<1> QED
  BY <1>1, <1>2, <1>3, <1>4, <1>5, <1>6, <1>7, <1>8, <1>9, <1>10, <1>11, <1>12
     DEF Next, Receive

\* Every reachable state of the composed system is well-typed, and at most one
\* call of the administrator is in flight.
THEOREM TypeCorrect == Spec => []TypeOK
<1>1. Init => TypeOK
  BY EmptyOpType, RecordType DEF Init, TypeOK, StoreData
<1> QED
  BY <1>1, TypeStep, PTL DEF Spec

-----------------------------------------------------------------------------
(* Records are anchored.                                                   *)

\* The chain only grows: a step appends at most one root.
LEMMA AnchorsGrow ==
  ASSUME TypeOK, [Next]_vars
  PROVE  \/ anchors' = anchors
         \/ \E root \in Members : anchors' = Append(anchors, root)
<1>1. ASSUME NEW u \in Update, SubmitUpdate(u)
      PROVE  \/ anchors' = anchors
             \/ \E root \in Members : anchors' = Append(anchors, root)
  BY <1>1 DEF SubmitUpdate, MockSubmit, SubxtSubmit, Update
<1>2. CASE CreateOrganisation
  <2>1. [expected_epoch |-> 0, seq |-> 0, to |-> Admin,
         base |-> {}, target |-> {Admin}] \in Update
    BY NodesAssumption DEF Update, Members
  <2> QED
    BY <1>1, <1>2, <2>1 DEF CreateOrganisation
<1>3. ASSUME NEW n \in Nodes, AdmitMember(n) \/ RevokeMember(n)
      PROVE  \/ anchors' = anchors
             \/ \E root \in Members : anchors' = Append(anchors, root)
  <2>1. /\ mem[Admin].org.trie_members \cup {n} \in Members
        /\ mem[Admin].org.trie_members \ {n} \in Members
    BY NodesAssumption DEF TypeOK, StoreData, OrgRecord, Members
  <2> QED
    BY <1>1, <1>3, <2>1, NextUpdateType DEF AdmitMember, RevokeMember
<1>4. CASE ExecuteExtrinsic
  <2>1. Head(pool) \in Update
    BY <1>4 DEF ExecuteExtrinsic, TypeOK
  <2> QED
    BY <1>4, <2>1 DEF ExecuteExtrinsic, Update
<1>5. ASSUME NEW n \in Nodes, ImportInvite(n) \/ Receive(n) \/ Restart(n)
      PROVE  anchors' = anchors
  BY <1>5 DEF ImportInvite, Receive, ReceiveAndVerify, ReceiveAndSelfDelete, Restart
<1>6. ASSUME NEW u \in op, FinishGenesis(u) \/ PushAndRecord(u) \/ PushFails(u)
      PROVE  anchors' = anchors
  BY <1>6 DEF FinishGenesis, PushAndRecord, PushFails
<1>7. CASE UNCHANGED vars
  BY <1>7 DEF vars
<1> QED
  BY <1>2, <1>3, <1>4, <1>5, <1>6, <1>7 DEF Next

\* What was anchored stays anchored.
LEMMA AnchoredStays ==
  ASSUME TypeOK, [Next]_vars
  PROVE  \A rec \in OrgRecord : Anchored(rec) => Anchored(rec)'
<1> SUFFICES ASSUME NEW rec \in OrgRecord, Anchored(rec) PROVE Anchored(rec)'
  OBVIOUS
<1>1. CASE anchors' = anchors
  BY <1>1 DEF Anchored
<1>2. CASE \E root \in Members : anchors' = Append(anchors, root)
  BY <1>2 DEF Anchored, TypeOK
<1> QED
  BY <1>1, <1>2, AnchorsGrow

\* A record made from a verified envelope is anchored.
LEMMA VerifiedIsAnchored ==
  ASSUME TypeOK, NEW rec \in OrgRecord, NEW m \in sent,
         NEW e \in ReadableEpochs, VerifyEnvelope(rec, m, e)
  PROVE  Anchored(Record(m.target, e, m.seq))
BY DEF VerifyEnvelope, Anchored, Record, ReadableEpochs, TypeOK

\* The stores after a step: each is unchanged, reloaded from the disk, or holds
\* new data whose record is anchored unless it is the administrator's.
LEMMA StoreStep ==
  ASSUME TypeOK, [Next]_vars, NEW n \in Nodes \ {Admin}
  PROVE  \/ UNCHANGED <<mem[n], disk[n]>>
         \/ mem'[n] = disk[n] /\ UNCHANGED disk[n]
         \/ \E data \in StoreData :
              /\ mem'[n] = data
              /\ disk'[n] \in {disk[n], data}
              /\ data.org = mem[n].org \/ Anchored(data.org)
<1> DEFINE Goal ==
      \/ UNCHANGED <<mem[n], disk[n]>>
      \/ mem'[n] = disk[n] /\ UNCHANGED disk[n]
      \/ \E data \in StoreData :
           /\ mem'[n] = data
           /\ disk'[n] \in {disk[n], data}
           /\ data.org = mem[n].org \/ Anchored(data.org)
<1>1. ASSUME NEW k \in Nodes, NEW data, Commit(k, data), k # n PROVE Goal
  BY <1>1 DEF Commit, TypeOK
<1>2. ASSUME NEW data \in StoreData, Commit(n, data),
             data.org = mem[n].org \/ Anchored(data.org)
      PROVE Goal
  BY <1>2 DEF Commit, TypeOK
<1>3. ASSUME NEW k \in Nodes, ImportInvite(k) PROVE Goal
  <2>1. [mem[n] EXCEPT !.invite = TRUE] \in StoreData
    BY DEF TypeOK, StoreData
  <2>2. [mem[n] EXCEPT !.invite = TRUE].org = mem[n].org
    BY DEF TypeOK, StoreData
  <2> HIDE DEF Goal
  <2> QED
    BY <1>1, <1>2, <1>3, <2>1, <2>2 DEF ImportInvite
<1>4. ASSUME NEW k \in Nodes, NEW from \in Nodes, NEW m \in sent,
             NEW e \in ReadableEpochs, ReceiveAndVerify(k, from, m, e)
      PROVE Goal
  <2> HIDE DEF Goal
  <2>1. CASE k # n
    BY <1>1, <1>4, <2>1 DEF ReceiveAndVerify
  <2>2. CASE k = n
    <3>1. mem[n] \in StoreData /\ mem[n].org \in OrgRecord
      BY DEF TypeOK, StoreData
    <3>2. Anchored(Record(m.target, e, m.seq))
      BY <1>4, <2>2, <3>1, VerifiedIsAnchored DEF ReceiveAndVerify
    <3>3. PICK data \in StoreData :
            Commit(n, data) /\ data.org = Record(m.target, e, m.seq)
      BY <1>4, <2>2, VerifyCommits
    <3> QED
      BY <1>2, <3>2, <3>3
  <2> QED
    BY <2>1, <2>2
<1>5. ASSUME NEW k \in Nodes, NEW from \in Nodes, NEW m \in sent,
             NEW e \in ReadableEpochs, ReceiveAndSelfDelete(k, from, m, e)
      PROVE Goal
  <2> HIDE DEF Goal
  <2>1. CASE k # n
    BY <1>1, <1>5, <2>1 DEF ReceiveAndSelfDelete
  <2>2. CASE k = n
    <3>1. mem[n] \in StoreData /\ mem[n].org \in OrgRecord
      BY DEF TypeOK, StoreData
    <3>2. Anchored(Record(m.target, e, m.seq)) /\ Anchored(NoOrg)
      BY <1>5, <2>2, <3>1, VerifiedIsAnchored
         DEF ReceiveAndSelfDelete, Anchored, NoOrg
    <3>3. PICK data \in StoreData :
            /\ Commit(n, data)
            /\ data.org \in {Record(m.target, e, m.seq), NoOrg}
      BY <1>5, <2>2, SelfDeleteCommits
    <3> QED
      BY <1>2, <3>2, <3>3
  <2> QED
    BY <2>1, <2>2
<1>6. ASSUME NEW k \in Nodes, Restart(k) PROVE Goal
  BY <1>6 DEF Restart, TypeOK
<1>7. ASSUME NEW u \in op, FinishGenesis(u) \/ PushAndRecord(u) PROVE Goal
  <2> HIDE DEF Goal
  <2> QED
    BY <1>1, <1>7, NodesAssumption DEF FinishGenesis, PushAndRecord
<1>8. ASSUME UNCHANGED <<mem, disk>> PROVE Goal
  BY <1>8
<1> HIDE DEF Goal
<1>9. ASSUME CreateOrganisation \/ ExecuteExtrinsic \/ UNCHANGED vars
      PROVE Goal
  BY <1>8, <1>9 DEF CreateOrganisation, SubmitUpdate, ExecuteExtrinsic, vars
<1>10. ASSUME NEW k \in Nodes, AdmitMember(k) \/ RevokeMember(k) PROVE Goal
  BY <1>8, <1>10 DEF AdmitMember, RevokeMember, SubmitUpdate
<1>11. ASSUME NEW u \in op, PushFails(u) PROVE Goal
  BY <1>8, <1>11 DEF PushFails
<1>12. Goal
  BY <1>3, <1>4, <1>5, <1>6, <1>7, <1>9, <1>10, <1>11 DEF Next, Receive
<1> QED
  BY <1>12 DEF Goal

\* The one property of org-node for every instance: whoever delivers the
\* envelopes, whatever fails and whatever became of the administrator's calls,
\* the view a member holds or has saved is the root the contract accepted at the
\* epoch it recorded (verify_envelope_against_chain and the two receive calls).
THEOREM ViewsAnchored == Spec => []RecordsAnchored
<1>1. Init => TypeOK /\ RecordsAnchored
  BY EmptyOpType, RecordType
     DEF Init, TypeOK, StoreData, RecordsAnchored, Anchored, NoOrg
<1>2. TypeOK /\ RecordsAnchored /\ [Next]_vars => RecordsAnchored'
  <2> SUFFICES ASSUME TypeOK, RecordsAnchored, [Next]_vars,
                      NEW n \in Nodes \ {Admin}
               PROVE  Anchored(mem[n].org)' /\ Anchored(disk[n].org)'
    BY DEF RecordsAnchored
  <2>1. /\ mem[n].org \in OrgRecord /\ Anchored(mem[n].org)
        /\ disk[n].org \in OrgRecord /\ Anchored(disk[n].org)
    BY DEF TypeOK, StoreData, RecordsAnchored
  <2>2. /\ Anchored(mem'[n].org) /\ mem'[n].org \in OrgRecord
        /\ Anchored(disk'[n].org) /\ disk'[n].org \in OrgRecord
    BY <2>1, StoreStep DEF StoreData
  <2>3. \A rec \in OrgRecord : Anchored(rec) =>
          (rec.held => /\ rec.epoch \in DOMAIN anchors'
                       /\ rec.trie_members = anchors'[rec.epoch])
    BY AnchoredStays DEF Anchored
  <2> QED
    BY <2>2, <2>3 DEF Anchored
<1> QED
  BY <1>1, <1>2, TypeStep, PTL DEF Spec

-----------------------------------------------------------------------------
(* Saved records roll back by less than the lag of the chain reads.        *)

\* The memory of n lacks the record that n has saved, or holds an earlier one.
BehindDisk(n) ==
  /\ disk[n].org.held
  /\ mem[n].org.held => mem[n].org.epoch < disk[n].org.epoch

\* Then the chain has passed the saved record, since n deleted it in memory on an
\* envelope of a later epoch, and what n has read since lies behind by the lag at
\* most.
WithinLag(n) ==
  BehindDisk(n) =>
    /\ disk[n].org.epoch < Len(anchors)
    /\ mem[n].org.held => mem[n].org.epoch + MaxLag > disk[n].org.epoch

\* The call in flight was built from the administrator's present record, and
\* create_organisation only runs where no record was saved.
CallFromRecord ==
  \A u \in op :
    IF u.seq = 0 THEN ~disk[Admin].org.held
    ELSE mem[Admin].org.held /\ u.expected_epoch = mem[Admin].org.epoch

RollbackInv == TypeOK /\ (\A n \in Nodes : WithinLag(n)) /\ CallFromRecord

KeepsEpoch(n) ==
  disk[n].org.held /\ disk'[n].org.held =>
    \/ disk'[n].org.epoch >= disk[n].org.epoch
    \/ disk'[n].org.epoch + MaxLag > disk[n].org.epoch

\* Saving a record that is not older than the saved one, or an older one or none
\* under the conditions of WithinLag.
LEMMA CommitAhead ==
  ASSUME TypeOK, NEW n \in Nodes, NEW data \in StoreData, Commit(n, data),
         anchors' = anchors, \A k \in Nodes : WithinLag(k),
         disk[n].org.held /\ (data.org.held => data.org.epoch < disk[n].org.epoch) =>
           /\ disk[n].org.epoch < Len(anchors)
           /\ data.org.held => data.org.epoch + MaxLag > disk[n].org.epoch
  PROVE  \A k \in Nodes : WithinLag(k)' /\ KeepsEpoch(k)
<1> SUFFICES ASSUME NEW k \in Nodes PROVE WithinLag(k)' /\ KeepsEpoch(k)
  OBVIOUS
<1>0. /\ disk[k].org.epoch \in Nat /\ disk[n].org.epoch \in Nat
      /\ data.org.epoch \in Nat
  BY DEF TypeOK, StoreData, OrgRecord
<1>1. CASE k = n
  <2>1. mem'[n] = data /\ (disk'[n] = data \/ disk'[n] = disk[n])
    BY DEF Commit, TypeOK
  <2> QED
    BY <1>0, <1>1, <2>1 DEF WithinLag, BehindDisk, KeepsEpoch
<1>2. CASE k # n
  <2>1. mem'[k] = mem[k] /\ disk'[k] = disk[k]
    BY <1>2 DEF Commit, TypeOK
  <2> QED
    BY <1>0, <2>1 DEF WithinLag, BehindDisk, KeepsEpoch
<1> QED
  BY <1>1, <1>2

\* A step that touches no store.
LEMMA StoresUntouched ==
  ASSUME RollbackInv, [Next]_vars, UNCHANGED <<mem, disk>>
  PROVE  \A k \in Nodes : WithinLag(k)' /\ KeepsEpoch(k)
<1>1. Len(anchors') >= Len(anchors) /\ Len(anchors) \in Nat
  <2>1. anchors \in Seq(Members)
    BY DEF RollbackInv, TypeOK
  <2>2. \A root \in Members : Len(Append(anchors, root)) = Len(anchors) + 1
    BY <2>1
  <2> QED
    BY <2>1, <2>2, AnchorsGrow DEF RollbackInv
<1>2. \A k \in Nodes : disk[k].org.epoch \in Nat
  BY DEF RollbackInv, TypeOK, StoreData, OrgRecord
<1>3. Len(anchors') \in Nat
  BY TypeStep DEF RollbackInv, TypeOK
<1> QED
  BY <1>1, <1>2, <1>3 DEF RollbackInv, WithinLag, BehindDisk, KeepsEpoch

\* The epoch of a verified envelope is later than the record in memory, and the
\* lag bounds how far it lies behind the saved one.
LEMMA VerifiedWithinLag ==
  ASSUME RollbackInv, NEW n \in Nodes, NEW m \in sent,
         NEW e \in ReadableEpochs, VerifyEnvelope(mem[n].org, m, e)
  PROVE  /\ disk[n].org.held /\ e < disk[n].org.epoch =>
              disk[n].org.epoch < Len(anchors) /\ e + MaxLag > disk[n].org.epoch
         /\ disk[n].org.held /\ mem[n].org.held => disk[n].org.epoch < Len(anchors)
<1>1. /\ disk[n].org.epoch \in Nat /\ mem[n].org.epoch \in Nat
      /\ mem[n].org.held \in BOOLEAN /\ Len(anchors) \in Nat
  BY DEF RollbackInv, TypeOK, StoreData, OrgRecord
<1>2. e \in Nat /\ e <= Len(anchors) /\ e + MaxLag >= Len(anchors)
  BY <1>1 DEF ReadableEpochs
<1>3. e > mem[n].org.epoch
  BY DEF VerifyEnvelope
<1>4. WithinLag(n)
  BY DEF RollbackInv
<1> QED
  BY <1>1, <1>2, <1>3, <1>4, BoundsAssumption DEF WithinLag, BehindDisk

\* Every step keeps the stores within the lag and the disk from rolling back further.
LEMMA RollbackStores ==
  ASSUME RollbackInv, [Next]_vars
  PROVE  \A k \in Nodes : WithinLag(k)' /\ KeepsEpoch(k)
<1> DEFINE Goal == \A k \in Nodes : WithinLag(k)' /\ KeepsEpoch(k)
<1>0. TypeOK /\ (\A k \in Nodes : WithinLag(k)) /\ CallFromRecord
  BY DEF RollbackInv
<1> HIDE DEF Goal
<1>1. ASSUME UNCHANGED <<mem, disk>> PROVE Goal
  BY <1>1, StoresUntouched DEF Goal
<1>2. ASSUME CreateOrganisation \/ ExecuteExtrinsic \/ UNCHANGED vars PROVE Goal
  BY <1>1, <1>2 DEF CreateOrganisation, SubmitUpdate, ExecuteExtrinsic, vars
<1>3. ASSUME NEW n \in Nodes, AdmitMember(n) \/ RevokeMember(n) PROVE Goal
  BY <1>1, <1>3 DEF AdmitMember, RevokeMember, SubmitUpdate
<1>4. ASSUME NEW u \in op, PushFails(u) PROVE Goal
  BY <1>1, <1>4 DEF PushFails
<1>5. ASSUME NEW n \in Nodes, ImportInvite(n) PROVE Goal
  <2> DEFINE data == [mem[n] EXCEPT !.invite = TRUE]
  <2>1. data \in StoreData /\ data.org = mem[n].org
    BY <1>0 DEF TypeOK, StoreData
  <2>2. Commit(n, data) /\ anchors' = anchors
    BY <1>5 DEF ImportInvite
  <2>3. disk[n].org.held /\ (data.org.held => data.org.epoch < disk[n].org.epoch) =>
          /\ disk[n].org.epoch < Len(anchors)
          /\ data.org.held => data.org.epoch + MaxLag > disk[n].org.epoch
    BY <1>0, <2>1 DEF WithinLag, BehindDisk
  <2> HIDE DEF data
  <2> QED
    BY <1>0, <2>1, <2>2, <2>3, CommitAhead DEF Goal
<1>6. ASSUME NEW n \in Nodes, NEW from \in Nodes, NEW m \in sent,
             NEW e \in ReadableEpochs, ReceiveAndVerify(n, from, m, e)
      PROVE Goal
  <2>1. PICK data \in StoreData :
          Commit(n, data) /\ data.org = Record(m.target, e, m.seq)
    BY <1>0, <1>6, VerifyCommits
  <2>2. disk[n].org.held /\ (data.org.held => data.org.epoch < disk[n].org.epoch) =>
          /\ disk[n].org.epoch < Len(anchors)
          /\ data.org.held => data.org.epoch + MaxLag > disk[n].org.epoch
    BY <1>6, <2>1, VerifiedWithinLag DEF ReceiveAndVerify, Record
  <2>3. anchors' = anchors
    BY <1>6 DEF ReceiveAndVerify
  <2> QED
    BY <1>0, <2>1, <2>2, <2>3, CommitAhead DEF Goal
<1>7. ASSUME NEW n \in Nodes, NEW from \in Nodes, NEW m \in sent,
             NEW e \in ReadableEpochs, ReceiveAndSelfDelete(n, from, m, e)
      PROVE Goal
  <2>1. PICK data \in StoreData :
          Commit(n, data) /\ data.org \in {Record(m.target, e, m.seq), NoOrg}
    BY <1>0, <1>7, SelfDeleteCommits
  <2>2. /\ disk[n].org.held /\ e < disk[n].org.epoch =>
             disk[n].org.epoch < Len(anchors) /\ e + MaxLag > disk[n].org.epoch
        /\ disk[n].org.held => disk[n].org.epoch < Len(anchors)
    BY <1>7, VerifiedWithinLag DEF ReceiveAndSelfDelete
  <2>3. disk[n].org.held /\ (data.org.held => data.org.epoch < disk[n].org.epoch) =>
          /\ disk[n].org.epoch < Len(anchors)
          /\ data.org.held => data.org.epoch + MaxLag > disk[n].org.epoch
    BY <2>1, <2>2 DEF Record, NoOrg
  <2>4. anchors' = anchors
    BY <1>7 DEF ReceiveAndSelfDelete
  <2> QED
    BY <1>0, <2>1, <2>3, <2>4, CommitAhead DEF Goal
<1>8. ASSUME NEW n \in Nodes, Restart(n) PROVE Goal
  <2>1. anchors' = anchors /\ disk' = disk
    BY <1>8 DEF Restart
  <2>2. \A k \in Nodes : mem'[k] = IF k = n THEN disk[k] ELSE mem[k]
    BY <1>0, <1>8 DEF Restart, TypeOK
  <2>3. \A k \in Nodes : disk[k].org.epoch \in Nat
    BY <1>0 DEF TypeOK, StoreData, OrgRecord
  <2> QED
    BY <1>0, <2>1, <2>2, <2>3 DEF WithinLag, BehindDisk, KeepsEpoch, Goal
<1>9. ASSUME NEW u \in op, FinishGenesis(u) PROVE Goal
  <2> DEFINE data == [mem[Admin] EXCEPT !.org = Record(u.target, 1, 0),
                                        !.linked = TRUE, !.status = "Active"]
  <2>1. Record(u.target, 1, 0) \in OrgRecord
    BY <1>0, RecordType DEF TypeOK, Update
  <2>2. data \in StoreData
    BY <1>0, <2>1, NodesAssumption DEF TypeOK, StoreData
  <2>3. Commit(Admin, data) /\ anchors' = anchors /\ ~disk[Admin].org.held
    BY <1>0, <1>9 DEF FinishGenesis, CallFromRecord
  <2> HIDE DEF data
  <2> QED
    BY <1>0, <2>2, <2>3, CommitAhead, NodesAssumption DEF Goal
<1>10. ASSUME NEW u \in op, PushAndRecord(u) PROVE Goal
  <2> DEFINE data == [mem[Admin] EXCEPT
                        !.org = Record(u.target, u.expected_epoch + 1, u.seq)]
  <2>1. Record(u.target, u.expected_epoch + 1, u.seq) \in OrgRecord
    BY <1>0, RecordType DEF TypeOK, Update
  <2>2. /\ data \in StoreData
        /\ data.org = Record(u.target, u.expected_epoch + 1, u.seq)
    BY <1>0, <2>1, NodesAssumption DEF TypeOK, StoreData
  <2>3. Commit(Admin, data) /\ anchors' = anchors
    BY <1>10 DEF PushAndRecord
  <2>4. mem[Admin].org.held /\ u.expected_epoch = mem[Admin].org.epoch
    BY <1>0, <1>10 DEF PushAndRecord, CallFromRecord, TypeOK, Update
  <2>5. disk[Admin].org.epoch \in Nat /\ mem[Admin].org.epoch \in Nat
    BY <1>0, NodesAssumption DEF TypeOK, StoreData, OrgRecord
  <2>6. /\ WithinLag(Admin) /\ data.org.held
        /\ data.org.epoch = mem[Admin].org.epoch + 1
    BY <1>0, <2>2, <2>4, NodesAssumption DEF Record
  <2>7. /\ disk[Admin].org.held
        /\ data.org.held => data.org.epoch < disk[Admin].org.epoch
        =>
          /\ disk[Admin].org.epoch < Len(anchors)
          /\ data.org.held => data.org.epoch + MaxLag > disk[Admin].org.epoch
    <3>. HIDE DEF data
    <3>. QED  BY <2>4, <2>5, <2>6, BoundsAssumption DEF WithinLag, BehindDisk
  <2> HIDE DEF data
  <2> QED
    BY <1>0, <2>2, <2>3, <2>7, CommitAhead, NodesAssumption DEF Goal
<1>11. Goal
  BY <1>2, <1>3, <1>4, <1>5, <1>6, <1>7, <1>8, <1>9, <1>10 DEF Next, Receive
<1> QED
  BY <1>11 DEF Goal

\* Every step keeps the call in flight in line with the administrator's record.
LEMMA CallStep ==
  ASSUME RollbackInv, [Next]_vars
  PROVE  CallFromRecord'
<1>0. TypeOK /\ (\A k \in Nodes : WithinLag(k)) /\ CallFromRecord
  BY DEF RollbackInv
<1>1. ASSUME op' \subseteq op, mem'[Admin].org = mem[Admin].org,
             disk'[Admin] = disk[Admin]
      PROVE CallFromRecord'
  BY <1>0, <1>1 DEF CallFromRecord
<1>2. ASSUME op' = {} PROVE CallFromRecord'
  BY <1>2 DEF CallFromRecord
<1>3. CASE CreateOrganisation
  <2>1. ~disk[Admin].org.held
    <3>1. WithinLag(Admin) /\ ~mem[Admin].org.held /\ Len(anchors) = 0
      BY <1>0, <1>3, NodesAssumption DEF CreateOrganisation
    <3>2. disk[Admin].org.epoch \in Nat
      BY <1>0, NodesAssumption DEF TypeOK, StoreData, OrgRecord
    <3> QED
      BY <3>1, <3>2 DEF WithinLag, BehindDisk
  <2>2. disk' = disk /\ op' = {[expected_epoch |-> 0, seq |-> 0, to |-> Admin,
                                base |-> {}, target |-> {Admin}]}
    BY <1>3 DEF CreateOrganisation, SubmitUpdate
  <2> QED
    BY <2>1, <2>2 DEF CallFromRecord
<1>4. ASSUME NEW n \in Nodes, AdmitMember(n) \/ RevokeMember(n)
      PROVE CallFromRecord'
  <2>1. PICK target : op' = {NextUpdate(n, target)}
    BY <1>4 DEF AdmitMember, RevokeMember, SubmitUpdate
  <2>2. mem' = mem /\ mem[Admin].org.held
    BY <1>4 DEF AdmitMember, RevokeMember, SubmitUpdate
  <2>3. mem[Admin].org.last_seq \in Nat
    BY <1>0, NodesAssumption DEF TypeOK, StoreData, OrgRecord
  <2>4. /\ NextUpdate(n, target).seq # 0
        /\ NextUpdate(n, target).expected_epoch = mem[Admin].org.epoch
    BY <2>3 DEF NextUpdate
  <2> QED
    BY <2>1, <2>2, <2>4 DEF CallFromRecord
<1>5. ASSUME NEW n \in Nodes, ImportInvite(n) PROVE CallFromRecord'
  <2>1. op' = op /\ mem'[Admin] = mem[Admin] /\ disk'[Admin] = disk[Admin]
    BY <1>0, <1>5, NodesAssumption DEF ImportInvite, Commit, TypeOK
  <2> QED
    BY <1>1, <2>1
<1>6. ASSUME NEW n \in Nodes, Receive(n) PROVE CallFromRecord'
  <2>1. op' = op /\ (n = Admin => op = {}) /\ \E data : Commit(n, data)
    BY <1>6 DEF Receive, ReceiveAndVerify, ReceiveAndSelfDelete, Delivered
  <2>2. CASE n = Admin
    BY <1>2, <2>1, <2>2
  <2>3. CASE n # Admin
    <3>1. mem'[Admin] = mem[Admin] /\ disk'[Admin] = disk[Admin]
      BY <1>0, <2>1, <2>3, NodesAssumption DEF Commit, TypeOK
    <3> QED
      BY <1>1, <2>1, <3>1
  <2> QED
    BY <2>2, <2>3
<1>7. ASSUME NEW n \in Nodes, Restart(n) PROVE CallFromRecord'
  <2>1. CASE n = Admin
    BY <1>2, <1>7, <2>1 DEF Restart
  <2>2. CASE n # Admin
    <3>1. op' = op /\ mem'[Admin] = mem[Admin] /\ disk'[Admin] = disk[Admin]
      BY <1>0, <1>7, <2>2, NodesAssumption DEF Restart, TypeOK
    <3> QED
      BY <1>1, <3>1
  <2> QED
    BY <2>1, <2>2
<1>8. ASSUME NEW u \in op, FinishGenesis(u) \/ PushAndRecord(u) \/ PushFails(u)
      PROVE CallFromRecord'
  BY <1>2, <1>8 DEF FinishGenesis, PushAndRecord, PushFails
<1>9. CASE ExecuteExtrinsic \/ UNCHANGED vars
  BY <1>1, <1>9 DEF ExecuteExtrinsic, vars
<1> QED
  BY <1>3, <1>4, <1>5, <1>6, <1>7, <1>8, <1>9 DEF Next

\* Whatever the lag of the chain reads, no sequence of calls, failed saves,
\* restarts and repeated envelopes makes save() replace a record by one that is
\* older by the lag or more; with reads at most one epoch behind it never goes
\* back, not even for a node that lost the save of its self-deletion and joins
\* again from epoch 0.
THEOREM DiskMonotone == Spec => DiskNeverRollsBack
<1>1. Init => RollbackInv
  BY EmptyOpType, RecordType
     DEF Init, RollbackInv, TypeOK, StoreData, WithinLag, BehindDisk, CallFromRecord,
         NoOrg
<1>2. RollbackInv /\ [Next]_vars => RollbackInv'
  BY RollbackStores, CallStep, TypeStep DEF RollbackInv
<1>3. RollbackInv /\ [Next]_vars =>
        [\A n \in Nodes :
           disk[n].org.held /\ disk'[n].org.held =>
             \/ disk'[n].org.epoch >= disk[n].org.epoch
             \/ disk'[n].org.epoch + MaxLag > disk[n].org.epoch]_vars
  BY RollbackStores DEF KeepsEpoch
<1> QED
  BY <1>1, <1>2, <1>3, PTL DEF Spec, DiskNeverRollsBack

-----------------------------------------------------------------------------
(* The administrator's own record, with MockChainOps.                      *)

\* The update of the call in flight has run: its target is the root of the epoch
\* after the expected one.
OpAnchored ==
  \A u \in op : /\ Anchored(Record(u.target, u.expected_epoch + 1, u.seq))
                /\ u.seq = 0 => u.expected_epoch = 0

\* An update that MockChainOps accepted has become the last root.
LEMMA MockAnchors ==
  ASSUME TypeOK, ChainMode = "mock", NEW u \in Update, op = {}, SubmitUpdate(u),
         u.seq = 0 => u.expected_epoch = 0
  PROVE  /\ u.expected_epoch = Len(anchors)
         /\ anchors' = Append(anchors, u.target) /\ op' = {u}
         /\ OpAnchored'
<1>1. /\ u.expected_epoch = Len(anchors) /\ anchors' = Append(anchors, u.target)
      /\ op' = {u}
  BY DEF SubmitUpdate, MockSubmit
<1>2. anchors \in Seq(Members) /\ u.target \in Members
  BY DEF TypeOK, Update
<1>3. /\ Len(anchors) + 1 \in DOMAIN anchors'
      /\ anchors'[Len(anchors) + 1] = u.target
  BY <1>1, <1>2
<1>. QED  BY <1>1, <1>3 DEF OpAnchored, Anchored, Record

\* With MockChainOps every step keeps the administrator's record, in memory and
\* on disk, and the update of its call anchored.
LEMMA AdminStep ==
  ASSUME TypeOK, ChainMode = "mock", OpAnchored, AdminAnchored, [Next]_vars
  PROVE  OpAnchored' /\ AdminAnchored'
<1>. DEFINE Goal == OpAnchored' /\ AdminAnchored'
<1>0. /\ Admin \in Nodes
      /\ mem[Admin] \in StoreData /\ mem[Admin].org \in OrgRecord
      /\ disk[Admin] \in StoreData /\ disk[Admin].org \in OrgRecord
      /\ mem \in [Nodes -> StoreData] /\ disk \in [Nodes -> StoreData]
      /\ op \subseteq Update
  BY NodesAssumption DEF TypeOK, StoreData
<1>1. \A rec \in OrgRecord : Anchored(rec) => Anchored(rec)'
  BY AnchoredStays
<1>2. \A u \in op : Record(u.target, u.expected_epoch + 1, u.seq) \in OrgRecord
  BY <1>0, RecordType DEF Update
<1>3. ASSUME op' \subseteq op  PROVE OpAnchored'
  <2>1. ASSUME NEW u \in op'
        PROVE  /\ Anchored(Record(u.target, u.expected_epoch + 1, u.seq))'
               /\ u.seq = 0 => u.expected_epoch = 0
    BY <1>1, <1>2, <1>3, <2>1 DEF OpAnchored, Anchored
  <2>. QED  BY <2>1 DEF OpAnchored, Anchored, Record
<1>4. ASSUME mem'[Admin].org \in {mem[Admin].org, disk[Admin].org},
             disk'[Admin].org \in {mem[Admin].org, disk[Admin].org}
      PROVE  AdminAnchored'
  BY <1>0, <1>1, <1>4 DEF AdminAnchored, Anchored
<1>5. ASSUME NEW data \in StoreData, Commit(Admin, data), Anchored(data.org)
      PROVE  AdminAnchored'
  <2>1. mem'[Admin] = data /\ disk'[Admin] \in {disk[Admin], data}
    BY <1>0, <1>5 DEF Commit
  <2>2. data.org \in OrgRecord
    BY DEF StoreData
  <2>. QED  BY <1>0, <1>1, <1>5, <2>1, <2>2 DEF AdminAnchored, Anchored
<1>6. ASSUME NEW n \in Nodes, n # Admin, NEW data, Commit(n, data)
      PROVE  AdminAnchored'
  <2>1. mem'[Admin] = mem[Admin] /\ disk'[Admin] = disk[Admin]
    BY <1>0, <1>6 DEF Commit
  <2>. QED  BY <1>4, <2>1
<1>. HIDE DEF Goal
<1>7. ASSUME CreateOrganisation  PROVE Goal
  <2>. DEFINE u == [expected_epoch |-> 0, seq |-> 0, to |-> Admin,
                    base |-> {}, target |-> {Admin}]
  <2>1. u \in Update /\ (u.seq = 0 => u.expected_epoch = 0)
    BY <1>0 DEF Update, Members
  <2>2. op = {} /\ SubmitUpdate(u)
    BY <1>7 DEF CreateOrganisation
  <2>. HIDE DEF u
  <2>3. mem' = mem /\ disk' = disk
    BY <2>2 DEF SubmitUpdate
  <2>. QED  BY <1>4, <2>1, <2>2, <2>3, MockAnchors DEF Goal
<1>8. ASSUME NEW n \in Nodes, AdmitMember(n) \/ RevokeMember(n)  PROVE Goal
  <2>1. PICK target \in Members : op = {} /\ SubmitUpdate(NextUpdate(n, target))
    BY <1>0, <1>8 DEF AdmitMember, RevokeMember, StoreData, OrgRecord, Members
  <2>2. NextUpdate(n, target) \in Update
    BY NextUpdateType
  <2>3. NextUpdate(n, target).seq # 0
    BY <1>0 DEF NextUpdate, StoreData, OrgRecord
  <2>4. mem' = mem /\ disk' = disk
    BY <2>1 DEF SubmitUpdate
  <2>. QED  BY <1>4, <2>1, <2>2, <2>3, <2>4, MockAnchors DEF Goal
<1>9. ASSUME NEW n \in Nodes, ImportInvite(n)  PROVE Goal
  BY <1>3, <1>6, <1>9 DEF ImportInvite, Goal
<1>10. ASSUME NEW n \in Nodes, NEW from \in Nodes, NEW m \in sent,
              NEW e \in ReadableEpochs, ReceiveAndVerify(n, from, m, e)
       PROVE  Goal
  <2>1. op' = op
    BY <1>10 DEF ReceiveAndVerify
  <2>2. CASE n # Admin
    BY <1>3, <1>6, <1>10, <2>1, <2>2 DEF ReceiveAndVerify, Goal
  <2>3. CASE n = Admin
    <3>1. Anchored(Record(m.target, e, m.seq))
      BY <1>0, <1>10, <2>3, VerifiedIsAnchored DEF ReceiveAndVerify
    <3>. QED  BY <1>3, <1>5, <1>10, <2>1, <2>3, <3>1, VerifyCommits DEF Goal
  <2>. QED  BY <2>2, <2>3
<1>11. ASSUME NEW n \in Nodes, NEW from \in Nodes, NEW m \in sent,
              NEW e \in ReadableEpochs, ReceiveAndSelfDelete(n, from, m, e)
       PROVE  Goal
  <2>1. op' = op
    BY <1>11 DEF ReceiveAndSelfDelete
  <2>2. CASE n # Admin
    BY <1>3, <1>6, <1>11, <2>1, <2>2 DEF ReceiveAndSelfDelete, Goal
  <2>3. CASE n = Admin
    <3>1. Anchored(Record(m.target, e, m.seq)) /\ Anchored(NoOrg)
      BY <1>0, <1>11, <2>3, VerifiedIsAnchored
         DEF ReceiveAndSelfDelete, Anchored, NoOrg
    <3>2. PICK data \in StoreData :
            /\ Commit(Admin, data)
            /\ data.org \in {Record(m.target, e, m.seq), NoOrg}
      BY <1>11, <2>3, SelfDeleteCommits
    <3>. QED  BY <1>3, <1>5, <2>1, <3>1, <3>2 DEF Goal
  <2>. QED  BY <2>2, <2>3
<1>12. ASSUME NEW n \in Nodes, Restart(n)  PROVE Goal
  <2>1. /\ op' \subseteq op /\ disk' = disk
        /\ mem'[Admin] \in {mem[Admin], disk[Admin]}
    BY <1>0, <1>12 DEF Restart
  <2>. QED  BY <1>3, <1>4, <2>1 DEF Goal
<1>13. ASSUME NEW u \in op, FinishGenesis(u)  PROVE Goal
  <2>. DEFINE data == [mem[Admin] EXCEPT !.org = Record(u.target, 1, 0),
                                         !.linked = TRUE, !.status = "Active"]
  <2>1. Record(u.target, 1, 0) \in OrgRecord
    BY <1>0, RecordType DEF Update
  <2>2. data \in StoreData /\ data.org = Record(u.target, 1, 0)
    BY <1>0, <2>1 DEF StoreData
  <2>3. Commit(Admin, data) /\ op' \subseteq op /\ u.seq = 0
    BY <1>13 DEF FinishGenesis
  <2>4. Anchored(Record(u.target, 1, 0))
    BY <2>3 DEF OpAnchored, Anchored, Record
  <2>. HIDE DEF data
  <2>. QED  BY <1>3, <1>5, <2>2, <2>3, <2>4 DEF Goal
<1>14. ASSUME NEW u \in op, PushAndRecord(u)  PROVE Goal
  <2>. DEFINE rec == Record(u.target, u.expected_epoch + 1, u.seq)
              data == [mem[Admin] EXCEPT !.org = rec]
  <2>1. rec \in OrgRecord /\ Anchored(rec)
    BY <1>2 DEF OpAnchored
  <2>2. Commit(Admin, data) /\ op' \subseteq op
    BY <1>14 DEF PushAndRecord
  <2>. HIDE DEF rec
  <2>3. data \in StoreData /\ data.org = rec
    BY <1>0, <2>1 DEF StoreData
  <2>. HIDE DEF data
  <2>. QED  BY <1>3, <1>5, <2>1, <2>2, <2>3 DEF Goal
<1>15. ASSUME NEW u \in op, PushFails(u)  PROVE Goal
  BY <1>3, <1>4, <1>15 DEF PushFails, Goal
<1>16. ASSUME ExecuteExtrinsic \/ UNCHANGED vars  PROVE Goal
  BY <1>3, <1>4, <1>16 DEF ExecuteExtrinsic, vars, Goal
<1>17. Goal
  BY <1>7, <1>8, <1>9, <1>10, <1>11, <1>12, <1>13, <1>14, <1>15, <1>16
     DEF Next, Receive
<1>. QED  BY <1>17 DEF Goal

\* With MockChainOps the record that create_organisation, admit_member and
\* revoke_member write without reading it back is the contract's, whoever relays
\* envelopes to the administrator and whatever fails.
THEOREM AdminRecordAnchored ==
  ASSUME ChainMode = "mock" PROVE Spec => []AdminAnchored
<1>1. Init => TypeOK /\ OpAnchored /\ AdminAnchored
  BY EmptyOpType, RecordType, NodesAssumption
     DEF Init, TypeOK, StoreData, OpAnchored, AdminAnchored, Anchored, NoOrg
<1>2. TypeOK /\ OpAnchored /\ AdminAnchored /\ [Next]_vars
        => OpAnchored' /\ AdminAnchored'
  BY AdminStep
<1>. QED  BY <1>1, <1>2, TypeStep, PTL DEF Spec

-----------------------------------------------------------------------------
(* Sequence numbers and epochs.                                            *)

\* The administrator's record of epoch s + 1 numbers the next change s + 1.
SeqFollows ==
  \A data \in {mem[Admin], disk[Admin]} :
    data.org.held => data.org.epoch = data.org.last_seq + 1

\* Only the administrator writes envelopes, and it does not send them to itself.
NotToAdmin == \A m \in sent : m.to # Admin

\* Without relays the administrator is never handed an envelope.
LEMMA AdminReceivesNothing ==
  ASSUME NotToAdmin, Relays = {}
  PROVE  ~Receive(Admin)
BY DEF NotToAdmin, Receive, ReceiveAndVerify, ReceiveAndSelfDelete, Delivered

\* A root that is anchored at an epoch stays there.
LEMMA PlaceStays ==
  ASSUME TypeOK, [Next]_vars, NEW i \in DOMAIN anchors
  PROVE  i \in DOMAIN anchors' /\ anchors'[i] = anchors[i]
<1>1. anchors \in Seq(Members)
  BY DEF TypeOK
<1>2. \A root \in Members :
        i \in DOMAIN Append(anchors, root) /\ Append(anchors, root)[i] = anchors[i]
  BY <1>1
<1>. QED  BY <1>2, AnchorsGrow

\* The numbers of the changes, with the record the next number comes from.
NumberInv == SeqFollows /\ NotToAdmin /\ NumbersAreEpochs

\* Every step keeps the numbers: a change takes number and epoch from one record,
\* the record takes them back together, and only a receive call could part them.
LEMMA NumberStep ==
  ASSUME TypeOK, Relays = {}, NumberInv, [Next]_vars
  PROVE  NumberInv'
<1>. DEFINE Goal == NumberInv'
            Changes == sent \cup op \cup Range(pool)
<1>0. /\ Admin \in Nodes
      /\ mem[Admin] \in StoreData /\ disk[Admin] \in StoreData
      /\ mem \in [Nodes -> StoreData] /\ disk \in [Nodes -> StoreData]
      /\ op \subseteq Update /\ sent \subseteq Update /\ pool \in Seq(Update)
      /\ SeqFollows /\ NotToAdmin
      /\ \A m \in Changes : m.seq = m.expected_epoch
  BY NodesAssumption DEF TypeOK, NumberInv, NumbersAreEpochs
<1>1. ASSUME mem'[Admin].org \in {mem[Admin].org, disk[Admin].org},
             disk'[Admin].org \in {mem[Admin].org, disk[Admin].org}
      PROVE  SeqFollows'
  BY <1>0, <1>1 DEF SeqFollows
<1>2. ASSUME NEW data, Commit(Admin, data),
             data.org.held => data.org.epoch = data.org.last_seq + 1
      PROVE  SeqFollows'
  <2>1. mem'[Admin] = data /\ disk'[Admin] \in {disk[Admin], data}
    BY <1>0, <1>2 DEF Commit
  <2>. QED  BY <1>0, <1>2, <2>1 DEF SeqFollows
<1>3. ASSUME sent' \cup op' \cup Range(pool') \subseteq Changes
      PROVE  NumbersAreEpochs'
  BY <1>0, <1>3 DEF NumbersAreEpochs
<1>4. ASSUME NEW u \in Update, u.seq = u.expected_epoch, SubmitUpdate(u)
      PROVE  Goal
  <2>1. /\ op' = op \cup {u} /\ sent' = sent /\ mem' = mem /\ disk' = disk
        /\ pool' = pool \/ pool' = Append(pool, u)
    BY <1>4 DEF SubmitUpdate, MockSubmit, SubxtSubmit
  <2>2. Range(Append(pool, u)) \subseteq Range(pool) \cup {u}
    BY <1>0 DEF Range
  <2>3. sent' \cup op' \cup Range(pool') \subseteq Changes \cup {u}
    BY <2>1, <2>2
  <2>4. \A m \in sent' \cup op' \cup Range(pool') : m.seq = m.expected_epoch
    BY <1>0, <1>4, <2>3
  <2>. HIDE DEF Changes
  <2>5. NumbersAreEpochs' /\ SeqFollows' /\ NotToAdmin'
    BY <1>0, <1>1, <2>1, <2>4 DEF NumbersAreEpochs, NotToAdmin
  <2>. QED  BY <2>5 DEF NumberInv
<1>5. ASSUME NEW n \in Nodes, n # Admin, NEW data, Commit(n, data),
             UNCHANGED <<op, sent, pool>>
      PROVE  Goal
  <2>1. mem'[Admin] = mem[Admin] /\ disk'[Admin] = disk[Admin]
    BY <1>0, <1>5 DEF Commit
  <2>2. SeqFollows' /\ NumbersAreEpochs' /\ NotToAdmin'
    BY <1>0, <1>1, <1>3, <1>5, <2>1 DEF NotToAdmin
  <2>. QED  BY <2>2 DEF NumberInv
<1>. HIDE DEF Goal
<1>6. ASSUME CreateOrganisation  PROVE Goal
  <2>1. PICK u \in Update :
          /\ u = [expected_epoch |-> 0, seq |-> 0, to |-> Admin,
                  base |-> {}, target |-> {Admin}]
          /\ SubmitUpdate(u)
    BY <1>0, <1>6 DEF CreateOrganisation, Update, Members
  <2>. QED  BY <1>4, <2>1
<1>7. ASSUME NEW n \in Nodes, AdmitMember(n) \/ RevokeMember(n)  PROVE Goal
  <2>1. PICK target \in Members : SubmitUpdate(NextUpdate(n, target))
    BY <1>0, <1>7 DEF AdmitMember, RevokeMember, StoreData, OrgRecord, Members
  <2>2. mem[Admin].org.held /\ mem[Admin].org.epoch = mem[Admin].org.last_seq + 1
    BY <1>0, <1>7 DEF AdmitMember, RevokeMember, SeqFollows
  <2>3. NextUpdate(n, target) \in Update
    BY NextUpdateType
  <2>4. NextUpdate(n, target).seq = NextUpdate(n, target).expected_epoch
    BY <2>2 DEF NextUpdate
  <2>. QED  BY <1>4, <2>1, <2>3, <2>4
<1>8. ASSUME NEW n \in Nodes, ImportInvite(n)  PROVE Goal
  BY <1>5, <1>8 DEF ImportInvite
<1>9. ASSUME NEW n \in Nodes, Receive(n)  PROVE Goal
  <2>1. n # Admin
    BY <1>0, <1>9, AdminReceivesNothing
  <2>2. \E data : Commit(n, data) /\ UNCHANGED <<op, sent, pool>>
    BY <1>9 DEF Receive, ReceiveAndVerify, ReceiveAndSelfDelete
  <2>. QED  BY <1>5, <2>1, <2>2
<1>10. ASSUME NEW n \in Nodes, Restart(n)  PROVE Goal
  <2>1. /\ op' \subseteq op /\ sent' = sent /\ pool' = pool /\ disk' = disk
        /\ mem'[Admin] \in {mem[Admin], disk[Admin]}
    BY <1>0, <1>10 DEF Restart
  <2>2. SeqFollows' /\ NumbersAreEpochs' /\ NotToAdmin'
    BY <1>0, <1>1, <1>3, <2>1 DEF NotToAdmin
  <2>. QED  BY <2>2 DEF Goal, NumberInv
<1>11. ASSUME NEW u \in op, FinishGenesis(u)  PROVE Goal
  <2>. DEFINE data == [mem[Admin] EXCEPT !.org = Record(u.target, 1, 0),
                                         !.linked = TRUE, !.status = "Active"]
  <2>1. data.org = Record(u.target, 1, 0)
    BY <1>0 DEF StoreData
  <2>2. Commit(Admin, data) /\ op' = {} /\ sent' = sent /\ pool' = pool
    BY <1>11 DEF FinishGenesis
  <2>. HIDE DEF data
  <2>3. SeqFollows'
    BY <1>2, <2>1, <2>2 DEF Record
  <2>4. NumbersAreEpochs' /\ NotToAdmin'
    BY <1>0, <1>3, <2>2 DEF NotToAdmin
  <2>. QED  BY <2>3, <2>4 DEF Goal, NumberInv
<1>12. ASSUME NEW u \in op, PushAndRecord(u)  PROVE Goal
  <2>. DEFINE rec == Record(u.target, u.expected_epoch + 1, u.seq)
              data == [mem[Admin] EXCEPT !.org = rec]
  <2>1. data.org = rec
    BY <1>0 DEF StoreData
  <2>2. /\ Commit(Admin, data) /\ op' = {} /\ sent' = sent \cup {u} /\ pool' = pool
        /\ u.to # Admin
    BY <1>12 DEF PushAndRecord
  <2>. HIDE DEF data
  <2>3. SeqFollows'
    <3>1. u.seq = u.expected_epoch
      BY <1>0
    <3>2. rec.epoch = rec.last_seq + 1
      BY <3>1 DEF Record
    <3>. HIDE DEF rec
    <3>. QED  BY <1>2, <2>1, <2>2, <3>2
  <2>4. NumbersAreEpochs' /\ NotToAdmin'
    BY <1>0, <1>3, <2>2 DEF NotToAdmin
  <2>. QED  BY <2>3, <2>4 DEF Goal, NumberInv
<1>13. ASSUME NEW u \in op, PushFails(u)  PROVE Goal
  <2>1. /\ op' = {} /\ sent' \subseteq sent \cup {u} /\ pool' = pool
        /\ mem' = mem /\ disk' = disk
        /\ u.to # Admin \/ sent' = sent
    BY <1>13 DEF PushFails
  <2>2. SeqFollows' /\ NumbersAreEpochs' /\ NotToAdmin'
    BY <1>0, <1>1, <1>3, <2>1 DEF NotToAdmin
  <2>. QED  BY <2>2 DEF Goal, NumberInv
<1>14. ASSUME ExecuteExtrinsic  PROVE Goal
  <2>1. /\ op' = op /\ sent' = sent /\ mem' = mem /\ disk' = disk
        /\ pool # <<>> /\ pool' = Tail(pool)
    BY <1>14 DEF ExecuteExtrinsic
  <2>2. Range(pool') \subseteq Range(pool)
    BY <1>0, <2>1 DEF Range
  <2>3. SeqFollows' /\ NumbersAreEpochs' /\ NotToAdmin'
    BY <1>0, <1>1, <1>3, <2>1, <2>2 DEF NotToAdmin
  <2>. QED  BY <2>3 DEF Goal, NumberInv
<1>15. ASSUME UNCHANGED vars  PROVE Goal
  <2>1. op' = op /\ sent' = sent /\ mem' = mem /\ disk' = disk /\ pool' = pool
    BY <1>15 DEF vars
  <2>2. SeqFollows' /\ NumbersAreEpochs' /\ NotToAdmin'
    BY <1>0, <1>1, <1>3, <2>1 DEF NotToAdmin
  <2>. QED  BY <2>2 DEF Goal, NumberInv
<1>16. Goal
  BY <1>6, <1>7, <1>8, <1>9, <1>10, <1>11, <1>12, <1>13, <1>14, <1>15 DEF Next
<1>. QED  BY <1>16 DEF Goal

\* Where no node hands envelopes on, as no code path of org-node does, a change
\* carries as its sequence number the epoch it was submitted for, with either
\* implementation of ChainOps and whatever push, save or process failed: a number
\* that is used again is one whose epoch is tried again.
THEOREM NumbersFollowEpochs ==
  ASSUME Relays = {} PROVE Spec => []NumbersAreEpochs
<1>1. Init => TypeOK /\ NumberInv
  <2>. SUFFICES ASSUME Init PROVE TypeOK /\ NumberInv
    OBVIOUS
  <2>1. Range(pool) = {}
    BY DEF Init, Range
  <2>. QED
    BY <2>1, EmptyOpType, RecordType, NodesAssumption
       DEF Init, TypeOK, StoreData, NoOrg, NumberInv, SeqFollows, NotToAdmin,
           NumbersAreEpochs
<1>2. TypeOK /\ NumberInv /\ [Next]_vars => NumberInv'
  BY NumberStep
<1>3. NumberInv => NumbersAreEpochs
  BY DEF NumberInv
<1>. QED  BY <1>1, <1>2, <1>3, TypeStep, PTL DEF Spec

-----------------------------------------------------------------------------
(* The refinement of OrgHistory.                                           *)

Publishes ==
  \E root \in Members : /\ anchors # <<>> => root # anchors[Len(anchors)]
                        /\ anchors' = Append(anchors, root)

\* A step appends at most one root, and never the one that is current: with
\* SubxtChainOps the contract sees to it, with MockChainOps, which does not
\* compare roots, the administrator's record, which is current and of which
\* admit_member and revoke_member submit a proper change.
LEMMA PublishStep ==
  ASSUME TypeOK, ChainMode = "mock" => AdminAnchored, [Next]_vars
  PROVE  anchors' = anchors \/ Publishes
<1>0. anchors \in Seq(Members) /\ op \subseteq Update /\ Admin \in Nodes
  BY NodesAssumption DEF TypeOK
<1>1. ASSUME NEW u \in Update, SubmitUpdate(u),
             ChainMode = "mock" /\ u.expected_epoch = Len(anchors) /\ anchors # <<>>
               => u.target # anchors[Len(anchors)]
      PROVE  anchors' = anchors \/ Publishes
  <2>1. u.target \in Members
    BY DEF Update
  <2>. QED  BY <1>1, <2>1 DEF SubmitUpdate, MockSubmit, SubxtSubmit, Publishes
<1>2. CASE CreateOrganisation
  <2>1. [expected_epoch |-> 0, seq |-> 0, to |-> Admin,
         base |-> {}, target |-> {Admin}] \in Update
    BY <1>0 DEF Update, Members
  <2>. QED  BY <1>1, <1>2, <2>1 DEF CreateOrganisation
<1>3. ASSUME NEW n \in Nodes, AdmitMember(n) \/ RevokeMember(n)
      PROVE  anchors' = anchors \/ Publishes
  <2>. DEFINE rec == mem[Admin].org
  <2>1. rec.held /\ rec.trie_members \in Members
    BY <1>0, <1>3 DEF AdmitMember, RevokeMember, TypeOK, StoreData, OrgRecord
  <2>2. PICK target \in Members :
          target # rec.trie_members /\ SubmitUpdate(NextUpdate(n, target))
    <3>1. CASE AdmitMember(n)
      <4>1. /\ rec.trie_members \cup {n} \in Members
            /\ rec.trie_members \cup {n} # rec.trie_members
        BY <2>1, <3>1 DEF AdmitMember, Members
      <4>. QED  BY <3>1, <4>1 DEF AdmitMember
    <3>2. CASE RevokeMember(n)
      <4>1. /\ rec.trie_members \ {n} \in Members
            /\ rec.trie_members \ {n} # rec.trie_members
        BY <2>1, <3>2 DEF RevokeMember, Members
      <4>. QED  BY <3>2, <4>1 DEF RevokeMember
    <3>. QED  BY <1>3, <3>1, <3>2
  <2>3. NextUpdate(n, target) \in Update
    BY NextUpdateType
  <2>4. /\ NextUpdate(n, target).expected_epoch = rec.epoch
        /\ NextUpdate(n, target).target = target
    BY DEF NextUpdate
  <2>5. ChainMode = "mock" => rec.trie_members = anchors[rec.epoch]
    BY <2>1 DEF AdminAnchored, Anchored
  <2>. QED  BY <1>1, <2>2, <2>3, <2>4, <2>5
<1>4. CASE ExecuteExtrinsic
  <2>1. Head(pool) \in Update
    BY <1>4 DEF ExecuteExtrinsic, TypeOK
  <2>2. Head(pool).target \in Members
    BY <2>1 DEF Update
  <2>. QED  BY <1>4, <2>2 DEF ExecuteExtrinsic, Accepts, Publishes
<1>5. ASSUME NEW n \in Nodes, ImportInvite(n) \/ Receive(n) \/ Restart(n)
      PROVE  anchors' = anchors
  BY <1>5 DEF ImportInvite, Receive, ReceiveAndVerify, ReceiveAndSelfDelete, Restart
<1>6. ASSUME NEW u \in op, FinishGenesis(u) \/ PushAndRecord(u) \/ PushFails(u)
      PROVE  anchors' = anchors
  BY <1>6 DEF FinishGenesis, PushAndRecord, PushFails
<1>7. CASE UNCHANGED vars
  BY <1>7 DEF vars
<1>. QED  BY <1>2, <1>3, <1>4, <1>5, <1>6, <1>7 DEF Next

\* The nodes implement the registry's promise: with either implementation of
\* ChainOps the roots of the organisation are an append-only history in which
\* consecutive roots differ.
THEOREM NodesImplementHistory == Spec => AnchorsAreHistory
<1>. DEFINE Told == [a \in {Admin} |-> anchors]
            AdminInv == ChainMode = "mock" => OpAnchored /\ AdminAnchored
<1>1. Init => TypeOK /\ AdminInv
  BY EmptyOpType, RecordType, NodesAssumption
     DEF Init, TypeOK, StoreData, OpAnchored, AdminAnchored, Anchored, NoOrg
<1>2. TypeOK /\ AdminInv /\ [Next]_vars => AdminInv'
  BY AdminStep
<1>3. Init => History!Init
  BY DEF Init, History!Init
<1>4. TypeOK /\ AdminInv /\ [Next]_vars => [History!Next]_Told
  <2>. SUFFICES ASSUME TypeOK, AdminInv, [Next]_vars, anchors' # anchors
                PROVE  History!Next
    OBVIOUS
  <2>1. PICK root \in Members :
          /\ anchors # <<>> => root # anchors[Len(anchors)]
          /\ anchors' = Append(anchors, root)
    BY PublishStep DEF Publishes
  <2>2. Told' = [Told EXCEPT ![Admin] = Append(@, root)] /\ Told[Admin] = anchors
    BY <2>1
  <2>. QED  BY <2>1, <2>2 DEF History!Next, History!Publish
<1>. HIDE DEF AdminInv
<1>. QED  BY <1>1, <1>2, <1>3, <1>4, TypeStep, PTL DEF Spec, AnchorsAreHistory, History!Spec

-----------------------------------------------------------------------------
(* Records are deleted only on revocation.                                 *)

\* A later root than the saved one does not list n.
RevokedSince(n) ==
  \E e \in DOMAIN anchors : e > disk[n].org.epoch /\ n \notin anchors[e]

\* The memory of n knows of every link that was saved; where it lies behind the
\* record that is still saved, it has dropped that record, and n was revoked.
DropInv(n) ==
  /\ disk[n].linked => mem[n].linked
  /\ disk[n].linked /\ BehindDisk(n) => RevokedSince(n)

DeletesOnlyIfRevoked(n) ==
  disk[n].org.held /\ disk[n].linked /\ ~disk'[n].org.held => RevokedSince(n)

\* Saving data that keeps the link, and falls behind the saved record or drops it
\* only when n was revoked.
LEMMA CommitDrops ==
  ASSUME TypeOK, NEW n \in Nodes, NEW data \in StoreData, Commit(n, data),
         anchors' = anchors, \A k \in Nodes : DropInv(k),
         mem[n].linked => data.linked,
         /\ disk[n].org.held /\ disk[n].linked
         /\ data.org.held => data.org.epoch < disk[n].org.epoch
         => RevokedSince(n)
  PROVE  \A k \in Nodes : DropInv(k)' /\ DeletesOnlyIfRevoked(k)
<1>. SUFFICES ASSUME NEW k \in Nodes  PROVE DropInv(k)' /\ DeletesOnlyIfRevoked(k)
  OBVIOUS
<1>1. CASE k = n
  <2>1. mem'[n] = data /\ (disk'[n] = data \/ disk'[n] = disk[n])
    BY DEF Commit, TypeOK
  <2>2. data.org.epoch \in Nat
    BY DEF StoreData, OrgRecord
  <2>. QED  BY <2>2, <1>1, <2>1 DEF DropInv, BehindDisk, DeletesOnlyIfRevoked, RevokedSince
<1>2. CASE k # n
  <2>1. mem'[k] = mem[k] /\ disk'[k] = disk[k]
    BY <1>2 DEF Commit, TypeOK
  <2>. QED  BY <2>1 DEF DropInv, BehindDisk, DeletesOnlyIfRevoked, RevokedSince
<1>. QED  BY <1>1, <1>2

\* Every step keeps the memory's links and deletes saved records only so.
LEMMA DropStep ==
  ASSUME RollbackInv, \A k \in Nodes : DropInv(k), [Next]_vars
  PROVE  \A k \in Nodes : DropInv(k)' /\ DeletesOnlyIfRevoked(k)
<1>. DEFINE Goal == \A k \in Nodes : DropInv(k)' /\ DeletesOnlyIfRevoked(k)
<1>0. /\ TypeOK /\ Admin \in Nodes
      /\ \A k \in Nodes : mem[k] \in StoreData /\ disk[k] \in StoreData
      /\ \A k \in Nodes : disk[k].org.epoch \in Nat /\ mem[k].org.epoch \in Nat
  BY NodesAssumption DEF RollbackInv, TypeOK, StoreData, OrgRecord
<1>1. ASSUME NEW k \in Nodes, RevokedSince(k), disk'[k] = disk[k]
      PROVE  RevokedSince(k)'
  <2>1. PICK e \in DOMAIN anchors : e > disk[k].org.epoch /\ k \notin anchors[e]
    BY <1>1 DEF RevokedSince
  <2>2. e \in DOMAIN anchors' /\ anchors'[e] = anchors[e]
    BY <1>0, PlaceStays
  <2>. QED  BY <1>1, <2>1, <2>2 DEF RevokedSince
<1>2. ASSUME disk' = disk, \A k \in Nodes : mem'[k] \in {mem[k], disk[k]}
      PROVE  Goal
  <2>1. ASSUME NEW k \in Nodes  PROVE DropInv(k)' /\ DeletesOnlyIfRevoked(k)
    BY <1>0, <1>1, <1>2 DEF DropInv, BehindDisk, DeletesOnlyIfRevoked
  <2>. QED  BY <2>1
<1>. HIDE DEF Goal
<1>3. ASSUME CreateOrganisation \/ ExecuteExtrinsic \/ UNCHANGED vars  PROVE Goal
  BY <1>2, <1>3 DEF CreateOrganisation, SubmitUpdate, ExecuteExtrinsic, vars
<1>4. ASSUME NEW n \in Nodes, AdmitMember(n) \/ RevokeMember(n)  PROVE Goal
  BY <1>2, <1>4 DEF AdmitMember, RevokeMember, SubmitUpdate
<1>5. ASSUME NEW u \in op, PushFails(u)  PROVE Goal
  BY <1>2, <1>5 DEF PushFails
<1>6. ASSUME NEW n \in Nodes, Restart(n)  PROVE Goal
  <2>1. disk' = disk /\ \A k \in Nodes : mem'[k] \in {mem[k], disk[k]}
    BY <1>0, <1>6 DEF Restart, TypeOK
  <2>. QED  BY <1>2, <2>1
<1>7. ASSUME NEW n \in Nodes, ImportInvite(n)  PROVE Goal
  <2>. DEFINE data == [mem[n] EXCEPT !.invite = TRUE]
  <2>1. data \in StoreData /\ data.org = mem[n].org /\ data.linked = mem[n].linked
    BY <1>0 DEF StoreData
  <2>2. Commit(n, data) /\ anchors' = anchors
    BY <1>7 DEF ImportInvite
  <2>. HIDE DEF data
  <2>3. /\ disk[n].org.held /\ disk[n].linked
        /\ data.org.held => data.org.epoch < disk[n].org.epoch
        => RevokedSince(n)
    BY <2>1 DEF DropInv, BehindDisk
  <2>. QED  BY <1>0, <2>1, <2>2, <2>3, CommitDrops DEF Goal
<1>8. ASSUME NEW n \in Nodes, NEW from \in Nodes, NEW m \in sent,
             NEW e \in ReadableEpochs, ReceiveAndVerify(n, from, m, e)
      PROVE  Goal
  <2>. DEFINE rec == Record(m.target, e, m.seq)
              mine == n \in m.target /\ n # Admin
              data == [org    |-> rec,
                       linked |-> mem[n].linked \/ mine,
                       status |-> IF mine THEN "Active" ELSE mem[n].status,
                       invite |-> mem[n].invite /\ ~(~mem[n].org.held)]
  <2>1. rec \in OrgRecord /\ rec.held /\ rec.epoch = e
    BY <1>0, RecordType DEF TypeOK, Update, ReadableEpochs, Record
  <2>2. Commit(n, data) /\ anchors' = anchors /\ e > mem[n].org.epoch /\ e \in Nat
    BY <1>8 DEF ReceiveAndVerify, VerifyEnvelope, ReadableEpochs
  <2>. HIDE DEF rec
  <2>3. data \in StoreData /\ data.org = rec /\ (mem[n].linked => data.linked)
    BY <1>0, <2>1 DEF StoreData
  <2>. HIDE DEF data
  <2>4. /\ disk[n].org.held /\ disk[n].linked
        /\ data.org.held => data.org.epoch < disk[n].org.epoch
        => RevokedSince(n)
    BY <1>0, <2>1, <2>2, <2>3 DEF DropInv, BehindDisk
  <2>. QED  BY <1>0, <2>2, <2>3, <2>4, CommitDrops DEF Goal
<1>9. ASSUME NEW n \in Nodes, NEW from \in Nodes, NEW m \in sent,
             NEW e \in ReadableEpochs, ReceiveAndSelfDelete(n, from, m, e)
      PROVE  Goal
  <2>. DEFINE rec == Record(m.target, e, m.seq)
              updated == [mem[n] EXCEPT !.org = rec]
              deleted == [mem[n] EXCEPT !.org = NoOrg,
                                        !.status = IF mem[n].linked THEN "Revoked"
                                                   ELSE @]
  <2>1. /\ rec \in OrgRecord /\ rec.held /\ rec.epoch = e /\ e \in Nat
        /\ NoOrg \in OrgRecord
    BY <1>0, RecordType DEF TypeOK, Update, ReadableEpochs, Record
  <2>2. /\ anchors' = anchors /\ VerifyEnvelope(mem[n].org, m, e) /\ mem[n].org.held
        /\ \/ Commit(n, updated)
           \/ Commit(n, deleted) /\ ~(mem[n].linked /\ n \in m.target)
    BY <1>9 DEF ReceiveAndSelfDelete
  <2>. HIDE DEF rec
  <2>3. /\ updated \in StoreData /\ updated.org = rec
        /\ updated.linked = mem[n].linked
        /\ deleted \in StoreData /\ deleted.linked = mem[n].linked
    BY <1>0, <2>1 DEF StoreData
  <2>. HIDE DEF updated, deleted
  <2>4. CASE Commit(n, updated)
    <3>1. /\ disk[n].org.held /\ disk[n].linked
          /\ updated.org.held => updated.org.epoch < disk[n].org.epoch
          => RevokedSince(n)
      BY <1>0, <2>1, <2>2, <2>3 DEF VerifyEnvelope, DropInv, BehindDisk
    <3>. QED  BY <1>0, <2>2, <2>3, <2>4, <3>1, CommitDrops DEF Goal
  <2>5. CASE Commit(n, deleted) /\ ~(mem[n].linked /\ n \in m.target)
    <3>1. ASSUME disk[n].org.held, disk[n].linked  PROVE RevokedSince(n)
      <4>1. n \notin m.target
        BY <2>5, <3>1 DEF DropInv
      <4>2. e > mem[n].org.epoch /\ anchors[e] = m.target
        BY <2>2 DEF VerifyEnvelope
      <4>3. e \in Nat /\ e \in DOMAIN anchors
        BY <1>0 DEF ReadableEpochs, TypeOK
      <4>4. CASE BehindDisk(n)
        BY <3>1, <4>4 DEF DropInv
      <4>5. CASE ~BehindDisk(n)
        <5>1. disk[n].org.epoch <= mem[n].org.epoch
          BY <1>0, <2>2, <3>1, <4>5 DEF BehindDisk
        <5>. QED  BY <1>0, <4>1, <4>2, <4>3, <5>1 DEF RevokedSince
      <4>. QED  BY <4>4, <4>5
    <3>. QED  BY <1>0, <2>2, <2>3, <2>5, <3>1, CommitDrops DEF Goal
  <2>. QED  BY <2>2, <2>4, <2>5
<1>10. ASSUME NEW u \in op, FinishGenesis(u)  PROVE Goal
  <2>. DEFINE rec == Record(u.target, 1, 0)
              data == [mem[Admin] EXCEPT !.org = rec, !.linked = TRUE,
                                         !.status = "Active"]
  <2>1. rec \in OrgRecord /\ rec.held
    BY <1>0, RecordType DEF TypeOK, Update, Record
  <2>2. Commit(Admin, data) /\ anchors' = anchors /\ ~disk[Admin].org.held
    BY <1>10 DEF FinishGenesis, RollbackInv, CallFromRecord
  <2>. HIDE DEF rec
  <2>3. data \in StoreData /\ data.org = rec /\ data.linked
    BY <1>0, <2>1 DEF StoreData
  <2>. HIDE DEF data
  <2>. QED  BY <1>0, <2>1, <2>2, <2>3, CommitDrops DEF Goal
<1>11. ASSUME NEW u \in op, PushAndRecord(u)  PROVE Goal
  <2>. DEFINE rec == Record(u.target, u.expected_epoch + 1, u.seq)
              data == [mem[Admin] EXCEPT !.org = rec]
  <2>0. u.target \in Members /\ u.expected_epoch + 1 \in Nat /\ u.seq \in Nat
    BY <1>0 DEF TypeOK, Update
  <2>1. rec \in OrgRecord /\ rec.held /\ rec.epoch = u.expected_epoch + 1
    BY <2>0, RecordType DEF Record
  <2>2. /\ Commit(Admin, data) /\ anchors' = anchors
        /\ mem[Admin].org.held /\ u.expected_epoch = mem[Admin].org.epoch
    BY <1>0, <1>11 DEF PushAndRecord, RollbackInv, CallFromRecord, TypeOK, Update
  <2>. HIDE DEF rec
  <2>3. data \in StoreData /\ data.org = rec /\ data.linked = mem[Admin].linked
    BY <1>0, <2>1 DEF StoreData
  <2>. HIDE DEF data
  <2>4. /\ disk[Admin].org.held /\ disk[Admin].linked
        /\ data.org.held => data.org.epoch < disk[Admin].org.epoch
        => RevokedSince(Admin)
    BY <1>0, <2>1, <2>2, <2>3 DEF DropInv, BehindDisk
  <2>. QED  BY <1>0, <2>2, <2>3, <2>4, CommitDrops DEF Goal
<1>12. Goal
  BY <1>3, <1>4, <1>5, <1>6, <1>7, <1>8, <1>9, <1>10, <1>11 DEF Next, Receive
<1>. QED  BY <1>12 DEF Goal

\* Whatever the lag of the chain reads, the saved record of a linked persona is
\* deleted only if the node was revoked since, even where the deletion was decided
\* by one call, whose save failed, and saved by another.
THEOREM DeletionsAreRevocations == Spec => DeletedOnlyIfRevoked
<1>. DEFINE Drops == \A k \in Nodes : DropInv(k)
<1>1. Init => RollbackInv /\ Drops
  BY EmptyOpType, RecordType
     DEF Init, RollbackInv, TypeOK, StoreData, WithinLag, BehindDisk, CallFromRecord,
         NoOrg, DropInv
<1>2. RollbackInv /\ [Next]_vars => RollbackInv'
  BY RollbackStores, CallStep, TypeStep DEF RollbackInv
<1>3. RollbackInv /\ Drops /\ [Next]_vars => Drops'
  BY DropStep
<1>4. RollbackInv /\ Drops /\ [Next]_vars =>
        [\A n \in Nodes :
           disk[n].org.held /\ disk[n].linked /\ ~disk'[n].org.held =>
             \E e \in DOMAIN anchors :
               e > disk[n].org.epoch /\ n \notin anchors[e]]_vars
  BY DropStep DEF DeletesOnlyIfRevoked, RevokedSince
<1>. HIDE DEF Drops
<1>. QED  BY <1>1, <1>2, <1>3, <1>4, PTL DEF Spec, DeletedOnlyIfRevoked
=============================================================================
