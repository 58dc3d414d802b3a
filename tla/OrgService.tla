----------------------------- MODULE OrgService -----------------------------
(***************************************************************************)
(* One organisation, as the nodes of org-node run it: the administrator's  *)
(* OrgService submits a new root to the chain, pushes a signed envelope to *)
(* the member concerned and then updates its own record; a member commits  *)
(* a received envelope only after verify_envelope_against_chain.  The      *)
(* calls are interleaved with block production, lost and repeated          *)
(* envelopes, failing saves and restarts.                                  *)
(*                                                                         *)
(* Every node has one persona, so its leaf never changes and a root is the *)
(* set of the nodes it lists (modules OrgMembers and OrgTrieSync have the  *)
(* leaves).  Envelopes are signed by the administrator; a signature check  *)
(* that fails is a message that never arrived.                             *)
(***************************************************************************)
EXTENDS Integers, Sequences, FiniteSets, Functions

CONSTANTS
  Nodes,
  Admin,       \* the node that created the organisation
  Relays,      \* nodes that hand envelopes they hold to any other node
  ChainMode,   \* "mock": MockChainOps, "subxt": SubxtChainOps
  Receivers,   \* the receive calls that nodes run: "verify", "self_delete"
  MaxLag,      \* how many epochs a chain read may lie behind
  MaxEpochs,   \* bound on the number of calls of the administrator
  MaxFaults    \* bound on failed sends, failed saves and restarts

ASSUME NodesAssumption == Admin \in Nodes /\ Relays \subseteq Nodes

ASSUME ModeAssumption ==
  /\ ChainMode \in {"mock", "subxt"}
  /\ Receivers \subseteq {"verify", "self_delete"}

ASSUME BoundsAssumption ==
  MaxLag \in Nat /\ MaxEpochs \in Nat /\ MaxFaults \in Nat

VARIABLES
  anchors,   \* the roots the contract accepted: anchors[e] is epoch e's
  pool,      \* extrinsics submitted and not yet executed, in nonce order
  op,        \* the administrator's call between submit_update and its return
  sent,      \* the envelopes that reached the network
  mem,       \* mem[n]: the StoreData of n in memory
  disk,      \* disk[n]: the StoreData of n as last saved
  calls,     \* number of calls of the administrator so far
  faults     \* number of faults so far

vars == <<anchors, pool, op, sent, mem, disk, calls, faults>>

Members == SUBSET Nodes

\* A change of the organisation: the extrinsic, and the WireMessage that
\* carries it (delta from base to target, snapshot of base, parent_seq).
Update == [expected_epoch : Nat, seq : Nat, to : Nodes,
           base : Members, target : Members]

OrgRecord == [held : BOOLEAN, trie_members : Members,
              epoch : Nat, last_seq : Nat]

\* No record: what receive_and_verify starts from on a first admission.
NoOrg == [held |-> FALSE, trie_members |-> {}, epoch |-> 0, last_seq |-> 0]

Record(members, epoch, seq) ==
  [held |-> TRUE, trie_members |-> members, epoch |-> epoch, last_seq |-> seq]

\* The persona's org_id is Some(org) when linked is true.
StoreData == [org    : OrgRecord,
              linked : BOOLEAN,
              status : {"Proposed", "Active", "Revoked"},
              invite : BOOLEAN]

Init ==
  /\ anchors = <<>>
  /\ pool = <<>>
  /\ op = {}
  /\ sent = {}
  /\ mem = [n \in Nodes |-> [org |-> NoOrg, linked |-> FALSE,
                             status |-> "Proposed", invite |-> FALSE]]
  /\ disk = mem
  /\ calls = 0
  /\ faults = 0

-----------------------------------------------------------------------------
(* PersonaStore.  Every operation ends with save(), which may fail: the    *)
(* memory is then ahead of the disk and the call returns an error.         *)

Commit(n, data) ==
  /\ mem' = [mem EXCEPT ![n] = data]
  /\ \/ disk' = [disk EXCEPT ![n] = data] /\ UNCHANGED faults
     \/ faults < MaxFaults /\ faults' = faults + 1 /\ UNCHANGED disk

-----------------------------------------------------------------------------
(* The chain, as OrgService sees it through ChainOps.                      *)

\* Mutant: the contract stores whatever it is sent.
Accepts_Always(chain, u) == TRUE

\* The compare-and-set of OrgRegistry.update.
Accepts(chain, u) ==
  /\ u.expected_epoch = Len(chain)
  /\ chain # <<>> => u.target # chain[Len(chain)]

\* MockChainOps runs the update before it returns and fails on a stale epoch.
MockSubmit(u) ==
  /\ u.expected_epoch = Len(anchors)
  /\ anchors' = Append(anchors, u.target)
  /\ UNCHANGED pool

\* SubxtChainOps hands the extrinsic to the pool and returns Ok after the next
\* finalised block or a timeout, whatever became of the extrinsic.
SubxtSubmit(u) == pool' = Append(pool, u) /\ UNCHANGED anchors

\* submit_genesis / submit_update, the first half of the administrator's calls.
SubmitUpdate(u) ==
  /\ calls < MaxEpochs
  /\ calls' = calls + 1
  /\ op' = op \cup {u}
  /\ \/ ChainMode = "mock" /\ MockSubmit(u)
     \/ ChainMode = "subxt" /\ SubxtSubmit(u)
  /\ UNCHANGED <<sent, mem, disk, faults>>

\* A block executes the next extrinsic; a reverted update changes nothing.
ExecuteExtrinsic ==
  /\ pool # <<>>
  /\ pool' = Tail(pool)
  /\ anchors' = IF Accepts(anchors, Head(pool))
                THEN Append(anchors, Head(pool).target)
                ELSE anchors
  /\ UNCHANGED <<op, sent, mem, disk, calls, faults>>

\* read_state: the reader's node may lag behind the head.
ReadableEpochs == {e \in 1 .. Len(anchors) : e + MaxLag >= Len(anchors)}

-----------------------------------------------------------------------------
(* The administrator.                                                      *)

CreateOrganisation ==
  /\ op = {} /\ pool = <<>> /\ anchors = <<>>
  /\ ~mem[Admin].org.held
  /\ SubmitUpdate([expected_epoch |-> 0, seq |-> 0, to |-> Admin,
                   base |-> {}, target |-> {Admin}])

\* The rest of create_organisation: push the OrgRecord, link the persona, save.
FinishGenesis(u) ==
  /\ u.seq = 0
  /\ Commit(Admin, [mem[Admin] EXCEPT !.org = Record(u.target, 1, 0),
                                      !.linked = TRUE, !.status = "Active"])
  /\ op' = {}
  /\ UNCHANGED <<anchors, pool, sent, calls>>

\* What admit_member and revoke_member submit, from the administrator's record.
NextUpdate(n, target) ==
  LET rec == mem[Admin].org
  IN [expected_epoch |-> rec.epoch, seq |-> rec.last_seq + 1, to |-> n,
      base |-> rec.trie_members, target |-> target]

\* Mutant: a second call starts before the first has returned.
AdmitMember_Unlocked(n) ==
  LET rec == mem[Admin].org
  IN /\ rec.held
     /\ n \notin rec.trie_members
     /\ SubmitUpdate(NextUpdate(n, rec.trie_members \cup {n}))

AdmitMember(n) ==
  LET rec == mem[Admin].org
  IN /\ op = {} /\ rec.held
     /\ n \notin rec.trie_members
     /\ SubmitUpdate(NextUpdate(n, rec.trie_members \cup {n}))

RevokeMember(n) ==
  LET rec == mem[Admin].org
  IN /\ op = {} /\ rec.held
     /\ n \in rec.trie_members
     /\ SubmitUpdate(NextUpdate(n, rec.trie_members \ {n}))

\* Mutant: the record keeps the epoch it had.
PushAndRecord_OldEpoch(u) ==
  /\ u.seq > 0
  /\ u.to # Admin
  /\ sent' = sent \cup {u}
  /\ Commit(Admin, [mem[Admin] EXCEPT
                      !.org = Record(u.target, u.expected_epoch, u.seq)])
  /\ op' = {}
  /\ UNCHANGED <<anchors, pool, calls>>

\* Mutant: the record keeps the sequence number it had.
PushAndRecord_OldSeq(u) ==
  /\ u.seq > 0
  /\ u.to # Admin
  /\ sent' = sent \cup {u}
  /\ Commit(Admin, [mem[Admin] EXCEPT
                      !.org = Record(u.target, u.expected_epoch + 1, @.last_seq)])
  /\ op' = {}
  /\ UNCHANGED <<anchors, pool, calls>>

\* The rest of admit_member and revoke_member when the push succeeds: the
\* record moves to the submitted root and the next epoch, and is saved.
PushAndRecord(u) ==
  /\ u.seq > 0
  /\ u.to # Admin              \* an endpoint cannot dial itself
  /\ sent' = sent \cup {u}
  /\ Commit(Admin, [mem[Admin] EXCEPT
                      !.org = Record(u.target, u.expected_epoch + 1, u.seq)])
  /\ op' = {}
  /\ UNCHANGED <<anchors, pool, calls>>

\* The dial or the stream fails, or settle() did: the call returns before the
\* record is updated.  The peer may or may not have read the message.
PushFails(u) ==
  /\ u.seq > 0
  /\ \/ /\ u.to = Admin
        /\ UNCHANGED <<sent, faults>>
     \/ /\ u.to # Admin
        /\ faults < MaxFaults
        /\ faults' = faults + 1
        /\ sent' \in {sent, sent \cup {u}}
  /\ op' = {}
  /\ UNCHANGED <<anchors, pool, mem, disk, calls>>

-----------------------------------------------------------------------------
(* Members.                                                                *)

\* export_invite by the administrator, import_invite by the member.
ImportInvite(n) ==
  /\ n # Admin
  /\ mem[Admin].org.held
  /\ ~mem[n].invite
  /\ Commit(n, [mem[n] EXCEPT !.invite = TRUE])
  /\ UNCHANGED <<anchors, pool, op, sent, calls>>

\* recv_one: `from' is the authenticated sender.
Delivered(n, from, m) ==
  /\ m \in sent
  /\ (from = Admin /\ n = m.to) \/ from \in Relays
  /\ n = Admin => op = {}       \* the service is locked during a call

\* Mutant: the recomputed root is not compared with the chain's.
VerifyEnvelope_NoRootCheck(rec, m, e) ==
  /\ m.seq > rec.last_seq
  /\ rec.held => m.base = rec.trie_members
  /\ e > rec.epoch

\* Mutant: the epoch read may be one already committed.
VerifyEnvelope_AnyEpoch(rec, m, e) ==
  /\ m.seq > rec.last_seq
  /\ rec.held => m.base = rec.trie_members
  /\ anchors[e] = m.target



\* verify_envelope_against_chain, with the chain state read at epoch e.
VerifyEnvelope(rec, m, e) ==
  /\ m.seq > rec.last_seq
  /\ rec.held => m.base = rec.trie_members
  /\ e > rec.epoch
  /\ anchors[e] = m.target

ReceiveAndVerify(n, from, m, e) ==
  LET data == mem[n]
      first == ~data.org.held
      mine == n \in m.target /\ n # Admin
  IN /\ "verify" \in Receivers
     /\ Delivered(n, from, m)
     /\ first /\ data.invite => from = Admin
     /\ VerifyEnvelope(data.org, m, e)
     /\ ~first => from \in m.target
     /\ Commit(n, [org    |-> Record(m.target, e, m.seq),
                   linked |-> data.linked \/ mine,
                   status |-> IF mine THEN "Active" ELSE data.status,
                   invite |-> data.invite /\ ~first])
     /\ UNCHANGED <<anchors, pool, op, sent, calls>>

ReceiveAndSelfDelete(n, from, m, e) ==
  LET data == mem[n]
      present == data.linked /\ n \in m.target
  IN /\ "self_delete" \in Receivers
     /\ Delivered(n, from, m)
     /\ data.org.held
     /\ VerifyEnvelope(data.org, m, e)
     /\ Commit(n, IF present
                  THEN [data EXCEPT !.org = Record(m.target, e, m.seq)]
                  ELSE [data EXCEPT !.org = NoOrg,
                                    !.status = IF data.linked THEN "Revoked"
                                               ELSE @])
     /\ UNCHANGED <<anchors, pool, op, sent, calls>>

\* The process ends and PersonaStore::open reads the saved data again.
Restart(n) ==
  /\ faults < MaxFaults
  /\ faults' = faults + 1
  /\ mem' = [mem EXCEPT ![n] = disk[n]]
  /\ op' = IF n = Admin THEN {} ELSE op
  /\ UNCHANGED <<anchors, pool, sent, disk, calls>>

-----------------------------------------------------------------------------

Receive(n) ==
  \E from \in Nodes, m \in sent, e \in ReadableEpochs :
    \/ ReceiveAndVerify(n, from, m, e)
    \/ ReceiveAndSelfDelete(n, from, m, e)

Next ==
  \/ CreateOrganisation
  \/ \E n \in Nodes :
       \/ AdmitMember(n)
       \/ RevokeMember(n)
       \/ ImportInvite(n)
       \/ Receive(n)
       \/ Restart(n)
  \/ \E u \in op : FinishGenesis(u) \/ PushAndRecord(u) \/ PushFails(u)
  \/ ExecuteExtrinsic

Spec == Init /\ [][Next]_vars

\* Every node keeps its receiver running, the chain produces blocks and a call
\* that was started returns.
Fairness ==
  /\ \A n \in Nodes : WF_vars(Receive(n))
  /\ WF_vars(ExecuteExtrinsic)
  /\ WF_vars(\E u \in op : FinishGenesis(u) \/ PushAndRecord(u) \/ PushFails(u))

FairSpec == Spec /\ Fairness

-----------------------------------------------------------------------------
(* Properties.                                                             *)

\* The chain, the envelopes and the stores have the shape of their types.
TypeOK ==
  /\ anchors \in Seq(Members)
  /\ pool \in Seq(Update)
  /\ op \subseteq Update /\ IsFiniteSet(op) /\ Cardinality(op) <= 1
  /\ sent \subseteq Update
  /\ mem \in [Nodes -> StoreData]
  /\ disk \in [Nodes -> StoreData]
  /\ calls \in Nat /\ faults \in Nat

Anchored(rec) ==
  rec.held => /\ rec.epoch \in DOMAIN anchors
              /\ rec.trie_members = anchors[rec.epoch]

\* The one property of org-node: the view a member holds, in memory or on disk,
\* is the root the contract accepted at the epoch the member recorded.  It does
\* not depend on who delivered the envelopes, how often or in which order, on
\* lagging chain reads, failed saves and restarts, nor on what became of the
\* administrator's own calls.
RecordsAnchored ==
  \A n \in Nodes \ {Admin} : Anchored(mem[n].org) /\ Anchored(disk[n].org)

\* The administrator's record is anchored too, although admit_member and
\* revoke_member write the submitted root and expected_epoch + 1 without reading
\* them back: with MockChainOps the update has run when the call goes on.
AdminAnchored == Anchored(mem[Admin].org) /\ Anchored(disk[Admin].org)

\* SubxtChainOps.submit_update says that it waits until the update is finalized,
\* and the design that an epoch mismatch is never swallowed: a record that is not
\* anchored would be one whose update is about to run.
AdminRecordSettles ==
  (~Anchored(mem[Admin].org)) ~> Anchored(mem[Admin].org)

\* The design calls parent_seq monotonic, but admit_member and revoke_member take it
\* from the record, which they update only after the push: a push that fails after
\* the peer has read the message makes the next call sign another change with the
\* same number.  A number never parts, however, from the epoch that the change was
\* submitted for, whatever was pushed in vain, reverted, lost by a save or read
\* again after a restart.  So of all changes with one number the contract accepts
\* at most one.
NumbersAreEpochs ==
  \A m \in sent \cup op \cup Range(pool) : m.seq = m.expected_epoch

\* A saved record is replaced by one of an earlier epoch only where a chain read
\* lies so far behind, even when the save that removed the record was lost and the
\* organisation is joined again: with reads at most one epoch behind it never is.
DiskNeverRollsBack ==
  [][\A n \in Nodes :
       disk[n].org.held /\ disk'[n].org.held =>
         \/ disk'[n].org.epoch >= disk[n].org.epoch
         \/ disk'[n].org.epoch + MaxLag > disk[n].org.epoch]_vars

\* The contract's history, seen from the nodes.
History == INSTANCE OrgHistory WITH
  Admins <- {Admin}, Versions <- Members, history <- [a \in {Admin} |-> anchors]

\* Whatever the nodes do, the organisation's roots are an append-only history
\* without repetitions: no call of the administrator anchors the root that is
\* already current.
AnchorsAreHistory == History!Spec

\* The saved record of a linked persona is deleted only when a root of a later
\* epoch does not list the node, although the deletion is decided on a delta, a
\* chain read that may lag and a persona's link, and a save that failed is made
\* up for by a later call.  (A record without a linked persona is deleted on any
\* envelope that verifies.)
DeletedOnlyIfRevoked ==
  [][\A n \in Nodes :
       disk[n].org.held /\ disk[n].linked /\ ~disk'[n].org.held =>
         \E e \in DOMAIN anchors : e > disk[n].org.epoch /\ n \notin anchors[e]]_vars

\* m carries the latest change; its root alone would not tell, since a root recurs.
Current(m) ==
  /\ anchors # <<>> /\ m.target = anchors[Len(anchors)]
  /\ m.expected_epoch + 1 = Len(anchors)

\* n was admitted by the latest change and holds no record of the organisation.
AwaitsAdmission(n) ==
  /\ ~mem[n].org.held
  /\ \E m \in sent : m.to = n /\ n \in m.target /\ Current(m)


\* The latest change revokes n, was pushed to it, and fits the record n holds.
AwaitsRevocation(n) ==
  /\ mem[n].org.held
  /\ \E m \in sent : /\ m.to = n /\ n \notin m.target /\ Current(m)
                     /\ m.base = mem[n].org.trie_members

=============================================================================
