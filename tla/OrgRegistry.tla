---------------------------- MODULE OrgRegistry ----------------------------
(***************************************************************************)
(* The OrgRegistry contract (on-chain/src/OrgRegistry.sol) and the calls   *)
(* that wait to be executed by it.  The calldata of update(root, key,      *)
(* expectedEpoch) is built from whatever the caller has: org-node passes   *)
(* the epoch of its own saved record and never reads the contract first,   *)
(* so a call may carry a past, the current or a future epoch.  Calls of    *)
(* one account (retries, the other signers of the multisig) run in any     *)
(* order, and a call that runs once is gone.                               *)
(***************************************************************************)
EXTENDS Integers, Sequences, FiniteSets

CONSTANTS
  Admins,     \* msg.sender: the pure-proxy account of an organisation
  Roots,      \* non-zero root hashes
  PubKeys,    \* non-zero organisation keys
  Zero,       \* bytes32(0)
  MaxCalls    \* bound on the calls submitted and on the epochs they expect

ASSUME ZeroAssumption == Zero \notin Roots /\ Zero \notin PubKeys

ASSUME MaxCallsAssumption == MaxCalls \in Nat

VARIABLES
  orgs,       \* mapping(address => OrgState)
  logs,       \* logs[a]: the events emitted for a, in block order
  mempool,    \* submitted calls that have not run yet
  submitted,  \* number of calls submitted so far
  taken       \* history: the calls that took effect

vars == <<orgs, logs, mempool, submitted, taken>>

OrgState == [rootHash  : Roots \cup {Zero},
             orgPubKey : PubKeys \cup {Zero},
             epoch     : Nat]

\* GenesisInitialized carries no epoch and no previous root: it stands for
\* epoch 1 after nothing.
Event == [name         : {"GenesisInitialized", "RootUpdated"},
          epoch        : Nat,
          rootHash     : Roots,
          orgPubKey    : PubKeys,
          prevRootHash : Roots \cup {Zero}]

\* A call; id tells two calls with the same calldata apart.
Call == [id            : Nat,
         sender        : Admins,
         newRootHash   : Roots \cup {Zero},
         newOrgPubKey  : PubKeys \cup {Zero},
         expectedEpoch : Nat]

Init ==
  /\ orgs = [a \in Admins |->
               [rootHash |-> Zero, orgPubKey |-> Zero, epoch |-> 0]]
  /\ logs = [a \in Admins |-> <<>>]
  /\ mempool = {}
  /\ submitted = 0
  /\ taken = {}

-----------------------------------------------------------------------------
(* update(newRootHash, newOrgPubKey, expectedEpoch)                        *)

\* Mutant: zero values are let through.
UpdateVerdict_AllowsZero(s, c) ==
  IF c.expectedEpoch # s.epoch THEN "EpochMismatch"
  ELSE IF s.epoch = 0 THEN "Genesis"
  ELSE IF c.newRootHash = s.rootHash /\ c.newOrgPubKey = s.orgPubKey
       THEN "NoOpUpdate"
  ELSE "Update"

\* Mutant: the expected epoch is not compared.
UpdateVerdict_AnyEpoch(s, c) ==
  IF c.newRootHash = Zero \/ c.newOrgPubKey = Zero THEN "ZeroValue"
  ELSE IF s.epoch = 0 THEN "Genesis"
  ELSE IF c.newRootHash = s.rootHash /\ c.newOrgPubKey = s.orgPubKey
       THEN "NoOpUpdate"
  ELSE "Update"

\* Mutant: an update may repeat the stored version.
UpdateVerdict_AllowsNoOp(s, c) ==
  IF c.newRootHash = Zero \/ c.newOrgPubKey = Zero THEN "ZeroValue"
  ELSE IF c.expectedEpoch # s.epoch THEN "EpochMismatch"
  ELSE IF s.epoch = 0 THEN "Genesis"
  ELSE "Update"

UpdateVerdict(s, c) ==
  IF c.newRootHash = Zero \/ c.newOrgPubKey = Zero THEN "ZeroValue"
  ELSE IF c.expectedEpoch # s.epoch THEN "EpochMismatch"
  ELSE IF s.epoch = 0 THEN "Genesis"
  ELSE IF c.newRootHash = s.rootHash /\ c.newOrgPubKey = s.orgPubKey
       THEN "NoOpUpdate"
  ELSE "Update"

\* The storage after a call that does not revert.
Store(s, c) ==
  [rootHash  |-> c.newRootHash,
   orgPubKey |-> c.newOrgPubKey,
   epoch     |-> IF s.epoch = 0 THEN 1 ELSE s.epoch + 1]

\* Mutant: RootUpdated names the new root as the previous one.
Emit_NewAsPrevious(s, c) ==
  [name |-> IF s.epoch = 0 THEN "GenesisInitialized" ELSE "RootUpdated",
   epoch |-> s.epoch + 1,
   rootHash |-> c.newRootHash, orgPubKey |-> c.newOrgPubKey,
   prevRootHash |-> IF s.epoch = 0 THEN Zero ELSE c.newRootHash]

Emit(s, c) ==
  IF s.epoch = 0
  THEN [name |-> "GenesisInitialized", epoch |-> 1,
        rootHash |-> c.newRootHash, orgPubKey |-> c.newOrgPubKey,
        prevRootHash |-> Zero]
  ELSE [name |-> "RootUpdated", epoch |-> s.epoch + 1,
        rootHash |-> c.newRootHash, orgPubKey |-> c.newOrgPubKey,
        prevRootHash |-> s.rootHash]

-----------------------------------------------------------------------------

\* Calldata is built from the caller's arguments alone.
Submit(a, root, key, epoch) ==
  /\ submitted < MaxCalls
  /\ submitted' = submitted + 1
  /\ mempool' = mempool \cup
       {[id |-> submitted, sender |-> a, newRootHash |-> root,
         newOrgPubKey |-> key, expectedEpoch |-> epoch]}
  /\ UNCHANGED <<orgs, logs, taken>>

Execute(c) ==
  LET s == orgs[c.sender]
  IN /\ UpdateVerdict(s, c) \in {"Genesis", "Update"}
     /\ orgs' = [orgs EXCEPT ![c.sender] = Store(s, c)]
     /\ logs' = [logs EXCEPT ![c.sender] = Append(@, Emit(s, c))]
     /\ mempool' = mempool \ {c}
     /\ taken' = taken \cup {c}
     /\ UNCHANGED submitted

\* A reverted call leaves no trace in the contract.
Revert(c) ==
  /\ UpdateVerdict(orgs[c.sender], c) \notin {"Genesis", "Update"}
  /\ mempool' = mempool \ {c}
  /\ UNCHANGED <<orgs, logs, submitted, taken>>

Next ==
  \/ \E a \in Admins, root \in Roots \cup {Zero}, key \in PubKeys \cup {Zero},
        epoch \in 0 .. MaxCalls - 1 : Submit(a, root, key, epoch)
  \/ \E c \in mempool : Execute(c) \/ Revert(c)

Spec == Init /\ [][Next]_vars

-----------------------------------------------------------------------------
(* Properties.                                                             *)

\* Storage, events and calls have the shape of the Solidity types.
TypeOK ==
  /\ orgs \in [Admins -> OrgState]
  /\ logs \in [Admins -> Seq(Event)]
  /\ mempool \subseteq Call
  /\ submitted \in Nat
  /\ taken \subseteq Call

\* An observer that replays the events of an organisation ends with its storage:
\* one event per epoch, numbered without gaps, each naming the root before it,
\* the last one naming what is stored now.
LogsReplayToStorage ==
  \A a \in Admins :
    LET log == logs[a]
        s == orgs[a]
    IN /\ s.epoch = Len(log)
       /\ \A n \in 1 .. Len(log) :
            /\ log[n].epoch = n
            /\ (log[n].name = "GenesisInitialized") <=> (n = 1)
            /\ log[n].prevRootHash = IF n = 1 THEN Zero ELSE log[n - 1].rootHash
       /\ s.rootHash = IF log = <<>> THEN Zero ELSE log[Len(log)].rootHash
       /\ s.orgPubKey = IF log = <<>> THEN Zero ELSE log[Len(log)].orgPubKey

\* expectedEpoch is a compare-and-set however the callers came by it: of all the
\* calls of one account that carry the same epoch at most one takes effect, calls
\* take effect in the order of their epochs and leave none out, and the version of
\* an epoch is what the call that expected the epoch before it asked for.
OneCallPerEpoch ==
  /\ \A c, d \in taken :
       c.sender = d.sender /\ c.expectedEpoch = d.expectedEpoch => c = d
  /\ \A c \in taken :
       LET log == logs[c.sender]
           n == c.expectedEpoch + 1
       IN /\ n \in DOMAIN log
          /\ log[n].rootHash = c.newRootHash /\ log[n].orgPubKey = c.newOrgPubKey
  /\ \A a \in Admins : \A n \in DOMAIN logs[a] :
       \E c \in taken : c.sender = a /\ c.expectedEpoch = n - 1

\* The contract implements the linear history: the versions are the events.
History == INSTANCE OrgHistory WITH
  Versions <- Roots \X PubKeys,
  history <- [a \in Admins |->
                [n \in 1 .. Len(logs[a]) |->
                   <<logs[a][n].rootHash, logs[a][n].orgPubKey>>]]

\* Every behaviour of the contract is one of OrgHistory: versions are only ever
\* appended, one at a time, and never repeat the version before them.
ImplementsHistory == History!Spec
=============================================================================
