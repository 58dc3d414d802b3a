------------------------- MODULE OrgRegistryProofs -------------------------
(***************************************************************************)
(* Proofs about OrgRegistry, for any set of organisations, roots and keys  *)
(* and any number of calls: the type invariant, the agreement of events    *)
(* and storage, the compare-and-set on the epoch as the history of the     *)
(* calls that took effect shows it, and the refinement of OrgHistory.      *)
(***************************************************************************)
EXTENDS OrgRegistry, TLAPS

\* What a call that does not revert stores and emits has its type.
LEMMA CallTypes ==
  ASSUME NEW s \in OrgState, NEW c \in Call,
         UpdateVerdict(s, c) \in {"Genesis", "Update"}
  PROVE  /\ Store(s, c) \in OrgState
         /\ Emit(s, c) \in Event
         /\ c.newRootHash \in Roots /\ c.newOrgPubKey \in PubKeys
         /\ c.expectedEpoch = s.epoch
         /\ Store(s, c).epoch = s.epoch + 1
<1>1. c.newRootHash \in Roots /\ c.newOrgPubKey \in PubKeys
  BY DEF UpdateVerdict, Call
<1>2. s.epoch \in Nat /\ s.rootHash \in Roots \cup {Zero}
  BY DEF OrgState
<1>3. s.epoch # 0 => s.rootHash \in Roots \cup {Zero}
  BY <1>2
<1>4. Emit(s, c) \in Event
  BY <1>1, <1>2 DEF Emit, Event
<1>5. Store(s, c) \in OrgState /\ Store(s, c).epoch = s.epoch + 1
  BY <1>1, <1>2 DEF Store, OrgState
<1>6. c.expectedEpoch = s.epoch
  BY DEF UpdateVerdict
<1> QED
  BY <1>1, <1>4, <1>5, <1>6

\* Storage, events and calls have the shape of the Solidity types: update never
\* lets a zero root or key through.
THEOREM TypeCorrect == Spec => []TypeOK
<1>1. Init => TypeOK
  <2> SUFFICES ASSUME Init PROVE TypeOK
    OBVIOUS
  <2>1. [rootHash |-> Zero, orgPubKey |-> Zero, epoch |-> 0] \in OrgState
    BY DEF OrgState
  <2> QED
    BY <2>1 DEF Init, TypeOK
<1>2. TypeOK /\ [Next]_vars => TypeOK'
  <2> SUFFICES ASSUME TypeOK, [Next]_vars PROVE TypeOK'
    OBVIOUS
  <2>1. ASSUME NEW a \in Admins, NEW root \in Roots \cup {Zero},
               NEW key \in PubKeys \cup {Zero}, NEW epoch \in 0 .. MaxCalls - 1,
               Submit(a, root, key, epoch)
        PROVE  TypeOK'
    <3>1. epoch \in Nat
      BY MaxCallsAssumption
    <3>2. [id |-> submitted, sender |-> a, newRootHash |-> root,
           newOrgPubKey |-> key, expectedEpoch |-> epoch] \in Call
      BY <3>1 DEF TypeOK, Call
    <3> QED
      BY <2>1, <3>2 DEF TypeOK, Submit
  <2>2. ASSUME NEW c \in mempool, Execute(c)
        PROVE  TypeOK'
    <3>1. c \in Call /\ c.sender \in Admins /\ orgs[c.sender] \in OrgState
      BY DEF TypeOK, Call
    <3>2. /\ Store(orgs[c.sender], c) \in OrgState
          /\ Emit(orgs[c.sender], c) \in Event
      BY <2>2, <3>1, CallTypes DEF Execute
    <3>3. orgs' \in [Admins -> OrgState]
      BY <2>2, <3>1, <3>2 DEF Execute, TypeOK
    <3>4. logs' \in [Admins -> Seq(Event)]
      <4>1. logs[c.sender] \in Seq(Event)
        BY <3>1 DEF TypeOK
      <4>2. Append(logs[c.sender], Emit(orgs[c.sender], c)) \in Seq(Event)
        BY <3>2, <4>1
      <4> QED
        BY <2>2, <4>2 DEF Execute, TypeOK
    <3> QED
      BY <2>2, <3>3, <3>4 DEF Execute, TypeOK
  <2>3. ASSUME NEW c \in mempool, Revert(c)
        PROVE  TypeOK'
    BY <2>3 DEF Revert, TypeOK
  <2>4. CASE UNCHANGED vars
    BY <2>4 DEF vars, TypeOK
  <2> QED
    BY <2>1, <2>2, <2>3, <2>4 DEF Next
<1> QED
  BY <1>1, <1>2, PTL DEF Spec

-----------------------------------------------------------------------------
(* Events and storage.                                                     *)

\* The part of LogsReplayToStorage about one organisation.
Replays(log, s) ==
  /\ s.epoch = Len(log)
  /\ \A n \in 1 .. Len(log) :
       /\ log[n].epoch = n
       /\ (log[n].name = "GenesisInitialized") <=> (n = 1)
       /\ log[n].prevRootHash = IF n = 1 THEN Zero ELSE log[n - 1].rootHash
  /\ s.rootHash = IF log = <<>> THEN Zero ELSE log[Len(log)].rootHash
  /\ s.orgPubKey = IF log = <<>> THEN Zero ELSE log[Len(log)].orgPubKey

\* Replays says of one organisation what LogsReplayToStorage says of all.
LEMMA ReplaysIsProperty ==
  LogsReplayToStorage <=> \A a \in Admins : Replays(logs[a], orgs[a])
BY DEF LogsReplayToStorage, Replays

\* One accepted call appends the event that says what it stored.
LEMMA ReplayStep ==
  ASSUME NEW s \in OrgState, NEW c \in Call, NEW log \in Seq(Event),
         UpdateVerdict(s, c) \in {"Genesis", "Update"}, Replays(log, s)
  PROVE  Replays(Append(log, Emit(s, c)), Store(s, c))
<1> DEFINE new == Append(log, Emit(s, c))
<1>1. Emit(s, c) \in Event
  BY CallTypes
<1>2. /\ new \in Seq(Event) /\ Len(new) = Len(log) + 1 /\ new # <<>>
      /\ \A n \in 1 .. Len(log) : new[n] = log[n]
      /\ new[Len(log) + 1] = Emit(s, c)
  BY <1>1
<1>3. s.epoch = Len(log) /\ Len(log) \in Nat
  BY DEF Replays
<1>4. Store(s, c).epoch = Len(new)
  BY <1>2, <1>3, CallTypes
<1>5. /\ Store(s, c).rootHash = new[Len(new)].rootHash
      /\ Store(s, c).orgPubKey = new[Len(new)].orgPubKey
  BY <1>2 DEF Store, Emit
<1>6. ASSUME NEW n \in 1 .. Len(new)
      PROVE  /\ new[n].epoch = n
             /\ (new[n].name = "GenesisInitialized") <=> (n = 1)
             /\ new[n].prevRootHash = IF n = 1 THEN Zero ELSE new[n - 1].rootHash
  <2>1. CASE n \in 1 .. Len(log)
    <3>1. n # 1 => n - 1 \in 1 .. Len(log)
      BY <2>1, <1>3
    <3>2. new[n] = log[n] /\ (n # 1 => new[n - 1] = log[n - 1])
      BY <2>1, <3>1, <1>2
    <3> QED
      BY <2>1, <3>2 DEF Replays
  <2>2. CASE n = Len(log) + 1
    <3>1. new[n] = Emit(s, c)
      BY <2>2, <1>2
    <3>2. CASE s.epoch = 0
      BY <3>1, <3>2, <2>2, <1>3 DEF Emit
    <3>3. CASE s.epoch # 0
      <4>1. n # 1 /\ n - 1 = Len(log) /\ Len(log) \in 1 .. Len(log)
        BY <3>3, <2>2, <1>3
      <4>2. new[n - 1] = log[Len(log)]
        BY <4>1, <1>2
      <4>3. log # <<>>
        BY <4>1, <1>3, <3>3
      <4>4. s.rootHash = new[n - 1].rootHash
        BY <4>2, <4>3 DEF Replays
      <4> QED
        BY <3>1, <3>3, <4>1, <4>4, <2>2, <1>3 DEF Emit
    <3> QED
      BY <3>2, <3>3
  <2> QED
    BY <2>1, <2>2, <1>2, <1>3
<1> QED
  BY <1>2, <1>4, <1>5, <1>6 DEF Replays

\* An observer that replays the events of an organisation always ends with its
\* storage: what on-chain-client's subscription relies on.
THEOREM LogsReplay == Spec => []LogsReplayToStorage
<1>1. Init => LogsReplayToStorage
  <2> SUFFICES ASSUME Init, NEW a \in Admins PROVE Replays(logs[a], orgs[a])
    BY ReplaysIsProperty
  <2>1. /\ logs[a] = <<>>
        /\ orgs[a] = [rootHash |-> Zero, orgPubKey |-> Zero, epoch |-> 0]
    BY DEF Init
  <2> QED
    BY <2>1 DEF Replays
<1>2. TypeOK /\ LogsReplayToStorage /\ [Next]_vars => LogsReplayToStorage'
  <2> SUFFICES ASSUME TypeOK, LogsReplayToStorage, [Next]_vars
               PROVE  \A a \in Admins : Replays(logs'[a], orgs'[a])
    BY DEF LogsReplayToStorage, Replays
  <2>1. \A a \in Admins : Replays(logs[a], orgs[a])
    BY ReplaysIsProperty
  <2>2. ASSUME NEW c \in mempool, Execute(c), NEW a \in Admins
        PROVE  Replays(logs'[a], orgs'[a])
    <3>1. CASE a = c.sender
      <4>1. c \in Call /\ orgs[a] \in OrgState /\ logs[a] \in Seq(Event)
        BY DEF TypeOK
      <4>2. Replays(Append(logs[a], Emit(orgs[a], c)), Store(orgs[a], c))
        BY <4>1, <2>1, <2>2, <3>1, ReplayStep DEF Execute
      <4>3. /\ logs'[a] = Append(logs[a], Emit(orgs[a], c))
            /\ orgs'[a] = Store(orgs[a], c)
        BY <2>2, <3>1 DEF Execute, TypeOK
      <4> QED
        BY <4>2, <4>3
    <3>2. CASE a # c.sender
      <4>1. logs'[a] = logs[a] /\ orgs'[a] = orgs[a]
        BY <2>2, <3>2 DEF Execute, TypeOK
      <4> QED
        BY <4>1, <2>1
    <3> QED
      BY <3>1, <3>2
  <2>3. CASE UNCHANGED <<orgs, logs>>
    BY <2>1, <2>3
  <2> QED
    BY <2>2, <2>3 DEF Next, Submit, Revert, vars
<1> QED
  BY <1>1, <1>2, TypeCorrect, PTL DEF Spec

-----------------------------------------------------------------------------
(* The compare-and-set.                                                    *)

\* What a call that took effect left in the log of its account.
Kept(c) ==
  LET log == logs[c.sender]
      n == c.expectedEpoch + 1
  IN /\ n \in DOMAIN log
     /\ log[n].rootHash = c.newRootHash /\ log[n].orgPubKey = c.newOrgPubKey

\* A call that takes effect expects the epoch that is stored, which is the length
\* of the log and so later than every epoch a call expected before it: the log
\* keeps what the older ones wrote, and the new one writes the next entry.
LEMMA TakenStep ==
  ASSUME TypeOK, LogsReplayToStorage, OneCallPerEpoch, [Next]_vars
  PROVE  OneCallPerEpoch'
<1>1. ASSUME NEW c \in mempool, Execute(c)
      PROVE  OneCallPerEpoch'
  <2>. DEFINE a == c.sender
              s == orgs[a]
              log == logs[a]
              e == Emit(s, c)
              new == Append(log, e)
  <2>1. c \in Call /\ a \in Admins /\ s \in OrgState /\ log \in Seq(Event)
    BY DEF TypeOK, Call
  <2>2. UpdateVerdict(s, c) \in {"Genesis", "Update"}
    BY <1>1 DEF Execute
  <2>3. c.expectedEpoch = Len(log) /\ Len(log) \in Nat /\ e \in Event
    BY <2>1, <2>2, CallTypes DEF LogsReplayToStorage
  <2>4. e.rootHash = c.newRootHash /\ e.orgPubKey = c.newOrgPubKey
    BY DEF Emit
  <2>. HIDE DEF e
  <2>5. /\ DOMAIN log = 1 .. Len(log) /\ DOMAIN new = 1 .. Len(log) + 1
        /\ \A n \in 1 .. Len(log) : new[n] = log[n]
        /\ new[Len(log) + 1] = e
    BY <2>1, <2>3
  <2>6. logs' = [logs EXCEPT ![a] = new] /\ taken' = taken \cup {c}
    BY <1>1 DEF Execute, e
  <2>. HIDE DEF new
  <2>7. logs'[a] = new /\ \A b \in Admins : b # a => logs'[b] = logs[b]
    BY <2>1, <2>6 DEF TypeOK
  <2>8. \A d \in taken : /\ d.sender \in Admins /\ d.expectedEpoch \in Nat
                         /\ d.expectedEpoch + 1 \in DOMAIN logs[d.sender]
    BY DEF TypeOK, Call, OneCallPerEpoch
  <2>9. \A d \in taken : d.sender = a => d.expectedEpoch < c.expectedEpoch
    BY <2>3, <2>5, <2>8
  <2>10. ASSUME NEW d \in taken', NEW f \in taken',
                d.sender = f.sender, d.expectedEpoch = f.expectedEpoch
         PROVE  d = f
    <3>1. CASE d \in taken /\ f \in taken
      BY <3>1, <2>10 DEF OneCallPerEpoch
    <3>2. CASE d = c \/ f = c
      <4>1. d \in taken \/ d = c
        BY <2>6
      <4>2. f \in taken \/ f = c
        BY <2>6
      <4>3. c.expectedEpoch \in Nat
        BY <2>3
      <4>. QED  BY <3>2, <4>1, <4>2, <4>3, <2>8, <2>9, <2>10
    <3>. QED  BY <3>1, <3>2, <2>6
  <2>11. ASSUME NEW d \in taken'
         PROVE  Kept(d)'
    <3>1. CASE d = c
      BY <3>1, <2>3, <2>4, <2>5, <2>7 DEF Kept
    <3>2. CASE d \in taken /\ d.sender = a
      <4>1. d.expectedEpoch + 1 \in 1 .. Len(log)
        BY <3>2, <2>5, <2>8
      <4>2. /\ log[d.expectedEpoch + 1].rootHash = d.newRootHash
            /\ log[d.expectedEpoch + 1].orgPubKey = d.newOrgPubKey
        BY <3>2 DEF OneCallPerEpoch
      <4>3. d.expectedEpoch + 1 \in DOMAIN new
        BY <4>1, <2>3, <2>5
      <4>. QED  BY <3>2, <4>1, <4>2, <4>3, <2>5, <2>7 DEF Kept
    <3>3. CASE d \in taken /\ d.sender # a
      <4>1. logs'[d.sender] = logs[d.sender]
        BY <3>3, <2>7, <2>8
      <4>. QED  BY <3>3, <4>1 DEF Kept, OneCallPerEpoch
    <3>. QED  BY <3>1, <3>2, <3>3, <2>6
  <2>12. ASSUME NEW b \in Admins, NEW n \in DOMAIN logs'[b]
         PROVE  \E d \in taken' : d.sender = b /\ d.expectedEpoch = n - 1
    <3>1. CASE b = a /\ n = Len(log) + 1
      BY <3>1, <2>3, <2>6
    <3>2. CASE b = a /\ n # Len(log) + 1
      <4>1. n \in DOMAIN logs[b]
        BY <3>2, <2>3, <2>5, <2>7
      <4>. QED  BY <4>1, <2>6 DEF OneCallPerEpoch
    <3>3. CASE b # a
      <4>1. n \in DOMAIN logs[b]
        BY <3>3, <2>7
      <4>. QED  BY <4>1, <2>6 DEF OneCallPerEpoch
    <3>. QED  BY <3>1, <3>2, <3>3
  <2>. HIDE DEF a, log, s
  <2>. QED  BY <2>10, <2>11, <2>12 DEF OneCallPerEpoch, Kept
<1>2. CASE UNCHANGED <<logs, taken>>
  BY <1>2 DEF OneCallPerEpoch
<1>. QED  BY <1>1, <1>2 DEF Next, Submit, Revert, vars

\* The comparison of expectedEpoch in update lets exactly one call through per
\* epoch and account, in the order of the epochs, and the log is what those calls
\* asked for, whatever epochs the callers send and in whatever order calls run.
THEOREM EpochsTakenOnce == Spec => []OneCallPerEpoch
<1>1. Init => OneCallPerEpoch
  <2>. SUFFICES ASSUME Init PROVE OneCallPerEpoch
    OBVIOUS
  <2>1. taken = {} /\ \A a \in Admins : DOMAIN logs[a] = {}
    BY DEF Init
  <2>. QED  BY <2>1 DEF OneCallPerEpoch
<1>. QED  BY <1>1, TakenStep, TypeCorrect, LogsReplay, PTL DEF Spec

-----------------------------------------------------------------------------
(* The refinement.                                                         *)

\* The history that the events of one organisation tell.
VersionsOf(log) == [n \in 1 .. Len(log) |-> <<log[n].rootHash, log[n].orgPubKey>>]

\* The history variable of the instance History.
Told == [a \in Admins |-> VersionsOf(logs[a])]

\* A log tells one version per event.
LEMMA VersionsType ==
  ASSUME NEW log \in Seq(Event)
  PROVE  VersionsOf(log) \in Seq(Roots \X PubKeys) /\ Len(VersionsOf(log)) = Len(log)
<1> DEFINE m == Len(log)
           V == Roots \X PubKeys
<1>1. m \in Nat
  OBVIOUS
<1>2. \A n \in 1 .. m : log[n] \in Event
  OBVIOUS
<1>3. \A n \in 1 .. m : <<log[n].rootHash, log[n].orgPubKey>> \in V
  BY <1>2 DEF Event
<1>4. VersionsOf(log) \in [1 .. m -> V]
  BY <1>3 DEF VersionsOf
<1> HIDE DEF m, V
<1>5. VersionsOf(log) \in Seq(V) /\ Len(VersionsOf(log)) = m
  BY <1>1, <1>4
<1> QED
  BY <1>5 DEF m, V

\* Appending an event appends the version it tells.
LEMMA VersionsAppend ==
  ASSUME NEW log \in Seq(Event), NEW e \in Event
  PROVE  VersionsOf(Append(log, e))
           = Append(VersionsOf(log), <<e.rootHash, e.orgPubKey>>)
<1> DEFINE new == Append(log, e)
           old == VersionsOf(log)
           v == <<e.rootHash, e.orgPubKey>>
<1>1. /\ Len(log) \in Nat /\ Len(new) = Len(log) + 1
      /\ \A n \in 1 .. Len(log) : new[n] = log[n]
      /\ new[Len(log) + 1] = e
  OBVIOUS
<1>2. old \in Seq(Roots \X PubKeys) /\ Len(old) = Len(log)
  BY VersionsType
<1>3. Append(old, v) = [n \in 1 .. Len(log) + 1 |->
                          IF n = Len(log) + 1 THEN v ELSE old[n]]
  BY <1>1, <1>2
<1>4. ASSUME NEW n \in 1 .. Len(log) + 1
      PROVE  <<new[n].rootHash, new[n].orgPubKey>>
               = IF n = Len(log) + 1 THEN v ELSE old[n]
  <2>1. CASE n = Len(log) + 1
    BY <2>1, <1>1
  <2>2. CASE n # Len(log) + 1
    <3>1. n \in 1 .. Len(log)
      BY <2>2, <1>1
    <3> QED
      BY <2>2, <3>1, <1>1 DEF VersionsOf
  <2> QED
    BY <2>1, <2>2
<1>5. VersionsOf(new) = [n \in 1 .. Len(log) + 1 |->
                           <<new[n].rootHash, new[n].orgPubKey>>]
  BY <1>1 DEF VersionsOf
<1> HIDE DEF new, old, v
<1>6. VersionsOf(new) = Append(old, v)
  BY <1>3, <1>4, <1>5
<1> QED
  BY <1>6 DEF new, old, v

\* An accepted call publishes a version that differs from the one before it.
LEMMA ExecutePublishes ==
  ASSUME TypeOK, LogsReplayToStorage, NEW c \in mempool, Execute(c)
  PROVE  \E a \in Admins, v \in Roots \X PubKeys :
           /\ Told[a] # <<>> => v # Told[a][Len(Told[a])]
           /\ Told' = [Told EXCEPT ![a] = Append(@, v)]
<1> DEFINE a == c.sender
           s == orgs[a]
           log == logs[a]
           e == Emit(s, c)
           v == <<c.newRootHash, c.newOrgPubKey>>
<1>1. c \in Call /\ a \in Admins /\ s \in OrgState /\ log \in Seq(Event)
  BY DEF TypeOK, Call
<1>2. UpdateVerdict(s, c) \in {"Genesis", "Update"}
  BY DEF Execute
<1>3. e \in Event /\ v \in Roots \X PubKeys
  BY <1>1, <1>2, CallTypes
<1>4. e.rootHash = c.newRootHash /\ e.orgPubKey = c.newOrgPubKey
  BY DEF Emit
<1>5. Replays(log, s)
  BY <1>1, ReplaysIsProperty
<1>6. Told[a] = VersionsOf(log) /\ Len(Told[a]) = Len(log)
  BY <1>1, VersionsType DEF Told
<1>7. Told[a] # <<>> => v # Told[a][Len(Told[a])]
  <2> SUFFICES ASSUME Told[a] # <<>>, v = Told[a][Len(Told[a])]
               PROVE  FALSE
    OBVIOUS
  <2>1. log # <<>>
    <3>1. Len(Told[a]) # 0
      BY <1>1, <1>6, VersionsType
    <3>2. Len(<<>>) = 0
      OBVIOUS
    <3>. HIDE DEF log
    <3>. QED  BY <1>6, <3>1, <3>2, Zenon
  <2>2. Len(log) \in 1 .. Len(log)
    BY <2>1, <1>1
  <2>3. v = <<log[Len(log)].rootHash, log[Len(log)].orgPubKey>>
    BY <1>6, <2>2 DEF VersionsOf
  <2>4. c.newRootHash = s.rootHash /\ c.newOrgPubKey = s.orgPubKey
    BY <2>1, <2>3, <1>5 DEF Replays
  <2>5. s.epoch # 0
    BY <2>2, <1>1, <1>5 DEF Replays
  <2> QED
    BY <2>4, <2>5, <1>2 DEF UpdateVerdict
<1>8. Told' = [Told EXCEPT ![a] = Append(@, v)]
  <2>1. logs' = [logs EXCEPT ![a] = Append(log, e)]
    BY DEF Execute
  <2>2. VersionsOf(Append(log, e)) = Append(VersionsOf(log), v)
    BY <1>1, <1>3, <1>4, VersionsAppend
  <2>3. ASSUME NEW b \in Admins
        PROVE  VersionsOf(logs'[b])
                 = IF b = a THEN Append(Told[a], v) ELSE Told[b]
    <3>1. CASE b = a
      <4>1. logs'[b] = Append(log, e)
        BY <2>1, <3>1 DEF TypeOK
      <4> QED
        BY <4>1, <3>1, <2>2, <1>6
    <3>2. CASE b # a
      <4>1. logs'[b] = logs[b]
        BY <2>1, <3>2 DEF TypeOK
      <4> QED
        BY <4>1, <3>2 DEF Told
    <3> QED
      BY <3>1, <3>2
  <2> HIDE DEF a, s, log, e, v
  <2>4. Told' = [b \in Admins |-> VersionsOf(logs'[b])]
    BY DEF Told
  <2>5. [Told EXCEPT ![a] = Append(@, v)]
          = [b \in Admins |-> IF b = a THEN Append(Told[a], v) ELSE Told[b]]
    BY <1>1 DEF Told
  <2> QED
    BY <2>3, <2>4, <2>5
<1> HIDE DEF a, v
<1> QED
  BY <1>1, <1>3, <1>7, <1>8

\* The contract implements the linear history: its events are versions appended
\* one at a time, none equal to the one before it.
THEOREM Refinement == Spec => ImplementsHistory
<1>1. Init => History!Init
  <2> SUFFICES ASSUME Init PROVE Told = [a \in Admins |-> <<>>]
    BY DEF History!Init, Told, VersionsOf
  <2>1. \A a \in Admins : logs[a] = <<>>
    BY DEF Init
  <2>2. \A a \in Admins : VersionsOf(logs[a]) = <<>>
    BY <2>1 DEF VersionsOf
  <2> QED
    BY <2>2 DEF Told
<1>2. TypeOK /\ LogsReplayToStorage /\ [Next]_vars => [History!Next]_Told
  <2> SUFFICES ASSUME TypeOK, LogsReplayToStorage, [Next]_vars, Told' # Told
               PROVE  History!Next
    OBVIOUS
  <2>1. logs' # logs
    BY DEF Told, VersionsOf
  <2>2. PICK c \in mempool : Execute(c)
    BY <2>1 DEF Next, Submit, Revert, vars
  <2> QED
    BY <2>2, ExecutePublishes DEF History!Next, History!Publish, Told, VersionsOf
<1>3. Told = [a \in Admins |->
                [n \in 1 .. Len(logs[a]) |->
                   <<logs[a][n].rootHash, logs[a][n].orgPubKey>>]]
  BY DEF Told, VersionsOf
<1> QED
  BY <1>1, <1>2, <1>3, TypeCorrect, LogsReplay, PTL
  DEF Spec, ImplementsHistory, History!Spec, Told, VersionsOf
=============================================================================
