------------------------- MODULE ChainWritesProofs -------------------------
(***************************************************************************)
(* Proofs about the chain calls of any number of administrators, among any *)
(* number of other users of the chain, for any number of calls and faults: *)
(* which accounts are paid and called, which keep a controller, and when   *)
(* the contract holds what an administrator saved.                         *)
(***************************************************************************)
EXTENDS ChainWrites, FiniteSetTheorems, SequenceTheorems, TLAPS

-----------------------------------------------------------------------------
(* The invariant behind the types.                                         *)

\* The pure proxies of a, which the proxy pallet numbers from 1.
Made(a) == {p \in pures : p[1] = a}

Creates(x) == x.kind = "create_pure"

\* A call's root carries the number of the call.  The creations still in the pool
\* are numbered in order, above the proxies that exist, so every creation of an
\* administrator finds a serial number within its calls.
Serials ==
  /\ \A a \in Accounts :
       /\ IsFiniteSet(Made(a))
       /\ Made(a) = {a} \X (1 .. Cardinality(Made(a)))
  /\ \A a \in Admins :
       /\ calls[a] <= MaxCalls[a] /\ Cardinality(Made(a)) <= calls[a]
       /\ \A i \in DOMAIN pool[a] :
            /\ pool[a][i].by = a
            /\ pool[a][i].root \in {a} \X (1 .. calls[a])
            /\ Creates(pool[a][i]) => pool[a][i].root[2] > Cardinality(Made(a))
       /\ \A i, j \in DOMAIN pool[a] :
            i < j /\ Creates(pool[a][i]) /\ Creates(pool[a][j])
              => pool[a][i].root[2] < pool[a][j].root[2]

\* A genesis call that has not sent its create_pure.
AboutToCreate(a) ==
  job[a].op = "genesis" /\ job[a].step = 1 /\ job[a].phase = "submit"

\* A call is within its program and works with the root of its number.
Calls ==
  \A a \in Admins :
    /\ job[a].op # "none" =>
         /\ job[a].step <= Len(Program(job[a].op))
         /\ job[a].root = <<a, calls[a]>> /\ calls[a] >= 1
    /\ job[a].op = "none" => job[a].p = NoProxy
    /\ record[a] # NoOrg => record[a].p # NoProxy
    /\ AboutToCreate(a) =>
         /\ Cardinality(Made(a)) < calls[a]
         /\ \A i \in DOMAIN pool[a] : pool[a][i].root[2] < calls[a]

\* Every account a call or a record names exists in a finalised block.
Uses ==
  /\ Range(open) \subseteq pures
  /\ Range(head) \subseteq pures \ Range(open)
  /\ \A a \in Admins : {job[a].p, record[a].p} \subseteq {NoProxy} \cup (pures \ Range(open))
  /\ OnlyCreatedProxiesUsed

ChainInv == TypeOK /\ Serials /\ Calls /\ Uses

-----------------------------------------------------------------------------
(* Controllers.                                                            *)

\* A rotation of p whose add_proxy was sent and whose remove_proxy was not.
Owes(a, p) ==
  /\ job[a].op = "rotate" /\ job[a].p = p
  /\ \/ job[a].step = 1 /\ job[a].phase # "submit"
     \/ job[a].step = 2 /\ job[a].phase = "submit"

Adds(x, p) == x.kind = "add_proxy" /\ x.p = p
Removes(x, p) == x.kind = "remove_proxy" /\ x.p = p

\* Of a pool q and a call that owes a removal or not: the next change to the
\* controllers of p is a removal.
ArmedIn(q, owes, p) ==
  \/ \E j \in DOMAIN q : /\ Removes(q[j], p)
                         /\ \A k \in DOMAIN q : k < j => ~Adds(q[k], p)
  \/ owes /\ \A k \in DOMAIN q : ~Adds(q[k], p)

\* Between two removals there is an addition.
AlternateIn(q, owes, p) ==
  /\ \A i, j \in DOMAIN q :
       i < j /\ Removes(q[i], p) /\ Removes(q[j], p)
         => \E k \in DOMAIN q : i < k /\ k < j /\ Adds(q[k], p)
  /\ owes => \A i \in DOMAIN q :
       Removes(q[i], p) => \E k \in DOMAIN q : i < k /\ Adds(q[k], p)

Armed(a, p) == ArmedIn(pool[a], Owes(a, p), p)
ArmedFor(p) == {a \in Admins : Armed(a, p)}

\* An administrator removes itself only, and once for each of its additions.
Alternate ==
  \A a \in Admins :
    /\ \A p \in Proxies : AlternateIn(pool[a], Owes(a, p), p)
    /\ \A i \in DOMAIN pool[a] : pool[a][i].kind = "remove_proxy" => pool[a][i].to = a

\* An add_proxy of p failed on chain.
AddFailed(p) == \E x \in failed : Adds(x, p)

\* Unless an add_proxy failed, an account has a controller to spare for each
\* removal that is armed.
Spare ==
  \A p \in pures :
    ~AddFailed(p) =>
      /\ IsFiniteSet(control[p]) /\ IsFiniteSet(ArmedFor(p))
      /\ Cardinality(control[p]) > Cardinality(ArmedFor(p))

-----------------------------------------------------------------------------
(* Names and programs.                                                     *)

\* Pure proxies and roots are pairs of an account and a number.
LEMMA PairsAre ==
  /\ \A p \in Proxies : /\ p[1] \in Accounts /\ p[2] \in 1 .. MaxCalls[p[1]]
                        /\ p = <<p[1], p[2]>>
  /\ \A a \in Accounts : \A n \in 1 .. MaxCalls[a] : <<a, n>> \in Proxies
  /\ \A a \in Admins : \A n \in 1 .. MaxCalls[a] : <<a, n>> \in Root
  /\ NoProxy \notin Proxies
<1>1. \A p \in Proxies : /\ p[1] \in Accounts /\ p[2] \in 1 .. MaxCalls[p[1]]
                         /\ p = <<p[1], p[2]>>
  BY DEF Proxies
<1>2. \A a \in Accounts : \A n \in 1 .. MaxCalls[a] : <<a, n>> \in Proxies
  BY DEF Proxies
<1>3. \A a \in Admins : \A n \in 1 .. MaxCalls[a] : <<a, n>> \in Root
  BY DEF Root
<1>4. ASSUME NoProxy \in Proxies  PROVE FALSE
  <2>1. PICK x, y : <<>> = <<x, y>>
    BY <1>1, <1>4 DEF NoProxy
  <2>2. Len(<<>>) = 0 /\ Len(<<x, y>>) = 2
    OBVIOUS
  <2>. QED  BY <2>1, <2>2
<1>. QED  BY <1>1, <1>2, <1>3, <1>4

\* The programs of the three calls.
LEMMA ProgramIs ==
  /\ Program("genesis") = <<"create_pure", "fund", "map_account", "update">>
  /\ Program("update") = <<"update">>
  /\ Program("rotate") = <<"add_proxy", "remove_proxy">>
  /\ Len(Program("genesis")) = 4 /\ Len(Program("update")) = 1
  /\ Len(Program("rotate")) = 2
BY DEF Program

\* The extrinsics there are.
LEMMA KindsAre ==
  Kinds = {"create_pure", "fund", "map_account", "update", "add_proxy", "remove_proxy"}
<1>1. /\ Range(Program("genesis")) = {"create_pure", "fund", "map_account", "update"}
      /\ Range(Program("update")) = {"update"}
      /\ Range(Program("rotate")) = {"add_proxy", "remove_proxy"}
  <2>1. /\ DOMAIN Program("genesis") = 1 .. 4 /\ DOMAIN Program("update") = 1 .. 1
        /\ DOMAIN Program("rotate") = 1 .. 2
    BY ProgramIs
  <2>2. 1 .. 4 = {1, 2, 3, 4} /\ 1 .. 1 = {1} /\ 1 .. 2 = {1, 2}
    OBVIOUS
  <2>3. Range(Program("genesis")) = {"create_pure", "fund", "map_account", "update"}
    BY <2>1, <2>2, ProgramIs DEF Range
  <2>4. Range(Program("update")) = {"update"}
    BY <2>1, <2>2, ProgramIs DEF Range
  <2>5. Range(Program("rotate")) = {"add_proxy", "remove_proxy"}
    BY <2>1, <2>2, ProgramIs DEF Range
  <2>. QED  BY <2>3, <2>4, <2>5
<1>. HIDE DEF Program
<1>2. Kinds = Range(Program("genesis")) \cup Range(Program("update"))
              \cup Range(Program("rotate"))
  BY DEF Kinds, Operations
<1>. QED  BY <1>1, <1>2

\* What the steps of the programs are.
LEMMA KindIs ==
  ASSUME NEW j \in Job, j.op # "none", j.step <= Len(Program(j.op))
  PROVE  LET k == Program(j.op)[j.step] IN
         /\ k \in Kinds
         /\ j.op \in Operations
         /\ k = "create_pure" <=> j.op = "genesis" /\ j.step = 1
         /\ k = "fund" <=> j.op = "genesis" /\ j.step = 2
         /\ k = "map_account" <=> j.op = "genesis" /\ j.step = 3
         /\ k = "update" <=> \/ j.op = "genesis" /\ j.step = 4
                             \/ j.op = "update"
         /\ k = "add_proxy" <=> j.op = "rotate" /\ j.step = 1
         /\ k = "remove_proxy" <=> j.op = "rotate" /\ j.step = 2
<1>1. j.op \in {"genesis", "update", "rotate"} /\ j.step \in {1, 2, 3, 4}
  BY DEF Job, Operations
<1>. DEFINE op == j.op
            step == j.step
<1>. HIDE DEF op, step
<1>2. op \in {"genesis", "update", "rotate"} /\ step \in {1, 2, 3, 4}
      /\ step <= Len(Program(op))
  BY <1>1 DEF op, step
<1>3. LET k == Program(op)[step] IN
         /\ k \in Kinds
         /\ k = "create_pure" <=> op = "genesis" /\ step = 1
         /\ k = "fund" <=> op = "genesis" /\ step = 2
         /\ k = "map_account" <=> op = "genesis" /\ step = 3
         /\ k = "update" <=> (op = "genesis" /\ step = 4) \/ op = "update"
         /\ k = "add_proxy" <=> op = "rotate" /\ step = 1
         /\ k = "remove_proxy" <=> op = "rotate" /\ step = 2
  <2>1. CASE op = "genesis"
    BY <1>2, <2>1, ProgramIs, KindsAre
  <2>2. CASE op = "update"
    <3>1. step = 1 /\ Program(op)[step] = "update"
      BY <1>2, <2>2, ProgramIs
    <3>. QED  BY <2>2, <3>1, KindsAre
  <2>3. CASE op = "rotate"
    <3>0. step <= 2
      BY <1>2, <2>3, ProgramIs
    <3>1. step \in {1, 2}
      BY <1>2, <3>0
    <3>. QED  BY <2>3, <3>1, ProgramIs, KindsAre
  <2>. QED  BY <1>2, <2>1, <2>2, <2>3
<1>. QED  BY <1>1, <1>3 DEF op, step, Operations

-----------------------------------------------------------------------------
(* The invariant of the types: initial states and the calls.               *)

\* Every initial state satisfies the invariant.
LEMMA ChainInit ==
  ASSUME Init
  PROVE  ChainInv
<1>1. MaxFaults \in Nat /\ \A a \in Accounts : MaxCalls[a] \in 1 .. 9
  BY BoundsAssumption
<1>2. ASSUME NEW a \in Admins
      PROVE  /\ NoJob(a) \in Job /\ NoJob(a).op = "none" /\ NoJob(a).p = NoProxy
  BY DEF NoJob, Job, Accounts
<1>3. NoOrg \in Record /\ NoOrg.p = NoProxy
  BY DEF NoOrg, Record
<1>4. \A a \in Admins : job[a].op = "none" /\ job[a].p = NoProxy
  BY <1>2 DEF Init
<1>5. TypeOK
  <2>1. pool \in [Admins -> Seq(Extrinsic)] /\ open \in Seq(Proxies) /\ head \in Seq(Proxies)
    BY DEF Init
  <2>2. slot \in [Proxies -> Slot]
    BY DEF Init, Slot
  <2>3. job \in [Admins -> Job] /\ record \in [Admins -> Record]
    BY <1>2, <1>3 DEF Init
  <2>4. /\ control \in [Proxies -> SUBSET Accounts]
        /\ pures \subseteq Proxies /\ funded \subseteq Proxies /\ mapped \subseteq Proxies
        /\ failed \subseteq Extrinsic /\ fresh \in [Admins -> BOOLEAN]
        /\ calls \in [Admins -> Nat] /\ faults \in 0 .. MaxFaults
    BY <1>1 DEF Init
  <2>. QED  BY <1>4, <2>1, <2>2, <2>3, <2>4 DEF TypeOK
<1>6. Serials
  <2>1. \A a : Made(a) = {}
    BY DEF Init, Made
  <2>2. IsFiniteSet({}) /\ Cardinality({}) = 0
    BY FS_EmptySet
  <2>3. \A a : {a} \X (1 .. 0) = {}
    OBVIOUS
  <2>4. \A a \in Admins : DOMAIN pool[a] = {} /\ calls[a] = 0
    BY DEF Init
  <2>5. \A a \in Admins : calls[a] <= MaxCalls[a]
    BY <1>1, <2>4 DEF Accounts
  <2>. QED  BY <2>1, <2>2, <2>3, <2>4, <2>5 DEF Serials
<1>7. Calls
  BY <1>3, <1>4 DEF Calls, Init, AboutToCreate
<1>8. Uses
  <2>1. Range(open) = {} /\ Range(head) = {} /\ \A a \in Admins : Range(pool[a]) = {}
    BY DEF Init, Range
  <2>2. failed = {}
    BY DEF Init
  <2>3. OnlyCreatedProxiesUsed
    BY <2>1, <2>2 DEF OnlyCreatedProxiesUsed
  <2>4. \A a \in Admins : record[a].p = NoProxy
    BY <1>3 DEF Init
  <2>. QED  BY <1>4, <2>1, <2>3, <2>4 DEF Uses
<1>. QED  BY <1>5, <1>6, <1>7, <1>8 DEF ChainInv

\* A call of administrator a, at call number c, that the invariant allows.
GoodJob(a, j, c) ==
  /\ j \in Job
  /\ j.op # "none" =>
       /\ j.step <= Len(Program(j.op)) /\ j.root = <<a, c>> /\ c >= 1
       /\ Program(j.op)[j.step] # "create_pure" <=> j.p # NoProxy
  /\ j.op = "none" => j.p = NoProxy
  /\ j.p \in {NoProxy} \cup (pures \ Range(open))
  /\ j.op = "genesis" /\ j.step = 1 /\ j.phase = "submit" =>
       /\ Cardinality(Made(a)) < c
       /\ \A i \in DOMAIN pool[a] : pool[a][i].root[2] < c

\* In a state of the invariant every administrator's call is one.
LEMMA JobsGood ==
  ASSUME ChainInv, NEW a \in Admins
  PROVE  GoodJob(a, job[a], calls[a])
BY DEF ChainInv, TypeOK, Calls, Uses, GoodJob, AboutToCreate, Kind

\* The call that has ended is one, too.
LEMMA NoJobGood ==
  ASSUME NEW a \in Admins, NEW c
  PROVE  GoodJob(a, NoJob(a), c)
<1>1. NoJob(a) \in Job /\ NoJob(a).op = "none" /\ NoJob(a).p = NoProxy
  BY DEF NoJob, Job, Accounts
<1>. HIDE DEF NoJob
<1>. QED  BY <1>1 DEF GoodJob

\* A step of an administrator that leaves the chain alone.
LEMMA LocalStep ==
  ASSUME ChainInv, NEW a \in Admins, UNCHANGED chainVars,
         NEW j, NEW r \in Record, NEW c \in Nat,
         job' = [job EXCEPT ![a] = j], record' = [record EXCEPT ![a] = r],
         calls' = [calls EXCEPT ![a] = c], fresh' \in [Admins -> BOOLEAN],
         faults' \in 0 .. MaxFaults,
         GoodJob(a, j, c), calls[a] <= c, c <= MaxCalls[a],
         r.p \in {NoProxy} \cup (pures \ Range(open)),
         r # NoOrg => r.p # NoProxy
  PROVE  ChainInv'
<1>0. TypeOK /\ Serials /\ Calls /\ Uses
  BY DEF ChainInv
<1>1. /\ pool' = pool /\ open' = open /\ head' = head /\ pures' = pures
      /\ control' = control /\ funded' = funded /\ mapped' = mapped
      /\ slot' = slot /\ failed' = failed
  BY DEF chainVars
<1>2. /\ job'[a] = j /\ record'[a] = r /\ calls'[a] = c
      /\ \A b \in Admins \ {a} : /\ job'[b] = job[b] /\ record'[b] = record[b]
                                 /\ calls'[b] = calls[b]
      /\ job \in [Admins -> Job] /\ record \in [Admins -> Record] /\ calls \in [Admins -> Nat]
  BY <1>0 DEF TypeOK
<1>3. \A b : Made(b)' = Made(b)
  BY <1>1 DEF Made
<1>4. \A b \in Admins : GoodJob(b, job'[b], calls'[b])
  BY <1>2, JobsGood
<1>5. TypeOK'
  <2>1. /\ job' \in [Admins -> Job] /\ record' \in [Admins -> Record]
        /\ calls' \in [Admins -> Nat]
    BY <1>2 DEF GoodJob
  <2>2. \A b \in Admins : job'[b].op # "none" =>
          (Program(job'[b].op)[job'[b].step] # "create_pure" <=> job'[b].p # NoProxy)
    BY <1>4 DEF GoodJob
  <2>. QED  BY <1>0, <1>1, <2>1, <2>2 DEF TypeOK, Kind
<1>6. Serials'
  <2>1. \A b \in Admins : calls[b] <= calls'[b] /\ calls'[b] <= MaxCalls[b]
                          /\ calls[b] \in Nat /\ calls'[b] \in Nat
    BY <1>0, <1>2 DEF Serials
  <2>2. \A b \in Admins : \A n \in 1 .. calls[b] : n \in 1 .. calls'[b]
    BY <2>1
  <2>3. \A b \in Admins : {b} \X (1 .. calls[b]) \subseteq {b} \X (1 .. calls'[b])
    BY <2>2
  <2>4. \A b \in Admins : Cardinality(Made(b)) <= calls'[b]
    <3>1. \A b \in Admins : Cardinality(Made(b)) \in Nat
      BY <1>0, FS_CardinalityType DEF Serials, Accounts
    <3>. QED  BY <1>0, <2>1, <3>1 DEF Serials
  <2>. QED  BY <1>0, <1>1, <1>3, <2>1, <2>3, <2>4 DEF Serials
<1>7. Calls'
  BY <1>0, <1>1, <1>2, <1>3, <1>4 DEF Calls, GoodJob, AboutToCreate
<1>8. Uses'
  <2>1. OnlyCreatedProxiesUsed'
    BY <1>0, <1>1 DEF Uses, OnlyCreatedProxiesUsed
  <2>2. \A b \in Admins : {job'[b].p, record'[b].p} \subseteq {NoProxy} \cup (pures \ Range(open))
    BY <1>0, <1>2, <1>4 DEF GoodJob, Uses
  <2>. QED  BY <1>0, <1>1, <2>1, <2>2 DEF Uses
<1>. QED  BY <1>5, <1>6, <1>7, <1>8 DEF ChainInv

\* What the invariant says of one administrator, and of values that stay.
LEMMA Locals ==
  ASSUME ChainInv, NEW a \in Admins
  PROVE  /\ record[a] \in Record
         /\ record[a].p \in {NoProxy} \cup (pures \ Range(open))
         /\ record[a] # NoOrg => record[a].p # NoProxy
         /\ calls[a] \in Nat /\ calls[a] <= MaxCalls[a]
         /\ fresh \in [Admins -> BOOLEAN] /\ faults \in 0 .. MaxFaults
         /\ record = [record EXCEPT ![a] = record[a]]
         /\ calls = [calls EXCEPT ![a] = calls[a]]
         /\ job = [job EXCEPT ![a] = job[a]]
         /\ a \in Accounts
         /\ Fault => faults' \in 0 .. MaxFaults
<1>1. Fault => faults' \in 0 .. MaxFaults
  BY BoundsAssumption DEF ChainInv, TypeOK, Fault
<1>. QED  BY <1>1 DEF ChainInv, TypeOK, Serials, Calls, Uses, Accounts

\* A call begins.
LEMMA StartStep ==
  ASSUME ChainInv, NEW a \in Admins, NEW op \in Operations, NEW p, NEW to \in Accounts,
         NEW epoch \in Nat, Start(a, op, p, to, epoch),
         p \in {NoProxy} \cup (pures \ Range(open)), op = "genesis" <=> p = NoProxy
  PROVE  ChainInv'
<1>. DEFINE c == calls[a] + 1
            j == [op |-> op, step |-> 1, phase |-> "submit", p |-> p, to |-> to,
                  root |-> <<a, c>>, epoch |-> epoch]
<1>1. /\ calls[a] < MaxCalls[a] /\ calls' = [calls EXCEPT ![a] = c]
      /\ job' = [job EXCEPT ![a] = j] /\ UNCHANGED <<chainVars, fresh, record, faults>>
  <2>. HIDE DEF Operations
  <2>. QED  BY DEF Start
<1>2. calls[a] \in Nat /\ MaxCalls[a] \in Nat
  BY Locals, BoundsAssumption
<1>3. c \in Nat /\ c <= MaxCalls[a] /\ c >= 1 /\ calls[a] < c /\ c \in 1 .. MaxCalls[a]
  BY <1>1, <1>2
<1>4. <<a, c>> \in Root
  BY <1>3, PairsAre
<1>5. p \in Proxies \cup {NoProxy}
  BY DEF ChainInv, TypeOK
<1>. HIDE DEF c
<1>6. /\ j \in Job /\ j.op = op /\ j.op # "none" /\ j.step = 1 /\ j.root = <<a, c>>
      /\ j.p = p
  BY <1>4, <1>5 DEF Job, Operations
<1>. HIDE DEF j
<1>7. /\ Cardinality(Made(a)) < c
      /\ \A i \in DOMAIN pool[a] : pool[a][i].root[2] < c
  <2>1. Cardinality(Made(a)) \in Nat /\ Cardinality(Made(a)) <= calls[a]
    BY Locals, FS_CardinalityType DEF ChainInv, Serials
  <2>2. \A i \in DOMAIN pool[a] : pool[a][i].root[2] \in 1 .. calls[a]
    BY DEF ChainInv, Serials
  <2>. QED  BY <1>2, <1>3, <2>1, <2>2
<1>8. 1 <= Len(Program(op))
  <2>1. Len(Program(op)) \in {1, 2, 4}
    BY ProgramIs DEF Operations
  <2>. QED  BY <2>1
<1>9. Program(op)[1] # "create_pure" <=> p # NoProxy
  BY <1>6, <1>8, KindIs
<1>10. GoodJob(a, j, c)
  BY <1>3, <1>6, <1>7, <1>8, <1>9 DEF GoodJob
<1>11. calls[a] <= c
  BY <1>2, <1>3
<1>12. record' = [record EXCEPT ![a] = record[a]] /\ faults' \in 0 .. MaxFaults
       /\ fresh' \in [Admins -> BOOLEAN]
  BY <1>1, Locals
<1>. QED  BY <1>1, <1>3, <1>10, <1>11, <1>12, Locals, LocalStep

\* A call that ends without a result, in a step that leaves the chain alone.
LEMMA FailStep ==
  ASSUME ChainInv, NEW a \in Admins, Fails(a), UNCHANGED <<chainVars, record, calls>>,
         Fault \/ UNCHANGED faults,
         fresh' = fresh \/ fresh' = [fresh EXCEPT ![a] = FALSE]
  PROVE  ChainInv'
<1>1. GoodJob(a, NoJob(a), calls[a])
  BY NoJobGood
<1>2. /\ job' = [job EXCEPT ![a] = NoJob(a)] /\ record' = [record EXCEPT ![a] = record[a]]
      /\ calls' = [calls EXCEPT ![a] = calls[a]]
      /\ fresh' \in [Admins -> BOOLEAN] /\ faults' \in 0 .. MaxFaults
      /\ UNCHANGED chainVars /\ calls[a] <= calls[a]
  <2>1. faults' \in 0 .. MaxFaults
    BY Locals
  <2>2. fresh' \in [Admins -> BOOLEAN]
    <3>1. fresh \in [Admins -> BOOLEAN]
      BY Locals
    <3>2. [fresh EXCEPT ![a] = FALSE] \in [Admins -> BOOLEAN]
      BY <3>1
    <3>. QED  BY <3>1, <3>2
  <2>3. record' = record /\ calls' = calls /\ UNCHANGED chainVars
    OBVIOUS
  <2>4. /\ record' = [record EXCEPT ![a] = record[a]]
        /\ calls' = [calls EXCEPT ![a] = calls[a]] /\ calls[a] <= calls[a]
    BY <2>3, Locals
  <2>. QED  BY <2>1, <2>2, <2>3, <2>4 DEF Fails
<1>. HIDE DEF NoJob
<1>. QED  BY <1>1, <1>2, Locals, LocalStep

\* settle() takes its snapshot.
LEMMA SnapshotStep ==
  ASSUME ChainInv, NEW a \in Admins, Snapshot(a)
  PROVE  ChainInv'
<1>1. CASE Fails(a) /\ Fault
  BY <1>1, FailStep DEF Snapshot
<1>2. CASE job' = [job EXCEPT ![a].phase = "poll"] /\ UNCHANGED faults
  <2>. DEFINE j == [job[a] EXCEPT !.phase = "poll"]
  <2>1. job' = [job EXCEPT ![a] = j]
    BY <1>2
  <2>2. GoodJob(a, job[a], calls[a])
    BY JobsGood
  <2>3. /\ j \in Job /\ j.op = job[a].op /\ j.step = job[a].step /\ j.root = job[a].root
        /\ j.p = job[a].p /\ j.phase = "poll"
    BY <2>2 DEF GoodJob, Job
  <2>. HIDE DEF j
  <2>4. GoodJob(a, j, calls[a])
    BY <2>2, <2>3 DEF GoodJob
  <2>5. /\ record' = [record EXCEPT ![a] = record[a]] /\ calls' = [calls EXCEPT ![a] = calls[a]]
        /\ fresh' \in [Admins -> BOOLEAN] /\ faults' \in 0 .. MaxFaults
        /\ UNCHANGED chainVars /\ calls[a] <= calls[a]
    BY <1>2, Locals DEF Snapshot
  <2>. QED  BY <2>1, <2>4, <2>5, Locals, LocalStep
<1>. QED  BY <1>1, <1>2 DEF Snapshot

\* settle() returns: the call goes on, returns or ends with an error.
LEMMA PollStep ==
  ASSUME ChainInv, NEW a \in Admins, Poll(a)
  PROVE  ChainInv'
<1>0. /\ job[a].op # "none" /\ UNCHANGED <<chainVars, calls>>
      /\ fresh' = [fresh EXCEPT ![a] = FALSE]
  BY DEF Poll
<1>. DEFINE last == job[a].step = Len(Program(job[a].op))
<1>1. CASE Fails(a) /\ (Fault \/ UNCHANGED faults) /\ UNCHANGED record
  BY <1>0, <1>1, FailStep
<1>2. GoodJob(a, job[a], calls[a])
  BY JobsGood
<1>3. /\ calls' = [calls EXCEPT ![a] = calls[a]]
      /\ fresh' \in [Admins -> BOOLEAN]
      /\ UNCHANGED chainVars /\ calls[a] <= calls[a]
  BY <1>0, Locals
<1>4. ASSUME NEW p, ~last, UNCHANGED <<record, faults>>,
             job' = [job EXCEPT ![a] = [job[a] EXCEPT !.step = @ + 1, !.phase = "submit",
                                                      !.p = p]],
             p \in pures \ Range(open)
      PROVE  ChainInv'
  <2>. DEFINE j == [job[a] EXCEPT !.step = @ + 1, !.phase = "submit", !.p = p]
  <2>1. /\ job[a] \in Job /\ job[a].step \in 1 .. 4 /\ job[a].op \in Operations
        /\ job[a].step + 1 <= Len(Program(job[a].op))
    <3>1. job[a].step <= Len(Program(job[a].op)) /\ job[a] \in Job
      BY <1>0, <1>2 DEF GoodJob
    <3>2. Len(Program(job[a].op)) \in {1, 2, 4} /\ job[a].step \in 1 .. 4
          /\ job[a].op \in Operations
      BY <1>0, <3>1, ProgramIs DEF Job, Operations
    <3>. QED  BY <1>4, <3>1, <3>2
  <2>2. job[a].step + 1 \in 1 .. 4
    <3>. DEFINE n == Len(Program(job[a].op))
                k == job[a].step
    <3>1. n \in {1, 2, 4} /\ k \in 1 .. 4 /\ k + 1 <= n
      BY <2>1, ProgramIs DEF Operations
    <3>. HIDE DEF n, k
    <3>2. k + 1 \in 1 .. 4
      BY <3>1
    <3>. QED  BY <3>2 DEF k
  <2>3. p \in Proxies
    BY <1>4 DEF ChainInv, TypeOK
  <2>4. /\ j \in Job /\ j.op = job[a].op /\ j.step = job[a].step + 1 /\ j.root = job[a].root
        /\ j.p = p /\ j.phase = "submit"
    BY <2>1, <2>2, <2>3 DEF Job
  <2>5. job' = [job EXCEPT ![a] = j]
    BY <1>4
  <2>. HIDE DEF j
  <2>6. Program(j.op)[j.step] # "create_pure" /\ p # NoProxy
    <3>1. j.op # "none" /\ j.step <= Len(Program(j.op)) /\ j.step # 1
      BY <1>0, <2>1, <2>4
    <3>. QED  BY <2>3, <2>4, <3>1, KindIs, PairsAre
  <2>7. j.step # 1 /\ j.step <= Len(Program(j.op)) /\ j.op # "none"
    BY <1>0, <2>1, <2>4
  <2>8. j.root = <<a, calls[a]>> /\ calls[a] >= 1
    BY <1>0, <1>2, <2>4 DEF GoodJob
  <2>9. GoodJob(a, j, calls[a])
    BY <1>4, <2>4, <2>6, <2>7, <2>8 DEF GoodJob
  <2>10. record' = [record EXCEPT ![a] = record[a]] /\ faults' \in 0 .. MaxFaults
    BY <1>4, Locals
  <2>. QED  BY <1>3, <2>5, <2>9, <2>10, Locals, LocalStep
<1>5. ASSUME ~last, Continue(a), UNCHANGED <<record, faults>>
      PROVE  ChainInv'
  <2>1. CASE Kind(a) # "create_pure"
    <3>1. job[a].p \in pures \ Range(open)
      BY <1>0, <1>2, <2>1 DEF GoodJob, Kind
    <3>2. job' = [job EXCEPT ![a] = [job[a] EXCEPT !.step = @ + 1, !.phase = "submit"]]
      BY <1>5, <2>1 DEF Continue
    <3>3. [job[a] EXCEPT !.step = @ + 1, !.phase = "submit"]
          = [job[a] EXCEPT !.step = @ + 1, !.phase = "submit", !.p = job[a].p]
      BY <1>2 DEF GoodJob, Job
    <3>. QED  BY <1>4, <1>5, <3>1, <3>2, <3>3
  <2>2. CASE Kind(a) = "create_pure" /\ head = <<>>
    <3>1. Fails(a)
      BY <1>5, <2>2 DEF Continue
    <3>. QED  BY <1>1, <1>5, <3>1
  <2>3. CASE Kind(a) = "create_pure" /\ head # <<>>
    <3>1. job' = [job EXCEPT ![a] =
                    [[job[a] EXCEPT !.step = @ + 1, !.phase = "submit"] EXCEPT !.p = Head(head)]]
      BY <1>5, <2>3 DEF Continue, PureOf
    <3>2. [[job[a] EXCEPT !.step = @ + 1, !.phase = "submit"] EXCEPT !.p = Head(head)]
          = [job[a] EXCEPT !.step = @ + 1, !.phase = "submit", !.p = Head(head)]
      BY <1>2 DEF GoodJob, Job
    <3>3. Head(head) \in pures \ Range(open)
      <4>1. head \in Seq(Proxies) /\ Range(head) \subseteq pures \ Range(open)
        BY DEF ChainInv, TypeOK, Uses
      <4>2. Head(head) = head[1] /\ 1 \in DOMAIN head
        BY <2>3, <4>1
      <4>. QED  BY <4>1, <4>2 DEF Range
    <3>. QED  BY <1>4, <1>5, <3>1, <3>2, <3>3
  <2>. QED  BY <2>1, <2>2, <2>3
<1>6. ASSUME last, Return(a), UNCHANGED faults
      PROVE  ChainInv'
  <2>. DEFINE r == IF job[a].op = "rotate" THEN record[a]
                   ELSE [p |-> job[a].p, root |-> job[a].root, epoch |-> job[a].epoch + 1]
  <2>1. record' = [record EXCEPT ![a] = r] /\ job' = [job EXCEPT ![a] = NoJob(a)]
    BY <1>6 DEF Return, Fails
  <2>2. GoodJob(a, NoJob(a), calls[a])
    BY NoJobGood
  <2>3. ASSUME job[a].op # "rotate"
        PROVE  job[a].p # NoProxy
    <3>1. ~(job[a].op = "genesis" /\ job[a].step = 1)
      BY <1>6, ProgramIs
    <3>. QED  BY <1>0, <1>2, <3>1, KindIs DEF GoodJob
  <2>4. /\ r \in Record /\ r.p \in {NoProxy} \cup (pures \ Range(open))
        /\ r # NoOrg => r.p # NoProxy
    <3>1. CASE job[a].op = "rotate"
      BY <3>1, Locals
    <3>2. CASE job[a].op # "rotate"
      <4>1. /\ job[a].p \in Proxies \cup {NoProxy} /\ job[a].root \in Root \cup {<<>>}
            /\ job[a].epoch + 1 \in Nat /\ job[a].p \in {NoProxy} \cup (pures \ Range(open))
        BY <1>2 DEF GoodJob, Job
      <4>. QED  BY <2>3, <3>2, <4>1 DEF Record
    <3>. QED  BY <3>1, <3>2
  <2>. HIDE DEF r, NoJob
  <2>5. faults' \in 0 .. MaxFaults
    BY <1>6, Locals
  <2>. QED  BY <1>3, <2>1, <2>2, <2>4, <2>5, Locals, LocalStep
<1>. QED  BY <1>1, <1>5, <1>6 DEF Poll

-----------------------------------------------------------------------------
(* Submissions.                                                            *)

\* The elements of a sequence before and after Append and Tail.
LEMMA SeqSteps ==
  ASSUME NEW S, NEW q \in Seq(S), NEW x \in S
  PROVE  /\ Append(q, x) \in Seq(S) /\ DOMAIN q = 1 .. Len(q) /\ Len(q) \in Nat
         /\ DOMAIN Append(q, x) = 1 .. Len(q) + 1
         /\ \A i \in DOMAIN q : Append(q, x)[i] = q[i]
         /\ Append(q, x)[Len(q) + 1] = x
         /\ Range(Append(q, x)) = Range(q) \cup {x}
         /\ q # <<>> => /\ Tail(q) \in Seq(S) /\ Head(q) \in S /\ Head(q) = q[1]
                        /\ 1 \in DOMAIN q /\ Len(q) >= 1
                        /\ DOMAIN Tail(q) = 1 .. Len(q) - 1
                        /\ \A i \in DOMAIN Tail(q) : /\ Tail(q)[i] = q[i + 1]
                                                     /\ i + 1 \in DOMAIN q
                        /\ Range(Tail(q)) \subseteq Range(q) /\ Head(q) \in Range(q)
<1>1. /\ Append(q, x) \in Seq(S) /\ DOMAIN q = 1 .. Len(q) /\ Len(q) \in Nat
      /\ DOMAIN Append(q, x) = 1 .. Len(q) + 1
      /\ \A i \in DOMAIN q : Append(q, x)[i] = q[i]
      /\ Append(q, x)[Len(q) + 1] = x
  OBVIOUS
<1>2. Range(Append(q, x)) = Range(q) \cup {x}
  <2>1. \A i \in 1 .. Len(q) + 1 : i \in 1 .. Len(q) \/ i = Len(q) + 1
    BY <1>1
  <2>2. 1 .. Len(q) \subseteq 1 .. Len(q) + 1 /\ Len(q) + 1 \in 1 .. Len(q) + 1
    BY <1>1
  <2>. QED  BY <1>1, <2>1, <2>2 DEF Range
<1>3. ASSUME q # <<>>
      PROVE  /\ Tail(q) \in Seq(S) /\ Head(q) \in S /\ Head(q) = q[1]
             /\ 1 \in DOMAIN q /\ Len(q) >= 1
             /\ DOMAIN Tail(q) = 1 .. Len(q) - 1
             /\ \A i \in DOMAIN Tail(q) : Tail(q)[i] = q[i + 1] /\ i + 1 \in DOMAIN q
  BY <1>3
<1>4. ASSUME q # <<>>
      PROVE  Range(Tail(q)) \subseteq Range(q) /\ Head(q) \in Range(q)
  BY <1>3, <1>4 DEF Range
<1>. QED  BY <1>1, <1>2, <1>3, <1>4

\* The extrinsic a call sends.
LEMMA Sending ==
  ASSUME ChainInv, NEW a \in Admins, job[a].op # "none"
  PROVE  LET x == NextExtrinsic(a) IN
         /\ x \in Extrinsic /\ x.by = a /\ x.kind = Kind(a) /\ x.p = job[a].p
         /\ x.root = job[a].root /\ x.root = <<a, calls[a]>> /\ x.root[2] = calls[a]
         /\ x.epoch = job[a].epoch /\ calls[a] \in 1 .. calls[a]
         /\ x.to = IF Kind(a) = "add_proxy" THEN job[a].to ELSE a
         /\ x.kind # "create_pure" => x.p \in pures \ Range(open)
         /\ x.kind = "create_pure" => job[a].op = "genesis" /\ job[a].step = 1
<1>1. GoodJob(a, job[a], calls[a]) /\ a \in Accounts /\ calls[a] \in Nat
  BY JobsGood, Locals
<1>2. /\ job[a] \in Job /\ job[a].root = <<a, calls[a]>> /\ calls[a] >= 1
      /\ job[a].p \in {NoProxy} \cup (pures \ Range(open))
      /\ Kind(a) # "create_pure" <=> job[a].p # NoProxy
      /\ job[a].step <= Len(Program(job[a].op))
  BY <1>1 DEF GoodJob, Kind
<1>3. Kind(a) \in Kinds /\ (Kind(a) = "create_pure" => job[a].op = "genesis" /\ job[a].step = 1)
  BY <1>2, KindIs DEF Kind
<1>4. job[a].p \in Proxies \cup {NoProxy} /\ job[a].to \in Accounts /\ job[a].epoch \in Nat
      /\ job[a].root \in Root \cup {<<>>}
  BY <1>2 DEF Job
<1>5. calls[a] \in 1 .. calls[a]
  BY <1>1, <1>2
<1>. HIDE DEF Kind
<1>6. NextExtrinsic(a) \in Extrinsic
  BY <1>1, <1>3, <1>4 DEF NextExtrinsic, Extrinsic
<1>. QED  BY <1>2, <1>3, <1>5, <1>6 DEF NextExtrinsic

\* The pool takes an extrinsic, or does not, and the call is past submitting it.
LEMMA PoolStep ==
  ASSUME ChainInv, NEW a \in Admins, job[a].op # "none", job[a].phase = "submit",
         NEW j, GoodJob(a, j, calls[a]), ~(j.op = "genesis" /\ j.step = 1 /\ j.phase = "submit"),
         job' = [job EXCEPT ![a] = j], faults' \in 0 .. MaxFaults,
         \/ pool' = pool
         \/ pool' = [pool EXCEPT ![a] = Append(@, NextExtrinsic(a))],
         UNCHANGED <<open, head, pures, control, funded, mapped, slot, failed, fresh,
                     record, calls>>
  PROVE  ChainInv'
<1>0. TypeOK /\ Serials /\ Calls /\ Uses
  BY DEF ChainInv
<1>. DEFINE x == NextExtrinsic(a)
            n == Len(pool[a])
<1>1. /\ x \in Extrinsic /\ x.by = a /\ x.root = <<a, calls[a]>> /\ x.root[2] = calls[a]
      /\ calls[a] \in 1 .. calls[a] /\ calls[a] \in Nat
      /\ x.kind # "create_pure" => x.p \in pures \ Range(open)
      /\ x.kind = "create_pure" => AboutToCreate(a)
  BY Sending, Locals DEF AboutToCreate
<1>. HIDE DEF x
<1>2. /\ job'[a] = j /\ \A b \in Admins \ {a} : job'[b] = job[b] /\ pool'[b] = pool[b]
      /\ job \in [Admins -> Job] /\ pool \in [Admins -> Seq(Extrinsic)]
  BY <1>0 DEF TypeOK
<1>3. \A b : Made(b)' = Made(b)
  BY DEF Made
<1>4. /\ pool'[a] \in Seq(Extrinsic) /\ n \in Nat /\ DOMAIN pool[a] = 1 .. n
      /\ \/ pool'[a] = pool[a]
         \/ /\ DOMAIN pool'[a] = 1 .. n + 1
            /\ \A i \in DOMAIN pool[a] : pool'[a][i] = pool[a][i]
            /\ pool'[a][n + 1] = x
      /\ Range(pool'[a]) \subseteq Range(pool[a]) \cup {x}
  <2>1. pool'[a] = pool[a] \/ pool'[a] = Append(pool[a], x)
    BY <1>2 DEF x
  <2>2. pool[a] \in Seq(Extrinsic) /\ x \in Extrinsic
    BY <1>1, <1>2
  <2>. DEFINE q == pool[a]
  <2>. HIDE DEF q
  <2>3. q \in Seq(Extrinsic)
    BY <2>2 DEF q
  <2>4. /\ Append(q, x) \in Seq(Extrinsic) /\ DOMAIN q = 1 .. Len(q) /\ Len(q) \in Nat
        /\ DOMAIN Append(q, x) = 1 .. Len(q) + 1
        /\ \A i \in DOMAIN q : Append(q, x)[i] = q[i]
        /\ Append(q, x)[Len(q) + 1] = x
        /\ Range(Append(q, x)) = Range(q) \cup {x}
    BY <2>2, <2>3, SeqSteps
  <2>5. CASE pool'[a] = pool[a]
    BY <2>2, <2>4, <2>5 DEF q
  <2>6. CASE pool'[a] = Append(pool[a], x)
    <3>. USE DEF q
    <3>1. pool'[a] \in Seq(Extrinsic) /\ n \in Nat /\ DOMAIN pool[a] = 1 .. n
      BY <2>4, <2>6
    <3>2. /\ DOMAIN pool'[a] = 1 .. n + 1
          /\ \A i \in DOMAIN pool[a] : pool'[a][i] = pool[a][i]
          /\ pool'[a][n + 1] = x
      BY <2>4, <2>6
    <3>3. Range(pool'[a]) \subseteq Range(pool[a]) \cup {x}
      BY <2>4, <2>6
    <3>. QED  BY <3>1, <3>2, <3>3
  <2>. QED  BY <2>1, <2>5, <2>6
<1>. HIDE DEF n
<1>5. \A b \in Admins : \/ b = a
                        \/ GoodJob(b, job[b], calls[b]) /\ job'[b] = job[b]
  BY <1>2, JobsGood
<1>6. TypeOK'
  <2>1. job' \in [Admins -> Job] /\ pool' \in [Admins -> Seq(Extrinsic)]
    BY <1>1, <1>2, <1>4 DEF GoodJob, x
  <2>2. \A b \in Admins : job'[b].op # "none" =>
          (Program(job'[b].op)[job'[b].step] # "create_pure" <=> job'[b].p # NoProxy)
    BY <1>2, <1>5 DEF GoodJob
  <2>. QED  BY <1>0, <2>1, <2>2 DEF TypeOK, Kind
<1>7. Serials'
  <2>1. \A b \in Accounts : IsFiniteSet(Made(b)') /\ Made(b)' = {b} \X (1 .. Cardinality(Made(b)'))
    BY <1>0, <1>3 DEF Serials
  <2>2. ASSUME NEW i \in DOMAIN pool'[a]
        PROVE  /\ pool'[a][i].by = a /\ pool'[a][i].root \in {a} \X (1 .. calls[a])
               /\ Creates(pool'[a][i]) => pool'[a][i].root[2] > Cardinality(Made(a))
    <3>1. CASE i \in DOMAIN pool[a] /\ pool'[a][i] = pool[a][i]
      BY <1>0, <3>1 DEF Serials
    <3>2. CASE pool'[a][i] = x
      <4>1. x.kind = "create_pure" => Cardinality(Made(a)) < calls[a]
        BY <1>0, <1>1 DEF Calls
      <4>2. Cardinality(Made(a)) \in Nat
        BY <1>0, FS_CardinalityType DEF Serials, Accounts
      <4>3. x.by = a /\ x.root \in {a} \X (1 .. calls[a])
        BY <1>1
      <4>4. Creates(x) => x.root[2] > Cardinality(Made(a))
        BY <1>1, <4>1, <4>2 DEF Creates
      <4>. QED  BY <3>2, <4>3, <4>4
    <3>3. (i \in DOMAIN pool[a] /\ pool'[a][i] = pool[a][i]) \/ pool'[a][i] = x
      BY <1>4, SMTT(30)
    <3>. QED  BY <3>1, <3>2, <3>3
  <2>3. ASSUME NEW i \in DOMAIN pool'[a], NEW k \in DOMAIN pool'[a], i < k,
               Creates(pool'[a][i]), Creates(pool'[a][k])
        PROVE  pool'[a][i].root[2] < pool'[a][k].root[2]
    <3>1. /\ i \in DOMAIN pool[a] /\ pool'[a][i] = pool[a][i]
          /\ \/ k \in DOMAIN pool[a] /\ pool'[a][k] = pool[a][k]
             \/ pool'[a][k] = x
      BY <1>4, <2>3
    <3>2. CASE k \in DOMAIN pool[a] /\ pool'[a][k] = pool[a][k]
      BY <1>0, <2>3, <3>1, <3>2 DEF Serials
    <3>3. CASE pool'[a][k] = x
      <4>1. AboutToCreate(a)
        BY <1>1, <2>3, <3>3 DEF Creates
      <4>2. pool[a][i].root[2] < calls[a]
        BY <1>0, <3>1, <4>1 DEF Calls
      <4>. QED  BY <1>1, <3>1, <3>3, <4>2
    <3>. QED  BY <3>1, <3>2, <3>3
  <2>4. \A b \in Admins : Cardinality(Made(b)') <= calls'[b] /\ calls'[b] <= MaxCalls[b]
    BY <1>0, <1>3 DEF Serials
  <2>5. ASSUME NEW b \in Admins
        PROVE  /\ \A i \in DOMAIN pool'[b] :
                    /\ pool'[b][i].by = b
                    /\ pool'[b][i].root \in {b} \X (1 .. calls[b])
                    /\ Creates(pool'[b][i]) => pool'[b][i].root[2] > Cardinality(Made(b))
               /\ \A i, k \in DOMAIN pool'[b] :
                    i < k /\ Creates(pool'[b][i]) /\ Creates(pool'[b][k])
                      => pool'[b][i].root[2] < pool'[b][k].root[2]
    <3>1. CASE b = a
      BY <2>2, <2>3, <3>1
    <3>2. CASE b # a
      BY <1>0, <1>2, <3>2 DEF Serials
    <3>. QED  BY <3>1, <3>2
  <2>. QED  BY <1>3, <2>1, <2>4, <2>5 DEF Serials, Creates
<1>8. Calls'
  <2>1. ASSUME NEW b \in Admins
        PROVE  /\ job'[b].op # "none" =>
                    /\ job'[b].step <= Len(Program(job'[b].op))
                    /\ job'[b].root = <<b, calls[b]>> /\ calls[b] >= 1
               /\ job'[b].op = "none" => job'[b].p = NoProxy
               /\ record[b] # NoOrg => record[b].p # NoProxy
               /\ AboutToCreate(b)' =>
                    /\ Cardinality(Made(b)) < calls[b]
                    /\ \A i \in DOMAIN pool'[b] : pool'[b][i].root[2] < calls[b]
    <3>1. CASE b = a
      BY <1>0, <1>2, <3>1 DEF GoodJob, AboutToCreate, Calls
    <3>2. CASE b # a
      BY <1>0, <1>2, <3>2 DEF AboutToCreate, Calls
    <3>. QED  BY <3>1, <3>2
  <2>. QED  BY <1>3, <2>1 DEF Calls
<1>9. Uses'
  <2>1. OnlyCreatedProxiesUsed'
    <3>1. ASSUME NEW b \in Admins, NEW y \in Range(pool'[b]) \cup failed, y.kind # "create_pure"
          PROVE  y.p \in pures \ Range(open)
      <4>1. CASE y \in Range(pool[b]) \cup failed
        BY <1>0, <3>1, <4>1 DEF Uses, OnlyCreatedProxiesUsed
      <4>2. CASE y = x
        BY <1>1, <3>1, <4>2
      <4>3. y \in Range(pool[b]) \cup failed \/ y = x
        BY <1>2, <1>4, <3>1
      <4>. QED  BY <4>1, <4>2, <4>3
    <3>. QED  BY <3>1 DEF OnlyCreatedProxiesUsed
  <2>2. \A b \in Admins : {job'[b].p, record[b].p} \subseteq {NoProxy} \cup (pures \ Range(open))
    BY <1>0, <1>2 DEF GoodJob, Uses
  <2>. QED  BY <1>0, <2>1, <2>2 DEF Uses
<1>. QED  BY <1>6, <1>7, <1>8, <1>9 DEF ChainInv

\* A call submits an extrinsic, with success or not.
LEMMA SubmitStep ==
  ASSUME ChainInv, NEW a \in Admins, Submit(a)
  PROVE  ChainInv'
<1>0. /\ job[a].op # "none" /\ job[a].phase = "submit"
      /\ UNCHANGED <<open, head, pures, control, funded, mapped, slot, failed, fresh,
                     record, calls>>
  BY DEF Submit
<1>1. CASE /\ pool' = [pool EXCEPT ![a] = Append(@, NextExtrinsic(a))]
           /\ job' = [job EXCEPT ![a].phase = "snapshot"] /\ UNCHANGED faults
  <2>. DEFINE j == [job[a] EXCEPT !.phase = "snapshot"]
  <2>1. job' = [job EXCEPT ![a] = j]
    BY <1>1
  <2>2. GoodJob(a, job[a], calls[a])
    BY JobsGood
  <2>3. /\ j \in Job /\ j.op = job[a].op /\ j.step = job[a].step /\ j.root = job[a].root
        /\ j.p = job[a].p /\ j.phase = "snapshot"
    BY <2>2 DEF GoodJob, Job
  <2>. HIDE DEF j
  <2>4. GoodJob(a, j, calls[a])
    BY <2>2, <2>3 DEF GoodJob
  <2>5. faults' \in 0 .. MaxFaults
    BY <1>1, Locals
  <2>. QED  BY <1>0, <1>1, <2>1, <2>3, <2>4, <2>5, PoolStep
<1>2. CASE /\ Fault /\ Fails(a)
           /\ pool' \in {pool, [pool EXCEPT ![a] = Append(@, NextExtrinsic(a))]}
  <2>1. GoodJob(a, NoJob(a), calls[a]) /\ NoJob(a).op = "none"
    BY NoJobGood DEF NoJob
  <2>2. job' = [job EXCEPT ![a] = NoJob(a)] /\ faults' \in 0 .. MaxFaults
    BY <1>2, Locals DEF Fails
  <2>. HIDE DEF NoJob
  <2>. QED  BY <1>0, <1>2, <2>1, <2>2, PoolStep
<1>. QED  BY <1>1, <1>2 DEF Submit

-----------------------------------------------------------------------------
(* The chain.                                                              *)

\* The proxy pallet hands out a number it has not used for this account.
LEMMA PureIsNew ==
  ASSUME ChainInv, NEW a \in Accounts
  PROVE  /\ Cardinality(Made(a)) \in Nat
         /\ NextPure(a) = <<a, 1 + Cardinality(Made(a))>> /\ NextPure(a)[1] = a
         /\ NextPure(a) \notin pures
<1>1. /\ IsFiniteSet(Made(a)) /\ Made(a) = {a} \X (1 .. Cardinality(Made(a)))
      /\ Cardinality(Made(a)) \in Nat
  BY FS_CardinalityType DEF ChainInv, Serials
<1>2. NextPure(a) = <<a, 1 + Cardinality(Made(a))>>
  BY DEF NextPure, Made
<1>3. <<a, 1 + Cardinality(Made(a))>> \notin Made(a)
  BY <1>1
<1>4. <<a, 1 + Cardinality(Made(a))>>[1] = a
  OBVIOUS
<1>. QED  BY <1>1, <1>2, <1>3, <1>4 DEF Made

\* A creation adds one proxy to the creator's.
LEMMA MadeGrows ==
  ASSUME ChainInv, NEW a \in Accounts, pures' = pures \cup {NextPure(a)}
  PROVE  /\ \A b \in Accounts : IsFiniteSet(Made(b)')
                                /\ Made(b)' = {b} \X (1 .. Cardinality(Made(b)'))
         /\ Cardinality(Made(a)') = Cardinality(Made(a)) + 1
         /\ \A b \in Accounts \ {a} : Made(b)' = Made(b)
<1>. DEFINE k == Cardinality(Made(a))
            pure == NextPure(a)
<1>1. /\ k \in Nat /\ pure = <<a, 1 + k>> /\ pure[1] = a /\ pure \notin pures
      /\ IsFiniteSet(Made(a)) /\ Made(a) = {a} \X (1 .. k)
  BY PureIsNew DEF ChainInv, Serials
<1>. HIDE DEF pure
<1>2. Made(a)' = Made(a) \cup {pure} /\ pure \notin Made(a)
  BY <1>1 DEF Made, pure
<1>3. \A b \in Accounts \ {a} : Made(b)' = Made(b)
  BY <1>1 DEF Made, pure
<1>4. IsFiniteSet(Made(a)') /\ Cardinality(Made(a)') = k + 1
  <2>. DEFINE M == Made(a)
  <2>. HIDE DEF M
  <2>1. IsFiniteSet(M \cup {pure}) /\ Cardinality(M \cup {pure}) = Cardinality(M) + 1
    BY <1>1, <1>2, FS_AddElement DEF M
  <2>. QED  BY <1>2, <2>1 DEF M
<1>5. Made(a)' = {a} \X (1 .. k + 1)
  <2>. HIDE DEF k
  <2>1. 1 .. k + 1 = (1 .. k) \cup {k + 1}
    BY <1>1
  <2>2. ({a} \X (1 .. k)) \cup {<<a, 1 + k>>} = {a} \X ((1 .. k) \cup {k + 1})
    BY <1>1
  <2>. QED  BY <1>1, <1>2, <2>1, <2>2
<1>. HIDE DEF k
<1>6. \A b \in Accounts \ {a} : IsFiniteSet(Made(b)')
                                /\ Made(b)' = {b} \X (1 .. Cardinality(Made(b)'))
  BY <1>3 DEF ChainInv, Serials
<1>7. Made(a)' = {a} \X (1 .. Cardinality(Made(a)'))
  BY <1>4, <1>5
<1>. QED  BY <1>3, <1>4, <1>6, <1>7 DEF k

\* The effect of an executed extrinsic stays within the types.
LEMMA EffectTypes ==
  ASSUME ChainInv, NEW a \in Admins, NEW x \in Extrinsic, x.by = a,
         x.kind # "create_pure" => x.p \in pures,
         x.kind = "create_pure" => NextPure(a) \in Proxies,
         Dispatches(x), Effect(x)
  PROVE  /\ open' \in Seq(Proxies) /\ control' \in [Proxies -> SUBSET Accounts]
         /\ pures' \subseteq Proxies /\ funded' \subseteq Proxies /\ mapped' \subseteq Proxies
         /\ slot' \in [Proxies -> Slot]
<1>0. /\ open \in Seq(Proxies) /\ control \in [Proxies -> SUBSET Accounts]
      /\ pures \subseteq Proxies /\ funded \subseteq Proxies /\ mapped \subseteq Proxies
      /\ slot \in [Proxies -> Slot] /\ a \in Accounts
  BY DEF ChainInv, TypeOK, Accounts
<1>1. /\ x.to \in Accounts /\ x.root \in Root \cup {<<>>}
      /\ x.kind \in {"create_pure", "fund", "map_account", "update", "add_proxy", "remove_proxy"}
  BY KindsAre DEF Extrinsic
<1>. DEFINE pure == NextPure(a)
<1>2. CASE x.kind = "create_pure"
  <2>. HIDE DEF pure
  <2>1. pure \in Proxies
    BY <1>2 DEF pure
  <2>2. /\ open' = Append(open, pure) /\ pures' = pures \cup {pure}
        /\ control' = [control EXCEPT ![pure] = {a}]
        /\ funded' = funded /\ mapped' = mapped /\ slot' = slot
    BY <1>2 DEF Effect, pure
  <2>. QED  BY <1>0, <2>1, <2>2
<1>3. CASE x.kind # "create_pure"
  <2>1. x.p \in Proxies /\ open' = open /\ pures' = pures
    BY <1>0, <1>3 DEF Effect
  <2>2. funded' \subseteq Proxies /\ mapped' \subseteq Proxies
    BY <1>0, <2>1 DEF Effect
  <2>3. control' \in [Proxies -> SUBSET Accounts]
    <3>1. \/ control' = control \/ control' = [control EXCEPT ![x.p] = @ \cup {x.to}]
          \/ control' = [control EXCEPT ![x.p] = @ \ {x.to}]
      BY <1>1, <1>3 DEF Effect
    <3>. QED  BY <1>0, <1>1, <2>1, <3>1
  <2>4. slot' \in [Proxies -> Slot]
    <3>1. \/ slot' = slot
          \/ slot' = [slot EXCEPT ![x.p] = [root |-> x.root, epoch |-> slot[x.p].epoch + 1]]
      BY DEF Effect
    <3>2. slot[x.p].epoch + 1 \in Nat
      BY <1>0, <2>1 DEF Slot
    <3>3. [root |-> x.root, epoch |-> slot[x.p].epoch + 1] \in Slot
      BY <1>1, <3>2 DEF Slot
    <3>. QED  BY <1>0, <3>1, <3>3
  <2>. QED  BY <1>0, <2>1, <2>2, <2>3, <2>4
<1>. QED  BY <1>2, <1>3

\* What the head of a pool is.
LEMMA HeadIs ==
  ASSUME ChainInv, NEW a \in Admins, pool[a] # <<>>
  PROVE  LET x == Head(pool[a]) IN
         /\ x \in Extrinsic /\ x.by = a /\ x = pool[a][1]
         /\ 1 \in DOMAIN pool[a] /\ Len(pool[a]) >= 1 /\ Len(pool[a]) \in Nat
         /\ DOMAIN pool[a] = 1 .. Len(pool[a])
         /\ Tail(pool[a]) \in Seq(Extrinsic)
         /\ DOMAIN Tail(pool[a]) = 1 .. Len(pool[a]) - 1
         /\ \A i \in DOMAIN Tail(pool[a]) : /\ Tail(pool[a])[i] = pool[a][i + 1]
                                            /\ i + 1 \in DOMAIN pool[a]
         /\ Range(Tail(pool[a])) \subseteq Range(pool[a])
         /\ x.kind # "create_pure" => x.p \in pures \ Range(open)
         /\ x.kind = "create_pure" => NextPure(a) \in Proxies
<1>. DEFINE q == pool[a]
<1>. HIDE DEF q
<1>1. q \in Seq(Extrinsic) /\ q # <<>>
  BY DEF ChainInv, TypeOK, q
<1>2. q[1] \in Extrinsic
  BY <1>1
<1>3. /\ DOMAIN q = 1 .. Len(q) /\ Len(q) \in Nat
      /\ Tail(q) \in Seq(Extrinsic) /\ Head(q) \in Extrinsic /\ Head(q) = q[1]
      /\ 1 \in DOMAIN q /\ Len(q) >= 1
      /\ DOMAIN Tail(q) = 1 .. Len(q) - 1
      /\ \A i \in DOMAIN Tail(q) : Tail(q)[i] = q[i + 1] /\ i + 1 \in DOMAIN q
      /\ Range(Tail(q)) \subseteq Range(q) /\ Head(q) \in Range(q)
  BY <1>1, <1>2, SeqSteps
<1>4. Head(q).by = a
  BY <1>3 DEF ChainInv, Serials, q
<1>5. Head(q).kind # "create_pure" => Head(q).p \in pures \ Range(open)
  BY <1>3 DEF ChainInv, Uses, OnlyCreatedProxiesUsed, q
<1>6. ASSUME Head(q).kind = "create_pure"  PROVE NextPure(a) \in Proxies
  <2>1. /\ q[1].root[2] > Cardinality(Made(a)) /\ q[1].root[2] \in 1 .. calls[a]
        /\ calls[a] <= MaxCalls[a]
    BY <1>3, <1>6 DEF ChainInv, Serials, Creates, q
  <2>2. /\ Cardinality(Made(a)) \in Nat /\ calls[a] \in Nat /\ MaxCalls[a] \in Nat
        /\ a \in Accounts
    <3>1. a \in Accounts /\ calls[a] \in Nat
      BY Locals
    <3>2. MaxCalls[a] \in Nat
      BY <3>1, BoundsAssumption
    <3>3. Cardinality(Made(a)) \in Nat
      BY <3>1, PureIsNew
    <3>. QED  BY <3>1, <3>2, <3>3
  <2>3. 1 + Cardinality(Made(a)) \in 1 .. MaxCalls[a]
    BY <2>1, <2>2
  <2>. QED  BY <2>2, <2>3, PureIsNew, PairsAre
<1>. QED  BY <1>3, <1>4, <1>5, <1>6 DEF q

\* A block executes an extrinsic: the numbering survives.
LEMMA ExecuteSerials ==
  ASSUME ChainInv, NEW a \in Admins, pool[a] # <<>>,
         pool' = [pool EXCEPT ![a] = Tail(@)], UNCHANGED <<job, record, calls>>,
         \/ pures' = pures
         \/ Creates(Head(pool[a])) /\ pures' = pures \cup {NextPure(a)}
  PROVE  Serials' /\ Calls'
<1>0. TypeOK /\ Serials /\ Calls /\ a \in Accounts
  BY DEF ChainInv, Accounts
<1>. DEFINE k(b) == Cardinality(Made(b))
            x == Head(pool[a])
<1>1. /\ \A b \in Accounts : IsFiniteSet(Made(b)') /\ Made(b)' = {b} \X (1 .. k(b)')
      /\ \A b \in Accounts \ {a} : Made(b)' = Made(b)
      /\ \/ Made(a)' = Made(a)
         \/ Creates(x) /\ k(a)' = k(a) + 1
  <2>1. CASE pures' = pures
    <3>1. \A b : Made(b)' = Made(b)
      BY <2>1 DEF Made
    <3>. QED  BY <1>0, <3>1 DEF Serials
  <2>2. CASE Creates(x) /\ pures' = pures \cup {NextPure(a)}
    BY <1>0, <2>2, MadeGrows
  <2>. QED  BY <2>1, <2>2
<1>2. \A b \in Admins : k(b) \in Nat /\ calls[b] \in Nat /\ calls[b] <= MaxCalls[b]
                        /\ k(b) <= calls[b] /\ b \in Accounts
  BY <1>0, FS_CardinalityType DEF Serials, TypeOK, Accounts
<1>3. /\ \A b \in Admins \ {a} : pool'[b] = pool[b]
      /\ pool'[a] = Tail(pool[a])
  BY <1>0 DEF TypeOK
<1>. DEFINE q == pool[a]
<1>4. /\ x = q[1] /\ 1 \in DOMAIN q
      /\ DOMAIN pool'[a] = 1 .. Len(q) - 1 /\ Len(q) \in Nat
      /\ \A i \in DOMAIN pool'[a] : /\ pool'[a][i] = q[i + 1] /\ i + 1 \in DOMAIN q
                                    /\ i \in Nat /\ 1 < i + 1
  <2>1. /\ x = q[1] /\ 1 \in DOMAIN q /\ Len(q) \in Nat
        /\ DOMAIN Tail(q) = 1 .. Len(q) - 1
        /\ \A i \in DOMAIN Tail(q) : Tail(q)[i] = q[i + 1] /\ i + 1 \in DOMAIN q
    BY HeadIs
  <2>2. \A i \in 1 .. Len(q) - 1 : i \in Nat /\ 1 < i + 1
    BY <2>1
  <2>. HIDE DEF x, q
  <2>3. pool'[a] = Tail(q)
    BY <1>3 DEF q
  <2>. QED  BY <2>1, <2>2, <2>3
<1>5. /\ \A i \in DOMAIN q :
           /\ q[i].by = a /\ q[i].root \in {a} \X (1 .. calls[a]) /\ q[i].root[2] \in Nat
           /\ Creates(q[i]) => q[i].root[2] > k(a)
      /\ \A i, j \in DOMAIN q :
           i < j /\ Creates(q[i]) /\ Creates(q[j]) => q[i].root[2] < q[j].root[2]
      /\ AboutToCreate(a) => \A i \in DOMAIN q : q[i].root[2] < calls[a]
      /\ AboutToCreate(a) => k(a) < calls[a]
  BY <1>0 DEF Serials, Calls
<1>6. Creates(x) => /\ k(a) + 1 <= calls[a]
                    /\ \A i \in DOMAIN pool'[a] :
                         Creates(pool'[a][i]) => pool'[a][i].root[2] > k(a) + 1
                    /\ AboutToCreate(a) => k(a) + 1 < calls[a]
  <2>. HIDE DEF k, q, x
  <2>1. ASSUME Creates(x)
        PROVE  /\ q[1].root[2] > k(a) /\ q[1].root[2] \in Nat /\ q[1].root[2] <= calls[a]
    <3>1. q[1].root[2] \in 1 .. calls[a]
      BY <1>4, <1>5
    <3>. QED  BY <1>4, <1>5, <2>1, <3>1
  <2>2. ASSUME Creates(x), NEW i \in DOMAIN pool'[a], Creates(pool'[a][i])
        PROVE  pool'[a][i].root[2] > k(a) + 1
    <3>1. q[1].root[2] < q[i + 1].root[2] /\ pool'[a][i] = q[i + 1] /\ i + 1 \in DOMAIN q
      BY <1>4, <1>5, <2>2
    <3>2. k(a) \in Nat /\ q[i + 1].root[2] \in Nat
      BY <1>2, <1>5, <3>1
    <3>. QED  BY <2>1, <2>2, <3>1, <3>2
  <2>3. ASSUME Creates(x), AboutToCreate(a)
        PROVE  k(a) + 1 < calls[a]
    <3>1. q[1].root[2] < calls[a]
      BY <1>4, <1>5, <2>3
    <3>. QED  BY <1>2, <2>1, <2>3, <3>1
  <2>4. Creates(x) => k(a) + 1 <= calls[a]
    BY <1>2, <2>1
  <2>. QED  BY <2>2, <2>3, <2>4
<1>7. /\ k(a)' <= calls[a]
      /\ AboutToCreate(a) => k(a)' < calls[a]
      /\ \A i \in DOMAIN pool'[a] :
           /\ pool'[a][i].by = a /\ pool'[a][i].root \in {a} \X (1 .. calls[a])
           /\ Creates(pool'[a][i]) => pool'[a][i].root[2] > k(a)'
      /\ \A i, j \in DOMAIN pool'[a] :
           i < j /\ Creates(pool'[a][i]) /\ Creates(pool'[a][j])
             => pool'[a][i].root[2] < pool'[a][j].root[2]
      /\ AboutToCreate(a) => \A i \in DOMAIN pool'[a] : pool'[a][i].root[2] < calls[a]
  <2>1. k(a)' = k(a) \/ (Creates(x) /\ k(a)' = k(a) + 1)
    BY <1>1
  <2>. DEFINE kk == k(a)'
  <2>. HIDE DEF k, q, x, kk
  <2>2. kk = k(a) \/ (Creates(x) /\ kk = k(a) + 1)
    BY <2>1 DEF kk
  <2>3. kk <= calls[a] /\ (AboutToCreate(a) => kk < calls[a])
    BY <1>2, <1>5, <1>6, <2>2
  <2>4. \A i \in DOMAIN pool'[a] :
           /\ pool'[a][i].by = a /\ pool'[a][i].root \in {a} \X (1 .. calls[a])
           /\ Creates(pool'[a][i]) => pool'[a][i].root[2] > kk
    BY <1>4, <1>5, <1>6, <2>2
  <2>5. \A i, j \in DOMAIN pool'[a] : i < j => i + 1 < j + 1
    BY <1>4
  <2>6. \A i, j \in DOMAIN pool'[a] :
           i < j /\ Creates(pool'[a][i]) /\ Creates(pool'[a][j])
             => pool'[a][i].root[2] < pool'[a][j].root[2]
    BY <1>4, <1>5, <2>5
  <2>7. AboutToCreate(a) => \A i \in DOMAIN pool'[a] : pool'[a][i].root[2] < calls[a]
    BY <1>4, <1>5
  <2>. QED  BY <2>3, <2>4, <2>6, <2>7 DEF kk
<1>8. Serials'
  <2>1. ASSUME NEW b \in Admins \ {a}
        PROVE  /\ k(b)' <= calls[b]
               /\ \A i \in DOMAIN pool'[b] :
                    /\ pool'[b][i].by = b /\ pool'[b][i].root \in {b} \X (1 .. calls[b])
                    /\ Creates(pool'[b][i]) => pool'[b][i].root[2] > k(b)'
               /\ \A i, j \in DOMAIN pool'[b] :
                    i < j /\ Creates(pool'[b][i]) /\ Creates(pool'[b][j])
                      => pool'[b][i].root[2] < pool'[b][j].root[2]
    BY <1>0, <1>1, <1>2, <1>3 DEF Serials
  <2>. HIDE DEF q, x
  <2>. QED  BY <1>1, <1>2, <1>7, <2>1 DEF Serials, Creates
<1>9. Calls'
  <2>1. \A b \in Admins : AboutToCreate(b)' = AboutToCreate(b)
    BY DEF AboutToCreate
  <2>2. ASSUME NEW b \in Admins
        PROVE  AboutToCreate(b) =>
                 /\ k(b)' < calls[b]
                 /\ \A i \in DOMAIN pool'[b] : pool'[b][i].root[2] < calls[b]
    <3>1. CASE b = a
      BY <1>7, <3>1
    <3>2. CASE b # a
      BY <1>0, <1>1, <1>2, <1>3, <3>2 DEF Calls
    <3>. QED  BY <3>1, <3>2
  <2>. QED  BY <1>0, <2>1, <2>2 DEF Calls
<1>. QED  BY <1>8, <1>9

\* A creation puts a new proxy into the open block; the accounts in use stay so.
LEMMA CreateUses ==
  ASSUME ChainInv, NEW pure \in Proxies, pure \notin pures,
         open' = Append(open, pure), pures' = pures \cup {pure}
  PROVE  /\ Range(open') \subseteq pures'
         /\ pures \ Range(open) \subseteq pures' \ Range(open')
<1>1. open \in Seq(Proxies) /\ Range(open) \subseteq pures
  BY DEF ChainInv, TypeOK, Uses
<1>2. Range(open') = Range(open) \cup {pure}
  BY <1>1, SeqSteps
<1>. QED  BY <1>1, <1>2

\* A block executes an extrinsic.
LEMMA ExecuteStep ==
  ASSUME ChainInv, NEW a \in Admins, ExecuteExtrinsic(a)
  PROVE  ChainInv'
<1>0. TypeOK /\ Serials /\ Calls /\ Uses
  BY DEF ChainInv
<1>. DEFINE x == Head(pool[a])
<1>1. /\ pool[a] # <<>> /\ pool' = [pool EXCEPT ![a] = Tail(@)]
      /\ UNCHANGED <<head, job, fresh, record, calls>>
  BY DEF ExecuteExtrinsic
<1>2. \/ Dispatches(x) /\ Effect(x) /\ UNCHANGED <<failed, faults>>
      \/ /\ UNCHANGED faults \/ Fault
         /\ failed' = failed \cup {x}
         /\ UNCHANGED <<open, pures, control, funded, mapped, slot>>
  BY DEF ExecuteExtrinsic
<1>3. /\ x \in Extrinsic /\ x.by = a /\ x \in Range(pool[a])
      /\ Tail(pool[a]) \in Seq(Extrinsic) /\ Range(Tail(pool[a])) \subseteq Range(pool[a])
      /\ x.kind # "create_pure" => x.p \in pures \ Range(open)
      /\ x.kind = "create_pure" => NextPure(a) \in Proxies
  BY <1>1, HeadIs DEF Range
<1>4. /\ pool'[a] = Tail(pool[a]) /\ \A b \in Admins \ {a} : pool'[b] = pool[b]
      /\ pool' \in [Admins -> Seq(Extrinsic)] /\ faults' \in 0 .. MaxFaults
  <2>1. pool \in [Admins -> Seq(Extrinsic)]
    BY <1>0 DEF TypeOK
  <2>2. faults' \in 0 .. MaxFaults
    BY <1>2, Locals
  <2>. HIDE DEF x
  <2>. QED  BY <1>1, <1>3, <2>1, <2>2
<1>. HIDE DEF x
<1>5. /\ open' \in Seq(Proxies) /\ control' \in [Proxies -> SUBSET Accounts]
      /\ pures' \subseteq Proxies /\ funded' \subseteq Proxies /\ mapped' \subseteq Proxies
      /\ slot' \in [Proxies -> Slot] /\ failed' \subseteq Extrinsic
  <2>1. CASE Dispatches(x) /\ Effect(x) /\ UNCHANGED failed
    <3>1. failed' \subseteq Extrinsic
      BY <1>0, <2>1 DEF TypeOK
    <3>. QED  BY <1>3, <2>1, <3>1, EffectTypes
  <2>2. CASE failed' = failed \cup {x} /\ UNCHANGED <<open, pures, control, funded, mapped, slot>>
    BY <1>0, <1>3, <2>2 DEF TypeOK
  <2>. QED  BY <1>2, <2>1, <2>2
<1>6. \/ UNCHANGED <<open, pures>>
      \/ /\ Creates(x) /\ open' = Append(open, NextPure(a))
         /\ pures' = pures \cup {NextPure(a)}
  BY <1>2, <1>3 DEF Effect, Creates
<1>7. TypeOK'
  <2>1. \A b \in Admins : job'[b].op # "none" => (Kind(b)' # "create_pure" <=> job'[b].p # NoProxy)
    BY <1>0, <1>1 DEF TypeOK, Kind
  <2>2. /\ head' \in Seq(Proxies) /\ job' \in [Admins -> Job]
        /\ fresh' \in [Admins -> BOOLEAN] /\ record' \in [Admins -> Record]
        /\ calls' \in [Admins -> Nat]
    BY <1>0, <1>1 DEF TypeOK
  <2>. QED  BY <1>4, <1>5, <2>1, <2>2 DEF TypeOK
<1>8. Serials' /\ Calls'
  BY <1>1, <1>6, ExecuteSerials DEF x
<1>9. /\ Range(open') \subseteq pures'
      /\ pures \ Range(open) \subseteq pures' \ Range(open')
  <2>1. CASE UNCHANGED <<open, pures>>
    BY <1>0, <2>1 DEF Uses
  <2>2. CASE /\ Creates(x) /\ open' = Append(open, NextPure(a))
             /\ pures' = pures \cup {NextPure(a)}
    <3>1. NextPure(a) \notin pures /\ NextPure(a) \in Proxies
      BY <1>3, <2>2, Locals, PureIsNew DEF Creates
    <3>. QED  BY <2>2, <3>1, CreateUses
  <2>. QED  BY <1>6, <2>1, <2>2
<1>10. Uses'
  <2>1. ASSUME NEW b \in Admins, NEW y \in Range(pool'[b]) \cup failed', y.kind # "create_pure"
        PROVE  y.p \in pures \ Range(open)
    <3>1. y \in Range(pool[b]) \cup failed \/ y = x
      BY <1>2, <1>3, <1>4, <2>1
    <3>. QED  BY <1>0, <1>3, <2>1, <3>1 DEF Uses, OnlyCreatedProxiesUsed
  <2>2. OnlyCreatedProxiesUsed'
    BY <1>9, <2>1 DEF OnlyCreatedProxiesUsed
  <2>3. Range(head') \subseteq pures' \ Range(open')
    BY <1>0, <1>1, <1>9 DEF Uses
  <2>4. \A b \in Admins :
          {job'[b].p, record'[b].p} \subseteq {NoProxy} \cup (pures' \ Range(open'))
    BY <1>0, <1>1, <1>9 DEF Uses
  <2>. QED  BY <1>9, <2>2, <2>3, <2>4 DEF Uses
<1>. QED  BY <1>7, <1>8, <1>10 DEF ChainInv

\* Another user creates a pure proxy.
LEMMA StrangerStep ==
  ASSUME ChainInv, NEW s \in Strangers, StrangerCreates(s)
  PROVE  ChainInv'
<1>0. TypeOK /\ Serials /\ Calls /\ Uses /\ s \in Accounts /\ s \notin Admins
  BY BoundsAssumption DEF ChainInv, Accounts
<1>. DEFINE pure == NextPure(s)
<1>1. /\ pure \in Proxies /\ open' = Append(open, pure) /\ pures' = pures \cup {pure}
      /\ control' = [control EXCEPT ![pure] = {s}]
      /\ UNCHANGED <<pool, head, funded, mapped, slot, failed, job, fresh, record,
                     calls, faults>>
  BY DEF StrangerCreates
<1>2. pure \notin pures
  BY <1>0, PureIsNew
<1>3. /\ \A b \in Accounts : IsFiniteSet(Made(b)') /\ Made(b)' = {b} \X (1 .. Cardinality(Made(b)'))
      /\ \A b \in Accounts \ {s} : Made(b)' = Made(b)
  BY <1>0, <1>1, MadeGrows
<1>. HIDE DEF pure
<1>4. TypeOK'
  <2>1. /\ open' \in Seq(Proxies) /\ pures' \subseteq Proxies
        /\ control' \in [Proxies -> SUBSET Accounts]
    BY <1>0, <1>1 DEF TypeOK
  <2>. QED  BY <1>0, <1>1, <2>1 DEF TypeOK, Kind
<1>5. \A b \in Admins : Made(b)' = Made(b)
  BY <1>0, <1>3 DEF Accounts
<1>6. Serials'
  BY <1>0, <1>1, <1>3, <1>5 DEF Serials
<1>7. Calls'
  BY <1>0, <1>1, <1>5 DEF Calls, AboutToCreate
<1>8. /\ Range(open') \subseteq pures'
      /\ pures \ Range(open) \subseteq pures' \ Range(open')
  BY <1>1, <1>2, CreateUses
<1>9. Uses'
  <2>1. OnlyCreatedProxiesUsed'
    BY <1>0, <1>1, <1>8 DEF Uses, OnlyCreatedProxiesUsed
  <2>2. \A b \in Admins :
          {job'[b].p, record'[b].p} \subseteq {NoProxy} \cup (pures' \ Range(open'))
    BY <1>0, <1>1, <1>8 DEF Uses
  <2>3. Range(head') \subseteq pures' \ Range(open')
    BY <1>0, <1>1, <1>8 DEF Uses
  <2>. QED  BY <1>8, <2>1, <2>2, <2>3 DEF Uses
<1>. QED  BY <1>4, <1>6, <1>7, <1>9 DEF ChainInv

\* A block is finalised.
LEMMA FinaliseStep ==
  ASSUME ChainInv, FinaliseBlock
  PROVE  ChainInv'
<1>0. TypeOK /\ Serials /\ Calls /\ Uses
  BY DEF ChainInv
<1>1. /\ head' = open /\ open' = <<>> /\ fresh' = [a \in Admins |-> job[a].phase = "poll"]
      /\ UNCHANGED <<pool, pures, control, funded, mapped, slot, failed, job, record,
                     calls, faults>>
  BY DEF FinaliseBlock
<1>2. Range(open') = {}
  BY <1>1 DEF Range
<1>3. TypeOK'
  BY <1>0, <1>1 DEF TypeOK, Kind
<1>4. Serials' /\ Calls'
  <2>1. \A b : Made(b)' = Made(b)
    BY <1>1 DEF Made
  <2>2. Serials'
    BY <1>0, <1>1, <2>1 DEF Serials
  <2>3. Calls'
    BY <1>0, <1>1, <2>1 DEF Calls, AboutToCreate
  <2>. QED  BY <2>2, <2>3
<1>5. Uses'
  <2>1. OnlyCreatedProxiesUsed'
    BY <1>0, <1>1, <1>2 DEF Uses, OnlyCreatedProxiesUsed
  <2>2. Range(head') \subseteq pures'
    BY <1>0, <1>1 DEF Uses
  <2>3. \A b \in Admins : {job'[b].p, record'[b].p} \subseteq {NoProxy} \cup pures'
    BY <1>0, <1>1 DEF Uses
  <2>. QED  BY <1>2, <2>1, <2>2, <2>3 DEF Uses
<1>. QED  BY <1>3, <1>4, <1>5 DEF ChainInv

\* Every step preserves the invariant.
LEMMA ChainStep ==
  ASSUME ChainInv, [Next]_vars
  PROVE  ChainInv'
<1>0. ASSUME UNCHANGED vars  PROVE ChainInv'
  <2>1. /\ pool' = pool /\ open' = open /\ head' = head /\ pures' = pures
        /\ control' = control /\ funded' = funded /\ mapped' = mapped /\ slot' = slot
        /\ failed' = failed /\ job' = job /\ fresh' = fresh /\ record' = record
        /\ calls' = calls /\ faults' = faults
    BY <1>0 DEF vars, chainVars
  <2>2. TypeOK' /\ Serials'
    BY <2>1 DEF ChainInv, TypeOK, Kind, Serials, Made
  <2>3. Calls' /\ Uses'
    BY <2>1 DEF ChainInv, Calls, AboutToCreate, Made, Uses, OnlyCreatedProxiesUsed
  <2>. QED  BY <2>2, <2>3 DEF ChainInv
<1>1. ASSUME NEW a \in Admins, SubmitGenesis(a)  PROVE ChainInv'
  <2>1. a \in Accounts /\ "genesis" \in Operations /\ 0 \in Nat
    BY Locals DEF Operations
  <2>. QED  BY <1>1, <2>1, StartStep DEF SubmitGenesis
<1>2. ASSUME NEW a \in Admins, NEW to \in Accounts, NEW op \in {"update", "rotate"},
             record[a] # NoOrg, Start(a, op, record[a].p, to, record[a].epoch)
      PROVE  ChainInv'
  <2>1. op \in Operations /\ op # "genesis"
    BY DEF Operations
  <2>2. record[a].epoch \in Nat
    BY Locals DEF Record
  <2>3. record[a].p # NoProxy /\ record[a].p \in {NoProxy} \cup (pures \ Range(open))
    BY <1>2, Locals
  <2>. QED  BY <1>2, <2>1, <2>2, <2>3, StartStep
<1>3. ASSUME NEW a \in Admins, SubmitUpdate(a)  PROVE ChainInv'
  <2>1. a \in Accounts
    BY Locals
  <2>. QED  BY <1>2, <1>3, <2>1 DEF SubmitUpdate
<1>4. ASSUME NEW a \in Admins, NEW to \in Accounts, Rotate(a, to)  PROVE ChainInv'
  BY <1>2, <1>4 DEF Rotate
<1>5. ASSUME NEW a \in Admins, Steps(a)  PROVE ChainInv'
  BY <1>5, SubmitStep, SnapshotStep, PollStep DEF Steps
<1>6. ASSUME NEW a \in Admins, Restart(a)  PROVE ChainInv'
  BY <1>6, FailStep DEF Restart
<1>. QED  BY <1>0, <1>1, <1>3, <1>4, <1>5, <1>6, ExecuteStep, StrangerStep, FinaliseStep
          DEF Next

\* The invariant holds in every behaviour.
LEMMA ChainInvariant == Spec => []ChainInv
BY ChainInit, ChainStep, PTL DEF Spec

\* The chain, the calls and the records keep the shapes of their types, and every
\* extrinsic past create_pure has an account to act for.
THEOREM ChainTypeCorrect == Spec => []TypeOK
<1>1. ChainInv => TypeOK
  BY DEF ChainInv
<1>. QED  BY <1>1, ChainInvariant, PTL

\* fund, map_account, update, add_proxy and remove_proxy are only ever sent for a
\* pure proxy whose creation is in a finalised block, whatever timed out, failed or
\* was restarted, and however many ceremonies run at once.
THEOREM OnlyExistingAccountsUsed == Spec => []OnlyCreatedProxiesUsed
<1>1. ChainInv => OnlyCreatedProxiesUsed
  BY DEF ChainInv, Uses
<1>. QED  BY <1>1, ChainInvariant, PTL

-----------------------------------------------------------------------------
(* An organisation keeps a controller.                                     *)

\* A call that owes nothing any more, and a pool that stays.
LEMMA ForgetDebt ==
  ASSUME NEW q, NEW p, NEW o \in BOOLEAN, AlternateIn(q, o, p)
  PROVE  AlternateIn(q, FALSE, p) /\ (ArmedIn(q, FALSE, p) => ArmedIn(q, o, p))
BY DEF AlternateIn, ArmedIn

\* Sending an extrinsic never arms a removal: an addition is sent when no removal
\* is owed, and a removal only when one is.
LEMMA SendKeeps ==
  ASSUME NEW q \in Seq(Extrinsic), NEW x \in Extrinsic, NEW p,
         NEW o \in BOOLEAN, NEW oo \in BOOLEAN, AlternateIn(q, o, p),
         \/ ~Adds(x, p) /\ ~Removes(x, p) /\ (oo => o)
         \/ Adds(x, p) /\ ~o
         \/ Removes(x, p) /\ o /\ ~oo
  PROVE  /\ AlternateIn(Append(q, x), oo, p)
         /\ ArmedIn(Append(q, x), oo, p) => ArmedIn(q, o, p)
<1>. DEFINE r == Append(q, x)
            n == Len(q)
<1>1. /\ DOMAIN q = 1 .. n /\ n \in Nat /\ DOMAIN r = 1 .. n + 1
      /\ \A i \in DOMAIN q : r[i] = q[i]
      /\ r[n + 1] = x
  BY SeqSteps
<1>. HIDE DEF r, n
<1>2. /\ \A i \in DOMAIN r : i \in DOMAIN q \/ i = n + 1
      /\ \A i \in DOMAIN q : i \in DOMAIN r /\ i < n + 1 /\ ~(n + 1 < i)
      /\ n + 1 \in DOMAIN r /\ ~(n + 1 < n + 1)
  BY <1>1
<1>3. ~(Adds(x, p) /\ Removes(x, p))
  BY DEF Adds, Removes
<1>4. AlternateIn(r, oo, p)
  <2>1. ASSUME NEW i \in DOMAIN r, NEW j \in DOMAIN r, i < j,
               Removes(r[i], p), Removes(r[j], p)
        PROVE  \E k \in DOMAIN r : i < k /\ k < j /\ Adds(r[k], p)
    <3>1. i \in DOMAIN q
      BY <1>2, <2>1
    <3>2. CASE j \in DOMAIN q
      BY <1>1, <1>2, <2>1, <3>1, <3>2 DEF AlternateIn
    <3>3. CASE j = n + 1
      BY <1>1, <1>2, <1>3, <2>1, <3>1, <3>3 DEF AlternateIn
    <3>. QED  BY <1>2, <3>2, <3>3
  <2>2. ASSUME oo, NEW i \in DOMAIN r, Removes(r[i], p)
        PROVE  \E k \in DOMAIN r : i < k /\ Adds(r[k], p)
    <3>1. i \in DOMAIN q
      BY <1>1, <1>2, <1>3, <2>2
    <3>2. CASE Adds(x, p)
      BY <1>1, <1>2, <3>1, <3>2
    <3>3. CASE ~Adds(x, p)
      BY <1>1, <1>2, <2>2, <3>1, <3>3 DEF AlternateIn
    <3>. QED  BY <3>2, <3>3
  <2>. QED  BY <2>1, <2>2 DEF AlternateIn
<1>5. ASSUME ArmedIn(r, oo, p)  PROVE ArmedIn(q, o, p)
  <2>1. ASSUME NEW j \in DOMAIN r, Removes(r[j], p),
               \A k \in DOMAIN r : k < j => ~Adds(r[k], p)
        PROVE  ArmedIn(q, o, p)
    <3>1. CASE j \in DOMAIN q
      BY <1>1, <1>2, <2>1, <3>1 DEF ArmedIn
    <3>2. CASE j = n + 1
      BY <1>1, <1>2, <1>3, <2>1, <3>2 DEF ArmedIn
    <3>. QED  BY <1>2, <2>1, <3>1, <3>2
  <2>2. ASSUME oo, \A k \in DOMAIN r : ~Adds(r[k], p)
        PROVE  ArmedIn(q, o, p)
    BY <1>1, <1>2, <2>2 DEF ArmedIn
  <2>. QED  BY <1>5, <2>1, <2>2 DEF ArmedIn
<1>. QED  BY <1>4, <1>5 DEF r

\* Executing an extrinsic arms a removal only if it is an addition, and disarms
\* it if it is the removal.
LEMMA ExecuteKeeps ==
  ASSUME NEW q \in Seq(Extrinsic), q # <<>>, NEW p, NEW o \in BOOLEAN,
         AlternateIn(q, o, p)
  PROVE  /\ AlternateIn(Tail(q), o, p)
         /\ ~Adds(Head(q), p) /\ ArmedIn(Tail(q), o, p) => ArmedIn(q, o, p)
         /\ Removes(Head(q), p) => ArmedIn(q, o, p) /\ ~ArmedIn(Tail(q), o, p)
<1>. DEFINE r == Tail(q)
            n == Len(q)
<1>1. /\ Head(q) = q[1] /\ 1 \in DOMAIN q /\ DOMAIN q = 1 .. n /\ n \in Nat
      /\ DOMAIN r = 1 .. n - 1
      /\ \A i \in DOMAIN r : r[i] = q[i + 1] /\ i + 1 \in DOMAIN q
  <2>1. q[1] \in Extrinsic
    OBVIOUS
  <2>. QED  BY <2>1, SeqSteps
<1>. HIDE DEF r, n
<1>2. /\ \A i \in DOMAIN q : i # 1 => i - 1 \in DOMAIN r /\ r[i - 1] = q[i]
      /\ \A i \in DOMAIN r : i \in Nat /\ 1 < i + 1
      /\ \A i, j \in DOMAIN r : i + 1 < j + 1 <=> i < j
      /\ \A i \in DOMAIN r : \A k \in DOMAIN q :
           /\ i + 1 < k => k # 1 /\ i < k - 1
           /\ k < i + 1 /\ k # 1 => k - 1 < i
      /\ \A k \in DOMAIN q : 1 < k => k # 1
      /\ \A k \in DOMAIN q : ~(k < 1)
  <2>1. \A i \in DOMAIN q : i # 1 => i - 1 \in DOMAIN r /\ i = (i - 1) + 1
    BY <1>1
  <2>2. \A i \in DOMAIN q : i # 1 => i - 1 \in DOMAIN r /\ r[i - 1] = q[i]
    BY <1>1, <2>1
  <2>. QED  BY <1>1, <2>2
<1>3. AlternateIn(r, o, p)
  <2>1. ASSUME NEW i \in DOMAIN r, NEW j \in DOMAIN r, i < j,
               Removes(r[i], p), Removes(r[j], p)
        PROVE  \E k \in DOMAIN r : i < k /\ k < j /\ Adds(r[k], p)
    <3>1. PICK k \in DOMAIN q : i + 1 < k /\ k < j + 1 /\ Adds(q[k], p)
      BY <1>1, <1>2, <2>1 DEF AlternateIn
    <3>. QED  BY <1>2, <3>1
  <2>2. ASSUME o, NEW i \in DOMAIN r, Removes(r[i], p)
        PROVE  \E k \in DOMAIN r : i < k /\ Adds(r[k], p)
    <3>1. PICK k \in DOMAIN q : i + 1 < k /\ Adds(q[k], p)
      BY <1>1, <2>2 DEF AlternateIn
    <3>. QED  BY <1>2, <3>1
  <2>. QED  BY <2>1, <2>2 DEF AlternateIn
<1>4. ASSUME ~Adds(q[1], p), ArmedIn(r, o, p)  PROVE ArmedIn(q, o, p)
  <2>1. ASSUME NEW j \in DOMAIN r, Removes(r[j], p),
               \A k \in DOMAIN r : k < j => ~Adds(r[k], p)
        PROVE  ArmedIn(q, o, p)
    <3>1. \A k \in DOMAIN q : k < j + 1 => ~Adds(q[k], p)
      BY <1>2, <1>4, <2>1
    <3>2. j + 1 \in DOMAIN q /\ Removes(q[j + 1], p)
      BY <1>1, <2>1
    <3>. QED  BY <3>1, <3>2 DEF ArmedIn
  <2>2. ASSUME o, \A k \in DOMAIN r : ~Adds(r[k], p)
        PROVE  ArmedIn(q, o, p)
    BY <1>2, <1>4, <2>2 DEF ArmedIn
  <2>. QED  BY <1>4, <2>1, <2>2 DEF ArmedIn
<1>5. ASSUME Removes(q[1], p)  PROVE ArmedIn(q, o, p) /\ ~ArmedIn(r, o, p)
  <2>1. ArmedIn(q, o, p)
    BY <1>1, <1>2, <1>5 DEF ArmedIn
  <2>2. ASSUME NEW j \in DOMAIN r, Removes(r[j], p)
        PROVE  \E k \in DOMAIN r : k < j /\ Adds(r[k], p)
    <3>1. PICK k \in DOMAIN q : 1 < k /\ k < j + 1 /\ Adds(q[k], p)
      BY <1>1, <1>2, <1>5, <2>2 DEF AlternateIn
    <3>. QED  BY <1>2, <3>1
  <2>3. ASSUME o  PROVE \E k \in DOMAIN r : Adds(r[k], p)
    <3>1. PICK k \in DOMAIN q : 1 < k /\ Adds(q[k], p)
      BY <1>1, <1>5, <2>3 DEF AlternateIn
    <3>. QED  BY <1>2, <3>1
  <2>. QED  BY <2>1, <2>2, <2>3 DEF ArmedIn
<1>. QED  BY <1>1, <1>3, <1>4, <1>5 DEF r

ControlInv == Alternate /\ Spare

\* A step that leaves the controllers alone and arms nothing.
LEMMA QuietStep ==
  ASSUME Spare, UNCHANGED <<control, pures>>, failed \subseteq failed',
         \A b \in Admins : \A p \in pures : Armed(b, p)' /\ ~AddFailed(p)' => Armed(b, p)
  PROVE  Spare'
<1>. SUFFICES ASSUME NEW p \in pures, ~AddFailed(p)'
              PROVE  /\ IsFiniteSet(control[p]) /\ IsFiniteSet(ArmedFor(p)')
                     /\ Cardinality(control[p]) > Cardinality(ArmedFor(p)')
  BY DEF Spare
<1>1. ~AddFailed(p)
  BY DEF AddFailed
<1>2. /\ IsFiniteSet(control[p]) /\ IsFiniteSet(ArmedFor(p))
      /\ Cardinality(control[p]) > Cardinality(ArmedFor(p))
  BY <1>1 DEF Spare
<1>3. ArmedFor(p)' \subseteq ArmedFor(p)
  BY DEF ArmedFor
<1>. DEFINE A == ArmedFor(p)
            B == ArmedFor(p)'
<1>. HIDE DEF A, B
<1>4. IsFiniteSet(B) /\ Cardinality(B) <= Cardinality(A)
  BY <1>2, <1>3, FS_Subset DEF A, B
<1>5. Cardinality(A) \in Nat /\ Cardinality(B) \in Nat /\ Cardinality(control[p]) \in Nat
  BY <1>2, <1>4, FS_CardinalityType DEF A
<1>. QED  BY <1>2, <1>4, <1>5 DEF A, B

\* A step of a's call that leaves the pools alone and incurs no debt.
LEMMA CallStep ==
  ASSUME ChainInv, ControlInv, NEW a \in Admins, NEW j,
         job' = [job EXCEPT ![a] = j], UNCHANGED <<pool, control, pures, failed>>,
         \A p \in Proxies : Owes(a, p)' => Owes(a, p)
  PROVE  ControlInv'
<1>1. \A b \in Admins : \A p \in Proxies :
        Owes(b, p)' = Owes(b, p) \/ (Owes(b, p) /\ ~Owes(b, p)')
  <2>1. job \in [Admins -> Job]
    BY DEF ChainInv, TypeOK
  <2>2. ASSUME NEW b \in Admins, b # a, NEW p \in Proxies  PROVE Owes(b, p)' = Owes(b, p)
    BY <2>1, <2>2 DEF Owes
  <2>3. \A b \in Admins : \A p \in Proxies :
          Owes(b, p) \in BOOLEAN /\ Owes(b, p)' \in BOOLEAN
    BY DEF Owes
  <2>. QED  BY <2>2, <2>3
<1>2. ASSUME NEW b \in Admins, NEW p \in Proxies
      PROVE  AlternateIn(pool[b], Owes(b, p)', p) /\ (Armed(b, p)' => Armed(b, p))
  <2>1. AlternateIn(pool[b], Owes(b, p), p)
    BY DEF ControlInv, Alternate
  <2>2. Armed(b, p)' = ArmedIn(pool[b], Owes(b, p)', p)
    BY DEF Armed
  <2>3. CASE Owes(b, p)' = Owes(b, p)
    BY <2>1, <2>2, <2>3 DEF Armed
  <2>4. CASE Owes(b, p) /\ ~Owes(b, p)'
    <3>1. Owes(b, p) = TRUE /\ Owes(b, p)' = FALSE
      BY <2>4 DEF Owes
    <3>. QED  BY <2>1, <2>2, <3>1, ForgetDebt DEF Armed
  <2>. QED  BY <1>1, <2>3, <2>4
<1>3. Alternate'
  BY <1>2 DEF ControlInv, Alternate
<1>4. Spare'
  BY <1>2, QuietStep DEF ControlInv, ChainInv, TypeOK
<1>. QED  BY <1>3, <1>4 DEF ControlInv

\* A call begins, takes a snapshot, goes on, returns or fails.
LEMMA CallsControl ==
  ASSUME ChainInv, ControlInv, NEW a \in Admins,
         \/ SubmitGenesis(a) \/ SubmitUpdate(a) \/ (\E new \in Accounts : Rotate(a, new))
         \/ Snapshot(a) \/ Poll(a) \/ Restart(a)
  PROVE  ControlInv'
<1>0. GoodJob(a, job[a], calls[a]) /\ job \in [Admins -> Job] /\ job[a] \in Job
  BY JobsGood DEF ChainInv, TypeOK
<1>1. ASSUME NEW j, job' = [job EXCEPT ![a] = j], UNCHANGED chainVars,
             \/ j.op # "rotate"
             \/ j.step = 1 /\ j.phase = "submit"
             \/ /\ j.op = job[a].op /\ j.p = job[a].p /\ job[a].step = 1 /\ job[a].phase # "submit"
      PROVE  ControlInv'
  <2>1. job'[a] = j
    BY <1>0, <1>1
  <2>2. ASSUME NEW p \in Proxies, Owes(a, p)'  PROVE Owes(a, p)
    BY <1>1, <2>1, <2>2 DEF Owes
  <2>3. UNCHANGED <<pool, control, pures, failed>>
    BY <1>1 DEF chainVars
  <2>. QED  BY <1>1, <2>2, <2>3, CallStep
<1>2. ASSUME Fails(a), UNCHANGED chainVars  PROVE ControlInv'
  <2>1. NoJob(a).op = "none"
    BY DEF NoJob
  <2>. QED  BY <1>1, <1>2, <2>1 DEF Fails
<1>3. ASSUME NEW op, NEW p, NEW to, NEW epoch, Start(a, op, p, to, epoch)  PROVE ControlInv'
  <2>. DEFINE j == [op |-> op, step |-> 1, phase |-> "submit", p |-> p, to |-> to,
                    root |-> <<a, calls[a] + 1>>, epoch |-> epoch]
  <2>1. job' = [job EXCEPT ![a] = j] /\ UNCHANGED chainVars /\ j.step = 1 /\ j.phase = "submit"
    BY <1>3 DEF Start
  <2>. HIDE DEF j
  <2>. QED  BY <1>1, <2>1
<1>4. ASSUME Snapshot(a)  PROVE ControlInv'
  <2>1. CASE Fails(a)
    BY <1>2, <1>4, <2>1 DEF Snapshot
  <2>2. CASE job' = [job EXCEPT ![a].phase = "poll"]
    <3>. DEFINE j == [job[a] EXCEPT !.phase = "poll"]
    <3>1. job' = [job EXCEPT ![a] = j] /\ UNCHANGED chainVars /\ job[a].phase = "snapshot"
      BY <1>4, <2>2 DEF Snapshot
    <3>2. j.op = job[a].op /\ j.p = job[a].p /\ j.step = job[a].step /\ j.phase = "poll"
      BY <1>0 DEF Job
    <3>. HIDE DEF j
    <3>3. ASSUME NEW p \in Proxies, Owes(a, p)'  PROVE Owes(a, p)
      <4>1. job'[a] = j
        BY <1>0, <3>1
      <4>. QED  BY <3>1, <3>2, <3>3, <4>1 DEF Owes
    <3>4. UNCHANGED <<pool, control, pures, failed>>
      BY <3>1 DEF chainVars
    <3>. QED  BY <3>1, <3>3, <3>4, CallStep
  <2>. QED  BY <1>4, <2>1, <2>2 DEF Snapshot
<1>5. ASSUME Poll(a), Continue(a), job[a].step # Len(Program(job[a].op))  PROVE ControlInv'
  <2>0. job[a].op # "none" /\ job[a].phase = "poll" /\ UNCHANGED chainVars
    BY <1>5 DEF Poll
  <2>1. CASE Fails(a)
    BY <1>2, <2>0, <2>1
  <2>2. ASSUME NEW p, job' = [job EXCEPT ![a] = [[job[a] EXCEPT !.step = @ + 1, !.phase = "submit"]
                                                  EXCEPT !.p = p]],
               Kind(a) = "create_pure"
        PROVE  ControlInv'
    <3>. DEFINE j == [[job[a] EXCEPT !.step = @ + 1, !.phase = "submit"] EXCEPT !.p = p]
    <3>1. j.op = job[a].op
      BY <1>0 DEF Job
    <3>2. job[a].op = "genesis"
      BY <1>0, <2>0, <2>2, KindIs DEF GoodJob, Kind
    <3>3. job' = [job EXCEPT ![a] = j]
      BY <2>2
    <3>. HIDE DEF j
    <3>. QED  BY <1>1, <2>0, <3>1, <3>2, <3>3
  <2>3. CASE /\ Kind(a) # "create_pure"
             /\ job' = [job EXCEPT ![a] = [job[a] EXCEPT !.step = @ + 1, !.phase = "submit"]]
    <3>. DEFINE j == [job[a] EXCEPT !.step = @ + 1, !.phase = "submit"]
    <3>1. j.op = job[a].op /\ j.p = job[a].p
      BY <1>0 DEF Job
    <3>2. job[a].op = "rotate" => job[a].step = 1
      <4>1. job[a].step \in 1 .. 4 /\ job[a].step <= Len(Program(job[a].op))
        BY <1>0, <2>0 DEF GoodJob, Job
      <4>. DEFINE k == job[a].step
      <4>. HIDE DEF k
      <4>2. ASSUME job[a].op = "rotate"  PROVE k \in 1 .. 4 /\ k <= 2 /\ k # 2
        BY <1>5, <4>1, <4>2, ProgramIs DEF k
      <4>3. k \in 1 .. 4 /\ k <= 2 /\ k # 2 => k = 1
        OBVIOUS
      <4>. QED  BY <4>2, <4>3 DEF k
    <3>3. job' = [job EXCEPT ![a] = j]
      BY <2>3
    <3>. HIDE DEF j
    <3>. QED  BY <1>1, <2>0, <3>1, <3>2, <3>3
  <2>. QED  BY <1>5, <2>1, <2>2, <2>3 DEF Continue
<1>6. ASSUME Poll(a)  PROVE ControlInv'
  <2>1. \/ Fails(a)
        \/ Continue(a) /\ job[a].step # Len(Program(job[a].op))
    BY <1>6 DEF Poll, Return
  <2>2. UNCHANGED chainVars
    BY <1>6 DEF Poll
  <2>. QED  BY <1>2, <1>5, <1>6, <2>1, <2>2
<1>7. ASSUME Restart(a)  PROVE ControlInv'
  BY <1>2, <1>7 DEF Restart
<1>. QED  BY <1>3, <1>4, <1>6, <1>7 DEF SubmitGenesis, SubmitUpdate, Rotate

\* A call submits an extrinsic, with success or not.
LEMMA SubmitControl ==
  ASSUME ChainInv, ControlInv, NEW a \in Admins, Submit(a)
  PROVE  ControlInv'
<1>. DEFINE x == NextExtrinsic(a)
<1>0. /\ job[a].op # "none" /\ job[a].phase = "submit" /\ job \in [Admins -> Job]
      /\ pool \in [Admins -> Seq(Extrinsic)] /\ job[a] \in Job
      /\ UNCHANGED <<control, pures, failed>>
  BY DEF Submit, ChainInv, TypeOK
<1>1. CASE Fails(a) /\ pool' = pool
  <2>1. NoJob(a).op = "none"
    BY DEF NoJob
  <2>. DEFINE j == NoJob(a)
  <2>. HIDE DEF j
  <2>2. job' = [job EXCEPT ![a] = j] /\ job'[a] = j /\ j.op = "none"
    BY <1>0, <1>1, <2>1 DEF Fails, j
  <2>3. \A p \in Proxies : ~Owes(a, p)'
    BY <2>2 DEF Owes
  <2>. QED  BY <1>0, <1>1, <2>2, <2>3, CallStep
<1>2. /\ x \in Extrinsic /\ x.kind = Kind(a) /\ x.p = job[a].p
      /\ x.kind = "remove_proxy" => x.to = a
  BY <1>0, Sending
<1>3. /\ x.kind = "add_proxy" <=> job[a].op = "rotate" /\ job[a].step = 1
      /\ x.kind = "remove_proxy" <=> job[a].op = "rotate" /\ job[a].step = 2
  BY <1>0, <1>2, JobsGood, KindIs DEF GoodJob, Kind
<1>. HIDE DEF x
<1>4. ASSUME NEW j, job' = [job EXCEPT ![a] = j],
             pool' = [pool EXCEPT ![a] = Append(pool[a], x)],
             \/ j.op = "none"
             \/ j.op = job[a].op /\ j.p = job[a].p /\ j.step = job[a].step /\ j.phase = "snapshot"
      PROVE  ControlInv'
  <2>1. /\ job'[a] = j /\ \A b \in Admins \ {a} : job'[b] = job[b] /\ pool'[b] = pool[b]
        /\ pool'[a] = Append(pool[a], x)
    BY <1>0, <1>4
  <2>2. ASSUME NEW p \in Proxies
        PROVE  \/ ~Adds(x, p) /\ ~Removes(x, p) /\ (Owes(a, p)' => Owes(a, p))
               \/ Adds(x, p) /\ ~Owes(a, p)
               \/ Removes(x, p) /\ Owes(a, p) /\ ~Owes(a, p)'
    BY <1>0, <1>2, <1>3, <1>4, <2>1 DEF Owes, Adds, Removes
  <2>3. ASSUME NEW b \in Admins, NEW p \in Proxies
        PROVE  AlternateIn(pool'[b], Owes(b, p)', p) /\ (Armed(b, p)' => Armed(b, p))
    <3>1. AlternateIn(pool[b], Owes(b, p), p) /\ pool[b] \in Seq(Extrinsic)
      BY <1>0 DEF ControlInv, Alternate
    <3>2. Armed(b, p)' = ArmedIn(pool'[b], Owes(b, p)', p)
      BY DEF Armed
    <3>3. CASE b = a
      <4>1. Owes(a, p) \in BOOLEAN /\ Owes(a, p)' \in BOOLEAN
        BY DEF Owes
      <4>. DEFINE o == Owes(a, p)
                  oo == Owes(a, p)'
                  q == pool[a]
      <4>2. /\ q \in Seq(Extrinsic) /\ o \in BOOLEAN /\ oo \in BOOLEAN /\ AlternateIn(q, o, p)
            /\ \/ ~Adds(x, p) /\ ~Removes(x, p) /\ (oo => o)
               \/ Adds(x, p) /\ ~o
               \/ Removes(x, p) /\ o /\ ~oo
        BY <2>2, <3>1, <3>3, <4>1
      <4>. HIDE DEF o, oo, q
      <4>3. /\ AlternateIn(Append(q, x), oo, p)
            /\ ArmedIn(Append(q, x), oo, p) => ArmedIn(q, o, p)
        BY <1>2, <4>2, SendKeeps
      <4>. QED  BY <2>1, <3>2, <3>3, <4>3 DEF o, oo, q, Armed
    <3>4. CASE b # a
      <4>1. pool'[b] = pool[b] /\ Owes(b, p)' = Owes(b, p)
        BY <2>1, <3>4 DEF Owes
      <4>. QED  BY <3>1, <3>2, <4>1 DEF Armed
    <3>. QED  BY <3>3, <3>4
  <2>4. ASSUME NEW b \in Admins, NEW i \in DOMAIN pool'[b], pool'[b][i].kind = "remove_proxy"
        PROVE  pool'[b][i].to = b
    <3>1. CASE b # a
      BY <2>1, <2>4, <3>1 DEF ControlInv, Alternate
    <3>2. CASE b = a
      <4>. DEFINE q == pool[a]
      <4>. HIDE DEF q
      <4>1. q \in Seq(Extrinsic) /\ pool'[a] = Append(q, x)
        BY <1>0, <2>1 DEF q
      <4>2. \/ i \in DOMAIN q /\ Append(q, x)[i] = q[i]
            \/ Append(q, x)[i] = x
        BY <1>2, <2>4, <3>2, <4>1, SeqSteps
      <4>3. \A k \in DOMAIN q : q[k].kind = "remove_proxy" => q[k].to = a
        BY DEF ControlInv, Alternate, q
      <4>. QED  BY <1>2, <2>4, <3>2, <4>1, <4>2, <4>3
    <3>. QED  BY <3>1, <3>2
  <2>5. Alternate'
    BY <2>3, <2>4 DEF Alternate
  <2>6. Spare'
    BY <1>0, <2>3, QuietStep DEF ControlInv, ChainInv, TypeOK
  <2>. QED  BY <2>5, <2>6 DEF ControlInv
<1>5. CASE /\ pool' = [pool EXCEPT ![a] = Append(@, x)]
           /\ job' = [job EXCEPT ![a].phase = "snapshot"]
  <2>. DEFINE j == [job[a] EXCEPT !.phase = "snapshot"]
  <2>1. job' = [job EXCEPT ![a] = j] /\ pool' = [pool EXCEPT ![a] = Append(pool[a], x)]
    BY <1>5
  <2>2. j.op = job[a].op /\ j.p = job[a].p /\ j.step = job[a].step /\ j.phase = "snapshot"
    BY <1>0 DEF Job
  <2>. HIDE DEF j
  <2>. QED  BY <1>4, <2>1, <2>2
<1>6. CASE /\ pool' = [pool EXCEPT ![a] = Append(@, x)] /\ Fails(a)
  <2>1. NoJob(a).op = "none"
    BY DEF NoJob
  <2>. QED  BY <1>4, <1>6, <2>1 DEF Fails
<1>. QED  BY <1>1, <1>5, <1>6 DEF Submit, x

\* A new account has its creator as controller, and nothing is armed for it.
LEMMA NewPureSpare ==
  ASSUME ChainInv, ControlInv, NEW pure \in Proxies, pure \notin pures, NEW c,
         control'[pure] = {c}, UNCHANGED job,
         \A b \in Admins : Range(pool'[b]) \subseteq Range(pool[b])
  PROVE  /\ IsFiniteSet(control'[pure]) /\ IsFiniteSet(ArmedFor(pure)')
         /\ Cardinality(control'[pure]) > Cardinality(ArmedFor(pure)')
<1>1. ASSUME NEW b \in Admins, Armed(b, pure)'  PROVE FALSE
  <2>1. ASSUME NEW y \in Range(pool[b]), Removes(y, pure)  PROVE FALSE
    BY <2>1 DEF ChainInv, Uses, OnlyCreatedProxiesUsed, Removes
  <2>2. ~Owes(b, pure)'
    BY PairsAre DEF Owes, ChainInv, Uses
  <2>3. PICK j \in DOMAIN pool'[b] : Removes(pool'[b][j], pure)
    BY <1>1, <2>2 DEF Armed, ArmedIn
  <2>4. pool'[b][j] \in Range(pool'[b])
    BY <2>3 DEF Range
  <2>. QED  BY <2>1, <2>3, <2>4
<1>2. ArmedFor(pure)' = {}
  BY <1>1 DEF ArmedFor
<1>3. IsFiniteSet({}) /\ Cardinality({}) = 0 /\ IsFiniteSet({c}) /\ Cardinality({c}) = 1
  BY FS_EmptySet, FS_Singleton
<1>. QED  BY <1>2, <1>3

\* What executing an extrinsic of a does to the removals that are armed.
LEMMA ExecuteArms ==
  ASSUME ChainInv, ControlInv, NEW a \in Admins, pool[a] # <<>>,
         pool' = [pool EXCEPT ![a] = Tail(@)], UNCHANGED job
  PROVE  LET x == Head(pool[a]) IN
         /\ Alternate'
         /\ x.kind = "remove_proxy" => x.to = a
         /\ \A b \in Admins \ {a} : \A p \in Proxies : Armed(b, p)' <=> Armed(b, p)
         /\ \A p \in Proxies : /\ ~Adds(x, p) => (Armed(a, p)' => Armed(a, p))
                               /\ Removes(x, p) => Armed(a, p) /\ ~Armed(a, p)'
<1>. DEFINE x == Head(pool[a])
            q == pool[a]
<1>0. /\ pool \in [Admins -> Seq(Extrinsic)] /\ q \in Seq(Extrinsic) /\ q # <<>>
      /\ \A b \in Admins : \A p \in Proxies : AlternateIn(pool[b], Owes(b, p), p)
  BY DEF ChainInv, TypeOK, ControlInv, Alternate
<1>1. pool'[a] = Tail(q) /\ \A b \in Admins \ {a} : pool'[b] = pool[b]
  BY <1>0
<1>2. \A b \in Admins : \A p \in Proxies : Owes(b, p)' = Owes(b, p)
  BY DEF Owes
<1>3. ASSUME NEW p \in Proxies
      PROVE  /\ AlternateIn(Tail(q), Owes(a, p), p)
             /\ ~Adds(Head(q), p) /\ ArmedIn(Tail(q), Owes(a, p), p) => ArmedIn(q, Owes(a, p), p)
             /\ Removes(Head(q), p) => /\ ArmedIn(q, Owes(a, p), p)
                                       /\ ~ArmedIn(Tail(q), Owes(a, p), p)
  <2>. DEFINE o == Owes(a, p)
  <2>1. o \in BOOLEAN /\ AlternateIn(q, o, p)
    BY <1>0 DEF Owes
  <2>. HIDE DEF o, q
  <2>2. /\ AlternateIn(Tail(q), o, p)
        /\ ~Adds(Head(q), p) /\ ArmedIn(Tail(q), o, p) => ArmedIn(q, o, p)
        /\ Removes(Head(q), p) => ArmedIn(q, o, p) /\ ~ArmedIn(Tail(q), o, p)
    BY <1>0, <2>1, ExecuteKeeps
  <2>. QED  BY <2>2 DEF o
<1>4. \A i \in DOMAIN Tail(q) : Tail(q)[i] = q[i + 1] /\ i + 1 \in DOMAIN q
  BY HeadIs
<1>5. x = q[1] /\ 1 \in DOMAIN q
  BY HeadIs
<1>. HIDE DEF x, q
<1>6. \A i \in DOMAIN q : q[i].kind = "remove_proxy" => q[i].to = a
  BY DEF ControlInv, Alternate, q
<1>7. Alternate'
  <2>1. ASSUME NEW b \in Admins, NEW p \in Proxies  PROVE AlternateIn(pool'[b], Owes(b, p)', p)
    <3>1. CASE b = a
      BY <1>1, <1>2, <1>3, <3>1
    <3>2. CASE b # a
      BY <1>0, <1>1, <1>2, <3>2
    <3>. QED  BY <3>1, <3>2
  <2>2. ASSUME NEW b \in Admins, NEW i \in DOMAIN pool'[b], pool'[b][i].kind = "remove_proxy"
        PROVE  pool'[b][i].to = b
    <3>1. CASE b = a
      <4>1. i \in DOMAIN Tail(q) /\ Tail(q)[i].kind = "remove_proxy"
        BY <1>1, <2>2, <3>1
      <4>2. Tail(q)[i].to = a
        BY <1>4, <1>6, <4>1
      <4>. QED  BY <1>1, <3>1, <4>2
    <3>2. CASE b # a
      BY <1>1, <2>2, <3>2 DEF ControlInv, Alternate
    <3>. QED  BY <3>1, <3>2
  <2>. QED  BY <2>1, <2>2 DEF Alternate
<1>8. \A b \in Admins \ {a} : \A p \in Proxies : Armed(b, p)' <=> Armed(b, p)
  BY <1>1, <1>2 DEF Armed
<1>9. ASSUME NEW p \in Proxies
      PROVE  /\ ~Adds(x, p) => (Armed(a, p)' => Armed(a, p))
             /\ Removes(x, p) => Armed(a, p) /\ ~Armed(a, p)'
  BY <1>1, <1>2, <1>3 DEF Armed, q, x
<1>. QED  BY <1>5, <1>6, <1>7, <1>8, <1>9 DEF x

\* How the controllers and the armed removals of an account change together: an
\* addition may arm one removal, and a removal disarms one.
LEMMA SpareSums ==
  ASSUME NEW C, NEW A, NEW B,
         IsFiniteSet(C), IsFiniteSet(A), Cardinality(C) > Cardinality(A)
  PROVE  /\ B \subseteq A => IsFiniteSet(B) /\ Cardinality(C) > Cardinality(B)
         /\ \A to, e : to \notin C /\ B \subseteq A \cup {e}
              => /\ IsFiniteSet(C \cup {to}) /\ IsFiniteSet(B)
                 /\ Cardinality(C \cup {to}) > Cardinality(B)
         /\ \A to, e : to \in C /\ e \in A /\ B \subseteq A \ {e}
              => /\ IsFiniteSet(C \ {to}) /\ IsFiniteSet(B)
                 /\ Cardinality(C \ {to}) > Cardinality(B)
<1>0. Cardinality(C) \in Nat /\ Cardinality(A) \in Nat
  BY FS_CardinalityType
<1>1. ASSUME B \subseteq A
      PROVE  IsFiniteSet(B) /\ Cardinality(C) > Cardinality(B)
  <2>1. IsFiniteSet(B) /\ Cardinality(B) <= Cardinality(A)
    BY <1>1, FS_Subset
  <2>2. Cardinality(B) \in Nat
    BY <2>1, FS_CardinalityType
  <2>. QED  BY <1>0, <2>1, <2>2
<1>2. ASSUME NEW to, NEW e, to \notin C, B \subseteq A \cup {e}
      PROVE  /\ IsFiniteSet(C \cup {to}) /\ IsFiniteSet(B)
             /\ Cardinality(C \cup {to}) > Cardinality(B)
  <2>1. IsFiniteSet(C \cup {to}) /\ Cardinality(C \cup {to}) = Cardinality(C) + 1
    BY <1>2, FS_AddElement
  <2>2. /\ IsFiniteSet(A \cup {e})
        /\ \/ Cardinality(A \cup {e}) = Cardinality(A)
           \/ Cardinality(A \cup {e}) = Cardinality(A) + 1
    BY FS_AddElement
  <2>3. IsFiniteSet(B) /\ Cardinality(B) <= Cardinality(A \cup {e})
    BY <1>2, <2>2, FS_Subset
  <2>4. Cardinality(B) \in Nat
    BY <2>3, FS_CardinalityType
  <2>. QED  BY <1>0, <2>1, <2>2, <2>3, <2>4
<1>3. ASSUME NEW to, NEW e, to \in C, e \in A, B \subseteq A \ {e}
      PROVE  /\ IsFiniteSet(C \ {to}) /\ IsFiniteSet(B)
             /\ Cardinality(C \ {to}) > Cardinality(B)
  <2>1. IsFiniteSet(C \ {to}) /\ Cardinality(C \ {to}) = Cardinality(C) - 1
    BY <1>3, FS_RemoveElement
  <2>2. IsFiniteSet(A \ {e}) /\ Cardinality(A \ {e}) = Cardinality(A) - 1
    BY <1>3, FS_RemoveElement
  <2>3. IsFiniteSet(B) /\ Cardinality(B) <= Cardinality(A \ {e})
    BY <1>3, <2>2, FS_Subset
  <2>4. Cardinality(B) \in Nat
    BY <2>3, FS_CardinalityType
  <2>. QED  BY <1>0, <2>1, <2>2, <2>3, <2>4
<1>. QED  BY <1>1, <1>2, <1>3

\* A block executes an extrinsic.
LEMMA ExecuteControl ==
  ASSUME ChainInv, ControlInv, NEW a \in Admins, ExecuteExtrinsic(a)
  PROVE  ControlInv'
<1>. DEFINE x == Head(pool[a])
<1>0. /\ pool[a] # <<>> /\ pool' = [pool EXCEPT ![a] = Tail(@)] /\ UNCHANGED job
  BY DEF ExecuteExtrinsic
<1>1. /\ Alternate'
      /\ x.kind = "remove_proxy" => x.to = a
      /\ \A b \in Admins \ {a} : \A p \in Proxies : Armed(b, p)' <=> Armed(b, p)
      /\ \A p \in Proxies : /\ ~Adds(x, p) => (Armed(a, p)' => Armed(a, p))
                            /\ Removes(x, p) => Armed(a, p) /\ ~Armed(a, p)'
  BY <1>0, ExecuteArms
<1>2. /\ x \in Extrinsic /\ x.by = a /\ Range(Tail(pool[a])) \subseteq Range(pool[a])
      /\ x.kind # "create_pure" => x.p \in pures
      /\ x.kind = "create_pure" => NextPure(a) \in Proxies
  BY <1>0, HeadIs
<1>3. /\ pures \subseteq Proxies /\ control \in [Proxies -> SUBSET Accounts]
      /\ pool \in [Admins -> Seq(Extrinsic)] /\ a \in Accounts
  BY DEF ChainInv, TypeOK, Accounts
<1>4. \A b \in Admins : Range(pool'[b]) \subseteq Range(pool[b])
  <2>1. pool'[a] = Tail(pool[a]) /\ \A b \in Admins \ {a} : pool'[b] = pool[b]
    BY <1>0, <1>3
  <2>. QED  BY <1>2, <2>1
<1>5. \/ Dispatches(x) /\ Effect(x) /\ UNCHANGED failed
      \/ /\ failed' = failed \cup {x}
         /\ UNCHANGED <<pures, control>>
  BY DEF ExecuteExtrinsic
<1>6. x.kind \in {"create_pure", "fund", "map_account", "update", "add_proxy", "remove_proxy"}
  BY <1>2, KindsAre DEF Extrinsic
<1>. HIDE DEF x
<1>7. ASSUME failed' = failed \cup {x}, UNCHANGED <<pures, control>>
      PROVE  Spare'
  <2>1. ASSUME NEW b \in Admins, NEW p \in pures, Armed(b, p)', ~AddFailed(p)'
        PROVE  Armed(b, p)
    <3>1. ~Adds(x, p)
      BY <1>7, <2>1 DEF AddFailed
    <3>. QED  BY <1>1, <1>3, <2>1, <3>1
  <2>. QED  BY <1>7, <2>1, QuietStep DEF ControlInv
<1>8. ASSUME Dispatches(x), Effect(x), UNCHANGED failed, NEW p \in pures, ~AddFailed(p)
      PROVE  /\ IsFiniteSet(control'[p]) /\ IsFiniteSet(ArmedFor(p)')
             /\ Cardinality(control'[p]) > Cardinality(ArmedFor(p)')
  <2>1. /\ IsFiniteSet(control[p]) /\ IsFiniteSet(ArmedFor(p))
        /\ Cardinality(control[p]) > Cardinality(ArmedFor(p))
    BY <1>8 DEF ControlInv, Spare
  <2>2. CASE x.kind = "create_pure"
    <3>1. control' = [control EXCEPT ![NextPure(a)] = {a}]
      BY <1>2, <1>8, <2>2 DEF Effect
    <3>2. NextPure(a) \notin pures
      BY <1>3, PureIsNew
    <3>3. control'[p] = control[p]
      BY <1>3, <3>1, <3>2
    <3>4. ArmedFor(p)' \subseteq ArmedFor(p)
      BY <1>1, <1>3, <2>2 DEF ArmedFor, Adds
    <3>. QED  BY <2>1, <3>3, <3>4, SpareSums
  <2>3. CASE x.kind # "create_pure"
    <3>1. /\ x.p \in Proxies
          /\ control' = CASE x.kind = "add_proxy"    -> [control EXCEPT ![x.p] = @ \cup {x.to}]
                          [] x.kind = "remove_proxy" -> [control EXCEPT ![x.p] = @ \ {x.to}]
                          [] OTHER                   -> control
      BY <1>2, <1>3, <1>8, <2>3 DEF Effect
    <3>. DEFINE C == control[p]
                A == ArmedFor(p)
                B == ArmedFor(p)'
                to == x.to
    <3>. HIDE DEF C, A, B, to
    <3>2. IsFiniteSet(C) /\ IsFiniteSet(A) /\ Cardinality(C) > Cardinality(A)
      BY <2>1 DEF C, A
    <3>3. CASE Adds(x, p)
      <4>1. to \notin C /\ control'[p] = C \cup {to}
        BY <1>3, <1>8, <3>1, <3>3 DEF Adds, Dispatches, C, to
      <4>2. B \subseteq A \cup {a}
        BY <1>1, <1>3 DEF ArmedFor, A, B
      <4>3. to \notin C /\ B \subseteq A \cup {a}
            => /\ IsFiniteSet(C \cup {to}) /\ IsFiniteSet(B)
               /\ Cardinality(C \cup {to}) > Cardinality(B)
        BY <3>2, SpareSums, Zenon
      <4>. QED  BY <4>1, <4>2, <4>3 DEF B
    <3>4. CASE Removes(x, p)
      <4>1. to \in C /\ control'[p] = C \ {to}
        BY <1>3, <1>8, <3>1, <3>4 DEF Removes, Dispatches, C, to
      <4>2. a \in A /\ B \subseteq A \ {a}
        BY <1>1, <1>3, <3>4 DEF ArmedFor, A, B
      <4>3. to \in C /\ a \in A /\ B \subseteq A \ {a}
            => /\ IsFiniteSet(C \ {to}) /\ IsFiniteSet(B)
               /\ Cardinality(C \ {to}) > Cardinality(B)
        BY <3>2, SpareSums, Zenon
      <4>. QED  BY <4>1, <4>2, <4>3 DEF B
    <3>5. CASE ~Adds(x, p) /\ ~Removes(x, p)
      <4>1. control'[p] = control[p]
        BY <1>3, <3>1, <3>5 DEF Adds, Removes
      <4>2. ArmedFor(p)' \subseteq ArmedFor(p)
        BY <1>1, <1>3, <3>5 DEF ArmedFor
      <4>. QED  BY <2>1, <4>1, <4>2, SpareSums
    <3>. QED  BY <3>3, <3>4, <3>5
  <2>. QED  BY <2>2, <2>3
<1>9. ASSUME Dispatches(x), Effect(x), UNCHANGED failed
      PROVE  Spare'
  <2>1. \A p : AddFailed(p)' = AddFailed(p)
    BY <1>9 DEF AddFailed
  <2>2. CASE x.kind # "create_pure"
    <3>1. pures' = pures
      BY <1>9, <2>2 DEF Effect
    <3>. QED  BY <1>8, <1>9, <2>1, <3>1 DEF Spare
  <2>3. CASE x.kind = "create_pure"
    <3>0. PICK pure : pure = NextPure(a)
      OBVIOUS
    <3>1. /\ pures' = pures \cup {pure} /\ control' = [control EXCEPT ![pure] = {a}]
          /\ pure \in Proxies /\ pure \notin pures
      BY <1>2, <1>3, <1>9, <2>3, <3>0, PureIsNew DEF Effect
    <3>2. control'[pure] = {a}
      BY <1>3, <3>1
    <3>3. /\ IsFiniteSet(control'[pure]) /\ IsFiniteSet(ArmedFor(pure)')
          /\ Cardinality(control'[pure]) > Cardinality(ArmedFor(pure)')
      BY <1>0, <1>4, <3>1, <3>2, NewPureSpare
    <3>. QED  BY <1>8, <1>9, <2>1, <3>1, <3>3 DEF Spare
  <2>. QED  BY <2>2, <2>3
<1>. QED  BY <1>1, <1>5, <1>7, <1>9 DEF ControlInv

\* The other steps of the chain.
LEMMA OthersControl ==
  ASSUME ChainInv, ControlInv, FinaliseBlock \/ \E s \in Strangers : StrangerCreates(s)
  PROVE  ControlInv'
<1>0. UNCHANGED <<pool, job, failed>>
  BY DEF FinaliseBlock, StrangerCreates
<1>1. /\ \A b \in Admins : \A p \in Proxies : Owes(b, p)' = Owes(b, p)
      /\ \A b \in Admins : \A p \in Proxies : Armed(b, p)' = Armed(b, p)
      /\ \A p \in Proxies : ArmedFor(p)' = ArmedFor(p)
      /\ \A p : AddFailed(p)' = AddFailed(p)
  <2>1. \A b \in Admins : \A p \in Proxies : Owes(b, p)' = Owes(b, p)
    BY <1>0 DEF Owes
  <2>2. \A b \in Admins : \A p \in Proxies : Armed(b, p)' = Armed(b, p)
    BY <1>0, <2>1 DEF Armed
  <2>3. \A p \in Proxies : ArmedFor(p)' = ArmedFor(p)
    BY <2>2 DEF ArmedFor
  <2>. QED  BY <1>0, <2>1, <2>2, <2>3 DEF AddFailed
<1>2. Alternate'
  BY <1>0, <1>1 DEF ControlInv, Alternate
<1>3. pures \subseteq Proxies /\ control \in [Proxies -> SUBSET Accounts]
  BY DEF ChainInv, TypeOK
<1>4. CASE FinaliseBlock
  <2>1. UNCHANGED <<pures, control>>
    BY <1>4 DEF FinaliseBlock
  <2>. QED  BY <1>1, <1>2, <1>3, <2>1 DEF ControlInv, Spare
<1>5. ASSUME NEW s \in Strangers, StrangerCreates(s)  PROVE ControlInv'
  <2>0. PICK pure : pure = NextPure(s)
    OBVIOUS
  <2>1. /\ pures' = pures \cup {pure} /\ control' = [control EXCEPT ![pure] = {s}]
        /\ pure \in Proxies /\ pure \notin pures
    BY <1>5, <2>0, PureIsNew DEF StrangerCreates, Accounts
  <2>2. control'[pure] = {s} /\ \A p \in pures : control'[p] = control[p]
    BY <1>3, <2>1
  <2>3. /\ IsFiniteSet(control'[pure]) /\ IsFiniteSet(ArmedFor(pure)')
        /\ Cardinality(control'[pure]) > Cardinality(ArmedFor(pure)')
    BY <1>0, <2>1, <2>2, NewPureSpare
  <2>4. Spare'
    BY <1>1, <1>3, <2>1, <2>2, <2>3 DEF ControlInv, Spare
  <2>. QED  BY <1>2, <2>4 DEF ControlInv
<1>. QED  BY <1>4, <1>5

\* Every step preserves the invariant.
LEMMA ControlStep ==
  ASSUME ChainInv, ControlInv, [Next]_vars
  PROVE  ControlInv'
<1>1. ASSUME UNCHANGED vars  PROVE ControlInv'
  <2>1. /\ pool' = pool /\ pures' = pures /\ control' = control /\ failed' = failed /\ job' = job
    BY <1>1 DEF vars, chainVars
  <2>2. \A b \in Admins : \A p : Owes(b, p)' = Owes(b, p) /\ Armed(b, p)' = Armed(b, p)
    BY <2>1 DEF Owes, Armed
  <2>3. \A p : ArmedFor(p)' = ArmedFor(p) /\ AddFailed(p)' = AddFailed(p)
    BY <2>1, <2>2 DEF ArmedFor, AddFailed
  <2>4. Alternate' /\ Spare'
    BY <2>1, <2>2, <2>3 DEF ControlInv, Alternate, Spare
  <2>. QED  BY <2>4 DEF ControlInv
<1>. QED  BY <1>1, CallsControl, SubmitControl, ExecuteControl, OthersControl DEF Next, Steps

\* As long as no add_proxy of an account failed on chain, the account has a
\* controller: for any number of administrators that rotate, are restarted in the
\* middle of a rotation, time out, and take each other's accounts for their own.
THEOREM OrganisationsKeepControl == Spec => []ControlKept
<1>1. Init => ControlInv
  <2>. SUFFICES ASSUME Init  PROVE Alternate /\ Spare
    BY DEF ControlInv
  <2>1. pures = {} /\ \A a \in Admins : DOMAIN pool[a] = {}
    BY DEF Init
  <2>. QED  BY <2>1 DEF Alternate, AlternateIn, Spare
<1>2. Spare => ControlKept
  <2>. SUFFICES ASSUME Spare, NEW p \in pures, control[p] = {}, ~AddFailed(p)  PROVE FALSE
    BY DEF ControlKept, AddFailed, Adds
  <2>1. IsFiniteSet(ArmedFor(p)) /\ Cardinality({}) > Cardinality(ArmedFor(p))
    BY DEF Spare
  <2>2. Cardinality({}) = 0 /\ Cardinality(ArmedFor(p)) \in Nat
    BY <2>1, FS_EmptySet, FS_CardinalityType
  <2>. QED  BY <2>1, <2>2
<1>. QED  BY <1>1, <1>2, ChainInvariant, ControlStep, PTL DEF Spec, ControlInv

-----------------------------------------------------------------------------
(* What was saved and what the contract holds.                             *)

\* The account a's organisation is at, from the moment a ceremony took it.
Account(a) == IF record[a] # NoOrg THEN record[a].p ELSE job[a].p

\* Nobody else took a's account for his.
Alone(a) == \A b \in Admins \ {a} : Account(b) # Account(a)

\* The extrinsics that set an organisation up and keep it up to date, in the order
\* in which the chain has to execute them.
Ranked(x) == x.kind \in {"fund", "map_account", "update"}
Rank(x) == CASE x.kind = "fund"        -> 0
             [] x.kind = "map_account" -> 1
             [] x.kind = "update"      -> 2 + x.epoch

\* How many of them the chain has executed for account p, and how many a has sent.
Executed(p) == IF p \notin funded THEN 0
               ELSE IF p \notin mapped THEN 1 ELSE 2 + slot[p].epoch
UpdateSent(a) ==
  /\ job[a].op = "update" \/ (job[a].op = "genesis" /\ job[a].step = 4)
  /\ job[a].phase # "submit"
Sent(a) ==
  IF record[a] # NoOrg THEN 2 + record[a].epoch + (IF UpdateSent(a) THEN 1 ELSE 0)
  ELSE job[a].step - 2 + (IF job[a].phase # "submit" THEN 1 ELSE 0)

\* The number of the last call of a that sent an update, or may have.
Limit(a) ==
  IF job[a].op \in {"none", "rotate"} \/ UpdateSent(a) THEN calls[a] ELSE calls[a] - 1

\* Pool q holds the extrinsics from number m to number n - 1, in order.
HoldsFrom(q, m, n) ==
  /\ m <= n
  /\ \A i \in DOMAIN q : Ranked(q[i]) => m <= Rank(q[i]) /\ Rank(q[i]) < n
  /\ \A i, j \in DOMAIN q : i < j /\ Ranked(q[i]) /\ Ranked(q[j]) => Rank(q[i]) < Rank(q[j])
  /\ \A k \in m .. n - 1 : \E i \in DOMAIN q : Ranked(q[i]) /\ Rank(q[i]) = k

\* The number of a root, 0 for the empty slot.
Number(root) == IF root = <<>> THEN 0 ELSE root[2]

Updates(x) == x.kind = "update"

\* The roots of slot s and of the updates in q have increasing numbers up to n.
RootsRise(q, s, n) ==
  /\ Number(s.root) <= n
  /\ \A i \in DOMAIN q : Updates(q[i]) => Number(s.root) < q[i].root[2] /\ q[i].root[2] <= n
  /\ \A i, j \in DOMAIN q :
       i < j /\ Updates(q[i]) /\ Updates(q[j]) => q[i].root[2] < q[j].root[2]

\* The update that brings slot s to an epoch, executed or still in q, has this root.
Brings(q, s, epoch, root) ==
  /\ s.epoch = epoch => s.root = root
  /\ \A i \in DOMAIN q : Updates(q[i]) /\ q[i].epoch + 1 = epoch => q[i].root = root

\* A call works on what was saved, and sends for the organisation's account only.
OneAccount ==
  \A a \in Admins :
    /\ job[a].op # "none" =>
         IF record[a] # NoOrg
         THEN job[a].op # "genesis" /\ job[a].p = record[a].p /\ job[a].epoch = record[a].epoch
         ELSE job[a].op = "genesis" /\ job[a].epoch = 0
    /\ record[a] # NoOrg => record[a].epoch >= 1
    /\ \A i \in DOMAIN pool[a] :
         pool[a][i].kind # "create_pure" => pool[a][i].p = Account(a)

\* Accounts that no organisation took hold nothing.
Untouched ==
  \A p \in Proxies :
    (\A a \in Admins : Account(a) # p) =>
      p \notin funded /\ p \notin mapped /\ slot[p].epoch = 0 /\ slot[p].root = <<>>

\* For an account that a alone took and still controls.
InStep(a) ==
  LET p == Account(a)
      q == pool[a]
  IN /\ p \notin funded => p \notin mapped
     /\ p \notin mapped => slot[p].epoch = 0
     /\ HoldsFrom(q, Executed(p), Sent(a))
     /\ RootsRise(q, slot[p], Limit(a))
     /\ record[a] # NoOrg => Brings(q, slot[p], record[a].epoch, record[a].root)
     /\ UpdateSent(a) => Brings(q, slot[p], job[a].epoch + 1, job[a].root)

SavedInv ==
  faults = 0 =>
    /\ OneAccount /\ Untouched
    /\ \A a \in Admins :
         Account(a) # NoProxy /\ Alone(a) /\ a \in control[Account(a)] => InStep(a)

\* The elements of a pool after an extrinsic was sent, index by index.
LEMMA AppendShape ==
  ASSUME NEW q \in Seq(Extrinsic), NEW x \in Extrinsic
  PROVE  LET r == Append(q, x)
             m == Len(q) + 1
         IN /\ \A i \in DOMAIN q : i \in DOMAIN r /\ r[i] = q[i] /\ i < m /\ q[i] \in Extrinsic
            /\ \A i \in DOMAIN r : i \in DOMAIN q \/ i = m
            /\ m \in DOMAIN r /\ r[m] = x /\ ~(m < m)
            /\ \A i \in DOMAIN q : ~(m < i)
<1>. DEFINE r == Append(q, x)
            n == Len(q)
<1>1. /\ DOMAIN q = 1 .. n /\ n \in Nat /\ DOMAIN r = 1 .. n + 1
      /\ \A i \in DOMAIN q : r[i] = q[i]
      /\ r[n + 1] = x
  BY SeqSteps
<1>2. \A i \in DOMAIN q : q[i] \in Extrinsic
  OBVIOUS
<1>. HIDE DEF r, n
<1>3. /\ \A i \in DOMAIN r : i \in DOMAIN q \/ i = n + 1
      /\ \A i \in DOMAIN q : i \in DOMAIN r /\ i < n + 1 /\ ~(n + 1 < i)
      /\ n + 1 \in DOMAIN r /\ ~(n + 1 < n + 1)
  BY <1>1
<1>. QED  BY <1>1, <1>2, <1>3 DEF r, n

\* The elements of a pool after an extrinsic was executed, index by index.
LEMMA TailShape ==
  ASSUME NEW q \in Seq(Extrinsic), q # <<>>
  PROVE  LET r == Tail(q)
         IN /\ Head(q) = q[1] /\ 1 \in DOMAIN q
            /\ \A i \in DOMAIN q : q[i] \in Extrinsic
            /\ \A i \in DOMAIN r : r[i] = q[i + 1] /\ i + 1 \in DOMAIN q /\ 1 < i + 1
            /\ \A i \in DOMAIN q : i # 1 => i - 1 \in DOMAIN r /\ r[i - 1] = q[i] /\ 1 < i
            /\ \A i, j \in DOMAIN r : i < j => i + 1 < j + 1
<1>. DEFINE r == Tail(q)
            n == Len(q)
<1>0. \A i \in DOMAIN q : q[i] \in Extrinsic
  OBVIOUS
<1>1. /\ Head(q) = q[1] /\ 1 \in DOMAIN q /\ DOMAIN q = 1 .. n /\ n \in Nat
      /\ DOMAIN r = 1 .. n - 1
      /\ \A i \in DOMAIN r : r[i] = q[i + 1] /\ i + 1 \in DOMAIN q
  <2>1. q[1] \in Extrinsic
    OBVIOUS
  <2>. QED  BY <2>1, SeqSteps
<1>. HIDE DEF r, n
<1>2. \A i \in DOMAIN q : i # 1 => i - 1 \in DOMAIN r /\ i = (i - 1) + 1 /\ 1 < i
  BY <1>1
<1>3. \A i \in DOMAIN q : i # 1 => i - 1 \in DOMAIN r /\ r[i - 1] = q[i] /\ 1 < i
  BY <1>1, <1>2
<1>4. /\ \A i \in DOMAIN r : 1 < i + 1
      /\ \A i, j \in DOMAIN r : i < j => i + 1 < j + 1
  BY <1>1
<1>. QED  BY <1>0, <1>1, <1>3, <1>4 DEF r

\* The rank of an extrinsic is a number.
LEMMA RankNat ==
  ASSUME NEW x \in Extrinsic
  PROVE  Ranked(x) => Rank(x) \in Nat
BY DEF Ranked, Rank, Extrinsic

\* Sending the next extrinsic, or one that does not count.
LEMMA HoldsSend ==
  ASSUME NEW q \in Seq(Extrinsic), NEW x \in Extrinsic, NEW m \in Nat, NEW n \in Nat,
         HoldsFrom(q, m, n), Ranked(x) => Rank(x) = n
  PROVE  HoldsFrom(Append(q, x), m, IF Ranked(x) THEN n + 1 ELSE n)
<1>. DEFINE r == Append(q, x)
            l == Len(q) + 1
            nn == IF Ranked(x) THEN n + 1 ELSE n
<1>1. /\ \A i \in DOMAIN q : i \in DOMAIN r /\ r[i] = q[i] /\ i < l /\ q[i] \in Extrinsic
      /\ \A i \in DOMAIN r : i \in DOMAIN q \/ i = l
      /\ l \in DOMAIN r /\ r[l] = x /\ ~(l < l)
      /\ \A i \in DOMAIN q : ~(l < i)
  BY AppendShape
<1>. HIDE DEF r, l
<1>2. \A i \in DOMAIN q : Ranked(q[i]) => Rank(q[i]) \in Nat /\ m <= Rank(q[i]) /\ Rank(q[i]) < n
  BY <1>1, RankNat DEF HoldsFrom
<1>3. nn \in Nat /\ m <= nn /\ n <= nn /\ m <= n
  BY DEF HoldsFrom
<1>4. ASSUME NEW i \in DOMAIN r, Ranked(r[i])  PROVE m <= Rank(r[i]) /\ Rank(r[i]) < nn
  <2>1. CASE i \in DOMAIN q
    <3>1. r[i] = q[i] /\ Rank(q[i]) \in Nat /\ m <= Rank(q[i]) /\ Rank(q[i]) < n
      BY <1>1, <1>2, <1>4, <2>1
    <3>. HIDE DEF nn
    <3>. QED  BY <1>3, <3>1
  <2>2. CASE i = l
    <3>1. r[i] = x /\ Rank(x) = n /\ nn = n + 1
      BY <1>1, <1>4, <2>2
    <3>. QED  BY <1>3, <3>1
  <2>. QED  BY <1>1, <2>1, <2>2
<1>5. ASSUME NEW i \in DOMAIN r, NEW j \in DOMAIN r, i < j, Ranked(r[i]), Ranked(r[j])
      PROVE  Rank(r[i]) < Rank(r[j])
  <2>1. i \in DOMAIN q
    BY <1>1, <1>5
  <2>2. CASE j \in DOMAIN q
    BY <1>1, <1>5, <2>1, <2>2 DEF HoldsFrom
  <2>3. CASE j = l
    BY <1>1, <1>2, <1>5, <2>1, <2>3
  <2>. QED  BY <1>1, <2>2, <2>3
<1>6. ASSUME NEW k \in m .. nn - 1  PROVE \E i \in DOMAIN r : Ranked(r[i]) /\ Rank(r[i]) = k
  <2>1. CASE k \in m .. n - 1
    <3>1. PICK i \in DOMAIN q : Ranked(q[i]) /\ Rank(q[i]) = k
      BY <2>1 DEF HoldsFrom
    <3>. QED  BY <1>1, <3>1
  <2>2. CASE k \notin m .. n - 1
    <3>1. k = n /\ Ranked(x)
      BY <1>6, <2>2
    <3>. QED  BY <1>1, <3>1
  <2>. QED  BY <2>1, <2>2
<1>7. HoldsFrom(r, m, nn)
  BY <1>3, <1>4, <1>5, <1>6 DEF HoldsFrom
<1>. QED  BY <1>7 DEF r

\* Executing the extrinsic at the head: if it counts, it is the next one.
LEMMA HoldsRun ==
  ASSUME NEW q \in Seq(Extrinsic), q # <<>>, NEW m \in Nat, NEW n \in Nat, HoldsFrom(q, m, n)
  PROVE  /\ Ranked(Head(q)) => Rank(Head(q)) = m /\ HoldsFrom(Tail(q), m + 1, n)
         /\ ~Ranked(Head(q)) => HoldsFrom(Tail(q), m, n)
<1>. DEFINE r == Tail(q)
<1>1. /\ Head(q) = q[1] /\ 1 \in DOMAIN q
      /\ \A i \in DOMAIN q : q[i] \in Extrinsic
      /\ \A i \in DOMAIN r : r[i] = q[i + 1] /\ i + 1 \in DOMAIN q /\ 1 < i + 1
      /\ \A i \in DOMAIN q : i # 1 => i - 1 \in DOMAIN r /\ r[i - 1] = q[i] /\ 1 < i
      /\ \A i, j \in DOMAIN r : i < j => i + 1 < j + 1
  BY TailShape
<1>. HIDE DEF r
<1>2. \A i \in DOMAIN q : Ranked(q[i]) => Rank(q[i]) \in Nat /\ m <= Rank(q[i]) /\ Rank(q[i]) < n
  BY <1>1, RankNat DEF HoldsFrom
<1>3. ASSUME Ranked(q[1])  PROVE Rank(q[1]) = m
  <2>1. m \in m .. n - 1
    BY <1>1, <1>2, <1>3
  <2>2. PICK i \in DOMAIN q : Ranked(q[i]) /\ Rank(q[i]) = m
    BY <2>1 DEF HoldsFrom
  <2>3. CASE i = 1
    BY <2>2, <2>3
  <2>4. CASE i # 1
    <3>1. Rank(q[1]) < Rank(q[i])
      BY <1>1, <1>3, <2>2, <2>4 DEF HoldsFrom
    <3>. QED  BY <1>1, <1>2, <1>3, <2>2, <3>1
  <2>. QED  BY <2>3, <2>4
<1>4. ASSUME NEW i \in DOMAIN r, NEW j \in DOMAIN r, i < j, Ranked(r[i]), Ranked(r[j])
      PROVE  Rank(r[i]) < Rank(r[j])
  BY <1>1, <1>4 DEF HoldsFrom
<1>5. ASSUME NEW k \in m .. n - 1, k # m \/ ~Ranked(q[1])
      PROVE  \E i \in DOMAIN r : Ranked(r[i]) /\ Rank(r[i]) = k
  <2>1. PICK i \in DOMAIN q : Ranked(q[i]) /\ Rank(q[i]) = k
    BY DEF HoldsFrom
  <2>2. i # 1
    BY <1>3, <1>5, <2>1
  <2>. QED  BY <1>1, <2>1, <2>2
<1>6. ASSUME Ranked(q[1])  PROVE HoldsFrom(r, m + 1, n)
  <2>1. m + 1 <= n
    BY <1>1, <1>2, <1>6
  <2>2. ASSUME NEW i \in DOMAIN r, Ranked(r[i])  PROVE m + 1 <= Rank(r[i]) /\ Rank(r[i]) < n
    <3>1. Rank(q[1]) < Rank(q[i + 1]) /\ i + 1 \in DOMAIN q /\ r[i] = q[i + 1]
      BY <1>1, <1>6, <2>2 DEF HoldsFrom
    <3>. QED  BY <1>2, <1>3, <1>6, <2>2, <3>1
  <2>3. \A k \in m + 1 .. n - 1 : k \in m .. n - 1 /\ k # m
    OBVIOUS
  <2>. QED  BY <1>4, <1>5, <2>1, <2>2, <2>3 DEF HoldsFrom
<1>7. ASSUME ~Ranked(q[1])  PROVE HoldsFrom(r, m, n)
  <2>1. ASSUME NEW i \in DOMAIN r, Ranked(r[i])  PROVE m <= Rank(r[i]) /\ Rank(r[i]) < n
    BY <1>1, <1>2, <2>1
  <2>2. m <= n
    BY DEF HoldsFrom
  <2>. QED  BY <1>4, <1>5, <1>7, <2>1, <2>2 DEF HoldsFrom
<1>. QED  BY <1>1, <1>3, <1>6, <1>7 DEF r

\* Sending an update with a new root, or another extrinsic.
LEMMA RootsSend ==
  ASSUME NEW q \in Seq(Extrinsic), NEW x \in Extrinsic, NEW s, NEW n \in Nat, NEW nn \in Nat,
         Number(s.root) \in Nat, \A i \in DOMAIN q : q[i].root[2] \in Nat,
         RootsRise(q, s, n), n <= nn,
         Updates(x) => x.root[2] = nn /\ n < nn
  PROVE  RootsRise(Append(q, x), s, nn)
<1>. DEFINE r == Append(q, x)
            l == Len(q) + 1
            w == Number(s.root)
<1>1. /\ \A i \in DOMAIN q : i \in DOMAIN r /\ r[i] = q[i] /\ i < l
      /\ \A i \in DOMAIN r : i \in DOMAIN q \/ i = l
      /\ l \in DOMAIN r /\ r[l] = x /\ ~(l < l)
      /\ \A i \in DOMAIN q : ~(l < i)
  BY AppendShape
<1>2. /\ w <= n /\ w \in Nat
      /\ \A i \in DOMAIN q : Updates(q[i]) => w < q[i].root[2] /\ q[i].root[2] <= n
      /\ \A i, j \in DOMAIN q :
           i < j /\ Updates(q[i]) /\ Updates(q[j]) => q[i].root[2] < q[j].root[2]
  BY DEF RootsRise
<1>. HIDE DEF r, l, w
<1>3. ASSUME NEW i \in DOMAIN r, Updates(r[i])  PROVE w < r[i].root[2] /\ r[i].root[2] <= nn
  <2>1. CASE i \in DOMAIN q
    BY <1>1, <1>2, <1>3, <2>1
  <2>2. CASE i = l
    BY <1>1, <1>2, <1>3, <2>2
  <2>. QED  BY <1>1, <2>1, <2>2
<1>4. ASSUME NEW i \in DOMAIN r, NEW j \in DOMAIN r, i < j, Updates(r[i]), Updates(r[j])
      PROVE  r[i].root[2] < r[j].root[2]
  <2>1. i \in DOMAIN q
    BY <1>1, <1>4
  <2>2. CASE j \in DOMAIN q
    BY <1>1, <1>2, <1>4, <2>1, <2>2
  <2>3. CASE j = l
    BY <1>1, <1>2, <1>4, <2>1, <2>3
  <2>. QED  BY <1>1, <2>2, <2>3
<1>5. w <= nn
  BY <1>2
<1>. QED  BY <1>3, <1>4, <1>5 DEF RootsRise, r, w

\* Executing the extrinsic at the head; an update becomes the slot's.
LEMMA RootsRun ==
  ASSUME NEW q \in Seq(Extrinsic), q # <<>>, NEW s, NEW n \in Nat, RootsRise(q, s, n),
         Number(s.root) \in Nat, \A i \in DOMAIN q : q[i].root[2] \in Nat
  PROVE  /\ RootsRise(Tail(q), s, n)
         /\ Updates(Head(q)) =>
              /\ Number(s.root) < Head(q).root[2]
              /\ \A t : Number(t.root) = Head(q).root[2] => RootsRise(Tail(q), t, n)
<1>. DEFINE r == Tail(q)
<1>1. /\ Head(q) = q[1] /\ 1 \in DOMAIN q
      /\ \A i \in DOMAIN r : r[i] = q[i + 1] /\ i + 1 \in DOMAIN q /\ 1 < i + 1
      /\ \A i, j \in DOMAIN r : i < j => i + 1 < j + 1
  BY TailShape
<1>. HIDE DEF r
<1>2. /\ Number(s.root) <= n
      /\ \A i \in DOMAIN q : Updates(q[i]) => Number(s.root) < q[i].root[2] /\ q[i].root[2] <= n
      /\ \A i, j \in DOMAIN q :
           i < j /\ Updates(q[i]) /\ Updates(q[j]) => q[i].root[2] < q[j].root[2]
  BY DEF RootsRise
<1>3. \A i, j \in DOMAIN r : i < j /\ Updates(r[i]) /\ Updates(r[j]) => r[i].root[2] < r[j].root[2]
  BY <1>1, <1>2
<1>4. RootsRise(r, s, n)
  BY <1>1, <1>2, <1>3 DEF RootsRise
<1>5. ASSUME Updates(q[1]), NEW t, Number(t.root) = q[1].root[2]  PROVE RootsRise(r, t, n)
  <2>1. \A i \in DOMAIN r : Updates(r[i]) => q[1].root[2] < r[i].root[2] /\ r[i].root[2] <= n
    BY <1>1, <1>2, <1>5
  <2>2. q[1].root[2] <= n
    BY <1>1, <1>2, <1>5
  <2>. QED  BY <1>3, <1>5, <2>1, <2>2 DEF RootsRise
<1>. QED  BY <1>1, <1>2, <1>4, <1>5 DEF r

\* The root that an epoch comes with, when an extrinsic is sent.
LEMMA BringsSend ==
  ASSUME NEW q \in Seq(Extrinsic), NEW x \in Extrinsic, NEW s, NEW e, NEW root,
         Brings(q, s, e, root), Updates(x) /\ x.epoch + 1 = e => x.root = root
  PROVE  Brings(Append(q, x), s, e, root)
<1>. DEFINE r == Append(q, x)
            l == Len(q) + 1
<1>1. /\ \A i \in DOMAIN q : i \in DOMAIN r /\ r[i] = q[i]
      /\ \A i \in DOMAIN r : i \in DOMAIN q \/ i = l
      /\ r[l] = x
  BY AppendShape
<1>. HIDE DEF r, l
<1>2. Brings(r, s, e, root)
  BY <1>1 DEF Brings
<1>. QED  BY <1>2 DEF r

\* The root that an epoch comes with, when an extrinsic is executed.
LEMMA BringsRun ==
  ASSUME NEW q \in Seq(Extrinsic), q # <<>>, NEW s, NEW e, NEW root, Brings(q, s, e, root)
  PROVE  /\ Brings(Tail(q), s, e, root)
         /\ Updates(Head(q)) =>
              \A t : t.root = Head(q).root /\ t.epoch = Head(q).epoch + 1
                       => Brings(Tail(q), t, e, root)
<1>. DEFINE r == Tail(q)
<1>1. /\ Head(q) = q[1] /\ 1 \in DOMAIN q
      /\ \A i \in DOMAIN r : r[i] = q[i + 1] /\ i + 1 \in DOMAIN q
  BY TailShape
<1>. HIDE DEF r
<1>2. Brings(r, s, e, root)
  BY <1>1 DEF Brings
<1>3. ASSUME Updates(q[1]), NEW t, t.root = q[1].root, t.epoch = q[1].epoch + 1
      PROVE  Brings(r, t, e, root)
  BY <1>1, <1>3 DEF Brings
<1>. QED  BY <1>1, <1>2, <1>3 DEF r

\* The numbers of a state, for an administrator that took an account.
LEMMA Numbers ==
  ASSUME ChainInv, OneAccount, NEW a \in Admins, Account(a) # NoProxy
  PROVE  /\ Account(a) \in Proxies /\ Account(a) \in pures
         /\ Executed(Account(a)) \in Nat /\ Sent(a) \in Nat /\ Limit(a) \in Nat
         /\ slot[Account(a)] \in Slot /\ Number(slot[Account(a)].root) \in Nat
         /\ pool[a] \in Seq(Extrinsic)
         /\ \A i \in DOMAIN pool[a] : pool[a][i].root[2] \in Nat /\ pool[a][i].root # <<>>
         /\ record[a] = NoOrg => job[a].op = "genesis" /\ job[a].step \in 2 .. 4
         /\ record[a].epoch \in Nat
<1>. DEFINE p == Account(a)
<1>0. TypeOK /\ Calls /\ Uses /\ Serials
  BY DEF ChainInv
<1>1. p \in pures /\ p \in Proxies
  BY <1>0 DEF Account, Uses, TypeOK
<1>2. slot[p] \in Slot /\ pool[a] \in Seq(Extrinsic) /\ record[a] \in Record /\ job[a] \in Job
      /\ calls[a] \in Nat
  <2>. HIDE DEF p
  <2>. QED  BY <1>0, <1>1 DEF TypeOK
<1>. HIDE DEF p
<1>3. Executed(p) \in Nat
  <2>1. slot[p].epoch \in Nat
    BY <1>2 DEF Slot
  <2>. QED  BY <2>1 DEF Executed
<1>4. \A r \in Root : r[2] \in Nat /\ r # <<>>
  <2>1. Root \subseteq Proxies
    BY DEF Root, Proxies, Accounts
  <2>2. \A r \in Proxies : r[2] \in 1 .. MaxCalls[r[1]]
    BY PairsAre
  <2>. QED  BY <2>1, <2>2, PairsAre DEF NoProxy
<1>5. Number(slot[p].root) \in Nat
  <2>1. slot[p].root \in Root \cup {<<>>}
    BY <1>2 DEF Slot
  <2>. QED  BY <1>4, <2>1 DEF Number
<1>6. \A i \in DOMAIN pool[a] : pool[a][i].root[2] \in Nat /\ pool[a][i].root # <<>>
  <2>1. \A i \in DOMAIN pool[a] : pool[a][i].root \in {a} \X (1 .. calls[a])
    BY <1>0 DEF Serials
  <2>2. {a} \X (1 .. calls[a]) \subseteq Root
    <3>1. \A n \in 1 .. calls[a] : n \in 1 .. MaxCalls[a]
      <4>1. calls[a] <= MaxCalls[a] /\ MaxCalls[a] \in Nat
        BY <1>0, BoundsAssumption DEF Serials, Accounts
      <4>. QED  BY <1>2, <4>1
    <3>. QED  BY <3>1, PairsAre
  <2>. QED  BY <1>4, <2>1, <2>2
<1>7. ASSUME record[a] = NoOrg  PROVE job[a].op = "genesis" /\ job[a].step \in 2 .. 4
  <2>1. p = job[a].p /\ job[a].op # "none"
    BY <1>0, <1>7 DEF Account, Calls, p
  <2>2. job[a].op = "genesis"
    BY <1>7, <2>1 DEF OneAccount
  <2>3. job[a].step <= Len(Program(job[a].op)) /\ Kind(a) # "create_pure"
    BY <1>0, <2>1 DEF Calls, TypeOK, p
  <2>4. job[a].step # 1
    BY <1>2, <2>1, <2>2, <2>3, KindIs DEF Kind
  <2>5. job[a].step \in 1 .. 4
    BY <1>2 DEF Job
  <2>. QED  BY <2>2, <2>4, <2>5
<1>8. record[a].epoch \in Nat
  BY <1>2 DEF Record
<1>9. Sent(a) \in Nat
  <2>. DEFINE u == UpdateSent(a)
              k == job[a].step
              e == record[a].epoch
  <2>. HIDE DEF u, k, e
  <2>1. Sent(a) = IF record[a] # NoOrg THEN 2 + e + (IF u THEN 1 ELSE 0)
                  ELSE k - 2 + (IF job[a].phase # "submit" THEN 1 ELSE 0)
    BY DEF Sent, u, k, e
  <2>2. (record[a] = NoOrg => k \in 2 .. 4) /\ e \in Nat
    BY <1>7, <1>8 DEF k, e
  <2>. QED  BY <2>1, <2>2
<1>10. Limit(a) \in Nat
  <2>1. job[a].op # "none" => calls[a] >= 1
    BY <1>0 DEF Calls
  <2>. QED  BY <1>2, <2>1 DEF Limit
<1>. QED  BY <1>1, <1>2, <1>3, <1>5, <1>6, <1>7, <1>8, <1>9, <1>10 DEF p

\* A step of a's call: an account, once taken, is not exchanged for another.
LEMMA AccountFrame ==
  ASSUME ChainInv, NEW a \in Admins, NEW j, NEW r,
         job' = [job EXCEPT ![a] = j], record' = [record EXCEPT ![a] = r],
         Account(a) # NoProxy => Account(a)' = Account(a)
  PROVE  /\ job'[a] = j /\ record'[a] = r
         /\ \A b \in Admins \ {a} : /\ Account(b)' = Account(b)
                                    /\ job'[b] = job[b] /\ record'[b] = record[b]
         /\ \A b \in Admins : Account(b) # NoProxy /\ Alone(b)' => Alone(b)
         /\ \A p \in Proxies : (\A b \in Admins : Account(b)' # p)
                                 => (\A b \in Admins : Account(b) # p)
<1>1. job \in [Admins -> Job] /\ record \in [Admins -> Record]
  BY DEF ChainInv, TypeOK
<1>2. /\ job'[a] = j /\ record'[a] = r
      /\ \A b \in Admins \ {a} : job'[b] = job[b] /\ record'[b] = record[b]
  BY <1>1
<1>3. \A b \in Admins \ {a} : Account(b)' = Account(b)
  BY <1>2 DEF Account
<1>4. \A b \in Admins : Account(b) # NoProxy => Account(b)' = Account(b)
  BY <1>3
<1>5. ASSUME NEW b \in Admins, Account(b) # NoProxy, Alone(b)'  PROVE Alone(b)
  <2>1. \A d \in Admins \ {b} : Account(d)' # Account(b)'
    BY <1>5 DEF Alone
  <2>. QED  BY <1>4, <1>5, <2>1 DEF Alone
<1>6. \A p \in Proxies : (\A b \in Admins : Account(b)' # p)
                           => (\A b \in Admins : Account(b) # p)
  BY <1>4, PairsAre
<1>. QED  BY <1>2, <1>3, <1>5, <1>6

\* A step of a's call that leaves the chain alone: what is to be shown of a.
LEMMA CallSaved ==
  ASSUME ChainInv, OneAccount, Untouched, NEW a \in Admins, NEW j, NEW r,
         \A b \in Admins :
           Account(b) # NoProxy /\ Alone(b) /\ b \in control[Account(b)] => InStep(b),
         job' = [job EXCEPT ![a] = j], record' = [record EXCEPT ![a] = r],
         UNCHANGED chainVars, \A b \in Admins \ {a} : calls'[b] = calls[b],
         Account(a) # NoProxy => Account(a)' = Account(a),
         j.op # "none" => IF r # NoOrg
                          THEN j.op # "genesis" /\ j.p = r.p /\ j.epoch = r.epoch
                          ELSE j.op = "genesis" /\ j.epoch = 0,
         r # NoOrg => r.epoch >= 1,
         Account(a)' # NoProxy /\ Alone(a)' /\ InStep(a) /\ Account(a) # NoProxy => InStep(a)',
         Account(a)' # NoProxy /\ Alone(a)' /\ Account(a) = NoProxy => InStep(a)'
  PROVE  SavedInv'
<1>1. /\ job'[a] = j /\ record'[a] = r
      /\ \A b \in Admins \ {a} : /\ Account(b)' = Account(b)
                                 /\ job'[b] = job[b] /\ record'[b] = record[b]
      /\ \A b \in Admins : Account(b) # NoProxy /\ Alone(b)' => Alone(b)
      /\ \A p \in Proxies : (\A b \in Admins : Account(b)' # p)
                              => (\A b \in Admins : Account(b) # p)
  BY AccountFrame
<1>2. /\ pool' = pool /\ control' = control /\ funded' = funded /\ mapped' = mapped
      /\ slot' = slot
  BY DEF chainVars
<1>3. ASSUME NEW i \in DOMAIN pool[a], pool[a][i].kind # "create_pure"
      PROVE  pool[a][i].p = Account(a)'
  <2>1. pool[a][i].p = Account(a)
    BY <1>3 DEF OneAccount
  <2>2. pool[a][i].p \in Proxies
    BY <1>3 DEF ChainInv, TypeOK, Uses, OnlyCreatedProxiesUsed, Range
  <2>. QED  BY <2>1, <2>2, PairsAre
<1>4. OneAccount'
  BY <1>1, <1>2, <1>3 DEF OneAccount
<1>5. Untouched'
  BY <1>1, <1>2 DEF Untouched
<1>6. ASSUME NEW b \in Admins, Account(b)' # NoProxy, Alone(b)', b \in control[Account(b)']
      PROVE  InStep(b)'
  <2>1. CASE b = a
    <3>1. CASE Account(a) = NoProxy
      BY <1>6, <2>1, <3>1
    <3>2. CASE Account(a) # NoProxy
      BY <1>1, <1>6, <2>1, <3>2
    <3>. QED  BY <3>1, <3>2
  <2>2. CASE b # a
    <3>1. InStep(b)
      BY <1>1, <1>6, <2>2
    <3>2. /\ Account(b)' = Account(b) /\ job'[b] = job[b] /\ record'[b] = record[b]
          /\ calls'[b] = calls[b]
      BY <1>1, <2>2
    <3>3. UpdateSent(b)' = UpdateSent(b)
      BY <3>2 DEF UpdateSent
    <3>4. Sent(b)' = Sent(b) /\ Limit(b)' = Limit(b)
      BY <3>2, <3>3 DEF Sent, Limit
    <3>5. Executed(Account(b))' = Executed(Account(b))
      BY <1>2, <3>2 DEF Executed
    <3>. QED  BY <1>2, <3>1, <3>2, <3>3, <3>4, <3>5 DEF InStep
  <2>. QED  BY <2>1, <2>2
<1>. QED  BY <1>2, <1>4, <1>5, <1>6 DEF SavedInv

\* A call that sends nothing keeps its account in step.
LEMMA StillInStep ==
  ASSUME ChainInv, OneAccount, NEW a \in Admins, Account(a) # NoProxy, InStep(a),
         Account(a)' = Account(a), UNCHANGED chainVars,
         Sent(a)' = Sent(a), Limit(a)' \in Nat, Limit(a) <= Limit(a)',
         record'[a] # NoOrg =>
           Brings(pool[a], slot[Account(a)], record'[a].epoch, record'[a].root),
         UpdateSent(a)' =>
           Brings(pool[a], slot[Account(a)], job'[a].epoch + 1, job'[a].root)
  PROVE  InStep(a)'
<1>1. /\ pool' = pool /\ funded' = funded /\ mapped' = mapped /\ slot' = slot
  BY DEF chainVars
<1>. DEFINE p == Account(a)
            q == pool[a]
            s == slot[p]
            n == Limit(a)
            nn == Limit(a)'
<1>2. /\ n \in Nat /\ Number(s.root) \in Nat /\ \A i \in DOMAIN q : q[i].root[2] \in Nat
  BY Numbers
<1>3. RootsRise(q, s, n)
  BY DEF InStep
<1>4. RootsRise(q, s, nn)
  <2>. HIDE DEF q, s, n, nn
  <2>1. n <= nn /\ nn \in Nat
    BY DEF n, nn
  <2>. QED  BY <1>2, <1>3, <2>1 DEF RootsRise
<1>5. Executed(Account(a))' = Executed(Account(a))
  BY <1>1 DEF Executed
<1>. QED  BY <1>1, <1>4, <1>5 DEF InStep

\* A call begins.
LEMMA StartSaved ==
  ASSUME ChainInv, OneAccount, Untouched, NEW a \in Admins,
         \A b \in Admins :
           Account(b) # NoProxy /\ Alone(b) /\ b \in control[Account(b)] => InStep(b),
         SubmitGenesis(a) \/ SubmitUpdate(a) \/ \E new \in Accounts : Rotate(a, new)
  PROVE  SavedInv'
<1>0. /\ calls \in [Admins -> Nat] /\ calls[a] \in Nat /\ job \in [Admins -> Job]
      /\ record \in [Admins -> Record]
  BY DEF ChainInv, TypeOK
<1>1. ASSUME NEW op, NEW p, NEW to, NEW epoch, Start(a, op, p, to, epoch),
             op \in Operations,
             IF record[a] # NoOrg
             THEN op # "genesis" /\ p = record[a].p /\ epoch = record[a].epoch
             ELSE op = "genesis" /\ p = NoProxy /\ epoch = 0
      PROVE  SavedInv'
  <2>. DEFINE j == [op |-> op, step |-> 1, phase |-> "submit", p |-> p, to |-> to,
                    root |-> <<a, calls[a] + 1>>, epoch |-> epoch]
  <2>1. /\ job[a].op = "none" /\ calls' = [calls EXCEPT ![a] = calls[a] + 1]
        /\ job' = [job EXCEPT ![a] = j] /\ UNCHANGED <<chainVars, record>>
    BY <1>1 DEF Start
  <2>2. /\ j.op = op /\ j.p = p /\ j.epoch = epoch /\ j.phase = "submit"
        /\ op # "none"
    BY <1>1 DEF Operations
  <2>. HIDE DEF j
  <2>3. /\ job'[a] = j /\ record'[a] = record[a] /\ calls'[a] = calls[a] + 1
        /\ \A b \in Admins \ {a} : calls'[b] = calls[b]
        /\ record' = [record EXCEPT ![a] = record[a]] /\ UNCHANGED chainVars
    BY <1>0, <2>1
  <2>4. job[a].p = NoProxy
    BY <2>1 DEF ChainInv, Calls
  <2>5. Account(a)' = Account(a) /\ (Account(a) # NoProxy => record[a] # NoOrg)
    BY <1>1, <2>2, <2>3, <2>4 DEF Account
  <2>6. ASSUME InStep(a), Account(a) # NoProxy  PROVE InStep(a)'
    <3>1. record[a] # NoOrg /\ op # "genesis"
      BY <1>1, <2>5, <2>6
    <3>2. ~UpdateSent(a) /\ ~UpdateSent(a)'
      BY <2>1, <2>2, <2>3 DEF UpdateSent
    <3>3. Sent(a)' = Sent(a)
      BY <2>3, <3>1, <3>2 DEF Sent
    <3>4. Limit(a) = calls[a] /\ Limit(a)' \in {calls[a], calls[a] + 1}
      <4>1. calls'[a] - 1 = calls[a]
        BY <1>0, <2>3
      <4>. QED  BY <2>1, <2>3, <4>1 DEF Limit
    <3>5. Limit(a)' \in Nat /\ Limit(a) <= Limit(a)'
      BY <1>0, <3>4
    <3>6. Brings(pool[a], slot[Account(a)], record[a].epoch, record[a].root)
      BY <2>6, <3>1 DEF InStep
    <3>. QED  BY <2>3, <2>5, <2>6, <3>2, <3>3, <3>5, <3>6, StillInStep
  <2>7. record[a] # NoOrg => record[a].epoch >= 1
    BY DEF OneAccount
  <2>. DEFINE r == record[a]
  <2>8. /\ record' = [record EXCEPT ![a] = r]
        /\ j.op # "none" => IF r # NoOrg
                            THEN j.op # "genesis" /\ j.p = r.p /\ j.epoch = r.epoch
                            ELSE j.op = "genesis" /\ j.epoch = 0
        /\ r # NoOrg => r.epoch >= 1
    BY <1>1, <2>2, <2>3, <2>7
  <2>. HIDE DEF r
  <2>9. /\ Account(a) # NoProxy => Account(a)' = Account(a)
        /\ Account(a)' # NoProxy /\ Alone(a)' /\ InStep(a) /\ Account(a) # NoProxy => InStep(a)'
        /\ Account(a)' # NoProxy /\ Alone(a)' /\ Account(a) = NoProxy => InStep(a)'
    BY <2>5, <2>6
  <2>10. /\ job' = [job EXCEPT ![a] = j] /\ UNCHANGED chainVars
         /\ \A b \in Admins \ {a} : calls'[b] = calls[b]
    BY <2>1, <2>3
  <2>. QED  BY <2>8, <2>9, <2>10, CallSaved, Zenon
<1>2. ASSUME SubmitGenesis(a)  PROVE SavedInv'
  BY <1>1, <1>2 DEF SubmitGenesis, Operations
<1>3. ASSUME SubmitUpdate(a)  PROVE SavedInv'
  BY <1>1, <1>3 DEF SubmitUpdate, Operations
<1>4. ASSUME NEW new \in Accounts, Rotate(a, new)  PROVE SavedInv'
  BY <1>1, <1>4 DEF Rotate, Operations
<1>. QED  BY <1>2, <1>3, <1>4

\* settle() takes its snapshot.
LEMMA SnapshotSaved ==
  ASSUME ChainInv, OneAccount, Untouched, NEW a \in Admins,
         \A b \in Admins :
           Account(b) # NoProxy /\ Alone(b) /\ b \in control[Account(b)] => InStep(b),
         Snapshot(a), UNCHANGED faults
  PROVE  SavedInv'
<1>0. /\ job \in [Admins -> Job] /\ record \in [Admins -> Record] /\ job[a] \in Job
      /\ faults \in Nat
  BY DEF ChainInv, TypeOK
<1>. DEFINE j == [job[a] EXCEPT !.phase = "poll"]
<1>1. /\ job' = [job EXCEPT ![a].phase = "poll"] /\ UNCHANGED <<chainVars, record, calls>>
      /\ job[a].phase = "snapshot"
  BY <1>0 DEF Snapshot, Fault
<1>2. job' = [job EXCEPT ![a] = j]
  BY <1>1
<1>3. /\ j.op = job[a].op /\ j.p = job[a].p /\ j.step = job[a].step /\ j.phase = "poll"
      /\ j.epoch = job[a].epoch /\ j.root = job[a].root
  BY <1>0 DEF Job
<1>. HIDE DEF j
<1>4. /\ job'[a] = j /\ record'[a] = record[a] /\ calls'[a] = calls[a]
      /\ \A b \in Admins \ {a} : calls'[b] = calls[b]
      /\ record' = [record EXCEPT ![a] = record[a]] /\ UNCHANGED chainVars
  BY <1>0, <1>1, <1>2
<1>5. Account(a)' = Account(a)
  BY <1>3, <1>4 DEF Account
<1>6. UpdateSent(a)' = UpdateSent(a)
  BY <1>1, <1>3, <1>4 DEF UpdateSent
<1>7. Sent(a)' = Sent(a) /\ Limit(a)' = Limit(a)
  BY <1>1, <1>3, <1>4, <1>6 DEF Sent, Limit
<1>8. ASSUME InStep(a), Account(a) # NoProxy  PROVE InStep(a)'
  <2>1. Limit(a)' \in Nat /\ Limit(a) <= Limit(a)'
    BY <1>7, <1>8, Numbers
  <2>2. /\ record[a] # NoOrg => Brings(pool[a], slot[Account(a)], record[a].epoch, record[a].root)
        /\ UpdateSent(a) => Brings(pool[a], slot[Account(a)], job[a].epoch + 1, job[a].root)
    BY <1>8 DEF InStep
  <2>3. /\ record'[a] # NoOrg =>
             Brings(pool[a], slot[Account(a)], record'[a].epoch, record'[a].root)
        /\ UpdateSent(a)' =>
             Brings(pool[a], slot[Account(a)], job'[a].epoch + 1, job'[a].root)
    BY <1>3, <1>4, <1>6, <2>2
  <2>. QED  BY <1>4, <1>5, <1>7, <1>8, <2>1, <2>3, StillInStep
<1>. DEFINE r == record[a]
<1>9. /\ record' = [record EXCEPT ![a] = r]
      /\ j.op # "none" => IF r # NoOrg
                          THEN j.op # "genesis" /\ j.p = r.p /\ j.epoch = r.epoch
                          ELSE j.op = "genesis" /\ j.epoch = 0
      /\ r # NoOrg => r.epoch >= 1
  BY <1>3, <1>4 DEF OneAccount
<1>. HIDE DEF r
<1>. QED  BY <1>2, <1>4, <1>5, <1>8, <1>9, CallSaved, ZenonT(60)

\* settle() returns and the call goes on to its next extrinsic.
LEMMA ContinueSaved ==
  ASSUME ChainInv, OneAccount, Untouched, NEW a \in Admins,
         \A b \in Admins :
           Account(b) # NoProxy /\ Alone(b) /\ b \in control[Account(b)] => InStep(b),
         job[a].op # "none", job[a].phase = "poll", job[a].step # Len(Program(job[a].op)),
         Continue(a), UNCHANGED <<chainVars, record, calls, faults>>
  PROVE  SavedInv'
<1>0. /\ job \in [Admins -> Job] /\ record \in [Admins -> Record] /\ job[a] \in Job
      /\ calls[a] \in Nat
  BY DEF ChainInv, TypeOK
<1>1. /\ record' = [record EXCEPT ![a] = record[a]] /\ UNCHANGED chainVars
      /\ record'[a] = record[a] /\ calls'[a] = calls[a]
      /\ \A b \in Admins \ {a} : calls'[b] = calls[b]
  BY <1>0
<1>2. /\ job[a].step <= Len(Program(job[a].op)) /\ calls[a] >= 1
      /\ Kind(a) # "create_pure" <=> job[a].p # NoProxy
      /\ job[a].op = "genesis" <=> record[a] = NoOrg
      /\ record[a] # NoOrg => job[a].p = record[a].p /\ record[a].epoch >= 1
      /\ record[a] # NoOrg => job[a].epoch = record[a].epoch
      /\ record[a] = NoOrg => job[a].epoch = 0
  BY DEF ChainInv, Calls, TypeOK, OneAccount
<1>3. /\ Kind(a) = "create_pure" <=> job[a].op = "genesis" /\ job[a].step = 1
      /\ job[a].op \in {"genesis", "rotate"} /\ job[a].step \in 1 .. 3
      /\ job[a].op = "rotate" => job[a].step = 1
  <2>1. /\ Kind(a) = "create_pure" <=> job[a].op = "genesis" /\ job[a].step = 1
        /\ job[a].op \in Operations
    BY <1>0, <1>2, KindIs DEF Kind
  <2>. DEFINE k == job[a].step
  <2>2. k \in 1 .. 4
    BY <1>0 DEF Job
  <2>. HIDE DEF k
  <2>3. /\ job[a].op = "genesis" => k <= 4 /\ k # 4
        /\ job[a].op = "update" => k <= 1 /\ k # 1
        /\ job[a].op = "rotate" => k <= 2 /\ k # 2
    BY <1>2, ProgramIs DEF k
  <2>4. /\ job[a].op = "genesis" => k \in 1 .. 3
        /\ job[a].op # "update"
        /\ job[a].op = "rotate" => k = 1
    BY <2>2, <2>3
  <2>5. k \in 1 .. 3 /\ job[a].op \in {"genesis", "rotate"}
    BY <2>1, <2>2, <2>4 DEF Operations
  <2>. QED  BY <2>1, <2>4, <2>5 DEF k
<1>4. CASE Kind(a) # "create_pure"
  <2>. DEFINE j == [job[a] EXCEPT !.step = @ + 1, !.phase = "submit"]
  <2>1. job' = [job EXCEPT ![a] = j]
    BY <1>4 DEF Continue
  <2>2. /\ j.op = job[a].op /\ j.p = job[a].p /\ j.step = job[a].step + 1 /\ j.phase = "submit"
        /\ j.epoch = job[a].epoch /\ j.root = job[a].root
    BY <1>0 DEF Job
  <2>. HIDE DEF j
  <2>3. job'[a] = j
    BY <1>0, <2>1
  <2>4. Account(a)' = Account(a) /\ Account(a) # NoProxy
    BY <1>1, <1>2, <1>4, <2>2, <2>3 DEF Account
  <2>5. ~UpdateSent(a) /\ ~UpdateSent(a)'
    BY <1>3, <2>2, <2>3 DEF UpdateSent
  <2>6. Sent(a)' = Sent(a)
    <3>1. CASE record[a] # NoOrg
      BY <1>1, <2>5, <3>1 DEF Sent
    <3>2. CASE record[a] = NoOrg
      <4>. DEFINE k == job[a].step
      <4>. HIDE DEF k
      <4>1. Sent(a) = k - 2 + 1 /\ Sent(a)' = (k + 1) - 2 + 0 /\ k \in 1 .. 3
        BY <1>1, <1>3, <2>2, <2>3, <3>2 DEF Sent, k
      <4>. QED  BY <4>1
    <3>. QED  BY <3>1, <3>2
  <2>7. Limit(a)' = Limit(a)
    BY <1>1, <2>2, <2>3, <2>5 DEF Limit
  <2>8. ASSUME InStep(a)  PROVE InStep(a)'
    <3>1. Limit(a)' \in Nat /\ Limit(a) <= Limit(a)'
      BY <2>4, <2>7, Numbers
    <3>2. record'[a] # NoOrg =>
            Brings(pool[a], slot[Account(a)], record'[a].epoch, record'[a].root)
      BY <1>1, <2>8 DEF InStep
    <3>. QED  BY <1>1, <2>4, <2>5, <2>6, <2>8, <3>1, <3>2, StillInStep
  <2>. DEFINE r == record[a]
  <2>9. /\ record' = [record EXCEPT ![a] = r]
        /\ j.op # "none" => IF r # NoOrg
                            THEN j.op # "genesis" /\ j.p = r.p /\ j.epoch = r.epoch
                            ELSE j.op = "genesis" /\ j.epoch = 0
        /\ r # NoOrg => r.epoch >= 1
    BY <1>1, <1>2, <2>2
  <2>. HIDE DEF r
  <2>10. /\ Account(a) # NoProxy => Account(a)' = Account(a)
         /\ Account(a)' # NoProxy /\ Alone(a)' /\ InStep(a) /\ Account(a) # NoProxy => InStep(a)'
         /\ Account(a)' # NoProxy /\ Alone(a)' /\ Account(a) = NoProxy => InStep(a)'
         /\ UNCHANGED chainVars /\ \A b \in Admins \ {a} : calls'[b] = calls[b]
    BY <1>1, <2>4, <2>8
  <2>. QED  BY <2>1, <2>9, <2>10, CallSaved, Zenon
<1>5. CASE Kind(a) = "create_pure" /\ head # <<>>
  <2>0. record[a] = NoOrg /\ job[a].op = "genesis" /\ job[a].step = 1 /\ job[a].p = NoProxy
    BY <1>2, <1>3, <1>5
  <2>. DEFINE j == [[job[a] EXCEPT !.step = @ + 1, !.phase = "submit"] EXCEPT !.p = Head(head)]
  <2>1. job' = [job EXCEPT ![a] = j]
    BY <1>5 DEF Continue, PureOf
  <2>2. /\ j.op = job[a].op /\ j.p = Head(head) /\ j.step = job[a].step + 1 /\ j.phase = "submit"
        /\ j.epoch = job[a].epoch
    BY <1>0 DEF Job
  <2>. HIDE DEF j
  <2>3. job'[a] = j
    BY <1>0, <2>1
  <2>4. Account(a) = NoProxy /\ Account(a)' = j.p
    BY <1>1, <2>0, <2>3 DEF Account
  <2>5. j.p \in Proxies
    BY <1>5, <2>2 DEF ChainInv, TypeOK
  <2>6. ASSUME Alone(a)'  PROVE InStep(a)'
    <3>1. \A b \in Admins \ {a} : job'[b] = job[b] /\ record'[b] = record[b]
      BY <1>0, <2>1
    <3>2. \A b \in Admins : Account(b) # j.p
      <4>1. \A b \in Admins \ {a} : Account(b)' = Account(b)
        BY <3>1 DEF Account
      <4>2. Account(a) # j.p
        BY <2>4, <2>5, PairsAre
      <4>. QED  BY <2>4, <2>6, <4>1, <4>2 DEF Alone
    <3>3. j.p \notin funded /\ j.p \notin mapped /\ slot[j.p].epoch = 0 /\ slot[j.p].root = <<>>
      BY <2>5, <3>2 DEF Untouched
    <3>4. pool' = pool /\ funded' = funded /\ mapped' = mapped /\ slot' = slot
      BY DEF chainVars
    <3>5. \A i \in DOMAIN pool[a] : ~Ranked(pool[a][i]) /\ ~Updates(pool[a][i])
      <4>1. ASSUME NEW i \in DOMAIN pool[a], pool[a][i].kind # "create_pure"  PROVE FALSE
        <5>1. pool[a][i].p = NoProxy
          BY <2>4, <4>1 DEF OneAccount
        <5>2. pool[a][i].p \in Proxies
          BY <4>1 DEF ChainInv, TypeOK, Uses, OnlyCreatedProxiesUsed, Range
        <5>. QED  BY <5>1, <5>2, PairsAre
      <4>. QED  BY <4>1 DEF Ranked, Updates
    <3>6. ~UpdateSent(a)' /\ Limit(a)' = calls[a] - 1
      BY <1>1, <2>0, <2>2, <2>3 DEF UpdateSent, Limit
    <3>7. Sent(a)' = 0
      BY <1>1, <2>0, <2>2, <2>3 DEF Sent
    <3>8. Executed(Account(a))' = 0
      BY <2>4, <3>3, <3>4 DEF Executed
    <3>9. HoldsFrom(pool[a], 0, 0)
      BY <3>5 DEF HoldsFrom
    <3>10. RootsRise(pool[a], slot[j.p], calls[a] - 1)
      <4>1. Number(slot[j.p].root) = 0
        BY <3>3 DEF Number
      <4>2. 0 <= calls[a] - 1
        BY <1>0, <1>2
      <4>. QED  BY <3>5, <4>1, <4>2 DEF RootsRise
    <3>. QED  BY <1>1, <2>0, <2>4, <3>3, <3>4, <3>6, <3>7, <3>8, <3>9, <3>10 DEF InStep
  <2>. DEFINE r == record[a]
  <2>9. /\ record' = [record EXCEPT ![a] = r]
        /\ j.op # "none" => IF r # NoOrg
                            THEN j.op # "genesis" /\ j.p = r.p /\ j.epoch = r.epoch
                            ELSE j.op = "genesis" /\ j.epoch = 0
        /\ r # NoOrg => r.epoch >= 1
    BY <1>1, <1>2, <2>0, <2>2
  <2>. HIDE DEF r
  <2>10. /\ Account(a) # NoProxy => Account(a)' = Account(a)
         /\ Account(a)' # NoProxy /\ Alone(a)' /\ InStep(a) /\ Account(a) # NoProxy => InStep(a)'
         /\ Account(a)' # NoProxy /\ Alone(a)' /\ Account(a) = NoProxy => InStep(a)'
         /\ UNCHANGED chainVars /\ \A b \in Admins \ {a} : calls'[b] = calls[b]
    BY <1>1, <2>4, <2>6
  <2>. QED  BY <2>1, <2>9, <2>10, CallSaved, Zenon
<1>6. CASE Kind(a) = "create_pure" /\ head = <<>>
  <2>0. record[a] = NoOrg /\ job[a].p = NoProxy
    BY <1>2, <1>3, <1>6
  <2>. DEFINE j == NoJob(a)
              r == record[a]
  <2>1. job' = [job EXCEPT ![a] = j]
    BY <1>6 DEF Continue, Fails
  <2>2. j.op = "none" /\ j.p = NoProxy
    BY DEF NoJob
  <2>. HIDE DEF j
  <2>3. Account(a) = NoProxy /\ Account(a)' = NoProxy
    <3>1. job'[a] = j
      BY <1>0, <2>1
    <3>. QED  BY <1>1, <2>0, <2>2, <3>1 DEF Account
  <2>9. /\ record' = [record EXCEPT ![a] = r]
        /\ j.op # "none" => IF r # NoOrg
                            THEN j.op # "genesis" /\ j.p = r.p /\ j.epoch = r.epoch
                            ELSE j.op = "genesis" /\ j.epoch = 0
        /\ r # NoOrg => r.epoch >= 1
    BY <1>1, <1>2, <2>2
  <2>. HIDE DEF r
  <2>10. /\ Account(a) # NoProxy => Account(a)' = Account(a)
         /\ Account(a)' # NoProxy /\ Alone(a)' /\ InStep(a) /\ Account(a) # NoProxy => InStep(a)'
         /\ Account(a)' # NoProxy /\ Alone(a)' /\ Account(a) = NoProxy => InStep(a)'
         /\ UNCHANGED chainVars /\ \A b \in Admins \ {a} : calls'[b] = calls[b]
    BY <1>1, <2>3
  <2>. QED  BY <2>1, <2>9, <2>10, CallSaved, Zenon
<1>. QED  BY <1>4, <1>5, <1>6

\* The call returns, and the administrator saves.
LEMMA ReturnSaved ==
  ASSUME ChainInv, OneAccount, Untouched, NEW a \in Admins,
         \A b \in Admins :
           Account(b) # NoProxy /\ Alone(b) /\ b \in control[Account(b)] => InStep(b),
         job[a].op # "none", job[a].phase = "poll", job[a].step = Len(Program(job[a].op)),
         Return(a), UNCHANGED <<chainVars, calls, faults>>
  PROVE  SavedInv'
<1>0. /\ job \in [Admins -> Job] /\ record \in [Admins -> Record] /\ job[a] \in Job
      /\ record[a] \in Record /\ calls[a] \in Nat /\ job[a].epoch \in Nat
  BY DEF ChainInv, TypeOK, Job
<1>. DEFINE j == NoJob(a)
            r == IF job[a].op = "rotate" THEN record[a]
                 ELSE [p |-> job[a].p, root |-> job[a].root, epoch |-> job[a].epoch + 1]
<1>1. /\ job' = [job EXCEPT ![a] = j] /\ record' = [record EXCEPT ![a] = r]
  BY DEF Return, Fails
<1>2. j.op = "none" /\ j.p = NoProxy
  BY DEF NoJob
<1>3. /\ Kind(a) # "create_pure" <=> job[a].p # NoProxy
      /\ job[a].op = "genesis" <=> record[a] = NoOrg
      /\ record[a] # NoOrg => job[a].p = record[a].p /\ record[a].epoch >= 1
      /\ record[a] # NoOrg => job[a].epoch = record[a].epoch /\ record[a].p # NoProxy
      /\ record[a] = NoOrg => job[a].epoch = 0
  BY DEF ChainInv, Calls, TypeOK, OneAccount
<1>4. /\ job[a].op \in Operations
      /\ job[a].op = "genesis" => job[a].step = 4
      /\ job[a].p # NoProxy
  <2>1. job[a].op \in Operations /\ job[a].step <= Len(Program(job[a].op))
    BY <1>0 DEF Job, ChainInv, Calls
  <2>2. job[a].op = "genesis" => job[a].step = 4
    BY ProgramIs
  <2>3. Kind(a) # "create_pure"
    BY <1>0, <2>1, <2>2, KindIs DEF Kind
  <2>. QED  BY <1>3, <2>1, <2>2, <2>3
<1>5. /\ r # NoOrg /\ r.p = job[a].p /\ r.epoch >= 1
      /\ job[a].op = "rotate" => r = record[a]
      /\ job[a].op # "rotate" => r.root = job[a].root /\ r.epoch = job[a].epoch + 1
  <2>1. NoOrg.p = NoProxy
    BY DEF NoOrg
  <2>. HIDE DEF NoOrg
  <2>2. CASE job[a].op = "rotate"
    BY <1>3, <2>2
  <2>3. CASE job[a].op # "rotate"
    <3>1. /\ r.p = job[a].p /\ r.root = job[a].root /\ r.epoch = job[a].epoch + 1
      BY <2>3
    <3>. HIDE DEF r
    <3>2. r.epoch >= 1
      BY <1>0, <3>1
    <3>. QED  BY <1>4, <2>1, <2>3, <3>1, <3>2
  <2>. QED  BY <2>2, <2>3
<1>. HIDE DEF j, r
<1>6. /\ job'[a] = j /\ record'[a] = r /\ calls'[a] = calls[a]
      /\ \A b \in Admins \ {a} : calls'[b] = calls[b]
  BY <1>0, <1>1
<1>7. Account(a)' = Account(a) /\ Account(a) # NoProxy
  BY <1>3, <1>4, <1>5, <1>6 DEF Account
<1>8. ASSUME InStep(a)  PROVE InStep(a)'
  <2>1. ~UpdateSent(a)' /\ (UpdateSent(a) <=> job[a].op # "rotate")
    BY <1>2, <1>4, <1>6 DEF UpdateSent, Operations
  <2>2. Limit(a)' = calls[a] /\ Limit(a) = calls[a]
    BY <1>2, <1>6, <2>1 DEF Limit
  <2>3. Sent(a)' = 2 + r.epoch + 0
    BY <1>5, <1>6, <2>1 DEF Sent
  <2>4. Sent(a)' = Sent(a)
    <3>1. CASE job[a].op = "rotate"
      BY <1>3, <1>5, <2>1, <2>3, <3>1 DEF Sent
    <3>2. CASE job[a].op = "update"
      <4>. DEFINE e == record[a].epoch
      <4>. HIDE DEF e
      <4>1. Sent(a) = 2 + e + 1 /\ r.epoch = e + 1 /\ e \in Nat
        BY <1>0, <1>3, <1>5, <2>1, <3>2 DEF Sent, e
      <4>. QED  BY <2>3, <4>1
    <3>3. CASE job[a].op = "genesis"
      <4>1. Sent(a) = 4 - 2 + 1 /\ r.epoch = 0 + 1
        BY <1>3, <1>4, <1>5, <3>3 DEF Sent
      <4>. QED  BY <2>3, <4>1
    <3>. QED  BY <1>4, <3>1, <3>2, <3>3 DEF Operations
  <2>5. Brings(pool[a], slot[Account(a)], r.epoch, r.root)
    BY <1>3, <1>5, <1>8, <2>1 DEF InStep
  <2>6. Limit(a)' \in Nat /\ Limit(a) <= Limit(a)'
    BY <1>0, <2>2
  <2>. QED  BY <1>6, <1>7, <1>8, <2>1, <2>4, <2>5, <2>6, StillInStep
<1>9. /\ Account(a) # NoProxy => Account(a)' = Account(a)
      /\ Account(a)' # NoProxy /\ Alone(a)' /\ InStep(a) /\ Account(a) # NoProxy => InStep(a)'
      /\ Account(a)' # NoProxy /\ Alone(a)' /\ Account(a) = NoProxy => InStep(a)'
      /\ UNCHANGED chainVars /\ \A b \in Admins \ {a} : calls'[b] = calls[b]
  BY <1>6, <1>7, <1>8
<1>10. /\ j.op # "none" => IF r # NoOrg
                           THEN j.op # "genesis" /\ j.p = r.p /\ j.epoch = r.epoch
                           ELSE j.op = "genesis" /\ j.epoch = 0
       /\ r # NoOrg => r.epoch >= 1
  BY <1>2, <1>5
<1>. QED  BY <1>1, <1>9, <1>10, CallSaved, Zenon

\* What the next extrinsic of a call is, in the order of the extrinsics.
LEMMA SendingRank ==
  ASSUME ChainInv, OneAccount, NEW a \in Admins, job[a].op # "none", job[a].phase = "submit",
         Kind(a) # "create_pure", NEW j, job'[a] = j, UNCHANGED <<record, calls>>,
         j.op = job[a].op, j.p = job[a].p, j.step = job[a].step, j.phase = "snapshot",
         j.epoch = job[a].epoch, j.root = job[a].root
  PROVE  LET x == NextExtrinsic(a) IN
         /\ ~UpdateSent(a) /\ (UpdateSent(a)' <=> Updates(x))
         /\ Ranked(x) => Rank(x) = Sent(a) /\ Sent(a)' = Sent(a) + 1
         /\ ~Ranked(x) => Sent(a)' = Sent(a)
         /\ Updates(x) => /\ Limit(a) = calls[a] - 1 /\ Limit(a)' = calls[a]
                          /\ Sent(a) = 2 + job[a].epoch
         /\ ~Updates(x) => Limit(a)' = Limit(a)
         /\ x.p = Account(a) /\ Account(a) # NoProxy
         /\ x.epoch = job[a].epoch /\ x.root = job[a].root /\ x.root[2] = calls[a]
         /\ x \in Extrinsic /\ job[a].epoch \in Nat
         /\ Updates(x) /\ record[a] # NoOrg => job[a].epoch = record[a].epoch
<1>. DEFINE x == NextExtrinsic(a)
            k == job[a].step
<1>0. job[a] \in Job /\ k \in 1 .. 4 /\ job[a].epoch \in Nat
  BY DEF ChainInv, TypeOK, Job
<1>1. /\ x \in Extrinsic /\ x.kind = Kind(a) /\ x.p = job[a].p
      /\ x.root = job[a].root /\ x.root[2] = calls[a] /\ x.epoch = job[a].epoch
  BY Sending
<1>2. /\ k <= Len(Program(job[a].op)) /\ job[a].p # NoProxy
      /\ job[a].op = "genesis" <=> record[a] = NoOrg
      /\ record[a] # NoOrg => job[a].p = record[a].p
      /\ record[a] # NoOrg => job[a].epoch = record[a].epoch
      /\ record[a] = NoOrg => job[a].epoch = 0
  BY DEF ChainInv, Calls, TypeOK, OneAccount
<1>3. /\ Kind(a) \in Kinds /\ job[a].op \in Operations
      /\ Kind(a) = "create_pure" <=> job[a].op = "genesis" /\ k = 1
      /\ Kind(a) = "fund" <=> job[a].op = "genesis" /\ k = 2
      /\ Kind(a) = "map_account" <=> job[a].op = "genesis" /\ k = 3
      /\ Kind(a) = "update" <=> \/ job[a].op = "genesis" /\ k = 4
                                \/ job[a].op = "update"
  BY <1>0, <1>2, KindIs DEF Kind
<1>. HIDE DEF x
<1>4. Account(a) = job[a].p
  BY <1>2 DEF Account
<1>5. ~UpdateSent(a) /\ (UpdateSent(a)' <=> Updates(x))
  BY <1>1, <1>3 DEF UpdateSent, Updates
<1>6. CASE record[a] # NoOrg
  <2>1. job[a].op # "genesis"
    BY <1>2, <1>6
  <2>2. Ranked(x) <=> Updates(x)
    BY <1>1, <1>3, <2>1 DEF Ranked, Updates
  <2>3. Updates(x) => Rank(x) = 2 + job[a].epoch
    BY <1>1 DEF Updates, Rank
  <2>. DEFINE e == record[a].epoch
  <2>. HIDE DEF e
  <2>4. /\ Sent(a) = 2 + e + 0 /\ e = job[a].epoch
        /\ Sent(a)' = 2 + e + (IF Updates(x) THEN 1 ELSE 0)
    BY <1>2, <1>5, <1>6 DEF Sent, e
  <2>5. /\ Updates(x) => Limit(a) = calls[a] - 1 /\ Limit(a)' = calls[a]
        /\ ~Updates(x) => Limit(a)' = Limit(a)
    BY <1>1, <1>3, <1>5, <2>1 DEF Limit, Updates
  <2>6. /\ Sent(a) = 2 + job[a].epoch
        /\ Updates(x) => Sent(a)' = Sent(a) + 1
        /\ ~Updates(x) => Sent(a)' = Sent(a)
    BY <1>0, <2>4
  <2>. QED  BY <1>0, <1>1, <1>2, <1>4, <1>5, <1>6, <2>2, <2>3, <2>5, <2>6 DEF x
<1>7. CASE record[a] = NoOrg
  <2>1. job[a].op = "genesis" /\ job[a].epoch = 0 /\ k \in 2 .. 4
    <3>1. job[a].op = "genesis" /\ job[a].epoch = 0 /\ k # 1
      BY <1>2, <1>3, <1>7
    <3>. QED  BY <1>0, <3>1
  <2>. HIDE DEF k
  <2>2. k \in {2, 3, 4}
    BY <2>1
  <2>3. Ranked(x) /\ Rank(x) = k - 2
    <3>1. CASE k = 2
      BY <1>1, <1>3, <2>1, <3>1 DEF Ranked, Rank
    <3>2. CASE k = 3
      BY <1>1, <1>3, <2>1, <3>2 DEF Ranked, Rank
    <3>3. CASE k = 4
      BY <1>1, <1>3, <2>1, <3>3 DEF Ranked, Rank
    <3>. QED  BY <2>2, <3>1, <3>2, <3>3
  <2>4. Sent(a) = k - 2 + 0 /\ Sent(a)' = k - 2 + 1
    BY <1>7 DEF Sent, k
  <2>5. Updates(x) <=> k = 4
    BY <1>1, <1>3, <2>1 DEF Updates
  <2>6. Limit(a) = calls[a] - 1 /\ Limit(a)' = IF Updates(x) THEN calls[a] ELSE calls[a] - 1
    BY <1>5, <2>1 DEF Limit
  <2>7. /\ Rank(x) = Sent(a) /\ Sent(a)' = Sent(a) + 1
        /\ Updates(x) => Sent(a) = 2 + job[a].epoch
    BY <2>1, <2>3, <2>4, <2>5
  <2>. QED  BY <1>0, <1>1, <1>2, <1>4, <1>5, <1>7, <2>3, <2>6, <2>7 DEF x
<1>. QED  BY <1>6, <1>7

\* Sending keeps the account in step.
LEMMA SendInStep ==
  ASSUME ChainInv, OneAccount, NEW a \in Admins, job[a].op # "none", job[a].phase = "submit",
         Kind(a) # "create_pure", NEW j, job'[a] = j, UNCHANGED <<record, calls>>,
         j.op = job[a].op, j.p = job[a].p, j.step = job[a].step, j.phase = "snapshot",
         j.epoch = job[a].epoch, j.root = job[a].root,
         UNCHANGED <<funded, mapped, slot>>,
         pool'[a] = Append(pool[a], NextExtrinsic(a)), InStep(a)
  PROVE  InStep(a)'
<1>. DEFINE x == NextExtrinsic(a)
            q == pool[a]
            p == Account(a)
            s == slot[p]
<1>1. /\ ~UpdateSent(a) /\ (UpdateSent(a)' <=> Updates(x))
      /\ Ranked(x) => Rank(x) = Sent(a) /\ Sent(a)' = Sent(a) + 1
      /\ ~Ranked(x) => Sent(a)' = Sent(a)
      /\ Updates(x) => /\ Limit(a) = calls[a] - 1 /\ Limit(a)' = calls[a]
                       /\ Sent(a) = 2 + job[a].epoch
      /\ ~Updates(x) => Limit(a)' = Limit(a)
      /\ p # NoProxy
      /\ x.epoch = job[a].epoch /\ x.root = job[a].root /\ x.root[2] = calls[a]
      /\ x \in Extrinsic /\ job[a].epoch \in Nat
      /\ Updates(x) /\ record[a] # NoOrg => job[a].epoch = record[a].epoch
  BY SendingRank
<1>. HIDE DEF x
<1>2. /\ Executed(p) \in Nat /\ Sent(a) \in Nat /\ Limit(a) \in Nat
      /\ s \in Slot /\ Number(s.root) \in Nat /\ q \in Seq(Extrinsic)
      /\ \A i \in DOMAIN q : q[i].root[2] \in Nat
      /\ record[a].epoch \in Nat
  BY <1>1, Numbers
<1>3. Account(a)' = p
  BY DEF Account
<1>4. Executed(Account(a))' = Executed(p)
  BY <1>3 DEF Executed
<1>5. /\ p \notin funded => p \notin mapped
      /\ p \notin mapped => s.epoch = 0
      /\ HoldsFrom(q, Executed(p), Sent(a))
      /\ RootsRise(q, s, Limit(a))
      /\ record[a] # NoOrg => Brings(q, s, record[a].epoch, record[a].root)
  BY DEF InStep
<1>6. calls[a] \in Nat
  BY DEF ChainInv, TypeOK
<1>. DEFINE m == Executed(p)
            n == Sent(a)
            nn == Sent(a)'
            l == Limit(a)
            ll == Limit(a)'
            r == Append(q, x)
<1>. HIDE DEF q, s, m, n, nn, l, ll, p
<1>7. HoldsFrom(r, m, nn)
  <2>1. HoldsFrom(r, m, IF Ranked(x) THEN n + 1 ELSE n)
    BY <1>1, <1>2, <1>5, HoldsSend DEF m, n
  <2>2. nn = IF Ranked(x) THEN n + 1 ELSE n
    BY <1>1 DEF nn, n
  <2>. QED  BY <2>1, <2>2
<1>8. RootsRise(r, s, ll)
  <2>1. /\ l \in Nat /\ ll \in Nat /\ l <= ll /\ RootsRise(q, s, l)
        /\ Updates(x) => x.root[2] = ll /\ l < ll
    BY <1>1, <1>2, <1>5, <1>6 DEF l, ll
  <2>. QED  BY <1>1, <1>2, <2>1, RootsSend
<1>9. record[a] # NoOrg => Brings(r, s, record[a].epoch, record[a].root)
  <2>1. ASSUME record[a] # NoOrg  PROVE ~(Updates(x) /\ x.epoch + 1 = record[a].epoch)
    BY <1>1, <1>2, <2>1
  <2>. DEFINE e == record[a].epoch
              root == record[a].root
  <2>2. record[a] # NoOrg => Brings(q, s, e, root) /\ ~(Updates(x) /\ x.epoch + 1 = e)
    BY <1>5, <2>1
  <2>. HIDE DEF e, root
  <2>3. record[a] # NoOrg => Brings(r, s, e, root)
    BY <1>1, <1>2, <2>2, BringsSend
  <2>. QED  BY <2>3 DEF e, root
<1>10. ASSUME Updates(x)  PROVE Brings(r, s, job[a].epoch + 1, job[a].root)
  <2>. DEFINE e == job[a].epoch
              root == job[a].root
  <2>1. n = 2 + e /\ e \in Nat /\ m <= n /\ m \in Nat
        /\ \A i \in DOMAIN q : Ranked(q[i]) => Rank(q[i]) < n
    BY <1>1, <1>2, <1>5, <1>10 DEF m, n, HoldsFrom
  <2>2. s.epoch # e + 1
    <3>1. CASE p \notin funded \/ p \notin mapped
      BY <1>5, <2>1, <3>1
    <3>2. CASE p \in funded /\ p \in mapped
      <4>1. m = 2 + s.epoch
        BY <3>2 DEF m, Executed, s
      <4>2. s.epoch \in Nat
        BY <1>2 DEF Slot
      <4>. QED  BY <2>1, <4>1, <4>2
    <3>. QED  BY <3>1, <3>2
  <2>3. \A i \in DOMAIN q : Updates(q[i]) => q[i].epoch + 1 # e + 1
    <3>1. ASSUME NEW i \in DOMAIN q, Updates(q[i])  PROVE q[i].epoch + 1 # e + 1
      <4>1. Ranked(q[i]) /\ Rank(q[i]) = 2 + q[i].epoch
        BY <3>1 DEF Updates, Ranked, Rank
      <4>2. q[i] \in Extrinsic
        BY <1>2
      <4>3. q[i].epoch \in Nat
        BY <4>2 DEF Extrinsic
      <4>. HIDE DEF e
      <4>. QED  BY <2>1, <4>1, <4>3
    <3>. QED  BY <3>1
  <2>. HIDE DEF e, root
  <2>4. Brings(q, s, e + 1, root)
    BY <2>2, <2>3 DEF Brings
  <2>5. Updates(x) /\ x.epoch + 1 = e + 1 => x.root = root
    BY <1>1 DEF root
  <2>6. Brings(r, s, e + 1, root)
    BY <1>1, <1>2, <2>4, <2>5, BringsSend
  <2>. QED  BY <2>6 DEF e, root
<1>11. /\ Account(a)' = p /\ pool'[a] = r /\ slot'[p] = s /\ Executed(Account(a))' = m
       /\ Sent(a)' = nn /\ Limit(a)' = ll
       /\ p \notin funded' => p \notin mapped'
       /\ p \notin mapped' => slot'[p].epoch = 0
  BY <1>3, <1>4, <1>5 DEF p, q, s, m, nn, ll, x
<1>12. UpdateSent(a)' => Brings(r, s, job'[a].epoch + 1, job'[a].root)
  BY <1>1, <1>10
<1>. HIDE DEF r
<1>. QED  BY <1>7, <1>8, <1>9, <1>11, <1>12 DEF InStep

\* A call submits an extrinsic.
LEMMA SubmitSaved ==
  ASSUME ChainInv, OneAccount, Untouched, NEW a \in Admins,
         \A b \in Admins :
           Account(b) # NoProxy /\ Alone(b) /\ b \in control[Account(b)] => InStep(b),
         Submit(a), UNCHANGED faults
  PROVE  SavedInv'
<1>0. /\ job \in [Admins -> Job] /\ record \in [Admins -> Record] /\ job[a] \in Job
      /\ faults \in Nat /\ pool \in [Admins -> Seq(Extrinsic)]
  BY DEF ChainInv, TypeOK
<1>. DEFINE j == [job[a] EXCEPT !.phase = "snapshot"]
            x == NextExtrinsic(a)
<1>1. /\ job' = [job EXCEPT ![a].phase = "snapshot"]
      /\ pool' = [pool EXCEPT ![a] = Append(@, x)]
      /\ job[a].op # "none" /\ job[a].phase = "submit"
      /\ UNCHANGED <<control, funded, mapped, slot, record, calls>>
  BY <1>0 DEF Submit, Fault
<1>2. job' = [job EXCEPT ![a] = j]
  BY <1>1
<1>3. /\ j.op = job[a].op /\ j.p = job[a].p /\ j.step = job[a].step /\ j.phase = "snapshot"
      /\ j.epoch = job[a].epoch /\ j.root = job[a].root
  BY <1>0 DEF Job
<1>. HIDE DEF j, x
<1>4. /\ job'[a] = j /\ pool'[a] = Append(pool[a], x)
      /\ \A b \in Admins \ {a} : job'[b] = job[b] /\ pool'[b] = pool[b]
  BY <1>0, <1>1, <1>2
<1>5. \A b \in Admins : Account(b)' = Account(b)
  BY <1>1, <1>3, <1>4 DEF Account
<1>6. \A b \in Admins : Alone(b)' = Alone(b)
  BY <1>5 DEF Alone
<1>7. Untouched'
  BY <1>1, <1>5 DEF Untouched
<1>8. ASSUME Kind(a) # "create_pure"  PROVE x.p = Account(a) /\ Account(a) # NoProxy
  BY <1>1, <1>3, <1>4, <1>8, SendingRank DEF x
<1>9. x.kind = Kind(a) /\ x \in Extrinsic
  BY <1>1, Sending DEF x
<1>10. OneAccount'
  <2>1. ASSUME NEW i \in DOMAIN pool'[a], pool'[a][i].kind # "create_pure"
        PROVE  pool'[a][i].p = Account(a)
    <3>. DEFINE q == pool[a]
    <3>. HIDE DEF q
    <3>1. q \in Seq(Extrinsic) /\ pool'[a] = Append(q, x)
      BY <1>0, <1>4 DEF q
    <3>2. \/ i \in DOMAIN q /\ Append(q, x)[i] = q[i]
          \/ Append(q, x)[i] = x
      BY <1>9, <2>1, <3>1, AppendShape
    <3>3. \A k \in DOMAIN q : q[k].kind # "create_pure" => q[k].p = Account(a)
      BY DEF OneAccount, q
    <3>. QED  BY <1>8, <1>9, <2>1, <3>1, <3>2, <3>3
  <2>2. ASSUME NEW b \in Admins, NEW i \in DOMAIN pool'[b], pool'[b][i].kind # "create_pure"
        PROVE  pool'[b][i].p = Account(b)
    <3>1. CASE b = a
      BY <2>1, <2>2, <3>1
    <3>2. CASE b # a
      BY <1>4, <2>2, <3>2 DEF OneAccount
    <3>. QED  BY <3>1, <3>2
  <2>. QED  BY <1>1, <1>3, <1>4, <1>5, <2>2 DEF OneAccount
<1>11. ASSUME NEW b \in Admins, Account(b) # NoProxy, Alone(b), b \in control[Account(b)]
       PROVE  InStep(b)'
  <2>0. InStep(b)
    BY <1>11
  <2>1. CASE b # a
    <3>2. /\ Account(b)' = Account(b) /\ job'[b] = job[b] /\ record'[b] = record[b]
          /\ calls'[b] = calls[b] /\ pool'[b] = pool[b]
      BY <1>1, <1>4, <1>5, <2>1
    <3>3. UpdateSent(b)' = UpdateSent(b)
      BY <3>2 DEF UpdateSent
    <3>4. Sent(b)' = Sent(b) /\ Limit(b)' = Limit(b)
      BY <3>2, <3>3 DEF Sent, Limit
    <3>5. Executed(Account(b))' = Executed(Account(b))
      BY <1>1, <3>2 DEF Executed
    <3>. QED  BY <1>1, <2>0, <3>2, <3>3, <3>4, <3>5 DEF InStep
  <2>2. CASE b = a
    <3>1. Kind(a) # "create_pure"
      <4>1. job[a].op = "genesis" /\ job[a].step = 1 => record[a] = NoOrg
        BY <1>1 DEF OneAccount
      <4>2. Kind(a) = "create_pure" => job[a].p = NoProxy /\ job[a].op = "genesis" /\ job[a].step = 1
        BY <1>1, Sending DEF ChainInv, TypeOK, NextExtrinsic
      <4>. QED  BY <1>11, <2>2, <4>1, <4>2 DEF Account
    <3>. QED  BY <1>1, <1>3, <1>4, <2>0, <2>2, <3>1, SendInStep DEF x
  <2>. QED  BY <2>1, <2>2
<1>. QED  BY <1>1, <1>5, <1>6, <1>7, <1>10, <1>11 DEF SavedInv

\* The next extrinsic of an account that is in step has its effect.
LEMMA RunInStep ==
  ASSUME ChainInv, OneAccount, NEW a \in Admins, Account(a) # NoProxy, InStep(a),
         a \in control[Account(a)], pool[a] # <<>>, pool'[a] = Tail(pool[a]),
         UNCHANGED <<job, record, calls>>, NEW x, x = Head(pool[a]),
         \/ Dispatches(x) /\ Effect(x)
         \/ ~Dispatches(x) /\ UNCHANGED <<funded, mapped, slot>>
  PROVE  InStep(a)'
<1>1. PICK p : p = Account(a)
  OBVIOUS
<1>2. PICK q : q = pool[a]
  OBVIOUS
<1>3. PICK s : s = slot[p]
  OBVIOUS
<1>4. PICK m : m = Executed(p)
  OBVIOUS
<1>5. PICK n : n = Sent(a)
  OBVIOUS
<1>6. PICK l : l = Limit(a)
  OBVIOUS
<1>7. /\ m \in Nat /\ n \in Nat /\ l \in Nat /\ s \in Slot /\ Number(s.root) \in Nat
      /\ p \in Proxies
      /\ q \in Seq(Extrinsic) /\ \A i \in DOMAIN q : q[i].root[2] \in Nat /\ q[i].root # <<>>
  BY <1>1, <1>2, <1>3, <1>4, <1>5, <1>6, Numbers
<1>8. /\ Account(a)' = p /\ pool'[a] = Tail(q) /\ UpdateSent(a)' = UpdateSent(a)
      /\ Sent(a)' = n /\ Limit(a)' = l /\ q # <<>> /\ x = Head(q)
  <2>1. Account(a)' = p /\ UpdateSent(a)' = UpdateSent(a)
    BY <1>1 DEF Account, UpdateSent
  <2>. QED  BY <1>2, <1>5, <1>6, <2>1 DEF Sent, Limit
<1>9. /\ p \notin funded => p \notin mapped
      /\ p \notin mapped => s.epoch = 0
      /\ HoldsFrom(q, m, n) /\ RootsRise(q, s, l)
      /\ record[a] # NoOrg => Brings(q, s, record[a].epoch, record[a].root)
      /\ UpdateSent(a) => Brings(q, s, job[a].epoch + 1, job[a].root)
  BY <1>1, <1>2, <1>3, <1>4, <1>5, <1>6 DEF InStep
<1>10. /\ x \in Extrinsic /\ x = q[1] /\ 1 \in DOMAIN q /\ x.by = a
       /\ x.kind # "create_pure" => x.p = p
  BY <1>1, <1>2, HeadIs DEF OneAccount
<1>11. x.kind \in {"create_pure", "fund", "map_account", "update", "add_proxy", "remove_proxy"}
       /\ x.epoch \in Nat
  BY <1>10, KindsAre DEF Extrinsic
<1>12. s.epoch \in Nat
  BY <1>7 DEF Slot
<1>13. m = IF p \notin funded THEN 0 ELSE IF p \notin mapped THEN 1 ELSE 2 + s.epoch
  BY <1>3, <1>4 DEF Executed
<1>14. /\ RootsRise(Tail(q), s, l)
       /\ Updates(x) => /\ Number(s.root) < x.root[2]
                        /\ \A t : Number(t.root) = x.root[2] => RootsRise(Tail(q), t, l)
  BY <1>7, <1>8, <1>9, RootsRun
<1>15. ASSUME NEW e, NEW root, Brings(q, s, e, root)
       PROVE  /\ Brings(Tail(q), s, e, root)
              /\ Updates(x) => \A t : t.root = x.root /\ t.epoch = x.epoch + 1
                                        => Brings(Tail(q), t, e, root)
  BY <1>7, <1>8, <1>15, BringsRun
<1>16. ASSUME Ranked(x)
       PROVE  /\ Dispatches(x)
              /\ Rank(x) = m
  <2>1. Rank(x) = m
    BY <1>7, <1>8, <1>9, <1>16, HoldsRun
  <2>2. Proxied(x)
    BY <1>1, <1>7, <1>10, <1>16, PairsAre DEF Proxied, Ranked
  <2>3. CASE x.kind = "fund"
    BY <2>1, <2>3 DEF Dispatches
  <2>4. CASE x.kind = "map_account"
    <3>1. m = 1
      BY <2>1, <2>4 DEF Rank
    <3>2. p \in funded /\ p \notin mapped
      BY <1>12, <1>13, <3>1
    <3>. QED  BY <1>10, <2>1, <2>2, <2>4, <3>2 DEF Dispatches
  <2>5. CASE x.kind = "update"
    <3>1. m = 2 + x.epoch
      BY <2>1, <2>5 DEF Rank
    <3>2. p \in funded /\ p \in mapped /\ s.epoch = x.epoch
      BY <1>11, <1>12, <1>13, <3>1
    <3>3. x.root # s.root
      <4>1. Number(s.root) < x.root[2] /\ x.root # <<>> /\ x.root[2] \in Nat
        BY <1>7, <1>10, <1>14, <2>5 DEF Updates
      <4>. QED  BY <1>7, <4>1 DEF Number
    <3>. QED  BY <1>3, <1>10, <2>1, <2>2, <2>5, <3>2, <3>3 DEF Dispatches
  <2>. QED  BY <1>16, <2>1, <2>3, <2>4, <2>5 DEF Ranked
<1>17. CASE ~Ranked(x)
  <2>1. UNCHANGED <<funded, mapped, slot>> /\ ~Updates(x)
    BY <1>17 DEF Effect, Ranked, Updates
  <2>2. HoldsFrom(Tail(q), m, n)
    BY <1>7, <1>8, <1>9, <1>17, HoldsRun
  <2>3. Executed(Account(a))' = m
    BY <1>4, <1>8, <2>1 DEF Executed
  <2>4. /\ record[a] # NoOrg => Brings(Tail(q), s, record[a].epoch, record[a].root)
        /\ UpdateSent(a) => Brings(Tail(q), s, job[a].epoch + 1, job[a].root)
    BY <1>9, <1>15
  <2>. QED  BY <1>3, <1>8, <1>9, <1>14, <2>1, <2>2, <2>3, <2>4 DEF InStep
<1>18. CASE Ranked(x)
  <2>0. Effect(x) /\ Rank(x) = m /\ x.p = p
    BY <1>10, <1>16, <1>18 DEF Ranked
  <2>1. HoldsFrom(Tail(q), m + 1, n)
    BY <1>7, <1>8, <1>9, <1>18, HoldsRun
  <2>2. CASE x.kind = "fund"
    <3>1. m = 0 /\ p \notin funded /\ p \notin mapped
      BY <1>9, <1>12, <1>13, <2>0, <2>2 DEF Rank
    <3>2. funded' = funded \cup {p} /\ mapped' = mapped /\ slot' = slot
      BY <2>0, <2>2 DEF Effect
    <3>3. Executed(Account(a))' = m + 1
      BY <1>8, <3>1, <3>2 DEF Executed
    <3>4. /\ record[a] # NoOrg => Brings(Tail(q), s, record[a].epoch, record[a].root)
          /\ UpdateSent(a) => Brings(Tail(q), s, job[a].epoch + 1, job[a].root)
      BY <1>9, <1>15
    <3>5. /\ p \notin funded' => p \notin mapped' /\ slot'[p] = s
          /\ p \notin mapped' => s.epoch = 0
      BY <1>3, <1>9, <3>1, <3>2
    <3>. QED  BY <1>3, <1>8, <1>14, <2>1, <3>2, <3>3, <3>4, <3>5 DEF InStep
  <2>3. CASE x.kind = "map_account"
    <3>1. m = 1 /\ p \in funded /\ p \notin mapped /\ s.epoch = 0
      <4>1. m = 1
        BY <2>0, <2>3 DEF Rank
      <4>. QED  BY <1>9, <1>12, <1>13, <4>1
    <3>2. funded' = funded /\ mapped' = mapped \cup {p} /\ slot' = slot
      BY <2>0, <2>3 DEF Effect
    <3>3. Executed(Account(a))' = m + 1
      BY <1>3, <1>8, <3>1, <3>2 DEF Executed
    <3>4. /\ record[a] # NoOrg => Brings(Tail(q), s, record[a].epoch, record[a].root)
          /\ UpdateSent(a) => Brings(Tail(q), s, job[a].epoch + 1, job[a].root)
      BY <1>9, <1>15
    <3>5. p \in funded' /\ p \in mapped' /\ slot'[p] = s
      BY <1>3, <3>1, <3>2
    <3>. QED  BY <1>8, <1>14, <2>1, <3>3, <3>4, <3>5 DEF InStep
  <2>4. CASE x.kind = "update"
    <3>1. p \in funded /\ p \in mapped /\ s.epoch = x.epoch /\ m = 2 + s.epoch
      <4>1. m = 2 + x.epoch
        BY <2>0, <2>4 DEF Rank
      <4>. QED  BY <1>11, <1>12, <1>13, <4>1
    <3>2. PICK t : t = [root |-> x.root, epoch |-> s.epoch + 1]
      OBVIOUS
    <3>3. funded' = funded /\ mapped' = mapped /\ slot'[p] = t
      <4>1. slot \in [Proxies -> Slot]
        BY DEF ChainInv, TypeOK
      <4>2. slot' = [slot EXCEPT ![p] = t]
        BY <1>3, <2>0, <2>4, <3>2 DEF Effect
      <4>. QED  BY <1>7, <2>0, <2>4, <4>1, <4>2 DEF Effect
    <3>4. t.root = x.root /\ t.epoch = x.epoch + 1 /\ t.epoch = s.epoch + 1
      BY <3>1, <3>2
    <3>5. Updates(x) /\ Number(t.root) = x.root[2]
      BY <1>7, <1>10, <2>4, <3>4 DEF Updates, Number
    <3>6. RootsRise(Tail(q), t, l)
      BY <1>14, <3>5
    <3>7. /\ record[a] # NoOrg => Brings(Tail(q), t, record[a].epoch, record[a].root)
          /\ UpdateSent(a) => Brings(Tail(q), t, job[a].epoch + 1, job[a].root)
      BY <1>9, <1>15, <3>4, <3>5
    <3>8. Executed(Account(a))' = m + 1
      <4>1. Executed(Account(a))' = 2 + t.epoch
        BY <1>8, <3>1, <3>3 DEF Executed
      <4>. QED  BY <1>12, <3>1, <3>4, <4>1
    <3>9. p \in funded' /\ p \in mapped'
      BY <3>1, <3>3
    <3>. QED  BY <1>8, <2>1, <3>3, <3>6, <3>7, <3>8, <3>9 DEF InStep
  <2>. QED  BY <1>18, <2>2, <2>3, <2>4 DEF Ranked
<1>. QED  BY <1>17, <1>18

\* A block executes an extrinsic.
LEMMA ExecuteSaved ==
  ASSUME ChainInv, OneAccount, Untouched, NEW a \in Admins,
         \A b \in Admins :
           Account(b) # NoProxy /\ Alone(b) /\ b \in control[Account(b)] => InStep(b),
         ExecuteExtrinsic(a), UNCHANGED faults
  PROVE  SavedInv'
<1>0. /\ pures \subseteq Proxies /\ control \in [Proxies -> SUBSET Accounts]
      /\ faults \in Nat /\ pool \in [Admins -> Seq(Extrinsic)] /\ slot \in [Proxies -> Slot]
      /\ a \in Accounts
  BY DEF ChainInv, TypeOK, Accounts
<1>1. PICK x : x = Head(pool[a])
  OBVIOUS
<1>2. /\ pool[a] # <<>> /\ pool' = [pool EXCEPT ![a] = Tail(@)]
      /\ UNCHANGED <<job, record, calls>>
      /\ \/ Dispatches(x) /\ Effect(x)
         \/ ~Dispatches(x) /\ UNCHANGED <<control, funded, mapped, slot>>
  BY <1>0, <1>1 DEF ExecuteExtrinsic, Fault
<1>3. /\ x \in Extrinsic /\ x.by = a /\ x = pool[a][1] /\ 1 \in DOMAIN pool[a]
      /\ \A i \in DOMAIN Tail(pool[a]) : /\ Tail(pool[a])[i] = pool[a][i + 1]
                                         /\ i + 1 \in DOMAIN pool[a]
      /\ x.kind # "create_pure" => x.p \in pures
  BY <1>1, <1>2, HeadIs
<1>4. x.kind # "create_pure" => x.p = Account(a)
  BY <1>3 DEF OneAccount
<1>5. x.kind \in {"create_pure", "fund", "map_account", "update", "add_proxy", "remove_proxy"}
  BY <1>3, KindsAre DEF Extrinsic
<1>6. \A b \in Admins : Account(b)' = Account(b) /\ UpdateSent(b)' = UpdateSent(b)
  BY <1>2 DEF Account, UpdateSent
<1>7. \A b \in Admins : /\ Alone(b)' = Alone(b) /\ Sent(b)' = Sent(b) /\ Limit(b)' = Limit(b)
  BY <1>2, <1>6 DEF Alone, Sent, Limit
<1>8. pool'[a] = Tail(pool[a]) /\ \A b \in Admins \ {a} : pool'[b] = pool[b]
  BY <1>0, <1>2
<1>9. ASSUME NEW p \in Proxies, p # Account(a)
      PROVE  /\ p \in funded' <=> p \in funded
             /\ p \in mapped' <=> p \in mapped
             /\ slot'[p] = slot[p]
             /\ p \in pures => control'[p] = control[p]
  <2>1. CASE ~Dispatches(x) /\ UNCHANGED <<control, funded, mapped, slot>>
    BY <2>1
  <2>2. CASE x.kind # "create_pure" /\ Effect(x)
    <3>1. /\ p \in funded' <=> p \in funded
          /\ p \in mapped' <=> p \in mapped
      BY <1>4, <1>9, <2>2 DEF Effect
    <3>2. slot'[p] = slot[p]
      BY <1>0, <1>4, <1>9, <2>2 DEF Effect
    <3>3. control'[p] = control[p]
      <4>1. \/ control' = control \/ control' = [control EXCEPT ![x.p] = @ \cup {x.to}]
            \/ control' = [control EXCEPT ![x.p] = @ \ {x.to}]
        BY <1>5, <2>2 DEF Effect
      <4>. QED  BY <1>0, <1>4, <1>9, <2>2, <4>1
    <3>. QED  BY <3>1, <3>2, <3>3
  <2>3. CASE x.kind = "create_pure" /\ Effect(x)
    <3>1. /\ control' = [control EXCEPT ![NextPure(a)] = {a}]
          /\ funded' = funded /\ mapped' = mapped /\ slot' = slot
      BY <1>3, <2>3 DEF Effect
    <3>2. NextPure(a) \notin pures
      BY <1>0, PureIsNew
    <3>. QED  BY <1>0, <3>1, <3>2
  <2>. QED  BY <1>2, <2>1, <2>2, <2>3
<1>10. OneAccount'
  <2>1. ASSUME NEW b \in Admins, NEW i \in DOMAIN pool'[b], pool'[b][i].kind # "create_pure"
        PROVE  pool'[b][i].p = Account(b)
    <3>1. CASE b = a
      <4>1. i \in DOMAIN Tail(pool[a]) /\ Tail(pool[a])[i].kind # "create_pure"
        BY <1>8, <2>1, <3>1
      <4>2. Tail(pool[a])[i].p = Account(a)
        BY <1>3, <4>1 DEF OneAccount
      <4>. QED  BY <1>8, <3>1, <4>2
    <3>2. CASE b # a
      BY <1>8, <2>1, <3>2 DEF OneAccount
    <3>. QED  BY <3>1, <3>2
  <2>. QED  BY <1>2, <1>6, <2>1 DEF OneAccount
<1>11. Untouched'
  <2>. SUFFICES ASSUME NEW p \in Proxies, \A b \in Admins : Account(b)' # p
                PROVE  p \notin funded' /\ p \notin mapped' /\ slot'[p].epoch = 0
                       /\ slot'[p].root = <<>>
    BY DEF Untouched
  <2>1. \A b \in Admins : Account(b) # p
    BY <1>6
  <2>. QED  BY <1>9, <2>1 DEF Untouched
<1>12. ASSUME NEW b \in Admins, Account(b) # NoProxy, Alone(b), b \in control'[Account(b)]
       PROVE  InStep(b)'
  <2>0. Account(b) \in Proxies /\ Account(b) \in pures
    BY <1>12, Numbers
  <2>1. CASE b # a
    <3>0. Account(b) # Account(a)
      BY <1>12, <2>1 DEF Alone
    <3>1. InStep(b)
      BY <1>9, <1>12, <2>0, <3>0
    <3>2. PICK p : p = Account(b)
      OBVIOUS
    <3>3. /\ p \in funded' <=> p \in funded
          /\ p \in mapped' <=> p \in mapped
          /\ slot'[p] = slot[p]
      BY <1>9, <2>0, <3>0, <3>2
    <3>4. Account(b)' = p /\ Executed(Account(b))' = Executed(p)
      BY <1>6, <3>2, <3>3 DEF Executed
    <3>5. pool'[b] = pool[b]
      BY <1>8, <2>1
    <3>. QED  BY <1>2, <1>6, <1>7, <3>1, <3>2, <3>3, <3>4, <3>5 DEF InStep
  <2>2. CASE b = a
    <3>1. a \in control[Account(a)]
      <4>1. CASE x.kind \in {"add_proxy", "remove_proxy"} /\ Dispatches(x)
        BY <1>3, <1>4, <4>1 DEF Dispatches, Proxied
      <4>2. CASE x.kind = "create_pure" /\ Effect(x)
        <5>1. control' = [control EXCEPT ![NextPure(a)] = {a}] /\ NextPure(a) \notin pures
          BY <1>0, <1>3, <4>2, PureIsNew DEF Effect
        <5>. QED  BY <1>0, <1>12, <2>0, <2>2, <5>1
      <4>3. CASE x.kind \in {"fund", "map_account", "update"} /\ Effect(x)
        <5>1. control' = control
          BY <4>3 DEF Effect
        <5>. QED  BY <1>12, <2>2, <5>1
      <4>4. CASE UNCHANGED control
        BY <1>12, <2>2, <4>4
      <4>. QED  BY <1>2, <1>5, <4>1, <4>2, <4>3, <4>4
    <3>2. InStep(a)
      BY <1>12, <2>2, <3>1
    <3>3. \/ Dispatches(x) /\ Effect(x)
          \/ ~Dispatches(x) /\ UNCHANGED <<funded, mapped, slot>>
      BY <1>2
    <3>4. pool'[a] = Tail(pool[a]) /\ UNCHANGED <<job, record, calls>> /\ pool[a] # <<>>
      BY <1>2, <1>8
    <3>. QED  BY <1>1, <1>12, <2>2, <3>1, <3>2, <3>3, <3>4, RunInStep
  <2>. QED  BY <2>1, <2>2
<1>. QED  BY <1>6, <1>7, <1>10, <1>11, <1>12 DEF SavedInv

\* The other steps of the chain touch no organisation's account.
LEMMA OthersSaved ==
  ASSUME ChainInv, OneAccount, Untouched,
         \A b \in Admins :
           Account(b) # NoProxy /\ Alone(b) /\ b \in control[Account(b)] => InStep(b),
         FinaliseBlock \/ (\E s \in Strangers : StrangerCreates(s)) \/ UNCHANGED vars
  PROVE  SavedInv'
<1>0. pures \subseteq Proxies /\ control \in [Proxies -> SUBSET Accounts]
  BY DEF ChainInv, TypeOK
<1>1. UNCHANGED <<pool, funded, mapped, slot, job, record, calls>>
  BY DEF FinaliseBlock, StrangerCreates, vars, chainVars
<1>2. \A p \in pures : control'[p] = control[p]
  <2>1. CASE UNCHANGED control
    BY <2>1
  <2>2. ASSUME NEW s \in Strangers, StrangerCreates(s)
        PROVE  \A p \in pures : control'[p] = control[p]
    <3>1. control' = [control EXCEPT ![NextPure(s)] = {s}] /\ NextPure(s) \notin pures
      BY <2>2, PureIsNew DEF StrangerCreates, Accounts
    <3>. QED  BY <1>0, <3>1
  <2>. QED  BY <2>1, <2>2 DEF FinaliseBlock, vars, chainVars
<1>3. \A b \in Admins : Account(b)' = Account(b) /\ UpdateSent(b)' = UpdateSent(b)
  BY <1>1 DEF Account, UpdateSent
<1>4. \A b \in Admins : /\ Alone(b)' = Alone(b) /\ Sent(b)' = Sent(b) /\ Limit(b)' = Limit(b)
                        /\ Executed(Account(b))' = Executed(Account(b))
  <2>1. \A b \in Admins : Alone(b)' = Alone(b) /\ Sent(b)' = Sent(b) /\ Limit(b)' = Limit(b)
    BY <1>1, <1>3 DEF Alone, Sent, Limit
  <2>2. \A b \in Admins : Executed(Account(b))' = Executed(Account(b))
    BY <1>1, <1>3 DEF Executed
  <2>. QED  BY <2>1, <2>2
<1>5. OneAccount'
  BY <1>1, <1>3 DEF OneAccount
<1>6. Untouched'
  BY <1>1, <1>3 DEF Untouched
<1>7. ASSUME NEW b \in Admins, Account(b) # NoProxy, Alone(b), b \in control'[Account(b)]
      PROVE  InStep(b)'
  <2>1. InStep(b)
    BY <1>2, <1>7, Numbers
  <2>. QED  BY <1>1, <1>3, <1>4, <2>1 DEF InStep
<1>. QED  BY <1>3, <1>4, <1>5, <1>6, <1>7 DEF SavedInv

\* Every step preserves the invariant.
LEMMA SavedStep ==
  ASSUME ChainInv, SavedInv, [Next]_vars
  PROVE  SavedInv'
<1>. SUFFICES ASSUME faults' = 0  PROVE SavedInv'
  BY DEF SavedInv
<1>1. faults \in Nat
  BY DEF ChainInv, TypeOK
<1>2. faults = 0 /\ UNCHANGED faults /\ ~Fault
  <2>1. ~Fault
    BY <1>1 DEF Fault
  <2>2. UNCHANGED faults
    BY <2>1 DEF Next, SubmitGenesis, SubmitUpdate, Rotate, Start, Steps, Submit, Snapshot, Poll,
                Restart, ExecuteExtrinsic, StrangerCreates, FinaliseBlock, vars
  <2>. QED  BY <2>1, <2>2
<1>3. /\ OneAccount /\ Untouched
      /\ \A b \in Admins :
           Account(b) # NoProxy /\ Alone(b) /\ b \in control[Account(b)] => InStep(b)
  BY <1>2 DEF SavedInv
<1>4. ASSUME NEW a \in Admins, Poll(a)  PROVE SavedInv'
  <2>1. /\ job[a].op # "none" /\ job[a].phase = "poll" /\ UNCHANGED <<chainVars, calls>>
        /\ \/ job[a].step # Len(Program(job[a].op)) /\ Continue(a) /\ UNCHANGED record
           \/ job[a].step = Len(Program(job[a].op)) /\ Return(a)
    BY <1>2, <1>4 DEF Poll
  <2>. QED  BY <1>2, <1>3, <2>1, ContinueSaved, ReturnSaved
<1>5. ASSUME NEW a \in Admins, Restart(a)  PROVE SavedInv'
  BY <1>2, <1>5 DEF Restart
<1>. QED  BY <1>2, <1>3, <1>4, <1>5, StartSaved, SubmitSaved, SnapshotSaved, ExecuteSaved,
             OthersSaved DEF Next, Steps

\* However early settle() returns, an administrator that alone took an account and
\* still controls it finds in the contract, once its extrinsics have run, at least
\* the epoch it saved, and at that epoch the root it saved: for any number of
\* administrators, other users and calls, as long as nothing failed.
THEOREM SavedRootsAreAnchored == Spec => []DrainedMeansAnchored
<1>1. Init => SavedInv
  <2>. SUFFICES ASSUME Init  PROVE SavedInv
    OBVIOUS
  <2>1. \A a \in Admins : /\ job[a].op = "none" /\ job[a].p = NoProxy /\ record[a] = NoOrg
                          /\ DOMAIN pool[a] = {}
    BY DEF Init, NoJob
  <2>2. \A a \in Admins : Account(a) = NoProxy
    BY <2>1 DEF Account
  <2>3. OneAccount
    BY <2>1 DEF OneAccount
  <2>4. Untouched
    BY DEF Untouched, Init
  <2>. QED  BY <2>2, <2>3, <2>4 DEF SavedInv
<1>2. ChainInv /\ SavedInv => DrainedMeansAnchored
  <2>. SUFFICES ASSUME ChainInv, SavedInv, faults = 0, NEW a \in Admins, pool[a] = <<>>,
                       record[a] # NoOrg, a \in control[record[a].p],
                       \A b \in Admins \ {a} : record[a].p \notin {record[b].p, job[b].p}
                PROVE  /\ slot[record[a].p].epoch >= record[a].epoch
                       /\ slot[record[a].p].epoch = record[a].epoch
                            => slot[record[a].p].root = record[a].root
    BY DEF DrainedMeansAnchored
  <2>1. PICK p : p = record[a].p
    OBVIOUS
  <2>2. Account(a) = p /\ p # NoProxy
    BY <2>1 DEF Account, ChainInv, Calls
  <2>3. Alone(a)
    BY <2>1, <2>2 DEF Alone, Account
  <2>4. InStep(a) /\ OneAccount
    BY <2>1, <2>2, <2>3 DEF SavedInv
  <2>5. PICK m : m = Executed(p)
    OBVIOUS
  <2>6. PICK n : n = Sent(a)
    OBVIOUS
  <2>7. m \in Nat /\ n \in Nat /\ record[a].epoch \in Nat /\ slot[p] \in Slot
    BY <2>2, <2>4, <2>5, <2>6, Numbers
  <2>8. m = n
    <3>1. m <= n /\ \A k \in m .. n - 1 : \E i \in DOMAIN pool[a] : Ranked(pool[a][i])
      BY <2>2, <2>4, <2>5, <2>6 DEF InStep, HoldsFrom
    <3>2. DOMAIN pool[a] = {}
      OBVIOUS
    <3>3. m \notin m .. n - 1
      BY <3>1, <3>2
    <3>. QED  BY <2>7, <3>1, <3>3
  <2>9. n >= 2 + record[a].epoch /\ record[a].epoch >= 1
    <3>. DEFINE e == record[a].epoch
    <3>. HIDE DEF e
    <3>1. (n = 2 + e + 1 \/ n = 2 + e + 0) /\ e \in Nat /\ e >= 1
      BY <2>4, <2>6, <2>7 DEF Sent, OneAccount, e
    <3>. QED  BY <3>1 DEF e
  <2>10. slot[p].epoch \in Nat
    BY <2>7 DEF Slot
  <2>11. slot[p].epoch >= record[a].epoch
    <3>1. m \in {0, 1, 2 + slot[p].epoch}
      BY <2>5 DEF Executed
    <3>. QED  BY <2>7, <2>8, <2>9, <2>10, <3>1
  <2>12. slot[p].epoch = record[a].epoch => slot[p].root = record[a].root
    BY <2>2, <2>4 DEF InStep, Brings
  <2>. QED  BY <2>1, <2>11, <2>12
<1>. QED  BY <1>1, <1>2, ChainInvariant, SavedStep, PTL DEF Spec

=============================================================================
