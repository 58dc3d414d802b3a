------------------------- MODULE AppInstanceProofs -------------------------
(***************************************************************************)
(* Proofs about the desktop app, for any number of commands in flight, of  *)
(* personas, epochs and crashes: types and the order of the mutex, the     *)
(* store, the addresses handed out and the events of the receiver.         *)
(***************************************************************************)
EXTENDS AppInstance, SequenceTheorems, TLAPS

Distinct(s) == \A i, j \in DOMAIN s : s[i] = s[j] => i = j

\* What follows the first element of a sequence without repetitions has no
\* repetitions, and does not hold the first element.
LEMMA TailDistinct ==
  ASSUME NEW S, NEW s \in Seq(S), s # <<>>, Distinct(s)
  PROVE  /\ Tail(s) \in Seq(S) /\ Distinct(Tail(s))
         /\ \A i \in DOMAIN Tail(s) :
              /\ i + 1 \in DOMAIN s /\ Tail(s)[i] = s[i + 1]
              /\ Tail(s)[i] # Head(s)
<1>1. /\ Len(s) \in Nat /\ Len(s) # 0 /\ DOMAIN s = 1 .. Len(s)
      /\ Head(s) = s[1]
  BY LenProperties, EmptySeq
<1>2. Tail(s) \in Seq(S) /\ Len(Tail(s)) = Len(s) - 1
  BY HeadTailProperties
<1>3. DOMAIN Tail(s) = 1 .. Len(s) - 1
  BY <1>2, LenProperties
<1>4. \A i \in DOMAIN Tail(s) : Tail(s)[i] = s[i + 1]
  BY <1>1, <1>2, <1>3, HeadTailProperties
<1>. QED  BY <1>1, <1>2, <1>3, <1>4 DEF Distinct

\* A new element can be appended without making a repetition.
LEMMA AppendDistinct ==
  ASSUME NEW S, NEW s \in Seq(S), NEW e \in S,
         Distinct(s), \A i \in DOMAIN s : s[i] # e
  PROVE  /\ Append(s, e) \in Seq(S) /\ Distinct(Append(s, e))
         /\ Append(s, e) # <<>>
         /\ Head(Append(s, e)) = IF s = <<>> THEN e ELSE Head(s)
         /\ \A i \in DOMAIN Append(s, e) :
              \/ Append(s, e)[i] = e
              \/ i \in DOMAIN s /\ Append(s, e)[i] = s[i]
<1>1. Len(s) \in Nat /\ DOMAIN s = 1 .. Len(s)
  BY LenProperties
<1>2. /\ Append(s, e) \in Seq(S) /\ Len(Append(s, e)) = Len(s) + 1
      /\ \A i \in 1 .. Len(s) : Append(s, e)[i] = s[i]
      /\ Append(s, e)[Len(s) + 1] = e
  BY AppendProperties
<1>3. DOMAIN Append(s, e) = 1 .. Len(s) + 1
  BY <1>2, LenProperties
<1>4. \A i \in DOMAIN Append(s, e) :
        \/ i \in DOMAIN s /\ Append(s, e)[i] = s[i]
        \/ i = Len(s) + 1
  BY <1>1, <1>2, <1>3
<1>5. Distinct(Append(s, e))
  BY <1>1, <1>2, <1>3, <1>4 DEF Distinct
<1>6. Append(s, e) # <<>>
  BY <1>1, <1>2, EmptySeq
<1>7. Head(Append(s, e)) = Append(s, e)[1]
  BY <1>2, <1>6, HeadTailProperties
<1>8. s = <<>> <=> Len(s) = 0
  BY EmptySeq
<1>9. s # <<>> => Head(s) = s[1]
  BY HeadTailProperties
<1>. QED  BY <1>1, <1>2, <1>4, <1>5, <1>6, <1>7, <1>8, <1>9

\* The first element can be moved to the end.
LEMMA RotateDistinct ==
  ASSUME NEW S, NEW s \in Seq(S), s # <<>>, Distinct(s)
  PROVE  LET r == Append(Tail(s), Head(s))
         IN /\ r \in Seq(S) /\ Distinct(r)
            /\ \A i \in DOMAIN r :
                 \/ r[i] = Head(s)
                 \/ i + 1 \in DOMAIN s /\ r[i] = s[i + 1]
<1>. DEFINE rest == Tail(s)
<1>1. /\ rest \in Seq(S) /\ Distinct(rest) /\ Head(s) \in S
      /\ \A i \in DOMAIN rest :
           i + 1 \in DOMAIN s /\ rest[i] = s[i + 1] /\ rest[i] # Head(s)
  BY TailDistinct, HeadTailProperties
<1>. HIDE DEF rest
<1>2. Append(Tail(s), Head(s)) = Append(rest, Head(s)) /\ \A i \in DOMAIN rest : rest[i] # Head(s)
  BY <1>1 DEF rest
<1>3. /\ Append(rest, Head(s)) \in Seq(S) /\ Distinct(Append(rest, Head(s)))
      /\ \A i \in DOMAIN Append(rest, Head(s)) :
           \/ Append(rest, Head(s))[i] = Head(s)
           \/ i \in DOMAIN rest /\ Append(rest, Head(s))[i] = rest[i]
  BY <1>1, <1>2, AppendDistinct
<1>. QED  BY <1>1, <1>2, <1>3

-----------------------------------------------------------------------------
(* The inductive invariant.                                                *)

\* Whoever asks for the mutex is in the middle of a call, and only its holder is
\* past the point where it waits.
LockInv ==
  /\ \A i \in DOMAIN lock : task[lock[i]].pc \notin {"idle", "emit"}
  /\ \A t \in Tasks : task[t].pc \in {"receiving", "save", "writing"} =>
                      lock # <<>> /\ Head(lock) = t

\* A process that does not run has no tasks; a persona that a command is about to
\* save is in the store.
TasksInv ==
  /\ ~up => /\ ~started
            /\ \A t \in Tasks : task[t] = Idle
  /\ up => \A t \in Tasks : task[t].persona <= data.personas

\* At most one receiver runs, and none before start_receiver set its flag.
OneReceiver ==
  /\ ~started => \A r \in Loops : task[r] = Idle
  /\ \A q, r \in Loops : task[q] # Idle /\ task[r] # Idle => q = r

\* From the commit of an update to the second look at the record, the store holds
\* the epoch that was committed, in an organisation that was joined.
CommitKept ==
  \A r \in Loops :
    /\ task[r].pc = "reread" => task[r].name = "update"
    /\ task[r].pc \in {"save", "writing", "reread"} /\ task[r].name = "update" =>
         /\ data.org.admin = 0 /\ data.org.epoch > 0
         /\ data.org.epoch = task[r].committed

Inv ==
  /\ TypeOK /\ LockInv /\ TasksInv /\ OneReceiver /\ CommitKept
  /\ PersonasNeverSilentlyLost /\ EventsReportTheRecord /\ HandedOutAddressLive

Inside == {"receiving", "save", "writing"}

\* The part of the invariant that is about the mutex.
LockOK == lock \in Seq(Tasks) /\ Distinct(lock) /\ LockInv

-----------------------------------------------------------------------------
(* The four ways in which a step of task t treats the mutex.               *)

\* A task that was idle asks for the mutex.
LEMMA LockAsked ==
  ASSUME LockOK, task \in [Tasks -> Task], NEW t \in Tasks, NEW w \in Task,
         task[t].pc \in {"idle", "emit"}, w.pc = "locked",
         lock' = Append(lock, t), task' = [task EXCEPT ![t] = w]
  PROVE  LockOK'
<1>1. \A i \in DOMAIN lock : lock[i] # t
  BY DEF LockOK, LockInv
<1>2. lock \in Seq(Tasks) /\ Distinct(lock) /\ LockInv
  BY DEF LockOK
<1>3. /\ lock' \in Seq(Tasks) /\ Distinct(lock') /\ lock' # <<>>
      /\ Head(lock') = IF lock = <<>> THEN t ELSE Head(lock)
      /\ \A i \in DOMAIN lock' :
           \/ lock'[i] = t
           \/ i \in DOMAIN lock /\ lock'[i] = lock[i]
  BY <1>1, <1>2, AppendDistinct
<1>4. \A i \in DOMAIN lock : lock[i] \in Tasks
  BY <1>2, LenProperties
<1>5. \A i \in DOMAIN lock' : task'[lock'[i]].pc \notin {"idle", "emit"}
  BY <1>2, <1>3, <1>4 DEF LockInv
<1>6. \A u \in Tasks : task'[u].pc \in Inside => lock' # <<>> /\ Head(lock') = u
  BY <1>2, <1>3 DEF LockInv, Inside
<1>. QED  BY <1>3, <1>5, <1>6 DEF LockOK, LockInv, Inside, Distinct

\* The holder gives the mutex back, and is idle or has events to emit.
LEMMA LockLeft ==
  ASSUME LockOK, task \in [Tasks -> Task], NEW t \in Tasks, NEW w \in Task,
         lock # <<>>, Head(lock) = t, w.pc \in {"idle", "emit"},
         lock' = Tail(lock), task' = [task EXCEPT ![t] = w]
  PROVE  LockOK'
<1>1. lock \in Seq(Tasks) /\ Distinct(lock) /\ LockInv
  BY DEF LockOK
<1>2. /\ lock' \in Seq(Tasks) /\ Distinct(lock')
      /\ \A i \in DOMAIN lock' :
           i + 1 \in DOMAIN lock /\ lock'[i] = lock[i + 1] /\ lock'[i] # t
  BY <1>1, TailDistinct
<1>3. \A i \in DOMAIN lock' : lock'[i] \in Tasks
  BY <1>2, LenProperties
<1>4. \A i \in DOMAIN lock' : task'[lock'[i]].pc \notin {"idle", "emit"}
  BY <1>1, <1>2, <1>3 DEF LockInv
<1>5. \A u \in Tasks : task'[u].pc \notin Inside
  BY <1>1 DEF LockInv, Inside
<1>. QED  BY <1>2, <1>4, <1>5 DEF LockOK, LockInv, Inside, Distinct

\* The holder gives the mutex back and asks for it again.
LEMMA LockRequeued ==
  ASSUME LockOK, task \in [Tasks -> Task], NEW t \in Tasks, NEW w \in Task,
         lock # <<>>, Head(lock) = t, w.pc \in {"locked", "reread"},
         lock' = Append(Tail(lock), t), task' = [task EXCEPT ![t] = w]
  PROVE  LockOK'
<1>1. lock \in Seq(Tasks) /\ Distinct(lock) /\ LockInv
  BY DEF LockOK
<1>2. /\ lock' \in Seq(Tasks) /\ Distinct(lock')
      /\ \A i \in DOMAIN lock' :
           \/ lock'[i] = t
           \/ i + 1 \in DOMAIN lock /\ lock'[i] = lock[i + 1]
  <2>. DEFINE r == Append(Tail(lock), Head(lock))
  <2>1. lock' = r
    OBVIOUS
  <2>2. /\ r \in Seq(Tasks) /\ Distinct(r)
        /\ \A i \in DOMAIN r :
             \/ r[i] = Head(lock)
             \/ i + 1 \in DOMAIN lock /\ r[i] = lock[i + 1]
    BY <1>1, RotateDistinct
  <2>. HIDE DEF r
  <2>. QED  BY <2>1, <2>2
<1>3. \A i \in DOMAIN lock' : lock'[i] \in Tasks
  BY <1>2, LenProperties
<1>4. \A i \in DOMAIN lock' : task'[lock'[i]].pc \notin {"idle", "emit"}
  BY <1>1, <1>2, <1>3 DEF LockInv
<1>5. \A u \in Tasks : task'[u].pc \notin Inside
  BY <1>1 DEF LockInv, Inside
<1>. QED  BY <1>2, <1>4, <1>5 DEF LockOK, LockInv, Inside, Distinct

\* The holder goes on with the mutex.
LEMMA LockKept ==
  ASSUME LockOK, task \in [Tasks -> Task], NEW t \in Tasks, NEW w \in Task,
         lock # <<>>, Head(lock) = t, w.pc \in Inside,
         lock' = lock, task' = [task EXCEPT ![t] = w]
  PROVE  LockOK'
<1>1. lock \in Seq(Tasks) /\ Distinct(lock) /\ LockInv
  BY DEF LockOK
<1>2. \A i \in DOMAIN lock : lock[i] \in Tasks
  BY <1>1, LenProperties
<1>3. \A i \in DOMAIN lock' : task'[lock'[i]].pc \notin {"idle", "emit"}
  BY <1>1, <1>2 DEF LockInv, Inside
<1>4. \A u \in Tasks : task'[u].pc \in Inside => lock' # <<>> /\ Head(lock') = u
  BY <1>1 DEF LockInv, Inside
<1>. QED  BY <1>1, <1>3, <1>4 DEF LockOK, LockInv, Inside, Distinct

\* The two task values with which a call ends have the type of a task.
LEMMA EndType == Idle \in Task /\ Looping \in Task /\ Looping # Idle
BY BoundsAssumption DEF Idle, Looping, Task

\* GiveBack keeps the mutex in order; it leaves the task idle or looping.
LEMMA GiveBackOK ==
  ASSUME LockOK, task \in [Tasks -> Task], NEW t \in Tasks,
         lock # <<>>, Head(lock) = t, GiveBack(t)
  PROVE  /\ LockOK'
         /\ task' \in [Tasks -> Task]
         /\ task' = [task EXCEPT ![t] = IF t \in Loops THEN Looping ELSE Idle]
<1>1. CASE t \in Loops
  <2>1. Looping.pc \in {"locked", "reread"}
    BY DEF Looping, Idle
  <2>. QED  BY <1>1, <2>1, EndType, LockRequeued DEF GiveBack
<1>2. CASE t \notin Loops
  <2>1. Idle.pc \in {"idle", "emit"}
    BY DEF Idle
  <2>. QED  BY <1>2, <2>1, EndType, LockLeft DEF GiveBack
<1>. QED  BY <1>1, <1>2

\* Where a step of the holder t sets fields of its own task, with the mutex kept.
LEMMA HolderGoesOn ==
  ASSUME LockOK, task \in [Tasks -> Task], NEW t \in Tasks, Holds(t),
         NEW w \in Task, w.pc \in Inside, UNCHANGED lock,
         task' = [task EXCEPT ![t] = w]
  PROVE  LockOK' /\ task' \in [Tasks -> Task]
BY LockKept DEF Holds

\* The types and the mutex, step by step.
LEMMA TypeStep == TypeOK /\ LockInv /\ [Next]_vars => TypeOK' /\ LockInv'
<1>. SUFFICES ASSUME TypeOK, LockInv, [Next]_vars  PROVE TypeOK' /\ LockInv'
  OBVIOUS
<1>. USE BoundsAssumption
<1>0. /\ LockOK /\ task \in [Tasks -> Task] /\ lock \in Seq(Tasks)
      /\ Commands \subseteq Tasks /\ Loops \subseteq Tasks
  BY DEF TypeOK, LockOK, Distinct, Tasks
<1>t. \A t \in Tasks : task[t] \in Task
  BY <1>0
<1>. DEFINE Rest ==
       /\ up \in BOOLEAN /\ ready \in BOOLEAN /\ started \in BOOLEAN
       /\ inbox \in BOOLEAN
       /\ data \in StoreData /\ file \in File
       /\ endpoint \in 0 .. MaxPersonas
       /\ addrs \subseteq Personas /\ acked \subseteq Personas
       /\ crashes \in 0 .. MaxCrashes
<1>q. ASSUME Rest', LockOK', task' \in [Tasks -> Task]  PROVE TypeOK' /\ LockInv'
  BY <1>q DEF TypeOK, LockOK, Distinct
<1>r. Rest
  BY DEF TypeOK
<1>. HIDE DEF Rest
<1>1. CASE Boot
  <2>1. task' = task /\ lock' = lock
    BY <1>1 DEF Boot
  <2>2. LockOK' /\ task' \in [Tasks -> Task]
    BY <1>0, <2>1 DEF LockOK, LockInv, Distinct
  <2>3. data' \in StoreData
    BY <1>1, <1>r DEF Boot, Open, Rest, Default, StoreData, Org, NoOrg, File
  <2>4. Rest'
    BY <1>1, <1>r, <2>3 DEF Boot, ConnectChain, Rest
  <2>. QED  BY <1>q, <2>2, <2>4
<1>2. CASE Crash
  <2>1. /\ lock' = <<>> /\ task' = [t \in Tasks |-> Idle]
    BY <1>2 DEF Crash
  <2>2. LockOK' /\ task' \in [Tasks -> Task]
    <3>1. lock' \in Seq(Tasks) /\ DOMAIN lock' = {}
      BY <2>1
    <3>2. \A t \in Tasks : task'[t].pc \notin Inside
      BY <2>1 DEF Idle, Inside
    <3>. QED  BY <2>1, <3>1, <3>2, EndType DEF LockOK, LockInv, Distinct, Inside
  <2>3. data' \in StoreData
    BY <1>2 DEF Crash, Default, StoreData, Org, NoOrg
  <2>4. crashes' \in 0 .. MaxCrashes /\ endpoint' \in 0 .. MaxPersonas
    BY <1>2, <1>r DEF Crash, Rest
  <2>5. Rest'
    BY <1>2, <1>r, <2>3, <2>4 DEF Crash, Rest
  <2>. QED  BY <1>q, <2>2, <2>5
<1>3. CASE Arrive
  <2>1. task' = task /\ lock' = lock
    BY <1>3 DEF Arrive
  <2>2. LockOK' /\ task' \in [Tasks -> Task]
    BY <1>0, <2>1 DEF LockOK, LockInv, Distinct
  <2>. QED  BY <1>3, <1>q, <1>r, <2>2 DEF Arrive, Rest
<1>4. ASSUME NEW c \in Commands, Invoke(c)  PROVE TypeOK' /\ LockInv'
  <2>. DEFINE w == [task[c] EXCEPT !.pc = "locked"]
  <2>1. w \in Task /\ w.pc = "locked"
    BY <1>0, <1>t DEF Task
  <2>2. /\ task' = [task EXCEPT ![c] = w] /\ lock' = Append(lock, c)
        /\ task[c].pc \in {"idle", "emit"}
    BY <1>4 DEF Invoke, Idle
  <2>. HIDE DEF w
  <2>3. LockOK' /\ task' \in [Tasks -> Task]
    BY <1>0, <2>1, <2>2, LockAsked
  <2>. QED  BY <1>4, <1>q, <1>r, <2>3 DEF Invoke, Rest
<1>5. ASSUME NEW c \in Commands, CreatePersona(c)  PROVE TypeOK' /\ LockInv'
  <2>. DEFINE new == data.personas + 1
              w == [task[c] EXCEPT !.pc = "save", !.persona = new]
  <2>0. new \in 0 .. MaxPersonas
    BY <1>5 DEF CreatePersona, Personas
  <2>1. w \in Task /\ w.pc \in Inside
    <3>. HIDE DEF new
    <3>. QED  BY <1>0, <1>t, <2>0 DEF Task, Inside
  <2>2. task' = [task EXCEPT ![c] = w] /\ Holds(c) /\ UNCHANGED lock
    BY <1>5, <1>0, <1>t DEF CreatePersona, Runs, Task
  <2>. HIDE DEF w
  <2>3. LockOK' /\ task' \in [Tasks -> Task]
    BY <1>0, <2>1, <2>2, HolderGoesOn
  <2>4. data' \in StoreData
    BY <1>5, <1>r DEF CreatePersona, Rest, StoreData, Personas
  <2>. QED  BY <1>5, <1>q, <1>r, <2>3, <2>4 DEF CreatePersona, Rest
<1>6. ASSUME NEW c \in Commands, CreateOrganisation(c)  PROVE TypeOK' /\ LockInv'
  <2>. DEFINE w == [task[c] EXCEPT !.pc = "save"]
  <2>1. w \in Task /\ w.pc \in Inside
    BY <1>0, <1>t DEF Task, Inside
  <2>2. task' = [task EXCEPT ![c] = w] /\ Holds(c) /\ UNCHANGED lock
    BY <1>6 DEF CreateOrganisation, Runs
  <2>. HIDE DEF w
  <2>3. LockOK' /\ task' \in [Tasks -> Task]
    BY <1>0, <2>1, <2>2, HolderGoesOn
  <2>4. data' \in StoreData
    <3>1. PICK p \in 1 .. data.personas :
            data' = [data EXCEPT !.org = [admin |-> p, epoch |-> 1]]
      BY <1>6 DEF CreateOrganisation
    <3>2. data \in StoreData /\ data.personas \in 0 .. MaxPersonas
      BY <1>r DEF Rest, StoreData
    <3>3. [admin |-> p, epoch |-> 1] \in Org
      BY <3>2 DEF Org
    <3>. QED  BY <3>1, <3>2, <3>3 DEF StoreData
  <2>. QED  BY <1>6, <1>q, <1>r, <2>3, <2>4 DEF CreateOrganisation, Rest
<1>7. ASSUME NEW c \in Commands, ImportInvite(c)  PROVE TypeOK' /\ LockInv'
  <2>. DEFINE w == [task[c] EXCEPT !.pc = "save"]
  <2>1. w \in Task /\ w.pc \in Inside
    BY <1>0, <1>t DEF Task, Inside
  <2>2. task' = [task EXCEPT ![c] = w] /\ Holds(c) /\ UNCHANGED lock
    BY <1>7 DEF ImportInvite, Runs
  <2>. HIDE DEF w
  <2>3. LockOK' /\ task' \in [Tasks -> Task]
    BY <1>0, <2>1, <2>2, HolderGoesOn
  <2>. QED  BY <1>7, <1>q, <1>r, <2>3 DEF ImportInvite, Rest
<1>8. ASSUME NEW c \in Commands, ExportJoinRequest(c)  PROVE TypeOK' /\ LockInv'
  <2>1. LockOK' /\ task' \in [Tasks -> Task]
    BY <1>0, <1>8, GiveBackOK DEF ExportJoinRequest, Runs, Holds
  <2>2. addrs' \subseteq Personas
    BY <1>8, <1>r DEF ExportJoinRequest, NodeAddr, Rest, Personas
  <2>. QED  BY <1>8, <1>q, <1>r, <2>1, <2>2 DEF ExportJoinRequest, Rest
<1>9. ASSUME NEW c \in Commands, AdmitMember(c)  PROVE TypeOK' /\ LockInv'
  <2>. DEFINE w == [task[c] EXCEPT !.pc = "save"]
  <2>1. w \in Task /\ w.pc \in Inside
    BY <1>0, <1>t DEF Task, Inside
  <2>. HIDE DEF w
  <2>2. Holds(c) /\ Runs(c)
    BY <1>9 DEF AdmitMember, Runs
  <2>3. data \in StoreData /\ data.org \in Org /\ data.org.admin \in 0 .. MaxPersonas
    BY <1>r DEF Rest, StoreData, Org
  <2>4. endpoint' \in 0 .. MaxPersonas
    BY <1>9, <1>r, <2>3 DEF AdmitMember, EnsureEndpoint, Bind, Rest
  <2>5. CASE /\ data' = [data EXCEPT !.org.epoch = @ + 1]
             /\ task' = [task EXCEPT ![c].pc = "save"]
             /\ UNCHANGED lock
    <3>1. task' = [task EXCEPT ![c] = w]
      BY <2>5 DEF w
    <3>2. LockOK' /\ task' \in [Tasks -> Task]
      BY <1>0, <2>1, <2>2, <2>5, <3>1, HolderGoesOn
    <3>3. data' \in StoreData
      BY <1>9, <2>3, <2>5 DEF AdmitMember, StoreData, Org
    <3>. QED  BY <1>9, <1>q, <1>r, <2>4, <3>2, <3>3 DEF AdmitMember, Rest
  <2>6. CASE GiveBack(c) /\ UNCHANGED data
    <3>1. LockOK' /\ task' \in [Tasks -> Task]
      BY <1>0, <2>2, <2>6, GiveBackOK DEF Holds
    <3>. QED  BY <1>9, <1>q, <1>r, <2>4, <2>6, <3>1 DEF AdmitMember, Rest
  <2>. QED  BY <1>9, <2>5, <2>6 DEF AdmitMember
<1>10. ASSUME NEW c \in Commands, Query(c)  PROVE TypeOK' /\ LockInv'
  <2>1. LockOK' /\ task' \in [Tasks -> Task]
    BY <1>0, <1>10, GiveBackOK DEF Query, Runs, Holds
  <2>. QED  BY <1>10, <1>q, <1>r, <2>1 DEF Query, Rest
<1>11. ASSUME NEW r \in Loops, StartReceiver(r)  PROVE TypeOK' /\ LockInv'
  <2>1. /\ task' = [task EXCEPT ![r] = Looping] /\ lock' = Append(lock, r)
        /\ task[r].pc \in {"idle", "emit"} /\ Looping.pc = "locked"
    BY <1>11 DEF StartReceiver, Idle, Looping
  <2>2. LockOK' /\ task' \in [Tasks -> Task]
    BY <1>0, <2>1, EndType, LockAsked
  <2>. QED  BY <1>11, <1>q, <1>r, <2>2 DEF StartReceiver, Rest
<1>12. ASSUME NEW r \in Loops, ReceiveBegin(r)  PROVE TypeOK' /\ LockInv'
  <2>. DEFINE w == [task[r] EXCEPT !.pc = "receiving"]
  <2>1. w \in Task /\ w.pc \in Inside
    BY <1>0, <1>t DEF Task, Inside
  <2>. HIDE DEF w
  <2>2. Holds(r) /\ 1 \in 0 .. MaxPersonas
    BY <1>12 DEF ReceiveBegin
  <2>3. CASE GiveBack(r) /\ UNCHANGED endpoint
    <3>1. LockOK' /\ task' \in [Tasks -> Task]
      BY <1>0, <2>2, <2>3, GiveBackOK DEF Holds
    <3>. QED  BY <1>12, <1>q, <1>r, <2>3, <3>1 DEF ReceiveBegin, Rest
  <2>4. CASE /\ EnsureEndpoint(1)
             /\ task' = [task EXCEPT ![r].pc = "receiving"]
             /\ UNCHANGED lock
    <3>1. task' = [task EXCEPT ![r] = w]
      BY <2>4 DEF w
    <3>2. LockOK' /\ task' \in [Tasks -> Task]
      BY <1>0, <2>1, <2>2, <2>4, <3>1, HolderGoesOn
    <3>3. endpoint' \in 0 .. MaxPersonas
      BY <1>r, <2>2, <2>4 DEF EnsureEndpoint, Bind, Rest
    <3>. QED  BY <1>12, <1>q, <1>r, <3>2, <3>3 DEF ReceiveBegin, Rest
  <2>. QED  BY <1>12, <2>3, <2>4 DEF ReceiveBegin
<1>13. ASSUME NEW r \in Loops, ReceiveOne(r)  PROVE TypeOK' /\ LockInv'
  <2>1. Holds(r)
    BY <1>13 DEF ReceiveOne
  <2>2. CASE GiveBack(r) /\ UNCHANGED data
    <3>1. LockOK' /\ task' \in [Tasks -> Task]
      BY <1>0, <2>1, <2>2, GiveBackOK DEF Holds
    <3>. QED  BY <1>13, <1>q, <1>r, <2>2, <3>1 DEF ReceiveOne, Rest
  <2>3. ASSUME NEW m \in {"update", "revoke"}, m = "update" => data.org.epoch < MaxEpoch,
               data' = [data EXCEPT !.org =
                          IF m = "update" THEN [@ EXCEPT !.epoch = data.org.epoch + 1]
                          ELSE NoOrg],
               task' = [task EXCEPT ![r].pc = "save", ![r].name = m,
                                    ![r].committed = data'.org.epoch],
               UNCHANGED lock
        PROVE  TypeOK' /\ LockInv'
    <3>1. data \in StoreData /\ data.org \in Org
      BY <1>r DEF Rest, StoreData
    <3>2. data' \in StoreData /\ data'.org.epoch \in 0 .. MaxEpoch
      BY <2>3, <3>1 DEF StoreData, Org, NoOrg
    <3>. DEFINE w == [task[r] EXCEPT !.pc = "save", !.name = m,
                                     !.committed = data'.org.epoch]
    <3>3. w \in Task /\ w.pc \in Inside
      BY <1>0, <1>t, <3>2 DEF Task, Inside
    <3>4. task' = [task EXCEPT ![r] = w]
      <4>. DEFINE e == data'.org.epoch
      <4>1. task' = [task EXCEPT ![r].pc = "save", ![r].name = m, ![r].committed = e]
        BY <2>3
      <4>. HIDE DEF e
      <4>2. w = [task[r] EXCEPT !.pc = "save", !.name = m, !.committed = e]
        BY DEF e
      <4>. HIDE DEF w
      <4>. QED  BY <1>0, <1>t, <4>1, <4>2 DEF Task
    <3>. HIDE DEF w
    <3>5. LockOK' /\ task' \in [Tasks -> Task]
      BY <1>0, <2>1, <2>3, <3>3, <3>4, HolderGoesOn
    <3>. QED  BY <1>13, <1>q, <1>r, <3>2, <3>5 DEF ReceiveOne, Rest
  <2>. QED  BY <1>13, <2>2, <2>3 DEF ReceiveOne, Message
<1>14. ASSUME NEW r \in Loops, Reread(r)  PROVE TypeOK' /\ LockInv'
  <2>. DEFINE w == [task[r] EXCEPT !.pc = "emit", !.epoch = data.org.epoch]
  <2>1. data.org.epoch \in 0 .. MaxEpoch
    BY <1>r DEF Rest, StoreData, Org
  <2>2. w \in Task /\ w.pc \in {"idle", "emit"}
    BY <1>0, <1>t, <2>1 DEF Task
  <2>3. task' = [task EXCEPT ![r] = w]
    BY <1>0, <1>t, <1>14 DEF Task, Reread
  <2>. HIDE DEF w
  <2>5. lock' = Tail(lock) /\ lock # <<>> /\ Head(lock) = r
    BY <1>14 DEF Reread, Holds
  <2>4. LockOK' /\ task' \in [Tasks -> Task]
    BY <1>0, <2>2, <2>3, <2>5, LockLeft
  <2>. QED  BY <1>14, <1>q, <1>r, <2>4 DEF Reread, Rest
<1>15. ASSUME NEW r \in Loops, Emit(r)  PROVE TypeOK' /\ LockInv'
  <2>1. /\ task' = [task EXCEPT ![r] = Looping] /\ lock' = Append(lock, r)
        /\ task[r].pc \in {"idle", "emit"} /\ Looping.pc = "locked"
    BY <1>15 DEF Emit, Idle, Looping
  <2>2. LockOK' /\ task' \in [Tasks -> Task]
    BY <1>0, <2>1, EndType, LockAsked
  <2>. QED  BY <1>15, <1>q, <1>r, <2>2 DEF Emit, Rest
<1>16. ASSUME NEW t \in Tasks, SaveBegin(t)  PROVE TypeOK' /\ LockInv'
  <2>. DEFINE w == [task[t] EXCEPT !.pc = "writing"]
  <2>1. w \in Task /\ w.pc \in Inside
    BY <1>t DEF Task, Inside
  <2>2. task' = [task EXCEPT ![t] = w] /\ Holds(t) /\ UNCHANGED lock
    BY <1>16 DEF SaveBegin
  <2>. HIDE DEF w
  <2>3. LockOK' /\ task' \in [Tasks -> Task]
    BY <1>0, <2>1, <2>2, HolderGoesOn
  <2>4. file' \in File
    BY <1>16, <1>r DEF SaveBegin, Rest, File
  <2>. QED  BY <1>16, <1>q, <1>r, <2>3, <2>4 DEF SaveBegin, Rest
<1>17. ASSUME NEW t \in Tasks, SaveEnd(t)  PROVE TypeOK' /\ LockInv'
  <2>. DEFINE w == [task[t] EXCEPT !.pc = "reread"]
  <2>1. w \in Task /\ w.pc \in {"locked", "reread"} /\ task[t].persona \in 0 .. MaxPersonas
    BY <1>t DEF Task
  <2>. HIDE DEF w
  <2>2. LockOK' /\ task' \in [Tasks -> Task]
    <3>1. CASE task[t].name = "update"
      <4>1. task' = [task EXCEPT ![t] = w] /\ lock' = Append(Tail(lock), t)
        BY <1>17, <3>1 DEF SaveEnd, w
      <4>. QED  BY <1>0, <1>17, <2>1, <4>1, LockRequeued DEF SaveEnd, Holds
    <3>2. CASE task[t].name # "update"
      BY <1>0, <1>17, <3>2, GiveBackOK DEF SaveEnd, Holds
    <3>. QED  BY <3>1, <3>2
  <2>3. file' \in File
    BY <1>17, <1>r DEF SaveEnd, Rest, File
  <2>4. acked' \subseteq Personas
    BY <1>17, <1>r, <2>1 DEF SaveEnd, Rest, Personas
  <2>. QED  BY <1>17, <1>q, <1>r, <2>2, <2>3, <2>4 DEF SaveEnd, Rest
<1>18. ASSUME NEW t \in Tasks, SaveFails(t)  PROVE TypeOK' /\ LockInv'
  <2>1. LockOK' /\ task' \in [Tasks -> Task]
    BY <1>0, <1>18, GiveBackOK DEF SaveFails, Holds
  <2>. QED  BY <1>18, <1>q, <1>r, <2>1 DEF SaveFails, Rest
<1>19. CASE UNCHANGED vars
  <2>1. LockOK' /\ task' \in [Tasks -> Task]
    BY <1>0, <1>19 DEF LockOK, LockInv, Distinct, vars
  <2>. QED  BY <1>19, <1>q, <1>r, <2>1 DEF vars, Rest
<1>. QED
  BY <1>1, <1>2, <1>3, <1>4, <1>5, <1>6, <1>7, <1>8, <1>9, <1>10, <1>11, <1>12,
     <1>13, <1>14, <1>15, <1>16, <1>17, <1>18, <1>19
     DEF Next, CommandSteps, LoopSteps, Saves, Refused

-----------------------------------------------------------------------------
(* The store and the addresses.                                            *)

\* What a call that ends leaves of its task.
LEMMA GiveBackTask ==
  ASSUME task \in [Tasks -> Task], NEW t \in Tasks, GiveBack(t)
  PROVE  /\ task'[t] = IF t \in Loops THEN Looping ELSE Idle
         /\ task'[t].persona = 0 /\ task'[t].name = "none"
         /\ task'[t].pc \in {"idle", "locked"}
         /\ \A u \in Tasks \ {t} : task'[u] = task[u]
<1>1. task' = [task EXCEPT ![t] = IF t \in Loops THEN Looping ELSE Idle]
  BY DEF GiveBack
<1>2. /\ Idle.persona = 0 /\ Idle.name = "none" /\ Idle.pc = "idle"
      /\ Looping.persona = 0 /\ Looping.name = "none" /\ Looping.pc = "locked"
  BY DEF Idle, Looping
<1>. QED  BY <1>1, <1>2

\* A process that does not run has no tasks, and a process that runs never takes
\* back a persona that a task has created.
LEMMA TasksStep == TypeOK /\ TasksInv /\ [Next]_vars => TasksInv'
<1>. SUFFICES ASSUME TypeOK, TasksInv, [Next]_vars  PROVE TasksInv'
  OBVIOUS
<1>. USE BoundsAssumption
<1>0. /\ task \in [Tasks -> Task] /\ data.personas \in Nat
      /\ Commands \subseteq Tasks /\ Loops \subseteq Tasks
      /\ data \in StoreData
      /\ \A t \in Tasks : task[t] \in Task /\ task[t].persona \in Nat
  BY DEF TypeOK, StoreData, Tasks, Task
<1>a. ASSUME NEW t \in Tasks, up, UNCHANGED up, data'.personas = data.personas,
             task'[t].persona <= data.personas,
             \A u \in Tasks \ {t} : task'[u] = task[u]
      PROVE  TasksInv'
  BY <1>0, <1>a DEF TasksInv
<1>b. ASSUME NEW t \in Tasks, up, UNCHANGED <<up, data>>, GiveBack(t)
      PROVE  TasksInv'
  <2>1. /\ task'[t].persona <= data.personas
        /\ \A u \in Tasks \ {t} : task'[u] = task[u]
    BY <1>0, <1>b, GiveBackTask
  <2>. QED  BY <1>a, <1>b, <2>1
<1>1. CASE Boot
  <2>1. data'.personas \in Nat
    BY <1>1 DEF Boot, Open, TypeOK, File, StoreData, Default
  <2>2. \A t \in Tasks : task'[t].persona = 0
    BY <1>1 DEF Boot, TasksInv, Idle
  <2>. QED  BY <1>1, <2>1, <2>2 DEF Boot, TasksInv
<1>2. CASE Crash
  BY <1>2 DEF Crash, TasksInv
<1>3. CASE Arrive
  BY <1>3 DEF Arrive, TasksInv
<1>4. ASSUME NEW c \in Commands, Invoke(c)  PROVE TasksInv'
  <2>1. task'[c].persona = task[c].persona /\ \A u \in Tasks \ {c} : task'[u] = task[u]
    BY <1>0, <1>4 DEF Invoke, Task
  <2>. QED  BY <1>0, <1>a, <1>4, <2>1 DEF Invoke, TasksInv
<1>5. ASSUME NEW c \in Commands, CreatePersona(c)  PROVE TasksInv'
  <2>1. /\ data'.personas = data.personas + 1
        /\ up /\ up'
    BY <1>0, <1>5 DEF CreatePersona, Runs, Holds, StoreData
  <2>2. /\ task'[c].persona = data.personas + 1
        /\ \A u \in Tasks \ {c} : task'[u] = task[u]
    BY <1>0, <1>5 DEF CreatePersona, Task
  <2>. QED  BY <1>0, <2>1, <2>2 DEF TasksInv
<1>6. ASSUME NEW c \in Commands, CreateOrganisation(c)  PROVE TasksInv'
  <2>1. task'[c].persona = task[c].persona /\ \A u \in Tasks \ {c} : task'[u] = task[u]
    BY <1>0, <1>6 DEF CreateOrganisation, Task
  <2>2. data'.personas = data.personas
    BY <1>0, <1>6 DEF CreateOrganisation, StoreData
  <2>3. up /\ UNCHANGED up
    BY <1>6 DEF CreateOrganisation, Runs, Holds
  <2>. QED  BY <1>0, <1>a, <2>1, <2>2, <2>3 DEF TasksInv
<1>7. ASSUME NEW c \in Commands, ImportInvite(c)  PROVE TasksInv'
  <2>1. task'[c].persona = task[c].persona /\ \A u \in Tasks \ {c} : task'[u] = task[u]
    BY <1>0, <1>7 DEF ImportInvite, Task
  <2>. QED  BY <1>0, <1>a, <1>7, <2>1 DEF ImportInvite, Runs, Holds, TasksInv
<1>8. ASSUME NEW c \in Commands, ExportJoinRequest(c)  PROVE TasksInv'
  BY <1>0, <1>b, <1>8 DEF ExportJoinRequest, Runs, Holds
<1>9. ASSUME NEW c \in Commands, AdmitMember(c)  PROVE TasksInv'
  <2>1. up /\ UNCHANGED up
    BY <1>9 DEF AdmitMember, Runs, Holds
  <2>2. CASE /\ data' = [data EXCEPT !.org.epoch = @ + 1]
             /\ task' = [task EXCEPT ![c].pc = "save"]
    <3>1. task'[c].persona = task[c].persona /\ \A u \in Tasks \ {c} : task'[u] = task[u]
      BY <1>0, <2>2 DEF Task
    <3>2. data'.personas = data.personas
      BY <1>0, <2>2 DEF StoreData
    <3>. QED  BY <1>0, <1>a, <2>1, <3>1, <3>2 DEF TasksInv
  <2>3. CASE GiveBack(c) /\ UNCHANGED data
    BY <1>0, <1>b, <2>1, <2>3
  <2>. QED  BY <1>9, <2>2, <2>3 DEF AdmitMember
<1>10. ASSUME NEW c \in Commands, Query(c)  PROVE TasksInv'
  BY <1>0, <1>b, <1>10 DEF Query, Runs, Holds
<1>11. ASSUME NEW r \in Loops, StartReceiver(r) \/ Emit(r)  PROVE TasksInv'
  <2>1. Looping.persona = 0
    BY DEF Looping, Idle
  <2>2. task'[r].persona = 0 /\ \A u \in Tasks \ {r} : task'[u] = task[u]
    BY <1>0, <1>11, <2>1 DEF StartReceiver, Emit
  <2>. QED  BY <1>0, <1>a, <1>11, <2>2 DEF StartReceiver, Emit
<1>12. ASSUME NEW r \in Loops, ReceiveBegin(r)  PROVE TasksInv'
  <2>1. up /\ UNCHANGED <<up, data>>
    BY <1>12 DEF ReceiveBegin, Holds
  <2>2. CASE GiveBack(r)
    BY <1>0, <1>b, <2>1, <2>2
  <2>3. CASE task' = [task EXCEPT ![r].pc = "receiving"]
    <3>1. task'[r].persona = task[r].persona /\ \A u \in Tasks \ {r} : task'[u] = task[u]
      BY <1>0, <2>3 DEF Task
    <3>. QED  BY <1>0, <1>a, <2>1, <3>1 DEF TasksInv
  <2>. QED  BY <1>12, <2>2, <2>3 DEF ReceiveBegin
<1>13. ASSUME NEW r \in Loops, ReceiveOne(r)  PROVE TasksInv'
  <2>1. up /\ UNCHANGED up
    BY <1>13 DEF ReceiveOne, Holds
  <2>2. CASE GiveBack(r) /\ UNCHANGED data
    BY <1>0, <1>b, <2>1, <2>2
  <2>3. ASSUME NEW m \in {"update", "revoke"}, NEW o, NEW e,
               data' = [data EXCEPT !.org = o],
               task' = [task EXCEPT ![r].pc = "save", ![r].name = m,
                                    ![r].committed = e]
        PROVE  TasksInv'
    <3>1. task'[r].persona = task[r].persona /\ \A u \in Tasks \ {r} : task'[u] = task[u]
      BY <1>0, <2>3 DEF Task
    <3>2. data'.personas = data.personas
      BY <1>0, <2>3 DEF StoreData
    <3>. QED  BY <1>0, <1>a, <2>1, <3>1, <3>2 DEF TasksInv
  <2>. QED  BY <1>13, <2>2, <2>3 DEF ReceiveOne, Message
<1>14. ASSUME NEW r \in Loops, Reread(r)  PROVE TasksInv'
  <2>1. task'[r].persona = task[r].persona /\ \A u \in Tasks \ {r} : task'[u] = task[u]
    BY <1>0, <1>14 DEF Reread, Task
  <2>. QED  BY <1>0, <1>a, <1>14, <2>1 DEF Reread, Holds, TasksInv
<1>15. ASSUME NEW t \in Tasks, SaveBegin(t)  PROVE TasksInv'
  <2>1. task'[t].persona = task[t].persona /\ \A u \in Tasks \ {t} : task'[u] = task[u]
    BY <1>0, <1>15 DEF SaveBegin, Task
  <2>. QED  BY <1>0, <1>a, <1>15, <2>1 DEF SaveBegin, Holds, TasksInv
<1>16. ASSUME NEW t \in Tasks, SaveEnd(t)  PROVE TasksInv'
  <2>1. up /\ UNCHANGED <<up, data>>
    BY <1>16 DEF SaveEnd, Holds
  <2>2. CASE GiveBack(t)
    BY <1>0, <1>b, <2>1, <2>2
  <2>3. CASE task' = [task EXCEPT ![t].pc = "reread"]
    <3>1. task'[t].persona = task[t].persona /\ \A u \in Tasks \ {t} : task'[u] = task[u]
      BY <1>0, <2>3 DEF Task
    <3>. QED  BY <1>0, <1>a, <2>1, <3>1 DEF TasksInv
  <2>. QED  BY <1>16, <2>2, <2>3 DEF SaveEnd
<1>17. ASSUME NEW t \in Tasks, SaveFails(t)  PROVE TasksInv'
  BY <1>0, <1>b, <1>17 DEF SaveFails, Holds
<1>18. CASE UNCHANGED vars
  BY <1>18 DEF vars, TasksInv
<1>. QED
  BY <1>1, <1>2, <1>3, <1>4, <1>5, <1>6, <1>7, <1>8, <1>9, <1>10, <1>11, <1>12,
     <1>13, <1>14, <1>15, <1>16, <1>17, <1>18
     DEF Next, CommandSteps, LoopSteps, Saves, Refused

\* The actions that neither start nor end the process nor touch the file.
Plain ==
  \/ Arrive
  \/ \E c \in Commands : Invoke(c) \/ CommandSteps(c)
  \/ \E r \in Loops : StartReceiver(r) \/ LoopSteps(r)
  \/ \E t \in Tasks : SaveFails(t)

\* None of them takes a persona out of the store or changes what the file holds
\* or what was reported.
LEMMA PlainKeeps ==
  ASSUME TypeOK, Plain
  PROVE  /\ UNCHANGED <<up, file, acked>>
         /\ data'.personas \in Nat /\ data'.personas >= data.personas
<1>0. data \in StoreData /\ data.personas \in Nat
  BY BoundsAssumption DEF TypeOK, StoreData
<1>1. ASSUME UNCHANGED <<up, file, acked, data>>
      PROVE  /\ UNCHANGED <<up, file, acked>>
             /\ data'.personas \in Nat /\ data'.personas >= data.personas
  BY <1>0, <1>1
<1>2. ASSUME NEW o, UNCHANGED <<up, file, acked>>, data' = [data EXCEPT !.org = o]
      PROVE  data'.personas \in Nat /\ data'.personas >= data.personas
  BY <1>0, <1>2 DEF StoreData
<1>3. CASE Arrive
  BY <1>1, <1>3 DEF Arrive
<1>4. ASSUME NEW c \in Commands,
             Invoke(c) \/ ImportInvite(c) \/ ExportJoinRequest(c) \/ Query(c)
      PROVE  UNCHANGED <<up, file, acked, data>>
  BY <1>4 DEF Invoke, ImportInvite, ExportJoinRequest, Query
<1>5. ASSUME NEW c \in Commands, CreatePersona(c)
      PROVE  /\ UNCHANGED <<up, file, acked>>
             /\ data'.personas \in Nat /\ data'.personas >= data.personas
  <2>1. data' = [data EXCEPT !.personas = data.personas + 1]
    BY <1>5 DEF CreatePersona
  <2>2. data'.personas = data.personas + 1
    BY <1>0, <2>1 DEF StoreData
  <2>. QED  BY <1>0, <1>5, <2>2 DEF CreatePersona
<1>6. ASSUME NEW c \in Commands, CreateOrganisation(c)
      PROVE  /\ UNCHANGED <<up, file, acked>>
             /\ data'.personas \in Nat /\ data'.personas >= data.personas
  BY <1>0, <1>2, <1>6 DEF CreateOrganisation
<1>7. ASSUME NEW c \in Commands, AdmitMember(c)
      PROVE  /\ UNCHANGED <<up, file, acked>>
             /\ data'.personas \in Nat /\ data'.personas >= data.personas
  <2>1. UNCHANGED <<up, file, acked>>
    BY <1>7 DEF AdmitMember
  <2>2. data' = data \/ data' = [data EXCEPT !.org.epoch = @ + 1]
    BY <1>7 DEF AdmitMember
  <2>3. data'.personas = data.personas
    BY <1>0, <2>2 DEF StoreData
  <2>. QED  BY <1>0, <2>1, <2>3
<1>8. ASSUME NEW r \in Loops,
             StartReceiver(r) \/ ReceiveBegin(r) \/ Reread(r) \/ Emit(r)
      PROVE  UNCHANGED <<up, file, acked, data>>
  BY <1>8 DEF StartReceiver, ReceiveBegin, Reread, Emit
<1>9. ASSUME NEW r \in Loops, ReceiveOne(r)
      PROVE  /\ UNCHANGED <<up, file, acked>>
             /\ data'.personas \in Nat /\ data'.personas >= data.personas
  <2>1. UNCHANGED <<up, file, acked>>
    BY <1>9 DEF ReceiveOne
  <2>2. data' = data \/ \E o : data' = [data EXCEPT !.org = o]
    BY <1>9 DEF ReceiveOne
  <2>. QED  BY <1>0, <1>2, <2>1, <2>2
<1>10. ASSUME NEW t \in Tasks, SaveFails(t)  PROVE UNCHANGED <<up, file, acked, data>>
  BY <1>10 DEF SaveFails
<1>. QED
  BY <1>1, <1>3, <1>4, <1>5, <1>6, <1>7, <1>8, <1>9, <1>10
     DEF Plain, CommandSteps, LoopSteps, Refused

\* A reported persona stays in the running store and in every whole file.
LEMMA StoreStep ==
  TypeOK /\ TasksInv /\ PersonasNeverSilentlyLost /\ [Next]_vars
    => PersonasNeverSilentlyLost'
<1>. SUFFICES ASSUME TypeOK, TasksInv, PersonasNeverSilentlyLost, [Next]_vars
              PROVE  PersonasNeverSilentlyLost'
  OBVIOUS
<1>. USE BoundsAssumption
<1>0. /\ data \in StoreData /\ data.personas \in Nat /\ file \in File
      /\ file.data.personas \in Nat
      /\ acked \subseteq Nat /\ task \in [Tasks -> Task]
      /\ \A t \in Tasks : task[t].persona \in Nat
  BY DEF TypeOK, StoreData, File, Personas, Task
<1>1. CASE Boot
  <2>1. file' = file /\ acked' = acked /\ file.state \in {"absent", "whole"}
    BY <1>0, <1>1 DEF Boot, Open, File
  <2>2. file.state = "whole" => data'.personas = file.data.personas
    BY <1>1 DEF Boot, Open
  <2>. QED  BY <2>1, <2>2 DEF PersonasNeverSilentlyLost
<1>2. CASE Crash
  BY <1>2 DEF Crash, PersonasNeverSilentlyLost
<1>3. ASSUME NEW t \in Tasks, SaveBegin(t)  PROVE PersonasNeverSilentlyLost'
  <2>1. file'.state = "torn" /\ UNCHANGED <<up, data, acked>>
    BY <1>0, <1>3 DEF SaveBegin, File
  <2>. QED  BY <2>1 DEF PersonasNeverSilentlyLost
<1>4. ASSUME NEW t \in Tasks, SaveEnd(t)  PROVE PersonasNeverSilentlyLost'
  <2>1. /\ up /\ UNCHANGED <<up, data>>
        /\ acked' \subseteq acked \cup {task[t].persona}
        /\ file' = [state |-> "whole", data |-> data]
    BY <1>4 DEF SaveEnd, Holds
  <2>2. file'.state = "whole" /\ file'.data = data
    BY <2>1
  <2>3. \A p \in acked' : p <= data.personas
    BY <1>0, <2>1 DEF PersonasNeverSilentlyLost, TasksInv
  <2>. QED  BY <2>1, <2>2, <2>3 DEF PersonasNeverSilentlyLost
<1>5. CASE Plain
  <2>1. /\ up' = up /\ file' = file /\ acked' = acked
        /\ data'.personas \in Nat /\ data'.personas >= data.personas
    BY <1>5, PlainKeeps
  <2>2. \A p \in acked : p \in Nat /\ (p <= data.personas => p <= data'.personas)
    BY <1>0, <2>1
  <2>. QED  BY <2>1, <2>2 DEF PersonasNeverSilentlyLost
<1>6. CASE UNCHANGED vars
  BY <1>6 DEF vars, PersonasNeverSilentlyLost
<1>. QED  BY <1>1, <1>2, <1>3, <1>4, <1>5, <1>6 DEF Next, Saves, Plain

\* The endpoint is bound once, so an address that was handed out stays its own.
LEMMA AddressStep ==
  TypeOK /\ HandedOutAddressLive /\ [Next]_vars => HandedOutAddressLive'
<1>. SUFFICES ASSUME TypeOK, HandedOutAddressLive, [Next]_vars
              PROVE  HandedOutAddressLive'
  OBVIOUS
<1>0. endpoint = 0 => addrs = {}
  BY DEF TypeOK, HandedOutAddressLive, Personas
<1>1. ASSUME UNCHANGED addrs, endpoint = 0 \/ UNCHANGED endpoint
      PROVE  HandedOutAddressLive'
  BY <1>0, <1>1 DEF HandedOutAddressLive
<1>2. CASE Boot \/ Arrive
  BY <1>1, <1>2 DEF Boot, Arrive
<1>3. CASE Crash
  BY <1>3 DEF Crash, HandedOutAddressLive
<1>4. ASSUME NEW c \in Commands, ExportJoinRequest(c)  PROVE HandedOutAddressLive'
  BY <1>4 DEF ExportJoinRequest, NodeAddr, HandedOutAddressLive
<1>5. ASSUME NEW c \in Commands, AdmitMember(c)  PROVE HandedOutAddressLive'
  BY <1>1, <1>5 DEF AdmitMember, EnsureEndpoint
<1>6. ASSUME NEW c \in Commands,
             \/ Invoke(c) \/ CreatePersona(c) \/ CreateOrganisation(c)
             \/ ImportInvite(c) \/ Query(c)
      PROVE  HandedOutAddressLive'
  BY <1>1, <1>6 DEF Invoke, CreatePersona, CreateOrganisation, ImportInvite, Query
<1>7. ASSUME NEW r \in Loops, ReceiveBegin(r)  PROVE HandedOutAddressLive'
  BY <1>1, <1>7 DEF ReceiveBegin, EnsureEndpoint
<1>8. ASSUME NEW r \in Loops,
             StartReceiver(r) \/ ReceiveOne(r) \/ Reread(r) \/ Emit(r)
      PROVE  HandedOutAddressLive'
  BY <1>1, <1>8 DEF StartReceiver, ReceiveOne, Reread, Emit
<1>9. ASSUME NEW t \in Tasks, Saves(t)  PROVE HandedOutAddressLive'
  BY <1>1, <1>9 DEF Saves, SaveBegin, SaveEnd, SaveFails
<1>10. CASE UNCHANGED vars
  BY <1>1, <1>10 DEF vars
<1>. QED
  BY <1>2, <1>3, <1>4, <1>5, <1>6, <1>7, <1>8, <1>9, <1>10
     DEF Next, CommandSteps, LoopSteps, Refused

-----------------------------------------------------------------------------
(* The receiver.                                                           *)

\* A loop that has started goes on until the process ends: every step that is not
\* the start of a receiver leaves an idle loop idle and a running one running.
LEMMA LoopsStay ==
  ASSUME TypeOK, Next, ~Crash, NEW r \in Loops, ~StartReceiver(r)
  PROVE  task'[r] = Idle <=> task[r] = Idle
<1>. USE BoundsAssumption, TasksAssumption
<1>0. /\ task \in [Tasks -> Task] /\ Commands \subseteq Tasks /\ Loops \subseteq Tasks
      /\ task[r] \in Task /\ Idle.pc = "idle" /\ Looping # Idle /\ r \notin Commands
  BY EndType DEF TypeOK, Tasks, Idle
<1>1. CASE Boot \/ Arrive
  BY <1>1 DEF Boot, Arrive
<1>2. ASSUME NEW t \in Tasks, t # r, \A u \in Tasks \ {t} : task'[u] = task[u]
      PROVE  task'[r] = Idle <=> task[r] = Idle
  BY <1>0, <1>2
<1>3. ASSUME NEW t \in Tasks, GiveBack(t), task[t].pc # "idle"
      PROVE  task'[r] = Idle <=> task[r] = Idle
  BY <1>0, <1>2, <1>3, GiveBackTask
<1>4. ASSUME NEW c \in Commands, Invoke(c) \/ CommandSteps(c)
      PROVE  task'[r] = Idle <=> task[r] = Idle
  <2>1. CASE GiveBack(c) /\ Runs(c)
    BY <1>0, <1>3, <2>1 DEF Runs
  <2>2. CASE \A u \in Tasks \ {c} : task'[u] = task[u]
    BY <1>0, <1>2, <2>2
  <2>. QED
    BY <1>0, <1>4, <2>1, <2>2
       DEF Invoke, CommandSteps, CreatePersona, CreateOrganisation, ImportInvite,
           ExportJoinRequest, AdmitMember, Query, Refused
<1>5. ASSUME NEW q \in Loops, StartReceiver(q)
      PROVE  task'[r] = Idle <=> task[r] = Idle
  BY <1>0, <1>2, <1>5 DEF StartReceiver
<1>6. ASSUME NEW q \in Loops, LoopSteps(q)
      PROVE  task'[r] = Idle <=> task[r] = Idle
  <2>1. task[q].pc # "idle"
    BY <1>6 DEF LoopSteps, ReceiveBegin, ReceiveOne, Reread, Emit
  <2>2. CASE q # r
    <3>1. \A u \in Tasks \ {q} : task'[u] = task[u]
      BY <1>0, <1>6, <2>1, GiveBackTask
         DEF LoopSteps, ReceiveBegin, ReceiveOne, Reread, Emit
    <3>. QED  BY <1>0, <1>2, <2>2, <3>1
  <2>3. CASE q = r
    <3>1. CASE GiveBack(r)
      BY <1>0, <1>3, <2>1, <2>3, <3>1
    <3>2. CASE task'[r].pc # "idle" \/ task'[r] = Looping
      BY <1>0, <2>1, <2>3, <3>2
    <3>3. CASE ReceiveBegin(r)
      BY <1>0, <3>1, <3>2, <3>3 DEF ReceiveBegin, Task
    <3>4. CASE ReceiveOne(r)
      <4>1. \/ GiveBack(r)
            \/ \E m, e : task' = [task EXCEPT ![r].pc = "save", ![r].name = m,
                                               ![r].committed = e]
        BY <3>4 DEF ReceiveOne
      <4>2. ASSUME NEW m, NEW e,
                   task' = [task EXCEPT ![r].pc = "save", ![r].name = m,
                                        ![r].committed = e]
            PROVE  task'[r].pc = "save"
        BY <1>0, <4>2 DEF Task
      <4>. QED  BY <3>1, <3>2, <4>1, <4>2
    <3>5. CASE Reread(r)
      BY <1>0, <3>2, <3>5 DEF Reread, Task
    <3>6. CASE Emit(r)
      BY <1>0, <3>2, <3>6 DEF Emit
    <3>. QED  BY <1>6, <2>3, <3>3, <3>4, <3>5, <3>6 DEF LoopSteps
  <2>. QED  BY <2>2, <2>3
<1>7. ASSUME NEW t \in Tasks, Saves(t)
      PROVE  task'[r] = Idle <=> task[r] = Idle
  <2>1. task[t].pc # "idle"
    BY <1>7 DEF Saves, SaveBegin, SaveEnd, SaveFails
  <2>2. CASE GiveBack(t)
    BY <1>0, <1>3, <2>1, <2>2
  <2>3. ASSUME NEW pc \in {"writing", "reread"}, task' = [task EXCEPT ![t].pc = pc]
        PROVE  task'[r] = Idle <=> task[r] = Idle
    BY <1>0, <2>1, <2>3 DEF Task
  <2>. QED  BY <1>7, <2>2, <2>3 DEF Saves, SaveBegin, SaveEnd, SaveFails
<1>. QED  BY <1>1, <1>4, <1>5, <1>6, <1>7 DEF Next

\* There is never a second receiver.
LEMMA ReceiverStep ==
  TypeOK /\ TasksInv /\ OneReceiver /\ [Next]_vars => OneReceiver'
<1>. SUFFICES ASSUME TypeOK, TasksInv, OneReceiver, [Next]_vars  PROVE OneReceiver'
  OBVIOUS
<1>0. task \in [Tasks -> Task] /\ Loops \subseteq Tasks
  BY DEF TypeOK, Tasks
<1>1. CASE Crash
  BY <1>0, <1>1 DEF Crash, OneReceiver
<1>2. ASSUME NEW r \in Loops, StartReceiver(r)  PROVE OneReceiver'
  <2>1. \A q \in Loops : task[q] = Idle
    BY <1>2 DEF StartReceiver, MayStart, OneReceiver
  <2>2. started' = TRUE /\ \A q \in Loops \ {r} : task'[q] = Idle
    BY <1>0, <1>2, <2>1 DEF StartReceiver
  <2>. QED  BY <2>2 DEF OneReceiver
<1>3. CASE Next /\ ~Crash /\ ~(\E r \in Loops : StartReceiver(r))
  <2>1. \A r \in Loops : task'[r] = Idle <=> task[r] = Idle
    BY <1>3, LoopsStay
  <2>2. UNCHANGED started
    BY <1>3
       DEF Next, Boot, Arrive, Invoke, CommandSteps, CreatePersona,
           CreateOrganisation, ImportInvite, ExportJoinRequest, AdmitMember, Query,
           Refused, LoopSteps, ReceiveBegin, ReceiveOne, Reread, Emit, Saves,
           SaveBegin, SaveEnd, SaveFails
  <2>. QED  BY <2>1, <2>2 DEF OneReceiver
<1>4. CASE UNCHANGED vars
  BY <1>4 DEF vars, OneReceiver
<1>. QED  BY <1>1, <1>2, <1>3, <1>4

\* A commit is what the store holds until the loop that made it has read it again.
LEMMA CommitStep ==
  /\ TypeOK /\ TasksInv /\ OneReceiver /\ CommitKept /\ EventsReportTheRecord
  /\ [Next]_vars
  => CommitKept' /\ EventsReportTheRecord'
<1>. SUFFICES ASSUME TypeOK, TasksInv, OneReceiver, CommitKept, EventsReportTheRecord,
                     [Next]_vars
              PROVE  CommitKept' /\ EventsReportTheRecord'
  OBVIOUS
<1>. USE BoundsAssumption, TasksAssumption
<1>0. /\ task \in [Tasks -> Task] /\ Commands \subseteq Tasks /\ Loops \subseteq Tasks
      /\ \A t \in Tasks : task[t] \in Task
      /\ data \in StoreData /\ data.org \in Org
      /\ data.org.admin \in Nat /\ data.org.epoch \in Nat
      /\ \A c \in Commands : c \notin Loops
  BY DEF TypeOK, Tasks, StoreData, Org
<1>. DEFINE Good(w, org) ==
       /\ w.pc = "reread" => w.name = "update"
       /\ w.pc \in {"save", "writing", "reread"} /\ w.name = "update" =>
            org.admin = 0 /\ org.epoch > 0 /\ org.epoch = w.committed
       /\ w.pc = "emit" => w.epoch = w.committed
<1>g. /\ \A r \in Loops : Good(task[r], data.org)
      /\ (\A r \in Loops : Good(task'[r], data'.org))
           => CommitKept' /\ EventsReportTheRecord'
  BY DEF CommitKept, EventsReportTheRecord
<1>e. /\ \A org : Good(Idle, org)
      /\ \A org : Good(Looping, org)
  BY DEF Idle, Looping
<1>. HIDE DEF Good
<1>a. ASSUME NEW t \in Tasks, data'.org = data.org,
             \A u \in Tasks \ {t} : task'[u] = task[u],
             t \in Loops => Good(task'[t], data.org)
      PROVE  CommitKept' /\ EventsReportTheRecord'
  BY <1>0, <1>g, <1>a
<1>b. ASSUME NEW t \in Tasks, data' = data, GiveBack(t)
      PROVE  CommitKept' /\ EventsReportTheRecord'
  BY <1>0, <1>a, <1>b, <1>e, GiveBackTask
<1>c. ASSUME data.org.admin # 0 \/ data.org.epoch = 0,
             \A r \in Loops : task'[r] = task[r]
      PROVE  CommitKept' /\ EventsReportTheRecord'
  <2>1. ASSUME NEW r \in Loops  PROVE Good(task[r], data'.org)
    BY <1>0, <1>g, <1>c DEF Good
  <2>. QED  BY <1>c, <1>g, <2>1
<1>1. CASE Boot
  <2>1. \A r \in Loops : task'[r] = Idle
    BY <1>0, <1>1 DEF Boot, TasksInv
  <2>. QED  BY <1>e, <1>g, <2>1
<1>2. CASE Crash
  <2>1. \A r \in Loops : task'[r] = Idle
    BY <1>0, <1>2 DEF Crash
  <2>. QED  BY <1>e, <1>g, <2>1
<1>3. CASE Arrive
  BY <1>g, <1>3 DEF Arrive
<1>4. ASSUME NEW c \in Commands, Invoke(c) \/ ImportInvite(c)
      PROVE  CommitKept' /\ EventsReportTheRecord'
  <2>1. data' = data /\ \A u \in Tasks \ {c} : task'[u] = task[u]
    BY <1>0, <1>4 DEF Invoke, ImportInvite
  <2>. QED  BY <1>0, <1>a, <2>1
<1>5. ASSUME NEW c \in Commands, CreatePersona(c)
      PROVE  CommitKept' /\ EventsReportTheRecord'
  <2>1. \A u \in Tasks \ {c} : task'[u] = task[u]
    BY <1>0, <1>5 DEF CreatePersona
  <2>2. data'.org = data.org
    BY <1>0, <1>5 DEF CreatePersona, StoreData
  <2>. QED  BY <1>0, <1>a, <2>1, <2>2
<1>6. ASSUME NEW c \in Commands, CreateOrganisation(c)
      PROVE  CommitKept' /\ EventsReportTheRecord'
  <2>1. \A r \in Loops : task'[r] = task[r]
    BY <1>0, <1>6 DEF CreateOrganisation
  <2>2. data.org.epoch = 0
    BY <1>6 DEF CreateOrganisation, NoOrg
  <2>. QED  BY <1>c, <2>1, <2>2
<1>7. ASSUME NEW c \in Commands, ExportJoinRequest(c) \/ Query(c)
      PROVE  CommitKept' /\ EventsReportTheRecord'
  BY <1>0, <1>b, <1>7 DEF ExportJoinRequest, Query
<1>8. ASSUME NEW c \in Commands, AdmitMember(c)
      PROVE  CommitKept' /\ EventsReportTheRecord'
  <2>1. CASE GiveBack(c) /\ UNCHANGED data
    BY <1>0, <1>b, <2>1
  <2>2. CASE task' = [task EXCEPT ![c].pc = "save"]
    <3>1. \A r \in Loops : task'[r] = task[r]
      BY <1>0, <2>2
    <3>. QED  BY <1>c, <1>8, <3>1 DEF AdmitMember
  <2>. QED  BY <1>8, <2>1, <2>2 DEF AdmitMember
<1>9. ASSUME NEW r \in Loops, StartReceiver(r) \/ Emit(r)
      PROVE  CommitKept' /\ EventsReportTheRecord'
  <2>1. /\ data' = data /\ task'[r] = Looping
        /\ \A u \in Tasks \ {r} : task'[u] = task[u]
    BY <1>0, <1>9 DEF StartReceiver, Emit
  <2>. QED  BY <1>0, <1>a, <1>e, <2>1
<1>10. ASSUME NEW r \in Loops, ReceiveBegin(r)
       PROVE  CommitKept' /\ EventsReportTheRecord'
  <2>1. data' = data
    BY <1>10 DEF ReceiveBegin
  <2>2. CASE GiveBack(r)
    BY <1>0, <1>b, <2>1, <2>2
  <2>3. CASE task' = [task EXCEPT ![r].pc = "receiving"]
    <3>1. task'[r].pc = "receiving" /\ \A u \in Tasks \ {r} : task'[u] = task[u]
      BY <1>0, <2>3 DEF Task
    <3>2. Good(task'[r], data.org)
      BY <3>1 DEF Good
    <3>. QED  BY <1>0, <1>a, <2>1, <3>1, <3>2
  <2>. QED  BY <1>10, <2>2, <2>3 DEF ReceiveBegin
<1>11. ASSUME NEW r \in Loops, ReceiveOne(r)
       PROVE  CommitKept' /\ EventsReportTheRecord'
  <2>1. \A q \in Loops \ {r} : task[q] = Idle
    BY <1>11 DEF ReceiveOne, OneReceiver, Idle
  <2>2. CASE GiveBack(r) /\ UNCHANGED data
    BY <1>0, <1>b, <2>2
  <2>3. ASSUME NEW m \in {"update", "revoke"}, NEW e, e = data'.org.epoch,
               data.org.admin = 0,
               data' = [data EXCEPT !.org =
                          IF m = "update" THEN [@ EXCEPT !.epoch = data.org.epoch + 1]
                          ELSE NoOrg],
               task' = [task EXCEPT ![r].pc = "save", ![r].name = m,
                                    ![r].committed = e]
        PROVE  CommitKept' /\ EventsReportTheRecord'
    <3>1. m = "update" => data'.org.admin = 0 /\ data'.org.epoch > 0
      BY <1>0, <2>3 DEF StoreData, Org
    <3>2. /\ task'[r].pc = "save" /\ task'[r].name = m /\ task'[r].committed = e
          /\ \A q \in Loops \ {r} : task'[q] = task[q]
      BY <1>0, <2>3 DEF Task
    <3>3. Good(task'[r], data'.org)
      BY <2>3, <3>1, <3>2 DEF Good
    <3>. QED  BY <1>e, <1>g, <2>1, <3>2, <3>3
  <2>. QED  BY <1>11, <2>2, <2>3 DEF ReceiveOne, Message
<1>12. ASSUME NEW r \in Loops, Reread(r)
       PROVE  CommitKept' /\ EventsReportTheRecord'
  <2>1. /\ task'[r].pc = "emit" /\ task'[r].epoch = data.org.epoch
        /\ task'[r].committed = task[r].committed
        /\ data' = data /\ \A u \in Tasks \ {r} : task'[u] = task[u]
    BY <1>0, <1>12 DEF Reread, Task
  <2>2. Good(task[r], data.org) /\ task[r].pc = "reread"
    BY <1>g, <1>12 DEF Reread
  <2>3. Good(task'[r], data.org)
    BY <2>1, <2>2 DEF Good
  <2>. QED  BY <1>0, <1>a, <2>1, <2>3
<1>13. ASSUME NEW t \in Tasks, SaveBegin(t)
       PROVE  CommitKept' /\ EventsReportTheRecord'
  <2>1. /\ task'[t].pc = "writing" /\ task'[t].name = task[t].name
        /\ task'[t].committed = task[t].committed
        /\ data' = data /\ \A u \in Tasks \ {t} : task'[u] = task[u]
    BY <1>0, <1>13 DEF SaveBegin, Task
  <2>2. t \in Loops => Good(task[t], data.org) /\ task[t].pc = "save"
    BY <1>g, <1>13 DEF SaveBegin
  <2>3. t \in Loops => Good(task'[t], data.org)
    BY <2>1, <2>2 DEF Good
  <2>. QED  BY <1>0, <1>a, <2>1, <2>3
<1>14. ASSUME NEW t \in Tasks, SaveEnd(t)
       PROVE  CommitKept' /\ EventsReportTheRecord'
  <2>1. data' = data /\ task[t].pc = "writing"
    BY <1>14 DEF SaveEnd
  <2>2. CASE GiveBack(t)
    BY <1>0, <1>b, <2>1, <2>2
  <2>3. CASE task[t].name = "update" /\ task' = [task EXCEPT ![t].pc = "reread"]
    <3>1. /\ task'[t].pc = "reread" /\ task'[t].name = "update"
          /\ task'[t].committed = task[t].committed
          /\ \A u \in Tasks \ {t} : task'[u] = task[u]
      BY <1>0, <2>3 DEF Task
    <3>2. t \in Loops => Good(task'[t], data.org)
      BY <1>g, <2>1, <2>3, <3>1 DEF Good
    <3>. QED  BY <1>0, <1>a, <2>1, <3>1, <3>2
  <2>. QED  BY <1>14, <2>2, <2>3 DEF SaveEnd
<1>15. ASSUME NEW t \in Tasks, SaveFails(t)
       PROVE  CommitKept' /\ EventsReportTheRecord'
  BY <1>0, <1>b, <1>15 DEF SaveFails
<1>16. CASE UNCHANGED vars
  BY <1>g, <1>16 DEF vars
<1>. QED
  BY <1>1, <1>2, <1>3, <1>4, <1>5, <1>6, <1>7, <1>8, <1>9, <1>10, <1>11, <1>12,
     <1>13, <1>14, <1>15, <1>16
     DEF Next, CommandSteps, LoopSteps, Saves, Refused

-----------------------------------------------------------------------------
(* The theorems.                                                           *)

\* The initial states satisfy the invariant.
LEMMA InitInv == Init => Inv
<1>. SUFFICES ASSUME Init  PROVE Inv
  OBVIOUS
<1>. USE BoundsAssumption DEF Init
<1>0. \A t \in Tasks : task[t] = Idle
  OBVIOUS
<1>1. Default \in StoreData /\ Joined \in StoreData
  BY DEF Default, Joined, StoreData, Org, NoOrg
<1>2. file \in File /\ file.data.personas \in 0 .. 1
  BY <1>1 DEF File, Default, Joined
<1>3. lock \in Seq(Tasks) /\ DOMAIN lock = {} /\ crashes \in 0 .. MaxCrashes
  OBVIOUS
<1>4. acked \subseteq Personas
  BY <1>2 DEF Personas
<1>5. task \in [Tasks -> Task] /\ endpoint \in 0 .. MaxPersonas /\ addrs \subseteq Personas
  BY EndType
<1>6. TypeOK
  BY <1>1, <1>2, <1>3, <1>4, <1>5 DEF TypeOK
<1>7. LockInv /\ TasksInv /\ OneReceiver /\ CommitKept /\ EventsReportTheRecord
  BY <1>0, <1>3 DEF LockInv, TasksInv, OneReceiver, CommitKept,
                    EventsReportTheRecord, Idle, Tasks
<1>8. PersonasNeverSilentlyLost
  BY <1>2 DEF PersonasNeverSilentlyLost, Default
<1>. QED  BY <1>6, <1>7, <1>8 DEF Inv, HandedOutAddressLive

\* The invariant holds in every reachable state.
LEMMA Invariant == Spec => []Inv
<1>1. Inv /\ [Next]_vars => Inv'
  BY TypeStep, TasksStep, StoreStep, AddressStep, ReceiverStep, CommitStep DEF Inv
<1>. QED  BY <1>1, InitInv, PTL DEF Spec

\* Types: whatever is called, crashes or fails to be written, the store, the file
\* and the tasks keep their shape, and no task is queued twice for the mutex.
THEOREM TypeCorrect == Spec => []TypeOK
<1>1. Inv => TypeOK
  BY DEF Inv
<1>. QED  BY <1>1, Invariant, PTL

\* The mutex of OrgService protects what it should: a task that receives or saves
\* is the one at the head of the queue.
THEOREM OnlyTheHolderSaves == Spec => []LockInv
<1>1. Inv => LockInv
  BY DEF Inv
<1>. QED  BY <1>1, Invariant, PTL

\* PersonaStore never loses a persona whose creation was reported.
THEOREM ReportedPersonasKept == Spec => []PersonasNeverSilentlyLost
<1>1. Inv => PersonasNeverSilentlyLost
  BY DEF Inv
<1>. QED  BY <1>1, Invariant, PTL

\* The events of the receiver tell of the epoch that it committed, although it
\* lets go of the mutex before it reads the record again.
THEOREM EventsAreExact == Spec => []EventsReportTheRecord
<1>1. Inv => EventsReportTheRecord
  BY DEF Inv
<1>. QED  BY <1>1, Invariant, PTL

\* ensure_endpoint binds once per process, so an exported address stays valid.
THEOREM AddressesStayLive == Spec => []HandedOutAddressLive
<1>1. Inv => HandedOutAddressLive
  BY DEF Inv
<1>. QED  BY <1>1, Invariant, PTL
=============================================================================
