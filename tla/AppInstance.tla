---------------------------- MODULE AppInstance ----------------------------
(***************************************************************************)
(* One running instance of the desktop app: the commands its user          *)
(* interface calls, the background receiver, the mutex around OrgService   *)
(* that they all take, the encrypted store file, and the process that may  *)
(* end at any point and be started again.                                  *)
(*                                                                         *)
(* Personas are numbered in the order of the store.  Of an organisation    *)
(* the module keeps the administrator's persona and the epoch; what makes  *)
(* an envelope acceptable is the subject of module OrgService.             *)
(***************************************************************************)
EXTENDS Integers, Sequences, FiniteSets

CONSTANTS
  Commands,      \* calls of the user interface that may be in flight at once
  Loops,         \* receiver tasks that tokio::spawn could start
  MaxPersonas,   \* bound on create_persona
  MaxEpoch,      \* bound on the epochs of the organisation
  MaxCrashes     \* bound on the ends of the process

ASSUME TasksAssumption == Commands \cap Loops = {}

\* An instance may start from a store with one persona and one organisation.
ASSUME BoundsAssumption ==
  MaxPersonas \in Nat \ {0} /\ MaxEpoch \in Nat \ {0} /\ MaxCrashes \in Nat

VARIABLES
  up,         \* whether the process runs
  ready,      \* AppState.chain_ready: SubxtChainOps, not ChainNotConfigured
  data,       \* PersonaStore.data
  file,       \* persona_store.bin
  endpoint,   \* OrgService.endpoint: the persona it was bound for, 0 for None
  lock,       \* the service mutex: its holder, followed by those that wait
  task,       \* task[t]: where a command or a receiver loop is
  started,    \* AppState.receiver_started
  inbox,      \* whether a message of a peer waits at the endpoint
  addrs,      \* the addresses in the join requests that were exported
  acked,      \* the personas whose creation was reported to the user
  crashes     \* number of ends of the process so far

vars == <<up, ready, data, file, endpoint, lock, task, started, inbox, addrs,
          acked, crashes>>

Tasks == Commands \cup Loops
Personas == 1 .. MaxPersonas

\* The organisation of this instance; `admin' is 0 in one that a persona of it
\* joined, whose administrator is somebody else.
Org == [admin : 0 .. MaxPersonas, epoch : 0 .. MaxEpoch]
NoOrg == [admin |-> 0, epoch |-> 0]

StoreData == [personas : 0 .. MaxPersonas, org : Org]
Default == [personas |-> 0, org |-> NoOrg]

\* A store in which receive_and_verify has recorded an organisation for the first
\* persona.
Joined == [personas |-> 1, org |-> [admin |-> 0, epoch |-> 1]]

\* fs::write truncates the file and then writes it: in between it is torn.
File == [state : {"absent", "torn", "whole"}, data : StoreData]

Message == {"update", "revoke", "invalid"}

\* A task is idle, waits for the mutex or holds it (pc "locked"), receives,
\* saves, or is about to emit events.  `persona' is the one a command has created;
\* `name' and `committed' are what a loop has received, `epoch' what it has read.
Task == [pc : {"idle", "locked", "receiving", "save", "writing", "reread", "emit"},
         persona : 0 .. MaxPersonas, name : {"none", "update", "revoke"},
         epoch : 0 .. MaxEpoch, committed : 0 .. MaxEpoch]

Idle == [pc |-> "idle", persona |-> 0, name |-> "none", epoch |-> 0, committed |-> 0]

Looping == [Idle EXCEPT !.pc = "locked"]

Init ==
  /\ up = FALSE /\ ready = FALSE
  /\ data = Default
  /\ file \in {[state |-> "absent", data |-> Default],
               [state |-> "whole", data |-> Joined]}
  /\ endpoint = 0
  /\ lock = <<>>
  /\ task = [t \in Tasks |-> Idle]
  /\ started = FALSE
  /\ inbox = FALSE
  /\ addrs = {}
  /\ acked = 1 .. file.data.personas
  /\ crashes = 0

-----------------------------------------------------------------------------
(* The process.                                                            *)

\* Mutant: a file that is too short or does not decrypt counts as a new store.
Open_TornIsNew == data' = IF file.state = "whole" THEN file.data ELSE Default

\* PersonaStore::open; an error ends AppState::init and with it the app.
Open ==
  /\ file.state # "torn"
  /\ data' = IF file.state = "whole" THEN file.data ELSE Default

\* build_chain_ops: settings that are missing or malformed and a connection that
\* fails all end in ChainNotConfigured, for as long as the process runs.
ConnectChain == ready' \in BOOLEAN

\* run and AppState::init, which panic when the store cannot be opened.
Boot ==
  /\ ~up
  /\ Open
  /\ up' = TRUE
  /\ ConnectChain
  /\ UNCHANGED <<file, endpoint, lock, task, started, inbox, addrs, acked, crashes>>

Crash ==
  /\ up /\ crashes < MaxCrashes
  /\ crashes' = crashes + 1
  /\ up' = FALSE /\ ready' = FALSE
  /\ data' = Default
  /\ endpoint' = 0
  /\ lock' = <<>> /\ task' = [t \in Tasks |-> Idle]
  /\ started' = FALSE
  /\ inbox' = FALSE /\ addrs' = {}
  /\ UNCHANGED <<file, acked>>

\* A peer dials the endpoint.
Arrive ==
  /\ endpoint # 0 /\ ~inbox
  /\ inbox' = TRUE
  /\ UNCHANGED <<up, ready, data, file, endpoint, lock, task, started, addrs, acked,
                 crashes>>

-----------------------------------------------------------------------------
(* The mutex.  tokio's Mutex serves its waiters in the order they came.    *)

Holds(t) == up /\ lock # <<>> /\ Head(lock) = t

\* Mutant: a loop keeps the mutex for its next iteration.
GiveBack_Keeps(t) ==
  IF t \in Loops
  THEN /\ lock' = lock
       /\ task' = [task EXCEPT ![t] = Looping]
  ELSE /\ lock' = Tail(lock)
       /\ task' = [task EXCEPT ![t] = Idle]

\* The task gives the mutex back: a command returns to the user interface, a
\* receiver loop starts its next iteration.
GiveBack(t) ==
  IF t \in Loops
  THEN /\ lock' = Append(Tail(lock), t)
       /\ task' = [task EXCEPT ![t] = Looping]
  ELSE /\ lock' = Tail(lock)
       /\ task' = [task EXCEPT ![t] = Idle]

-----------------------------------------------------------------------------
(* PersonaStore::save, the last step of every call that changes the store. *)

SaveBegin(t) ==
  /\ Holds(t) /\ task[t].pc = "save"
  /\ file' = [file EXCEPT !.state = "torn"]
  /\ task' = [task EXCEPT ![t].pc = "writing"]
  /\ UNCHANGED <<up, ready, data, endpoint, lock, started, inbox, addrs, acked, crashes>>

\* What a call does once its save has succeeded: a loop that committed an update
\* asks for the mutex again to read the record, one that deleted it tells the
\* user interface, and a command returns Ok.
SaveEnd(t) ==
  /\ Holds(t) /\ task[t].pc = "writing"
  /\ file' = [state |-> "whole", data |-> data]
  /\ acked' = (acked \cup {task[t].persona}) \ {0}
  /\ IF task[t].name = "update"
     THEN /\ lock' = Append(Tail(lock), t)
          /\ task' = [task EXCEPT ![t].pc = "reread"]
     ELSE GiveBack(t)
  /\ UNCHANGED <<up, ready, data, endpoint, started, inbox, addrs, crashes>>

\* fs::write fails, before or after it has truncated the file.
SaveFails(t) ==
  /\ Holds(t) /\ task[t].pc \in {"save", "writing"}
  /\ GiveBack(t)
  /\ UNCHANGED <<up, ready, data, file, endpoint, started, inbox, addrs, acked, crashes>>

-----------------------------------------------------------------------------
(* Commands.  Each one takes the mutex, calls the service and returns.     *)
(* Which command it is matters from the moment it has the mutex.           *)

Invoke(c) ==
  /\ up /\ task[c] = Idle
  /\ lock' = Append(lock, c)
  /\ task' = [task EXCEPT ![c].pc = "locked"]
  /\ UNCHANGED <<up, ready, data, file, endpoint, started, inbox, addrs, acked, crashes>>

Runs(c) == Holds(c) /\ task[c].pc = "locked"

CreatePersona(c) ==
  LET new == data.personas + 1
  IN /\ Runs(c) /\ new \in Personas
     /\ data' = [data EXCEPT !.personas = new]
     /\ task' = [task EXCEPT ![c].pc = "save", ![c].persona = new]
     /\ UNCHANGED <<up, ready, file, endpoint, lock, started, inbox, addrs, acked,
                    crashes>>

\* submit_genesis, which ChainNotConfigured refuses; the model follows one
\* organisation.
CreateOrganisation(c) ==
  /\ Runs(c) /\ ready /\ data.org = NoOrg
  /\ \E p \in 1 .. data.personas :
       data' = [data EXCEPT !.org = [admin |-> p, epoch |-> 1]]
  /\ task' = [task EXCEPT ![c].pc = "save"]
  /\ UNCHANGED <<up, ready, file, endpoint, lock, started, inbox, addrs, acked, crashes>>

\* import_invite upserts a pending invite, which the model does not keep, and saves.
ImportInvite(c) ==
  /\ Runs(c)
  /\ task' = [task EXCEPT ![c].pc = "save"]
  /\ UNCHANGED <<up, ready, data, file, endpoint, lock, started, inbox, addrs, acked,
                 crashes>>

\* node_addr_for_dial of the bound endpoint, or nothing.
NodeAddr == {endpoint} \ {0}

\* The address in the blob, export_invite's too, is the endpoint's, whichever
\* persona the blob is for, and empty when no endpoint is bound yet.
ExportJoinRequest(c) ==
  /\ Runs(c) /\ data.personas > 0
  /\ addrs' = addrs \cup NodeAddr
  /\ GiveBack(c)
  /\ UNCHANGED <<up, ready, data, file, endpoint, started, inbox, acked, crashes>>

\* OrgEndpoint::bind_with_mode, with the device key of the persona.
Bind(persona) == endpoint' = persona

\* Mutant: every persona gets an endpoint of its own, in the one field.
EnsureEndpoint_Rebinds(persona) == Bind(persona)

\* ensure_endpoint: bound once, for the persona that needed it first.
EnsureEndpoint(persona) ==
  IF endpoint = 0 THEN Bind(persona) ELSE UNCHANGED endpoint

\* admit_member and revoke_member: update the chain, bind the endpoint, push, and
\* go on to save the record, or return the error of the push.
AdmitMember(c) ==
  /\ Runs(c) /\ ready /\ data.org.admin # 0 /\ data.org.epoch < MaxEpoch
  /\ EnsureEndpoint(data.org.admin)
  /\ \/ /\ data' = [data EXCEPT !.org.epoch = @ + 1]
        /\ task' = [task EXCEPT ![c].pc = "save"]
        /\ UNCHANGED lock
     \/ GiveBack(c) /\ UNCHANGED data
  /\ UNCHANGED <<up, ready, file, started, inbox, addrs, acked, crashes>>

\* list_personas and list_orgs read under the mutex.
Query(c) ==
  /\ Runs(c)
  /\ GiveBack(c)
  /\ UNCHANGED <<up, ready, data, file, endpoint, started, inbox, addrs, acked, crashes>>

\* ChainNotConfigured refuses every call that would write to the chain, before
\* anything has changed; so do the chain and the trie for reasons of their own.
Refused(c) == Query(c)

-----------------------------------------------------------------------------
(* The receiver.                                                           *)

\* Mutant: start_receiver does not look at the flag.
MayStart_Always(flag) == TRUE

\* The compare_exchange of start_receiver.
MayStart(flag) == ~flag

StartReceiver(r) ==
  /\ up /\ MayStart(started)
  /\ r = CHOOSE l \in Loops : task[l] = Idle \/ \A k \in Loops : task[k] # Idle
  /\ task[r] = Idle
  /\ started' = TRUE
  /\ lock' = Append(lock, r)
  /\ task' = [task EXCEPT ![r] = Looping]
  /\ UNCHANGED <<up, ready, data, file, endpoint, inbox, addrs, acked, crashes>>

\* receive_and_self_delete_if_revoked needs a persona, binds the endpoint for the
\* first one and waits in recv_one, with the mutex held.
ReceiveBegin(r) ==
  /\ Holds(r) /\ task[r].pc = "locked"
  /\ IF data.personas = 0
     THEN GiveBack(r) /\ UNCHANGED endpoint
     ELSE \/ /\ EnsureEndpoint(1)
             /\ task' = [task EXCEPT ![r].pc = "receiving"]
             /\ UNCHANGED lock
          \/ endpoint = 0 /\ GiveBack(r) /\ UNCHANGED endpoint   \* the bind fails
  /\ UNCHANGED <<up, ready, data, file, started, inbox, addrs, acked, crashes>>

\* A message is read.  It is committed when it verifies, which only an envelope of
\* the organisation this instance has joined does: nobody else administers an
\* organisation that was created here.
ReceiveOne(r) ==
  /\ Holds(r) /\ task[r].pc = "receiving" /\ inbox
  /\ inbox' = FALSE
  /\ \E m \in Message :
       LET epoch == data.org.epoch
           verifies == /\ m # "invalid" /\ ready /\ epoch > 0 /\ data.org.admin = 0
                       /\ m = "update" => epoch < MaxEpoch
       IN IF ~verifies
          THEN GiveBack(r) /\ UNCHANGED data
          ELSE /\ data' = [data EXCEPT !.org =
                             IF m = "update" THEN [@ EXCEPT !.epoch = epoch + 1]
                             ELSE NoOrg]
               /\ task' = [task EXCEPT ![r].pc = "save", ![r].name = m,
                                       ![r].committed = data'.org.epoch]
               /\ UNCHANGED lock
  /\ UNCHANGED <<up, ready, file, endpoint, started, addrs, acked, crashes>>

\* Mutant: the guard of the second lock lives on while the events are emitted.
Reread_KeepsGuard(r) ==
  /\ Holds(r) /\ task[r].pc = "reread"
  /\ task' = [task EXCEPT ![r].pc = "emit", ![r].epoch = data.org.epoch]
  /\ UNCHANGED <<up, ready, data, file, endpoint, lock, started, inbox, addrs, acked,
                 crashes>>

\* The record is read under the mutex and shown without it.
Reread(r) ==
  /\ Holds(r) /\ task[r].pc = "reread"
  /\ lock' = Tail(lock)
  /\ task' = [task EXCEPT ![r].pc = "emit", ![r].epoch = data.org.epoch]
  /\ UNCHANGED <<up, ready, data, file, endpoint, started, inbox, addrs, acked, crashes>>

Emit(r) ==
  /\ up /\ task[r].pc = "emit"
  /\ lock' = Append(lock, r)
  /\ task' = [task EXCEPT ![r] = Looping]
  /\ UNCHANGED <<up, ready, data, file, endpoint, started, inbox, addrs, acked, crashes>>

-----------------------------------------------------------------------------

CommandSteps(c) ==
  \/ CreatePersona(c) \/ CreateOrganisation(c) \/ ImportInvite(c)
  \/ ExportJoinRequest(c) \/ AdmitMember(c) \/ Query(c)
  \/ Refused(c)

LoopSteps(r) == ReceiveBegin(r) \/ ReceiveOne(r) \/ Reread(r) \/ Emit(r)

Saves(t) == SaveBegin(t) \/ SaveEnd(t) \/ SaveFails(t)

Next ==
  \/ Boot \/ Crash \/ Arrive
  \/ \E c \in Commands : Invoke(c) \/ CommandSteps(c)
  \/ \E r \in Loops : StartReceiver(r) \/ LoopSteps(r)
  \/ \E t \in Tasks : Saves(t)

\* The runtime polls every task that can go on.  Nothing is assumed of the user,
\* of peers or of the process.
Fairness ==
  /\ \A c \in Commands : WF_vars(CommandSteps(c) \/ Saves(c))
  /\ \A r \in Loops : WF_vars(LoopSteps(r) \/ Saves(r))

Spec == Init /\ [][Next]_vars /\ Fairness

-----------------------------------------------------------------------------
(* Properties.                                                             *)

\* The process, the store and the tasks have the shape of their types, and the
\* mutex is asked for at most once by every task.
TypeOK ==
  /\ up \in BOOLEAN /\ ready \in BOOLEAN /\ started \in BOOLEAN /\ inbox \in BOOLEAN
  /\ data \in StoreData /\ file \in File
  /\ endpoint \in 0 .. MaxPersonas
  /\ lock \in Seq(Tasks)
  /\ \A i, j \in DOMAIN lock : lock[i] = lock[j] => i = j
  /\ task \in [Tasks -> Task]
  /\ addrs \subseteq Personas
  /\ acked \subseteq Personas
  /\ crashes \in 0 .. MaxCrashes

\* A persona whose creation was reported is never silently lost: every process
\* that runs has it, however often the process ended, and so has the file unless
\* a save was cut short.  A torn file stops the app at its start instead of
\* letting it begin again with an empty store.
PersonasNeverSilentlyLost ==
  /\ up => \A p \in acked : p <= data.personas
  /\ file.state = "whole" => \A p \in acked : p <= file.data.personas
  /\ file.state = "absent" => acked = {}

\* Every waiting command runs between the commit of an update and the second
\* look at the record, yet the event tells of exactly the epoch that was
\* committed: no command of the app changes an organisation it has only joined,
\* and there is one receiver.
EventsReportTheRecord ==
  \A r \in Loops : task[r].pc = "emit" => task[r].epoch = task[r].committed

\* An address that export_join_request has handed out is the one the endpoint
\* listens on for as long as the process lives.
HandedOutAddressLive == addrs \subseteq {endpoint}

\* Every command returns, although the receiver holds the mutex while it waits
\* for a message, as long as messages, even invalid ones, keep coming in: the
\* mutex is handed over in the order it was asked for.
CommandsReturn ==
  ([]<>inbox) =>
    \A c \in Commands : [](task[c] # Idle => <>(task[c] = Idle))
=============================================================================
