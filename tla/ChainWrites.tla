----------------------------- MODULE ChainWrites -----------------------------
(***************************************************************************)
(* SubxtChainOps: the calls by which an administrator writes to the chain. *)
(* genesis_ceremony, submit_update and rotate are programs of several      *)
(* extrinsics; after each one settle() waits for a finalised block or for  *)
(* its timeout, and nothing ever looks at the result of a dispatch.        *)
(*                                                                         *)
(* Several administrators use the chain at once, each with a threshold-1   *)
(* multisig of its own, written as the administrator itself, among other   *)
(* users of the proxy pallet.  The pure proxy of a creation is the pair of *)
(* its creator and a serial number, and org_id = h160_of(P) is P.          *)
(***************************************************************************)
EXTENDS Integers, Sequences, FiniteSets, Functions

CONSTANTS
  Admins,     \* accounts that run this program
  Strangers,  \* other accounts that create pure proxies
  Stalls,     \* whether a settle may time out before a block is finalised
  MaxCalls,   \* MaxCalls[a]: bound on the calls, or the proxies, of a
  MaxFaults   \* bound on RPC errors, restarts and failing dispatches

Accounts == Admins \cup Strangers

ASSUME BoundsAssumption ==
  /\ Admins \cap Strangers = {}
  /\ Stalls \in BOOLEAN
  /\ MaxCalls \in [Accounts -> 1 .. 9] /\ MaxFaults \in Nat

VARIABLES
  pool,      \* pool[a]: extrinsics of a not yet executed, in nonce order
  open,      \* PureCreated events of the block after the finalised head
  head,      \* PureCreated events of the finalised head
  pures,     \* the pure proxies created so far
  control,   \* control[p]: the accounts that are proxies of p
  funded,    \* accounts that hold a balance
  mapped,    \* accounts in pallet-revive's AddressMapper
  slot,      \* slot[p]: the contract's slot of p
  failed,    \* the extrinsics that were executed and changed nothing
  job,       \* job[a]: the chain call of a in progress
  fresh,     \* fresh[a]: a's settle() sees another head than its pre_hash
  record,    \* record[a]: what a saved about its organisation
  calls,     \* calls[a]: number of chain calls of a so far
  faults     \* number of faults so far

chainVars == <<pool, open, head, pures, control, funded, mapped,
               slot, failed>>
vars == <<chainVars, job, fresh, record, calls, faults>>

Proxies == UNION {{a} \X (1 .. MaxCalls[a]) : a \in Accounts}
NoProxy == <<>>

Root == UNION {{a} \X (1 .. MaxCalls[a]) : a \in Admins}   \* one per call
Slot == [root : Root \cup {<<>>}, epoch : Nat]
Record == [p : Proxies \cup {NoProxy}, root : Root \cup {<<>>}, epoch : Nat]

NoOrg == [p |-> NoProxy, root |-> <<>>, epoch |-> 0]

\* Mutant: the genesis update goes out before map_account.
Program_UpdateFirst(op) ==
  CASE op = "genesis" -> <<"create_pure", "fund", "update", "map_account">>
    [] op = "update"  -> <<"update">>
    [] op = "rotate"  -> <<"add_proxy", "remove_proxy">>

\* Mutant: the old controller is removed first.
Program_RemoveFirst(op) ==
  CASE op = "genesis" -> <<"create_pure", "fund", "map_account", "update">>
    [] op = "update"  -> <<"update">>
    [] op = "rotate"  -> <<"remove_proxy", "add_proxy">>

\* The extrinsics of genesis_ceremony, of submit_update and of rotate.
Program(op) ==
  CASE op = "genesis" -> <<"create_pure", "fund", "map_account", "update">>
    [] op = "update"  -> <<"update">>
    [] op = "rotate"  -> <<"add_proxy", "remove_proxy">>

Operations == {"genesis", "update", "rotate"}
Kinds == UNION {Range(Program(op)) : op \in Operations}

Extrinsic == [kind : Kinds, by : Admins, p : Proxies \cup {NoProxy},
              to : Accounts, root : Root \cup {<<>>}, epoch : Nat]

\* A call in progress: the arguments, the extrinsic it is at, and whether it is
\* about to submit it, to take settle()'s snapshot or to poll.
Job == [op : Operations \cup {"none"}, step : 1 .. 4,
        phase : {"submit", "snapshot", "poll"},
        p : Proxies \cup {NoProxy}, to : Accounts,
        root : Root \cup {<<>>}, epoch : Nat]

NoJob(a) == [op |-> "none", step |-> 1, phase |-> "submit", p |-> NoProxy,
             to |-> a, root |-> <<>>, epoch |-> 0]

Init ==
  /\ pool = [a \in Admins |-> <<>>]
  /\ open = <<>> /\ head = <<>>
  /\ control = [p \in Proxies |-> {}]
  /\ pures = {} /\ funded = {} /\ mapped = {} /\ failed = {}
  /\ slot = [p \in Proxies |-> [root |-> <<>>, epoch |-> 0]]
  /\ job = [a \in Admins |-> NoJob(a)]
  /\ fresh = [a \in Admins |-> FALSE]
  /\ record = [a \in Admins |-> NoOrg]
  /\ calls = [a \in Admins |-> 0]
  /\ faults = 0

Fault == faults < MaxFaults /\ faults' = faults + 1

Kind(a) == Program(job[a].op)[job[a].step]

-----------------------------------------------------------------------------
(* The chain, from how the ceremony uses it.                               *)

\* A proxied call runs as p only when its signer is one of p's proxies.
Proxied(x) == x.p # NoProxy /\ x.by \in control[x.p]

\* The conditions under which the dispatch of x has its effect.
Dispatches(x) ==
  CASE x.kind \in {"create_pure", "fund"} -> TRUE
    [] x.kind = "map_account"  -> Proxied(x) /\ x.p \in funded \ mapped
    [] x.kind = "update"       -> /\ Proxied(x) /\ x.p \in mapped
                                  /\ x.epoch = slot[x.p].epoch
                                  /\ x.root # slot[x.p].root
    [] x.kind = "add_proxy"    -> Proxied(x) /\ x.to \notin control[x.p]
    [] x.kind = "remove_proxy" -> Proxied(x) /\ x.to \in control[x.p]

NextPure(a) == <<a, 1 + Cardinality({p \in pures : p[1] = a})>>

Effect(x) ==
  LET pure == NextPure(x.by)
      creates == x.kind = "create_pure"
  IN /\ open' = IF creates THEN Append(open, pure) ELSE open
     /\ pures' = IF creates THEN pures \cup {pure} ELSE pures
     /\ control' =
          CASE creates                 -> [control EXCEPT ![pure] = {x.by}]
            [] x.kind = "add_proxy"    -> [control EXCEPT ![x.p] = @ \cup {x.to}]
            [] x.kind = "remove_proxy" -> [control EXCEPT ![x.p] = @ \ {x.to}]
            [] OTHER                   -> control
     /\ funded' = IF x.kind = "fund" THEN funded \cup {x.p} ELSE funded
     /\ mapped' = IF x.kind = "map_account" THEN mapped \cup {x.p} ELSE mapped
     /\ slot' = IF x.kind = "update"
                THEN [slot EXCEPT ![x.p] = [root |-> x.root, epoch |-> @.epoch + 1]]
                ELSE slot

\* A block executes a's next extrinsic.  Its dispatch may also fail for a reason
\* of its own (weight, deposit, balance); nobody is told.
ExecuteExtrinsic(a) ==
  /\ pool[a] # <<>>
  /\ pool' = [pool EXCEPT ![a] = Tail(@)]
  /\ LET x == Head(pool[a])
     IN \/ /\ Dispatches(x) /\ Effect(x)
           /\ UNCHANGED <<failed, faults>>
        \/ /\ \/ ~Dispatches(x) /\ UNCHANGED faults
              \/ Dispatches(x) /\ Fault
           /\ failed' = failed \cup {x}
           /\ UNCHANGED <<open, pures, control, funded, mapped, slot>>
  /\ UNCHANGED <<head, job, fresh, record, calls>>

\* Another user of the chain creates a pure proxy.
StrangerCreates(s) ==
  /\ NextPure(s) \in Proxies
  /\ open' = Append(open, NextPure(s))
  /\ pures' = pures \cup {NextPure(s)}
  /\ control' = [control EXCEPT ![NextPure(s)] = {s}]
  /\ UNCHANGED <<pool, head, funded, mapped, slot, failed, job, fresh, record,
                 calls, faults>>

FinaliseBlock ==
  /\ head' = open
  /\ open' = <<>>
  /\ fresh' = [a \in Admins |-> job[a].phase = "poll"]
  /\ UNCHANGED <<pool, pures, control, funded, mapped, slot, failed, job, record,
                 calls, faults>>

-----------------------------------------------------------------------------
(* The calls.                                                              *)

Start(a, op, p, to, epoch) ==
  /\ job[a].op = "none"
  /\ calls[a] < MaxCalls[a]
  /\ calls' = [calls EXCEPT ![a] = @ + 1]
  /\ job' = [job EXCEPT ![a] =
               [op |-> op, step |-> 1, phase |-> "submit", p |-> p, to |-> to,
                root |-> <<a, calls[a] + 1>>, epoch |-> epoch]]
  /\ UNCHANGED <<chainVars, fresh, record, faults>>

\* create_organisation, and its retry after an error.
SubmitGenesis(a) == record[a] = NoOrg /\ Start(a, "genesis", NoProxy, a, 0)

\* admit_member and revoke_member, with the saved proxy_account and epoch.
SubmitUpdate(a) ==
  record[a] # NoOrg /\ Start(a, "update", record[a].p, a, record[a].epoch)

Rotate(a, new) ==
  record[a] # NoOrg /\ Start(a, "rotate", record[a].p, new, record[a].epoch)

\* The extrinsic a's call is at.
NextExtrinsic(a) ==
  [kind |-> Kind(a), by |-> a, p |-> job[a].p, root |-> job[a].root,
   epoch |-> job[a].epoch,
   to |-> IF Kind(a) = "add_proxy" THEN job[a].to ELSE a]

Fails(a) == job' = [job EXCEPT ![a] = NoJob(a)]

\* dispatch_threshold_1 and fund: the pool accepts the extrinsic, or the call
\* returns an error, in which case the extrinsic may still have reached the pool.
Submit(a) ==
  /\ job[a].op # "none" /\ job[a].phase = "submit"
  /\ \/ /\ pool' = [pool EXCEPT ![a] = Append(@, NextExtrinsic(a))]
        /\ job' = [job EXCEPT ![a].phase = "snapshot"]
        /\ UNCHANGED faults
     \/ /\ Fault /\ Fails(a)
        /\ pool' \in {pool, [pool EXCEPT ![a] = Append(@, NextExtrinsic(a))]}
  /\ UNCHANGED <<open, head, pures, control, funded, mapped, slot, failed, fresh,
                 record, calls>>

\* settle() reads pre_hash, after the extrinsic was submitted.
Snapshot(a) ==
  /\ job[a].op # "none" /\ job[a].phase = "snapshot"
  /\ \/ job' = [job EXCEPT ![a].phase = "poll"] /\ UNCHANGED faults
     \/ Fault /\ Fails(a)
  /\ UNCHANGED <<chainVars, fresh, record, calls>>

\* Mutant: settle() has no timeout.
Settled_NoTimeout(a) == fresh[a]

\* settle() returns the finalised head: a new one, or the old one on timeout.
Settled(a) == fresh[a] \/ Stalls

\* The account in the first PureCreated event of a block.
PureOf(events) == Head(events)

\* Mutant: a missing event is not an error.
Continue_NoEvent(a) ==
  LET p == IF head = <<>> THEN NoProxy ELSE PureOf(head)
  IN job' = [job EXCEPT ![a].step = @ + 1, ![a].phase = "submit",
                        ![a].p = IF Kind(a) = "create_pure" THEN p ELSE @]

\* Mutant: the event is read from the best block, which is not finalised.
Continue_BestBlock(a) ==
  LET next == [job[a] EXCEPT !.step = @ + 1, !.phase = "submit"]
  IN IF Kind(a) # "create_pure" THEN job' = [job EXCEPT ![a] = next]
     ELSE IF open = <<>> THEN Fails(a)
     ELSE job' = [job EXCEPT ![a] = [next EXCEPT !.p = PureOf(open)]]

\* On to the next extrinsic.  After create_pure the call takes the first
\* PureCreated event of the block that settle() returned, or ends with
\* EventNotFound.
Continue(a) ==
  LET next == [job[a] EXCEPT !.step = @ + 1, !.phase = "submit"]
  IN IF Kind(a) # "create_pure" THEN job' = [job EXCEPT ![a] = next]
     ELSE IF head = <<>> THEN Fails(a)
     ELSE job' = [job EXCEPT ![a] = [next EXCEPT !.p = PureOf(head)]]

\* The call returns Ok: the service saves the proxy account, the submitted root
\* and the next epoch, none of which it read from the chain.
Return(a) ==
  /\ record' = [record EXCEPT ![a] =
                  IF job[a].op = "rotate" THEN @
                  ELSE [p |-> job[a].p, root |-> job[a].root,
                        epoch |-> job[a].epoch + 1]]
  /\ Fails(a)

Poll(a) ==
  LET last == job[a].step = Len(Program(job[a].op))
  IN /\ job[a].op # "none" /\ job[a].phase = "poll"
     /\ \/ /\ Settled(a)
           /\ \/ ~last /\ Continue(a) /\ UNCHANGED record
              \/ last /\ Return(a)
           /\ UNCHANGED faults
        \/ Fault /\ Fails(a) /\ UNCHANGED record
     /\ fresh' = [fresh EXCEPT ![a] = FALSE]
     /\ UNCHANGED <<chainVars, calls>>

\* The process ends in the middle of a call; what was saved is read again.
Restart(a) ==
  /\ job[a].op # "none"
  /\ Fault
  /\ Fails(a)
  /\ fresh' = [fresh EXCEPT ![a] = FALSE]
  /\ UNCHANGED <<chainVars, record, calls>>

-----------------------------------------------------------------------------

Steps(a) == Submit(a) \/ Snapshot(a) \/ Poll(a)

Next ==
  \/ \E a \in Admins :
       \/ SubmitGenesis(a) \/ SubmitUpdate(a)
       \/ \E new \in Accounts : Rotate(a, new)
       \/ Steps(a)
       \/ Restart(a)
       \/ ExecuteExtrinsic(a)
  \/ \E s \in Strangers : StrangerCreates(s)
  \/ FinaliseBlock

\* The runtime goes on with a call that can go on.  Nothing is assumed of the
\* chain: it may stop producing blocks.
Fairness == \A a \in Admins : WF_vars(Steps(a))

Spec == Init /\ [][Next]_vars /\ Fairness

-----------------------------------------------------------------------------
(* Properties.                                                             *)

\* The chain, the calls and the records have the shape of their types, and a call
\* that is past create_pure has an account to act for.
TypeOK ==
  /\ pool \in [Admins -> Seq(Extrinsic)]
  /\ open \in Seq(Proxies) /\ head \in Seq(Proxies)
  /\ control \in [Proxies -> SUBSET Accounts]
  /\ pures \subseteq Proxies /\ funded \subseteq Proxies /\ mapped \subseteq Proxies
  /\ failed \subseteq Extrinsic
  /\ slot \in [Proxies -> Slot]
  /\ job \in [Admins -> Job]
  /\ \A a \in Admins : job[a].op # "none" =>
                       (Kind(a) # "create_pure" <=> job[a].p # NoProxy)
  /\ fresh \in [Admins -> BOOLEAN]
  /\ record \in [Admins -> Record]
  /\ calls \in [Admins -> Nat] /\ faults \in 0 .. MaxFaults

\* settle() may return before the extrinsic it waits for was executed, or after a
\* timeout, and the call goes on.  For an administrator that controls the account
\* it took for its organisation, and that nobody else took for his, this costs
\* nothing but time: the extrinsics of an account run in the order they were
\* sent, so once they have all run, and no RPC call or dispatch failed for a
\* reason of its own, the contract's slot is not behind what create_organisation
\* and the later calls saved, and at the same epoch it holds the saved root.
DrainedMeansAnchored ==
  \A a \in Admins :
    LET r == record[a]
    IN /\ faults = 0 /\ pool[a] = <<>>
       /\ r # NoOrg /\ a \in control[r.p]
       /\ \A b \in Admins \ {a} : r.p \notin {record[b].p, job[b].p}
       => /\ slot[r.p].epoch >= r.epoch
          /\ slot[r.p].epoch = r.epoch => slot[r.p].root = r.root

\* rotate adds the new controller before it removes the old one, and gives up
\* when the first extrinsic cannot be sent: an organisation's account is left
\* without any controller only when an add_proxy failed on chain unnoticed.
ControlKept ==
  \A p \in pures :
    control[p] = {} => \E x \in failed : x.kind = "add_proxy" /\ x.p = p

\* Money and contract calls only ever go to an account that exists, in a block
\* that is finalised: a creation whose event was not found ends the ceremony.
OnlyCreatedProxiesUsed ==
  \A a \in Admins :
    \A x \in Range(pool[a]) \cup failed :
      x.kind # "create_pure" => x.p \in pures \ Range(open)

\* A chain call returns, with or without an error, even when the chain has
\* stopped producing blocks.
CallsReturn == \A a \in Admins : job[a].op # "none" ~> job[a].op = "none"

\* FinalitySink's correctness note: the first new finalised block is guaranteed
\* to be the block that included (or post-dates) the extrinsic, so the event
\* query finds the event of this ceremony's create_pure.
EventQueryFinds ==
  \A a \in Admins :
    job[a].op # "none" /\ Kind(a) = "create_pure" /\ job[a].phase = "poll" /\ fresh[a]
      => head # <<>> /\ Head(head)[1] = a
=============================================================================
