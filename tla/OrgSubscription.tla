-------------------------- MODULE OrgSubscription --------------------------
(***************************************************************************)
(* OrgRegistryClient::subscribe (on-chain-client/src/client.rs): a best    *)
(* lane and a finalised lane over a chain that forks, rewinds and          *)
(* finalises while the client works.  Best heads are announced, not        *)
(* imported blocks: several changes of the best block may be announced as  *)
(* one.  The best lane fills the gap between two announced heads by        *)
(* looking up each height, one round trip at a time, on the chain that is  *)
(* best at that moment.                                                    *)
(***************************************************************************)
EXTENDS Integers, Sequences, FiniteSets

CONSTANTS
  Contents,    \* the possible contents of a block: sets of entries
  Filter,      \* admin_filter: the organisations watched
  MaxBlocks,   \* bound on the blocks imported after the genesis block
  MaxHeads,    \* bound on the best heads announced
  MaxFaults    \* bound on failed requests

\* What Revive::ContractEmitted carries.  sig is what parse_revive_event makes
\* of the payload: one of the two registry events, an event of another
\* signature, or bytes that do not decode.
Entry == [sig : {"Registry", "Other", "Malformed"}, admin : STRING]

ASSUME SubscriptionAssumption ==
  /\ \A c \in Contents : c \subseteq Entry
  /\ MaxBlocks \in Nat /\ MaxHeads \in Nat /\ MaxFaults \in Nat

VARIABLES
  blocks,     \* the block tree: blocks[b] for each hash b; 1 is the genesis
  best,       \* hash of the best block
  final,      \* hash of the last finalised block
  heads,      \* best heads announced to the subscription and not yet polled
  announced,  \* the last head announced
  notices,    \* number of heads announced
  phase,      \* where subscribe() is
  seed,       \* the finalised block read before subscribing
  last,       \* scan state: the last head processed
  work,       \* the ScanStep the best lane is working on, if any
  yielded,    \* items of the best lane, in order
  finalAt,    \* number of the last block of the finalised lane
  finalised,  \* blocks whose FinalisedEvents have been yielded
  failed,     \* heights for which an error was yielded
  faults,     \* number of failed requests
  forked      \* history: the best chain was ever left for another one

chain == <<blocks, best, final, forked>>
lane == <<heads, announced, notices, last, work, yielded>>
vars == <<blocks, best, final, heads, announced, notices, phase, seed, last,
          work, yielded, finalAt, finalised, failed, faults, forked>>

Hashes == DOMAIN blocks
Number(b) == blocks[b].number

\* The chain that ends in b: PathTo(b)[n + 1] is its block number n.
PathTo(b) ==
  LET back[k \in 0 .. Number(b)] ==
        IF k = 0 THEN b ELSE blocks[back[k - 1]].parent
  IN [n \in 1 .. Number(b) + 1 |-> back[Number(b) + 1 - n]]

Extends(b, a) == Number(a) <= Number(b) /\ PathTo(b)[Number(a) + 1] = a

Init ==
  /\ \E c \in Contents : blocks = <<[parent |-> 0, number |-> 0, emits |-> c]>>
  /\ best = 1 /\ final = 1 /\ forked = FALSE
  /\ heads = <<>> /\ announced = 1 /\ notices = 0
  /\ phase = "seed" /\ seed = 1 /\ last = 1
  /\ work = {} /\ yielded = <<>>
  /\ finalAt = 0 /\ finalised = {} /\ failed = {} /\ faults = 0

-----------------------------------------------------------------------------
(* The chain, as the client uses it.                                       *)

\* A block is imported on any branch that finality allows and becomes best.
Mine(parent, contents) ==
  /\ Len(blocks) <= MaxBlocks
  /\ Extends(parent, final)
  /\ blocks' = Append(blocks, [parent |-> parent, number |-> Number(parent) + 1,
                               emits |-> contents])
  /\ best' = Len(blocks) + 1
  /\ forked' = (forked \/ parent # best)
  /\ UNCHANGED <<final, lane, phase, seed, finalAt, finalised, failed, faults>>

\* The best block moves back, or to a block of another branch (dev_setHead).
SetHead(b) ==
  /\ b # best /\ Extends(b, final)
  /\ best' = b
  /\ forked' = TRUE
  /\ UNCHANGED <<blocks, final, lane, phase, seed, finalAt, finalised, failed, faults>>

Finalise(b) ==
  /\ b # final /\ Extends(b, final) /\ Extends(best, b)
  /\ final' = b
  /\ UNCHANGED <<blocks, best, forked, lane, phase, seed, finalAt, finalised,
                 failed, faults>>

\* The node pushes its best head; the heads since the last push are skipped.
Announce ==
  /\ phase \in {"finalised", "live"}
  /\ best # announced /\ notices < MaxHeads
  /\ heads' = Append(heads, best)
  /\ announced' = best
  /\ notices' = notices + 1
  /\ UNCHANGED <<chain, phase, seed, last, work, yielded, finalAt, finalised,
                 failed, faults>>

-----------------------------------------------------------------------------
(* subscribe(): three requests, then a stream that runs when it is polled. *)

\* at_current_block(), the latest finalised block.
ReadSeed ==
  /\ phase = "seed"
  /\ seed' = final /\ last' = final
  /\ phase' = "best"
  /\ UNCHANGED <<chain, heads, announced, notices, work, yielded, finalAt,
                 finalised, failed, faults>>

\* stream_best_blocks(): the current head is not replayed.
OpenBest ==
  /\ phase = "best"
  /\ announced' = best
  /\ phase' = "finalised"
  /\ UNCHANGED <<chain, heads, notices, seed, last, work, yielded, finalAt,
                 finalised, failed, faults>>

\* stream_blocks(): blocks finalised from now on.
OpenFinalised ==
  /\ phase = "finalised"
  /\ finalAt' = Number(final)
  /\ phase' = "live"
  /\ UNCHANGED <<chain, lane, seed, finalised, failed, faults>>

-----------------------------------------------------------------------------
(* The best lane.                                                          *)

\* The entries of a block that become events: signature and admin decide, the
\* address of the contract is not looked at.  A malformed entry yields an error
\* item and does not keep the others of its block from being read.
Matching(b) ==
  {e \in blocks[b].emits : e.sig = "Registry" /\ e.admin \in Filter}

BestItem(b) == [kind |-> "BestBlockEvent", at |-> b]
ReorgItem(b) == [kind |-> "Reorged", at |-> b]

\* The items a block contributes to the best lane.
ItemsOf(b) == IF Matching(b) = {} THEN <<>> ELSE <<BestItem(b)>>

\* Mutant: a jump over skipped heads counts as a reorganisation.
Reorged_AnyJump(prev, h) ==
  IF \/ Number(h) <= Number(prev)
     \/ blocks[h].parent # prev
  THEN {prev} ELSE {}

\* The block that head h shows to be discarded when prev was the last head.
Reorged(prev, h) ==
  IF \/ Number(h) <= Number(prev)
     \/ Number(h) = Number(prev) + 1 /\ blocks[h].parent # prev
  THEN {prev} ELSE {}

\* Mutant: a rewind is not told from an advance.
From_AlwaysNext(prev, h) == Number(prev) + 1

\* Mutant: the look-ups start at the last head instead of after it.
From_Repeats(prev, h) ==
  IF Number(h) > Number(prev) THEN Number(prev) ELSE Number(h)

\* The first height to look up for head h.
From(prev, h) ==
  IF Number(h) > Number(prev) THEN Number(prev) + 1 ELSE Number(h)

\* ScanStep::Block and the items collected for it so far, Reorged first.
Step(prev, h) ==
  [head |-> h, reorged |-> Reorged(prev, h), next |-> From(prev, h),
   to |-> Number(h),
   out |-> IF Reorged(prev, h) = {} THEN <<>> ELSE <<ReorgItem(prev)>>]

\* Mutant: the best lane runs before the finalised stream is open.
ScanHead_Eager ==
  /\ phase \in {"finalised", "live"} /\ work = {} /\ heads # <<>>
  /\ LET h == Head(heads)
     IN IF h = last
        THEN UNCHANGED <<last, work>>
        ELSE /\ last' = h
             /\ work' = {Step(last, h)}
  /\ heads' = Tail(heads)
  /\ UNCHANGED <<chain, announced, notices, phase, seed, yielded, finalAt,
                 finalised, failed, faults>>

\* The closure of scan(), run when the merged stream is polled.
ScanHead ==
  /\ phase = "live" /\ work = {} /\ heads # <<>>
  /\ LET h == Head(heads)
     IN IF h = last
        THEN UNCHANGED <<last, work>>
        ELSE /\ last' = h
             /\ work' = {Step(last, h)}
  /\ heads' = Tail(heads)
  /\ UNCHANGED <<chain, announced, notices, phase, seed, yielded, finalAt,
                 finalised, failed, faults>>

\* The subscription yields an error instead of a head; the scan state stays.
HeadFails ==
  /\ phase = "live" /\ work = {} /\ heads # <<>>
  /\ faults < MaxFaults /\ faults' = faults + 1
  /\ heads' = Tail(heads)
  /\ UNCHANGED <<chain, announced, notices, phase, seed, last, work, yielded,
                 finalAt, finalised, failed>>

\* events_in_best_block(number): the block is the one at that height of the
\* chain that is best now; past its end, or on a failed request, an error.
LookUp(w) ==
  /\ w.next <= w.to
  /\ \/ /\ w.next <= Number(best)
        /\ LET b == PathTo(best)[w.next + 1]
           IN work' = {[w EXCEPT !.next = @ + 1, !.out = @ \o ItemsOf(b)]}
        /\ UNCHANGED <<failed, faults>>
     \/ /\ w.next > Number(best)
        /\ work' = {[w EXCEPT !.next = @ + 1]}
        /\ failed' = failed \cup {w.next}
        /\ UNCHANGED faults
     \/ /\ faults < MaxFaults /\ faults' = faults + 1
        /\ work' = {[w EXCEPT !.next = @ + 1]}
        /\ failed' = failed \cup {w.next}
  /\ UNCHANGED <<chain, heads, announced, notices, phase, seed, last, yielded,
                 finalAt, finalised>>

\* The items of one head reach the consumer together.
Yield(w) ==
  /\ w.next > w.to
  /\ yielded' = yielded \o w.out
  /\ work' = {}
  /\ UNCHANGED <<chain, heads, announced, notices, phase, seed, last, finalAt,
                 finalised, failed, faults>>

-----------------------------------------------------------------------------
(* The finalised lane.                                                     *)

\* The next finalised block, decoded, or an error in its place.
PollFinalised ==
  /\ phase = "live" /\ finalAt < Number(final)
  /\ finalAt' = finalAt + 1
  /\ LET b == PathTo(final)[finalAt + 2]
     IN \/ /\ finalised' = IF Matching(b) = {} THEN finalised ELSE finalised \cup {b}
           /\ UNCHANGED <<failed, faults>>
        \/ /\ faults < MaxFaults /\ faults' = faults + 1
           /\ failed' = failed \cup {finalAt + 1}
           /\ UNCHANGED finalised
  /\ UNCHANGED <<chain, lane, phase, seed>>

Next ==
  \/ \E b \in Hashes, c \in Contents : Mine(b, c)
  \/ \E b \in Hashes : SetHead(b)
  \/ \E b \in Hashes : Finalise(b)
  \/ Announce
  \/ ReadSeed
  \/ OpenBest
  \/ OpenFinalised
  \/ ScanHead
  \/ HeadFails
  \/ \E w \in work : LookUp(w)
  \/ \E w \in work : Yield(w)
  \/ PollFinalised

Spec == Init /\ [][Next]_vars

-----------------------------------------------------------------------------
(* Properties.                                                             *)

Item == [kind : {"BestBlockEvent", "Reorged"}, at : Hashes]

\* The tree is a tree, the lanes hold hashes of it, and a look-up never leaves
\* the heights between the previous head and the new one.
TypeOK ==
  /\ \A b \in Hashes :
       /\ blocks[b].emits \in Contents
       /\ IF b = 1 THEN Number(b) = 0
          ELSE blocks[b].parent \in 1 .. b - 1
               /\ Number(b) = Number(blocks[b].parent) + 1
  /\ {best, final, announced, seed, last} \cup finalised \subseteq Hashes
  /\ heads \in Seq(Hashes) /\ notices \in 0 .. MaxHeads
  /\ phase \in {"seed", "best", "finalised", "live"}
  /\ Cardinality(work) <= 1
  /\ \A w \in work : w.head \in Hashes /\ w.reorged \subseteq Hashes
                     /\ w.next \in 0 .. w.to + 1 /\ w.to <= MaxBlocks
                     /\ w.out \in Seq(Item)
  /\ yielded \in Seq(Item)
  /\ finalAt \in 0 .. MaxBlocks /\ failed \subseteq 0 .. MaxBlocks
  /\ faults \in 0 .. MaxFaults /\ forked \in BOOLEAN

\* Reorged never names a block that the new head builds on; in particular never
\* the finalised block the scan starts from, whatever happened between reading
\* it and the first announced head.
NoFalseReorg == \A w \in work : \A d \in w.reorged : ~Extends(w.head, d)

\* Both lanes have nothing left to do.
Quiet ==
  /\ phase = "live" /\ heads = <<>> /\ work = {}
  /\ announced = best /\ last = best /\ finalAt = Number(final)

\* The lanes together lose nothing: once they have caught up, every registry
\* event in a finalised block above the seed has been yielded by one of them, or
\* an error was yielded for its height.  The blocks finalised while subscribe()
\* was still opening its streams reach the consumer through the best lane only.
NoEventLost ==
  Quiet =>
    \A n \in Number(seed) + 1 .. Number(final) :
      LET b == PathTo(final)[n + 1]
      IN Matching(b) # {} =>
           \/ b \in finalised
           \/ n \in failed
           \/ \E i \in DOMAIN yielded : yielded[i] = BestItem(b)

\* While the best chain only grows, the best lane yields exactly its blocks above
\* the seed that hold a watched event, in chain order, each once, with no gap
\* and no Reorged, however many heads were skipped; and it has yielded all of
\* them when it has caught up.
BestLaneExact ==
  (~forked /\ failed = {}) =>
    /\ \A i \in DOMAIN yielded :
         \E n \in Number(seed) + 1 .. Number(best) :
           LET b == PathTo(best)[n + 1]
           IN yielded[i] = BestItem(b) /\ Matching(b) # {}
    /\ \A i, j \in DOMAIN yielded :
         i < j => Number(yielded[i].at) < Number(yielded[j].at)
    /\ \A n \in Number(seed) + 1 .. Number(best) :
         LET b == PathTo(best)[n + 1]
         IN (/\ Matching(b) # {}
             /\ Quiet \/ \E i \in DOMAIN yielded : n <= Number(yielded[i].at))
            => \E i \in DOMAIN yielded : yielded[i] = BestItem(b)
=============================================================================
