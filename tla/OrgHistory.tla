----------------------------- MODULE OrgHistory -----------------------------
(***************************************************************************)
(* What the on-chain registry promises: each organisation has one linear,  *)
(* append-only history of (root, key) versions, and consecutive versions   *)
(* differ.  An epoch is a position in that history.                        *)
(***************************************************************************)
EXTENDS Integers, Sequences

CONSTANTS Admins, Versions

VARIABLE history   \* history[a]: the versions of the organisation of a

Init == history = [a \in Admins |-> <<>>]

Publish(a, v) ==
  /\ history[a] # <<>> => v # history[a][Len(history[a])]
  /\ history' = [history EXCEPT ![a] = Append(@, v)]

Next == \E a \in Admins, v \in Versions : Publish(a, v)

Spec == Init /\ [][Next]_history
=============================================================================
