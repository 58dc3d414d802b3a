---------------------------- MODULE MCChainWrites ----------------------------
(* One administrator, among other users of the proxy pallet.               *)
EXTENDS ChainWrites, TLC

CONSTANTS a1, s1

MCMaxCalls == a1 :> 3 @@ s1 :> 1
=============================================================================
