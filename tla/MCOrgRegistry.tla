--------------------------- MODULE MCOrgRegistry ---------------------------
(* A small instance of OrgRegistry for TLC. *)
EXTENDS OrgRegistry, TLC

\* Accounts, roots and keys are only ever compared for equality.
Symmetry ==
  Permutations(Admins) \cup Permutations(Roots) \cup Permutations(PubKeys)
=============================================================================
