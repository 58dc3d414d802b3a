---------------------------- MODULE MCOrgService ----------------------------
(* Small instances of OrgService for TLC. *)
EXTENDS OrgService
=============================================================================
