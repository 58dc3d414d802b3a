------------------------- MODULE MCOrgSubscription -------------------------
(* A small instance of OrgSubscription for TLC. *)
EXTENDS OrgSubscription

\* Every block carries a registry event of a watched organisation, next to an
\* event of one that is not watched, one of another contract's and one that
\* does not decode.
MCContents == {{[sig |-> "Registry", admin |-> "a"],
                [sig |-> "Registry", admin |-> "b"],
                [sig |-> "Other", admin |-> "a"],
                [sig |-> "Malformed", admin |-> "a"]}}
=============================================================================
