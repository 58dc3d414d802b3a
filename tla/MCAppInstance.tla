--------------------------- MODULE MCAppInstance ---------------------------
(* One app with two commands in flight. *)
EXTENDS AppInstance
=============================================================================
