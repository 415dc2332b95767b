------------------------------ MODULE MCHandle ------------------------------
(* Small instances of Handle. *)
EXTENDS Handle

=============================================================================
