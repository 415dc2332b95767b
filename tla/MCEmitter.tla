----------------------------- MODULE MCEmitter -----------------------------
(* Small instances of EmitterDelivery. *)
EXTENDS EmitterDelivery, TLC

Symmetry == Permutations(Handlers) \cup Permutations(Symbols)

=============================================================================
