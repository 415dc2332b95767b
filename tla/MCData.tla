------------------------------- MODULE MCData -------------------------------
(***************************************************************************)
(* Small instances of the components that hold, frame and convert data.    *)
(* They share no state, so that each behaviour explores one of them: part. *)
(***************************************************************************)
EXTENDS Buffers, HttpOutgoing, Encodings, TLC

VARIABLE part

MCLogBelow == {<<243, 3>>, <<59049, 3>>, <<59049, 9>>}
MCSymmetry == Permutations(Blocks) \union Permutations(Mutables)

MCInit ==
    /\ part \in {"buffers", "outgoing", "encodings"}
    /\ Init /\ OutgoingInit /\ InputInit
    /\ part # "outgoing" => isChunked
    /\ part # "encodings" => align = 0

MCNext ==
    /\ UNCHANGED part
    /\ \/ part = "buffers" /\ Next /\ UNCHANGED <<outgoingVars, inputVars>>
       \/ part = "outgoing" /\ OutgoingNext /\ UNCHANGED <<vars, inputVars>>
       \/ part = "encodings" /\ InputNext /\ UNCHANGED <<vars, outgoingVars>>

MCSpec == MCInit /\ [][MCNext]_<<part, vars, outgoingVars, inputVars>>

=============================================================================
