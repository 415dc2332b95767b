------------------------------ MODULE MCStream ------------------------------
(***************************************************************************)
(* Small instances of what comes out of a connection: its bytes and ends   *)
(* (Stream) and the HTTP messages that arrive on it (HttpIncoming).  They  *)
(* share no state, so that each behaviour explores one of them: part.      *)
(***************************************************************************)
EXTENDS Stream, HttpIncoming

VARIABLE part

MCLowered == [p \in Pieces |-> IF p = "Upgrade" THEN "upgrade" ELSE p]

MCLiveInit == part = "stream" /\ StreamInit /\ IncomingInit

MCInit == MCLiveInit \/ (part = "messages" /\ StreamInit /\ IncomingInit)

MCNext ==
    /\ UNCHANGED part
    /\ \/ part = "stream" /\ StreamNext /\ UNCHANGED incomingVars
       \/ part = "messages" /\ IncomingNext /\ UNCHANGED allVars

MCSpec == MCInit /\ [][MCNext]_<<part, allVars, incomingVars>>

MCLiveSpec ==
    MCLiveInit /\ [][MCNext]_<<part, allVars, incomingVars>> /\ StreamFairness

=============================================================================
