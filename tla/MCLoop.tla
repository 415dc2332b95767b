------------------------------- MODULE MCLoop -------------------------------
(***************************************************************************)
(* Small instances of what the async handles of a loop wake up: channels   *)
(* (AsyncChannel) and callbacks for the next tick (LoopTick).  They share  *)
(* no state, so that each behaviour explores one of them: part.            *)
(***************************************************************************)
EXTENDS AsyncChannel, LoopTick

VARIABLE part

MCInit == part \in {"channel", "ticks"} /\ ChannelInit /\ Init

MCNext ==
    /\ UNCHANGED part
    /\ \/ part = "channel" /\ ChannelNext /\ UNCHANGED vars
       \/ part = "ticks" /\ Next /\ UNCHANGED asyncVars

MCSpec ==
    /\ MCInit /\ [][MCNext]_<<part, asyncVars, vars>>
    /\ ChannelFairness /\ Fairness

=============================================================================
