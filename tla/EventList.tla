----------------------------- MODULE EventList -----------------------------
(***************************************************************************)
(* What an emitter promises to its users, without pointers, guards and     *)
(* memory: one sequence of handlers per symbol, and emit() as a loop that  *)
(* invokes the handlers of a sequence in the order they were added.        *)
(* Handlers may be added and removed while the loop runs: it looks for the *)
(* successor of the handler it invoked when that handler returns, and ends *)
(* early when that handler was removed while it ran.                       *)
(***************************************************************************)
EXTENDS Naturals, Sequences, SequencesExt

CONSTANTS Handlers, Symbols

VARIABLES
    unused,  \* the handlers nobody registered so far
    lists,   \* the handlers of every symbol, in the order they were added
    calls    \* the handlers that are being invoked, the innermost one last

vars == <<unused, lists, calls>>

Init ==
    /\ unused = Handlers
    /\ lists = [s \in Symbols |-> <<>>]
    /\ calls = <<>>

Add(s) ==
    \E h \in unused :
        /\ unused' = unused \ {h}
        /\ lists' = [lists EXCEPT ![s] = Append(@, h)]
        /\ UNCHANGED calls

Withdraw(s, h) ==
    /\ \E i \in DOMAIN lists[s] :
          lists[s][i] = h /\ lists' = [lists EXCEPT ![s] = RemoveAt(@, i)]
    /\ UNCHANGED <<unused, calls>>

RemoveAll(S) ==
    /\ lists' = [s \in Symbols |-> IF s \in S THEN <<>> ELSE lists[s]]
    /\ UNCHANGED <<unused, calls>>

Call(s) ==
    /\ lists[s] # <<>>
    /\ calls' = Append(calls, Head(lists[s]))
    /\ UNCHANGED <<unused, lists>>

Successors(h) ==
    UNION {{lists[s][i + 1] :
              i \in {j \in 1 .. Len(lists[s]) - 1 : lists[s][j] = h}} :
           s \in Symbols}

Done ==
    /\ calls # <<>>
    /\ LET depth == Len(calls)
           callers == SubSeq(calls, 1, depth - 1)
       IN  \/ \E h \in Successors(calls[depth]) : calls' = Append(callers, h)
           \/ Successors(calls[depth]) = {} /\ calls' = callers
    /\ UNCHANGED <<unused, lists>>

Next ==
    \/ \E s \in Symbols :
          \/ Add(s)
          \/ \E h \in Handlers : Withdraw(s, h)
          \/ Call(s)
    \/ \E S \in SUBSET Symbols : RemoveAll(S)
    \/ Done

Spec == Init /\ [][Next]_vars

=============================================================================
