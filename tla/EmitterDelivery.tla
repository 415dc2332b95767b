-------------------------- MODULE EmitterDelivery --------------------------
(***************************************************************************)
(* Emitter against its promises: the pointer level implements EventList,   *)
(* and, with a history of what every running emit() owes and has invoked,  *)
(* no listener is missed or invoked twice.                                 *)
(***************************************************************************)
EXTENDS Emitter

VARIABLES
    due,     \* for every running emit(): the listeners of its symbol that it
             \* found when it began, that are still there and not yet invoked
    called   \* for every running emit(): the listeners it invoked

deliveryVars == <<vars, due, called>>

DeliveryInit == Init /\ due = <<>> /\ called = <<>>

Begin(s) ==
    /\ Emit(s)
    /\ due' = Append(due, Listeners(s) \ {head[s]})
    /\ called' = Append(called, {head[s]})

Proceed ==
    /\ Return
    /\ LET d == Len(stack)
       IN  IF Len(stack') = d
           THEN /\ due' = [due EXCEPT ![d] = @ \ {stack'[d]}]
                /\ called' = [called EXCEPT ![d] = @ \cup {stack'[d]}]
           ELSE /\ due' = SubSeq(due, 1, d - 1)
                /\ called' = SubSeq(called, 1, d - 1)

Change ==
    /\ \/ \E s \in Symbols :
             \/ On(s)
             \/ \E h \in Handlers : Off(s, h)
             \/ RemoveAllListenersOf(s)
       \/ RemoveAllListeners
    /\ due' = [i \in DOMAIN due |-> due[i] \cap Linked']
    /\ UNCHANGED called

DeliveryNext == (\E s \in Symbols : Begin(s)) \/ Proceed \/ Change

DeliverySpec == DeliveryInit /\ [][DeliveryNext]_deliveryVars

-----------------------------------------------------------------------------

\* An emit() that ends leaves out none of the listeners it found when it
\* began and that stayed registered, unless the handler it ended with was
\* removed while it ran: nested emit(), on() and off() of other handlers
\* never cut it short.
NothingMissed ==
    [][Len(stack') < Len(stack) /\ Top \in Linked => due[Len(stack)] = {}]_deliveryVars

\* No emit() invokes a listener twice, however the list changes under it.
NothingTwice ==
    [][Len(stack') = Len(stack) /\ stack' # stack
          => stack'[Len(stack)] \notin called[Len(stack)]]_deliveryVars

\* What users see of emit() while they change the lists under it: nothing is
\* missed, repeated, or invoked after it was removed (emitter.h:137-166).
Delivery == NothingMissed /\ NothingTwice /\ RemovedIsNotInvoked

\* The handlers from p to the end of its list, in order
From[p \in Pointers] == IF p = Null THEN <<>> ELSE <<p>> \o From[next[p]]

\* The list of every symbol
Lists == [s \in Symbols |-> From[head[s]]]

\* The emitter implements the abstract sequences of handlers.
Abstract ==
    INSTANCE EventList WITH
        unused <- {h \in Handlers : heap[h] = "fresh"},
        lists <- Lists,
        calls <- stack

AbstractSpec == Abstract!Spec

=============================================================================
