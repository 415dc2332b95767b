------------------------------ MODULE Emitter ------------------------------
(***************************************************************************)
(* node::events::emitter (events/emitter.h, events/emitter.cc): a map from *)
(* symbols to intrusive, singly linked lists of heap allocated handlers.   *)
(* emit() walks the list with raw pointers while the handler it is running *)
(* may call every operation of the same emitter, emit() included, so the   *)
(* model keeps the pointers, the reference counts and the heap, and makes  *)
(* the C++ call stack of emit() loops a variable.                          *)
(*                                                                         *)
(* The emitter has no lock: it belongs to one thread, and whatever happens *)
(* happens between the call of a handler and its return.  A handler        *)
(* address is never reused here, which makes every access to a deleted     *)
(* handler visible.                                                        *)
(***************************************************************************)
EXTENDS Integers, FiniteSets, Sequences

CONSTANTS
    Handlers,    \* the addresses operator new may return
    Symbols,     \* the event symbols, the keys of the map
    Null,        \* nullptr
    DeleteFlag,  \* event_handler_base::delete_flag, the topmost bit
    MaxDepth     \* bound: how deep emit() may be nested

ASSUME HandlersAssumption == IsFiniteSet(Handlers) /\ Null \notin Handlers
ASSUME DepthAssumption == MaxDepth \in Nat /\ MaxDepth > 0
\* 2^63 handlers never run at the same time.
ASSUME DeleteFlagAssumption == DeleteFlag \in Nat /\ DeleteFlag > MaxDepth

VARIABLES
    roots,   \* the keys of emitter::_events
    head,    \* event_handler_root::head
    tail,    \* event_handler_root::tail
    next,    \* event_handler_base::next
    refs,    \* event_handler_base::ref_count
    heap,    \* whether a handler was allocated and deleted
    stack    \* the running emit() loops: the handler each of them invokes now

vars == <<roots, head, tail, next, refs, heap, stack>>

Pointers == Handlers \cup {Null}

TypeOK ==
    /\ roots \in SUBSET Symbols
    /\ head \in [Symbols -> Pointers]
    /\ tail \in [Symbols -> Pointers]
    /\ next \in [Handlers -> Pointers]
    /\ refs \in [Handlers -> Nat]
    /\ heap \in [Handlers -> {"fresh", "live", "deleted"}]
    /\ stack \in Seq(Handlers)
    /\ Len(stack) <= MaxDepth

Init ==
    /\ roots = {}
    /\ head = [s \in Symbols |-> Null]
    /\ tail = [s \in Symbols |-> Null]
    /\ next = [h \in Handlers |-> Null]
    /\ refs = [h \in Handlers |-> 0]
    /\ heap = [h \in Handlers |-> "fresh"]
    /\ stack = <<>>

-----------------------------------------------------------------------------
(* Walking a list *)

Closed(S) == \A h \in S : next[h] \in S \cup {Null}

\* The handlers the iterator visits from begin() to end(): the smallest set
\* that holds head and the successor of every member.
Listeners(s) ==
    {h \in Handlers :
        \A S \in SUBSET Handlers :
            Closed(S) /\ head[s] \in S \cup {Null} => h \in S}

\* iterator::_prev when the iterator stands at h.
IsPrev(s, p, h) == p \in Listeners(s) /\ next[p] = h

\* Mutant: delete a handler although emit() runs it.
UnlinkRunning(R) ==
    heap' = [h \in Handlers |-> IF h \in R THEN "deleted" ELSE heap[h]]

\* What becomes of the handlers R when they are unlinked: those no emit() is
\* running are deleted (their fields with them), the others lose their
\* successor, to "prevent emit() from advancing".
Unlink(R) ==
    heap' = [h \in Handlers |->
                IF h \in R /\ refs[h] = 0 THEN "deleted" ELSE heap[h]]

-----------------------------------------------------------------------------
(* The operations *)

\* Mutant: push_back() without moving tail
OnKeepsTail(s) ==
    \E h \in Handlers :
        /\ heap[h] = "fresh"
        /\ heap' = [heap EXCEPT ![h] = "live"]
        /\ roots' = roots \cup {s}
        /\ IF tail[s] # Null
           THEN next' = [next EXCEPT ![tail[s]] = h] /\ UNCHANGED <<head, tail>>
           ELSE /\ head' = [head EXCEPT ![s] = h]
                /\ tail' = [tail EXCEPT ![s] = h]
                /\ UNCHANGED next
        /\ UNCHANGED <<refs, stack>>

\* emitter::on() and event_handler_root::push_back()
On(s) ==
    \E h \in Handlers :
        /\ heap[h] = "fresh"
        /\ heap' = [heap EXCEPT ![h] = "live"]
        /\ roots' = roots \cup {s}
        /\ tail' = [tail EXCEPT ![s] = h]
        /\ \/ /\ tail[s] # Null
              /\ next' = [next EXCEPT ![tail[s]] = h]
              /\ UNCHANGED head
           \/ /\ tail[s] = Null
              /\ head' = [head EXCEPT ![s] = h]
              /\ UNCHANGED next
        /\ UNCHANGED <<refs, stack>>

\* Mutant of erase(): tail is not moved.
EraseKeepsTail(s, h) ==
    /\ next' = [k \in Handlers |->
                   IF k = h THEN Null
                   ELSE IF IsPrev(s, k, h) THEN next[h] ELSE next[k]]
    /\ head' = [head EXCEPT ![s] = IF @ = h THEN next[h] ELSE @]
    /\ UNCHANGED tail
    /\ Unlink({h})

\* event_handler_root::erase() for the iterator that stands at h
Erase(s, h) ==
    /\ \/ \E p \in Handlers :
             /\ IsPrev(s, p, h)
             /\ next' = [next EXCEPT ![p] = next[h], ![h] = Null]
             /\ tail' = [tail EXCEPT ![s] = IF next[h] = Null THEN p ELSE @]
             /\ UNCHANGED head
       \/ /\ h = head[s]
          /\ next' = [next EXCEPT ![h] = Null]
          /\ head' = [head EXCEPT ![s] = next[h]]
          /\ tail' = [tail EXCEPT ![s] = IF next[h] = Null THEN Null ELSE @]
    /\ Unlink({h})

\* emitter::off(): a handler that is not in the list is ignored, the last
\* one takes its map entry with it.
Off(s, h) ==
    /\ s \in roots
    /\ h \in Listeners(s)
    /\ Erase(s, h)
    /\ roots' = IF head'[s] = Null THEN roots \ {s} ELSE roots
    /\ UNCHANGED <<refs, stack>>

\* ~event_handler_root() of the roots in S
Clear(S) ==
    LET R == UNION {Listeners(s) : s \in S}
    IN  /\ roots' = roots \ S
        /\ head' = [s \in Symbols |-> IF s \in S THEN Null ELSE head[s]]
        /\ tail' = [s \in Symbols |-> IF s \in S THEN Null ELSE tail[s]]
        /\ next' = [h \in Handlers |-> IF h \in R THEN Null ELSE next[h]]
        /\ Unlink(R)
        /\ UNCHANGED <<refs, stack>>

\* emitter::removeAllListeners(symbol)
RemoveAllListenersOf(s) == s \in roots /\ Clear({s})

\* emitter::removeAllListeners()
RemoveAllListeners == roots # {} /\ Clear(roots)

\* emit() up to its first call of a handler
Emit(s) ==
    /\ Len(stack) < MaxDepth
    /\ s \in roots
    /\ head[s] # Null
    /\ stack' = Append(stack, head[s])
    /\ refs' = [refs EXCEPT ![head[s]] = @ + 1]
    /\ UNCHANGED <<roots, head, tail, next, heap>>

Top == stack[Len(stack)]
Callers == SubSeq(stack, 1, Len(stack) - 1)

\* Mutants of the loop in emit(): the last guard is not dropped; it ends at
\* a handler that another emit() runs too.
ReturnGuarded ==
    /\ stack # <<>>
    /\ LET n == next[Top]
       IN  \/ /\ n # Null
              /\ stack' = Append(Callers, n)
              /\ refs' = [refs EXCEPT ![Top] = @ - 1, ![n] = @ + 1]
           \/ /\ n = Null
              /\ stack' = Callers
              /\ UNCHANGED refs
    /\ UNCHANGED <<roots, head, tail, next, heap>>

ReturnNested ==
    /\ stack # <<>>
    /\ LET n == IF refs[Top] > 1 THEN Null ELSE next[Top]
           released == [refs EXCEPT ![Top] = @ - 1]
       IN  \/ /\ n # Null
              /\ stack' = Append(Callers, n)
              /\ refs' = [released EXCEPT ![n] = @ + 1]
           \/ /\ n = Null
              /\ stack' = Callers
              /\ refs' = released
    /\ UNCHANGED <<roots, head, tail, next, heap>>

\* The running handler returns to its emit(): advance, drop the guard and
\* invoke the next handler, or leave the loop.
Return ==
    /\ stack # <<>>
    /\ LET n == next[Top]
           released == [refs EXCEPT ![Top] = @ - 1]
       IN  /\ heap' = IF released[Top] = DeleteFlag
                      THEN [heap EXCEPT ![Top] = "deleted"] ELSE heap
           /\ \/ /\ n # Null
                 /\ stack' = Append(Callers, n)
                 /\ refs' = [released EXCEPT ![n] = @ + 1]
              \/ /\ n = Null
                 /\ stack' = Callers
                 /\ refs' = released
    /\ UNCHANGED <<roots, head, tail, next>>

Next ==
    \/ \E s \in Symbols :
          \/ On(s)
          \/ \E h \in Handlers : Off(s, h)
          \/ RemoveAllListenersOf(s)
          \/ Emit(s)
    \/ RemoveAllListeners
    \/ Return

Spec == Init /\ [][Next]_vars

-----------------------------------------------------------------------------
(* Safety *)

Invoked == {stack[i] : i \in DOMAIN stack}
Linked == UNION {Listeners(s) : s \in Symbols}

\* No emit() loop, list or successor pointer the code may still follow leads
\* to a deleted handler, whatever the handlers removed while they ran
\* (emit() and erase() touch *rit, *_prev and *tail without a check).
NoUseAfterFree ==
    /\ \A h \in Invoked : heap[h] = "live"
    /\ \A h \in Handlers :
          heap[h] = "live" /\ next[h] # Null => heap[next[h]] = "live"
    /\ \A s \in Symbols :
          /\ head[s] # Null => heap[head[s]] = "live"
          /\ tail[s] # Null => heap[tail[s]] = "live"

\* The guard emit() puts on a handler counts the emit() loops that stand at
\* it: erase() may delete a handler exactly when the count is zero.
RefCountExact ==
    \A h \in Handlers :
        refs[h] = Cardinality({i \in DOMAIN stack : stack[i] = h})

\* has_listener() looks for the map entry only, so a root must be in the map
\* exactly as long as its list has a handler.
HasListenerExact ==
    \A s \in Symbols : s \in roots <=> Listeners(s) # {}

\* The lists stay lists: tail is the one handler of its list without
\* a successor (push_back() would lose or overwrite handlers otherwise) and
\* no handler is in two of them.
ListsWellFormed ==
    /\ \A s \in Symbols :
          {h \in Listeners(s) : next[h] = Null} = {tail[s]} \ {Null}
    /\ \A s, t \in Symbols : s # t => Listeners(s) \cap Listeners(t) = {}

\* The map, the lists and the guards keep their shape through any re-entrant
\* sequence of on(), off(), removeAllListeners() and emit() (emitter.cc:20-103).
WellFormed == TypeOK /\ HasListenerExact /\ ListsWellFormed

\* A handler that off() or removeAllListeners() removed is never invoked
\* again, not even by an emit() that was already on its way to it.
RemovedIsNotInvoked ==
    [][\A h \in Handlers :
          refs'[h] > refs[h] => h \in Linked]_vars

\* "Delete the handler if it has been marked and we're the last emit() in
\* the callstack to use it": a handler that was removed while it ran does
\* not outlive the emit() loops that ran it.
RemovedIsDeleted ==
    \A h \in Handlers : heap[h] = "live" => h \in Linked \cup Invoked

=============================================================================
