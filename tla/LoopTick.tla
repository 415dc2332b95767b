------------------------------ MODULE LoopTick ------------------------------
(***************************************************************************)
(* node::loop (loop.h, loop.cc): next_tick() puts a callback into a vector *)
(* and signals an async handle, uv_run() calls _on_async(), which walks    *)
(* the vector and clears it.  A callback may call next_tick() and stop()   *)
(* of its own loop: the vector then changes while it is walked, or the     *)
(* walk ends early.  The async handle does not keep the loop alive.        *)
(*                                                                         *)
(* A loop belongs to one thread.  An iterator is the index it stands at    *)
(* and whether the buffer it points into is still the vector's.            *)
(***************************************************************************)
EXTENDS Integers, Sequences

CONSTANT
    Callbacks    \* bound: the callbacks next_tick() is called with, once each

VARIABLES
    tick_callbacks,  \* loop::_tick_callbacks
    capacity,        \* its capacity
    cursor,          \* _on_async(): the callback it runs...
    last,            \* ...the last one when it took end()...
    valid,           \* ...and whether its iterators are still valid
    tick_async,      \* loop::_tick_async: "open", "closing" or "closed"
    pending,         \* libuv: uv_async_send() was called and has not fired
    stop_flag,       \* uv_loop_t::stop_flag
    keeper,          \* libuv: whether another active handle needs the loop
    mode,            \* libuv: what uv_run() was called with
    phase,           \* what the thread of the loop does
    calls,           \* history: the callbacks next_tick() was called with
    nested,          \* history: those of them a tick callback called it with
    ran,             \* history: the callbacks _on_async() called
    stopped          \* history: whether stop() was ever called

vector == <<tick_callbacks, capacity>>
walk == <<cursor, last, valid>>
uv == <<tick_async, pending, stop_flag, keeper, mode>>
history == <<calls, nested, ran, stopped>>
vars == <<vector, walk, uv, phase, history>>

Elements(s) == {s[i] : i \in DOMAIN s}

TypeOK ==
    /\ tick_callbacks \in Seq(Callbacks)
    /\ capacity \in Nat /\ Len(tick_callbacks) <= capacity
    /\ cursor \in Nat /\ last \in Nat
    /\ valid \in BOOLEAN /\ pending \in BOOLEAN
    /\ stop_flag \in BOOLEAN /\ keeper \in BOOLEAN
    /\ tick_async \in {"open", "closing", "closed"}
    /\ mode \in {"default", "once"}
    /\ phase \in {"outside", "iteration", "tick", "destroyed", "terminated"}
    /\ calls \in Seq(Callbacks) /\ ran \in Seq(Callbacks)
    /\ nested \in SUBSET Callbacks /\ stopped \in BOOLEAN

Init ==
    /\ tick_callbacks = <<>> /\ capacity = 0
    /\ cursor = 0 /\ last = 0 /\ valid = FALSE
    /\ tick_async = "open" /\ pending = FALSE
    /\ stop_flag = FALSE /\ keeper = FALSE /\ mode = "default"
    /\ phase = "outside"
    /\ calls = <<>> /\ nested = {} /\ ran = <<>> /\ stopped = FALSE

\* User code runs: outside of run(), in some callback of the loop, in a tick.
UserCode == phase \in {"outside", "iteration", "tick"}

-----------------------------------------------------------------------------
(* Operations of the user *)

\* Mutant: next_tick() signals only for the first callback it ever gets.
NextTickSignalsOnce(c) ==
    /\ UserCode
    /\ c \notin Elements(calls)
    /\ tick_callbacks' = Append(tick_callbacks, c)
    /\ calls' = Append(calls, c)
    /\ capacity' = capacity + 1
    /\ pending' = (pending \/ calls = <<>>)
    /\ UNCHANGED <<walk, tick_async, stop_flag, keeper, mode, phase, nested, ran,
                   stopped>>

\* next_tick(): emplace_back() moves the callbacks to a buffer of twice the
\* size when the vector is full, and every iterator is invalid from then on.
NextTick(c) ==
    /\ UserCode
    /\ c \notin Elements(calls)
    /\ tick_callbacks' = Append(tick_callbacks, c)
    /\ \/ /\ Len(tick_callbacks) < capacity
          /\ UNCHANGED <<capacity, valid>>
       \/ /\ Len(tick_callbacks) = capacity
          /\ capacity' = IF capacity = 0 THEN 1 ELSE 2 * capacity
          /\ valid' = FALSE
    /\ pending' = (pending \/ tick_async = "open")
    /\ calls' = Append(calls, c)
    /\ nested' = IF phase = "tick" THEN nested \cup {c} ELSE nested
    /\ UNCHANGED <<cursor, last, tick_async, stop_flag, keeper, mode, phase, ran,
                   stopped>>

\* stop(): uv_run() returns after the current iteration.
Stop ==
    /\ UserCode
    /\ stop_flag' = TRUE
    /\ stopped' = TRUE
    /\ UNCHANGED <<vector, walk, tick_async, pending, keeper, mode, phase, calls, nested, ran>>

\* Another handle of the loop becomes active or is closed.
Keep ==
    /\ UserCode
    /\ keeper' = ~keeper
    /\ UNCHANGED <<vector, walk, tick_async, pending, stop_flag, mode, phase, history>>

\* run(), run_once() and run_nowait(): uv_run() returns at once from a loop
\* that is not alive or was stopped before.
Run(m) ==
    /\ phase = "outside"
    /\ mode' = m
    /\ \/ /\ keeper /\ ~stop_flag
          /\ phase' = "iteration"
          /\ UNCHANGED stop_flag
       \/ /\ ~keeper \/ stop_flag
          /\ stop_flag' = FALSE
          /\ UNCHANGED phase
    /\ UNCHANGED <<vector, walk, tick_async, pending, keeper, history>>

\* Mutant: ~loop() without run()
DestroyAtOnce ==
    /\ phase = "outside"
    /\ tick_async' = "closing"
    /\ phase' = "terminated"
    /\ UNCHANGED <<vector, walk, pending, stop_flag, keeper, mode, history>>

\* ~loop(): close the async handle and run() once more.  Of a stopped loop
\* uv_run() returns at once, uv_loop_close() finds the handle and check()
\* throws out of the destructor.
Destroy ==
    /\ phase = "outside"
    /\ tick_async' = "closing"
    /\ mode' = "default"
    /\ stop_flag' = FALSE
    /\ phase' = IF stop_flag THEN "terminated" ELSE "iteration"
    /\ UNCHANGED <<vector, walk, pending, keeper, history>>

-----------------------------------------------------------------------------
(* uv_run() and _on_async() *)

\* The end of _on_async(): shrink_to_fit(), then clear()
Finish ==
    /\ capacity' = Len(tick_callbacks)
    /\ tick_callbacks' = <<>>
    /\ phase' = "iteration"

\* The async handle fires: _on_async() takes begin() and end() and calls the
\* first callback, if there is one.
OnAsync ==
    /\ phase = "iteration" /\ tick_async = "open" /\ pending
    /\ pending' = FALSE
    /\ \/ /\ tick_callbacks # <<>>
          /\ cursor' = 1 /\ last' = Len(tick_callbacks) /\ valid' = TRUE
          /\ ran' = Append(ran, tick_callbacks[1])
          /\ phase' = "tick"
          /\ UNCHANGED vector
       \/ tick_callbacks = <<>> /\ Finish /\ UNCHANGED <<walk, ran>>
    /\ UNCHANGED <<tick_async, stop_flag, keeper, mode, calls, nested, stopped>>

\* Mutant: a stopped walk clears the vector too.
ReturnClears ==
    /\ phase = "tick"
    /\ stop_flag
    /\ Finish
    /\ UNCHANGED <<walk, uv, history>>

\* cb() has returned, stop_flag is set: the callbacks stay in the vector.
ReturnStopped ==
    /\ phase = "tick"
    /\ stop_flag
    /\ phase' = "iteration"
    /\ UNCHANGED <<vector, walk, uv, history>>

\* Mutant: the walk ends one callback early.
AdvanceShort ==
    /\ phase = "tick"
    /\ ~stop_flag
    /\ \/ /\ cursor + 1 < last /\ valid
          /\ cursor' = cursor + 1
          /\ ran' = Append(ran, tick_callbacks[cursor + 1])
          /\ UNCHANGED <<vector, phase, last, valid>>
       \/ cursor + 1 >= last /\ Finish /\ UNCHANGED <<walk, ran>>
    /\ UNCHANGED <<uv, calls, nested, stopped>>

\* cb() has returned: call the next callback or leave the loop.  In a buffer
\* the vector has left there are only functions that were moved from: to call
\* one throws out of a noexcept function.
Advance ==
    /\ phase = "tick"
    /\ ~stop_flag
    /\ \/ /\ cursor < last /\ valid
          /\ cursor' = cursor + 1
          /\ ran' = Append(ran, tick_callbacks[cursor + 1])
          /\ UNCHANGED <<vector, phase, last, valid>>
       \/ /\ cursor < last /\ ~valid
          /\ phase' = "terminated"
          /\ UNCHANGED <<vector, walk, ran>>
       \/ cursor = last /\ Finish /\ UNCHANGED <<walk, ran>>
    /\ UNCHANGED <<uv, calls, nested, stopped>>

\* The last part of an iteration closes the async handle.
CloseTick ==
    /\ phase = "iteration" /\ tick_async = "closing"
    /\ tick_async' = "closed"
    /\ UNCHANGED <<vector, walk, pending, stop_flag, keeper, mode, phase, history>>

\* The end of an iteration: uv_run() returns from a loop that was stopped, is
\* not alive or was to run once; in the destructor uv_loop_close() follows.
Leave ==
    /\ phase = "iteration" /\ tick_async # "closing"
    /\ stop_flag \/ ~keeper \/ mode = "once"
    /\ stop_flag' = FALSE
    /\ phase' = IF tick_async = "open" THEN "outside"
                ELSE IF keeper THEN "terminated" ELSE "destroyed"
    /\ UNCHANGED <<vector, walk, tick_async, pending, keeper, mode, history>>

-----------------------------------------------------------------------------

User ==
    \/ \E c \in Callbacks : NextTick(c)
    \/ Stop \/ Keep \/ Destroy
    \/ \E m \in {"default", "once"} : Run(m)

Loop == OnAsync \/ ReturnStopped \/ Advance \/ CloseTick \/ Leave

Next == User \/ Loop

Spec == Init /\ [][Next]_vars

\* uv_run() polls again and again while it does not return, callbacks return.
Fairness == WF_vars(OnAsync) /\ WF_vars(Advance)

FairSpec == Spec /\ Fairness

-----------------------------------------------------------------------------
(* Properties *)

\* The callbacks _on_async() has yet to call
Waiting ==
    IF phase = "tick"
    THEN SubSeq(tick_callbacks, cursor + 1, Len(tick_callbacks))
    ELSE tick_callbacks

\* As long as no callback nests next_tick() and nobody stops, every callback
\* runs once and in the order of the calls: what ran and what waits is what was
\* called.
OnceInOrder == nested = {} /\ ~stopped => ran \o Waiting = calls

\* A callback that waits outside of a walk has its wake-up on its way, unless
\* a walk may have been stopped: uv_async_send() may coalesce but never be missed.
WakeupKept ==
    ~stopped /\ tick_callbacks # <<>> /\ phase \in {"outside", "iteration"}
             /\ tick_async = "open"
        => pending

\* Whatever callbacks call, one that was handed to next_tick() outside of
\* a tick is called or still in the vector: no clear() throws it away.
OutsideNotLost ==
    Elements(calls) \ nested \subseteq Elements(ran) \cup Elements(tick_callbacks)

\* "close the async handle": after the run() of the destructor the handle of
\* a loop that was not stopped is closed, and uv_loop_close() accepts the loop.
DestructorCloses ==
    ~stopped /\ phase \in {"destroyed", "terminated"} /\ tick_async # "open"
        => phase = "destroyed" /\ tick_async = "closed"

\* "The vector for the next loop iteration will be empty": what one walk has
\* called is not there for the next.
EmptyForNextIteration ==
    [][phase = "tick" /\ phase' = "iteration" => tick_callbacks' = <<>>]_vars

\* While run() goes on, every callback that was handed over outside of a tick
\* is called, unless the loop is stopped or a nested call ends the program.
TicksRun ==
    \A c \in Callbacks :
        c \in Elements(calls) \ nested /\ phase = "iteration"
            ~> \/ c \in Elements(ran)
               \/ phase \in {"outside", "destroyed", "terminated"}
               \/ tick_async # "open" \/ stopped

=============================================================================
