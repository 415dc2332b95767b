----------------------------- MODULE DateBuffer -----------------------------
(***************************************************************************)
(* http_date_buffer (http/_http_date_buffer.h, .cc): the threads of all    *)
(* http servers share one "date" header.  update() compares the cached     *)
(* time of the caller's loop with the time of the last update, lets one    *)
(* thread win a compare-and-swap, and that thread asks time() and stores   *)
(* the new header; get_buffer() follows at once.  The program has one of   *)
(* two versions of update(), with an atomic _last_update or a mutex.       *)
(*                                                                         *)
(* A date is the time it shows.  The loops' times lag behind the clock,    *)
(* which runs on at any point, also between the two calls of one update.   *)
(***************************************************************************)
EXTENDS Naturals

CONSTANTS
    Threads,
    Timeout,  \* UPDATE_TIMEOUT, in ticks
    Modulus,  \* numeric_limits<uint64_t>::max() + 1
    MaxTime   \* bound: the clock

VARIABLES
    atomic,      \* HTTP_DATE_BUFFER_IS_ATOMIC
    clock,       \* what time() returns
    now,         \* uv_now() of each thread's loop
    lastUpdate,  \* _last_update
    buffer,      \* _buffer
    pc,          \* idle, cas, time, store or get
    seen,        \* the thread's last_update
    date,        \* the header the thread has made
    alone,       \* history: the thread that updates, as long as no other does
    clean        \* history: _buffer is from an update nobody else overlapped

history == <<alone, clean>>
vars == <<atomic, clock, now, lastUpdate, buffer, pc, seen, date, history>>

\* The constructor calls update_buffer().
Init ==
    /\ atomic \in BOOLEAN
    /\ clock = 0
    /\ now = [t \in Threads |-> 0]
    /\ lastUpdate = 0
    /\ buffer = 0
    /\ pc = [t \in Threads |-> "idle"]
    /\ seen = [t \in Threads |-> 0]
    /\ date = [t \in Threads |-> 0]
    /\ alone = {} /\ clean = TRUE

Updating(t) == pc[t] \in {"time", "store"}

\* Unsigned: a loop whose time is before the last update is late, too.
Elapsed(t, last) == (now[t] + Modulus - last) % Modulus

Tick ==
    /\ clock < MaxTime
    /\ clock' = clock + 1
    /\ UNCHANGED <<atomic, now, lastUpdate, buffer, pc, seen, date, history>>

\* The loop reads the clock at the start of an iteration.
UpdateTime(t) ==
    /\ pc[t] = "idle"
    /\ now' = [now EXCEPT ![t] = clock]
    /\ UNCHANGED <<atomic, clock, lastUpdate, buffer, pc, seen, date, history>>

\* Mutant: late by one tick
LoadLate(t) ==
    /\ pc[t] = "idle"
    /\ atomic
    /\ seen' = [seen EXCEPT ![t] = lastUpdate]
    /\ pc' = [pc EXCEPT ![t] = IF Elapsed(t, lastUpdate) > Timeout + 1 THEN "cas"
                               ELSE "get"]
    /\ UNCHANGED <<atomic, clock, now, lastUpdate, buffer, date, history>>

Load(t) ==
    /\ pc[t] = "idle"
    /\ atomic
    /\ seen' = [seen EXCEPT ![t] = lastUpdate]
    /\ pc' = [pc EXCEPT ![t] = IF Elapsed(t, lastUpdate) > Timeout THEN "cas"
                               ELSE "get"]
    /\ UNCHANGED <<atomic, clock, now, lastUpdate, buffer, date, history>>

Cas(t) ==
    /\ pc[t] = "cas"
    /\ IF lastUpdate = seen[t]
       THEN /\ lastUpdate' = now[t]
            /\ pc' = [pc EXCEPT ![t] = "time"]
            /\ alone' = IF \E u \in Threads : Updating(u) THEN {} ELSE {t}
       ELSE /\ pc' = [pc EXCEPT ![t] = "get"]
            /\ UNCHANGED <<lastUpdate, alone>>
    /\ UNCHANGED <<atomic, clock, now, buffer, seen, date, clean>>

Time(t) ==
    /\ pc[t] = "time"
    /\ date' = [date EXCEPT ![t] = clock]
    /\ pc' = [pc EXCEPT ![t] = "store"]
    /\ UNCHANGED <<atomic, clock, now, lastUpdate, buffer, seen, history>>

Store(t) ==
    /\ pc[t] = "store"
    /\ buffer' = date[t]
    /\ clean' = (t \in alone)
    /\ alone' = alone \ {t}
    /\ pc' = [pc EXCEPT ![t] = "get"]
    /\ UNCHANGED <<atomic, clock, now, lastUpdate, seen, date>>

\* update() under the mutex; it does not set _last_update.
UpdateLocked(t) ==
    /\ pc[t] = "idle"
    /\ ~atomic
    /\ buffer' = IF Elapsed(t, lastUpdate) >= Timeout THEN clock ELSE buffer
    /\ pc' = [pc EXCEPT ![t] = "get"]
    /\ UNCHANGED <<atomic, clock, now, lastUpdate, seen, date, history>>

GetBuffer(t) ==
    /\ pc[t] = "get"
    /\ pc' = [pc EXCEPT ![t] = "idle"]
    /\ UNCHANGED <<atomic, clock, now, lastUpdate, buffer, seen, date, history>>

Next ==
    \/ Tick
    \/ \E t \in Threads :
          \/ UpdateTime(t) \/ Load(t) \/ Cas(t) \/ Time(t) \/ Store(t)
          \/ UpdateLocked(t) \/ GetBuffer(t)

Spec == Init /\ [][Next]_vars

-----------------------------------------------------------------------------
TypeOK ==
    /\ atomic \in BOOLEAN
    /\ {clock, lastUpdate, buffer} \subseteq 0..MaxTime
    /\ now \in [Threads -> 0..MaxTime]
    /\ seen \in [Threads -> 0..MaxTime]
    /\ date \in [Threads -> 0..MaxTime]
    /\ pc \in [Threads -> {"idle", "cas", "time", "store", "get"}]
    /\ alone \subseteq Threads
    /\ clean \in BOOLEAN

\* The header a response gets is not older than the timeout, by the time of its
\* loop, however the threads' clocks lag and whoever lost the compare-and-swap.
\* While a winner is at work the old header is handed out, and after two of
\* them overlapped the older date may have been stored last: until the next
\* update by one thread alone nothing is promised.
DateIsFresh == \A t \in Threads :
    pc[t] = "get" /\ clean /\ (\A u \in Threads : ~Updating(u))
        => now[t] <= buffer + Timeout

\* An update nobody else overlapped does not set the date back, even that of
\* a thread whose loop lags behind and which sets _last_update back, and even
\* after two others overlapped.
DateNotBack == [][clean' => buffer' >= buffer]_vars

\* The date buffer's promises (_http_date_buffer.cc:39-64)
DatesSafe == [](TypeOK /\ DateIsFresh) /\ DateNotBack

\* "if we are stale choose ONE thread to call update_buffer()"
\* (_http_date_buffer.cc:46): no two threads make a header at the same time.
OneUpdater ==
    \A t, u \in Threads : Updating(t) /\ Updating(u) => t = u

=============================================================================
