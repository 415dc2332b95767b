-------------------------- MODULE LoopTick_proofs --------------------------
(* Theorems about LoopTick, for any callbacks, nested and stopped walks. *)
EXTENDS LoopTick, SequenceTheorems, TLAPS

\* A walk stands inside of what the vector held when the walk began.
WalkInv == phase = "tick" => cursor \in 1 .. last /\ last <= Len(tick_callbacks)

TickInv == TypeOK /\ WalkInv

LEMMA AppendElements ==
    ASSUME NEW S, NEW s \in Seq(S), NEW e \in S
    PROVE  /\ Append(s, e) \in Seq(S)
           /\ Len(Append(s, e)) = Len(s) + 1
           /\ \A i \in 1 .. Len(s) : Append(s, e)[i] = s[i]
           /\ Append(s, e)[Len(s) + 1] = e
           /\ Elements(Append(s, e)) = Elements(s) \cup {e}
<1>1. /\ Append(s, e) \in Seq(S)
      /\ Len(Append(s, e)) = Len(s) + 1
      /\ \A i \in 1 .. Len(s) : Append(s, e)[i] = s[i]
      /\ Append(s, e)[Len(s) + 1] = e
  OBVIOUS
<1>2. DOMAIN s = 1 .. Len(s) /\ DOMAIN Append(s, e) = 1 .. Len(s) + 1
  BY <1>1
<1>3. Len(s) \in Nat
  OBVIOUS
<1>4. Elements(Append(s, e)) \subseteq Elements(s) \cup {e}
  <2> SUFFICES ASSUME NEW i \in 1 .. Len(s) + 1
               PROVE  Append(s, e)[i] \in Elements(s) \cup {e}
    BY <1>2 DEF Elements
  <2>1. CASE i \in 1 .. Len(s)
    BY <2>1, <1>1, <1>2 DEF Elements
  <2>2. CASE i = Len(s) + 1
    BY <2>2, <1>1
  <2> QED
    BY <2>1, <2>2, <1>3
<1>5. Elements(s) \subseteq Elements(Append(s, e))
  <2> SUFFICES ASSUME NEW i \in 1 .. Len(s)
               PROVE  s[i] \in Elements(Append(s, e))
    BY <1>2 DEF Elements
  <2>1. i \in 1 .. Len(s) + 1 /\ s[i] = Append(s, e)[i]
    BY <1>1, <1>3
  <2> QED
    BY <2>1, <1>2 DEF Elements
<1>6. e \in Elements(Append(s, e))
  BY <1>1, <1>2, <1>3 DEF Elements
<1> QED
  BY <1>1, <1>4, <1>5, <1>6

-----------------------------------------------------------------------------

LEMMA InitTick == Init => TickInv
<1> SUFFICES ASSUME Init PROVE TickInv
  OBVIOUS
<1>1. <<>> \in Seq(Callbacks) /\ 0 \in Nat
  OBVIOUS
<1>2. Len(<<>>) <= 0
  OBVIOUS
<1> QED
  BY <1>1, <1>2, Zenon DEF Init, TickInv, TypeOK, WalkInv

LEMMA NextTickKeeps ==
    ASSUME TickInv, NEW c \in Callbacks, NextTick(c) PROVE TickInv'
<1> USE DEF TickInv, TypeOK, WalkInv
<1>1. /\ tick_callbacks' \in Seq(Callbacks)
      /\ Len(tick_callbacks') = Len(tick_callbacks) + 1
      /\ calls' \in Seq(Callbacks)
  BY AppendElements DEF NextTick
<1>2. Len(tick_callbacks) \in Nat
  OBVIOUS
<1>3. capacity' \in Nat /\ Len(tick_callbacks') <= capacity'
  <2>1. CASE Len(tick_callbacks) < capacity /\ capacity' = capacity
    BY <1>1, <1>2, <2>1
  <2>2. CASE Len(tick_callbacks) = capacity
             /\ capacity' = IF capacity = 0 THEN 1 ELSE 2 * capacity
    BY <1>1, <1>2, <2>2
  <2> QED
    BY <2>1, <2>2 DEF NextTick
<1>4. valid' \in BOOLEAN /\ pending' \in BOOLEAN
  BY DEF NextTick
<1>5. nested' \in SUBSET Callbacks
  BY DEF NextTick
<1>6. WalkInv'
  BY <1>1, <1>2 DEF NextTick
<1> QED
  BY <1>1, <1>3, <1>4, <1>5, <1>6 DEF NextTick

LEMMA FinishKeeps ==
    ASSUME TypeOK, Finish
    PROVE  /\ tick_callbacks' \in Seq(Callbacks)
           /\ capacity' \in Nat
           /\ Len(tick_callbacks') <= capacity'
           /\ phase' = "iteration"
  BY DEF TypeOK, Finish

LEMMA OnAsyncKeeps == ASSUME TickInv, OnAsync PROVE TickInv'
<1>1. CASE /\ tick_callbacks # <<>>
           /\ cursor' = 1 /\ last' = Len(tick_callbacks) /\ valid' = TRUE
           /\ ran' = Append(ran, tick_callbacks[1])
           /\ phase' = "tick"
           /\ UNCHANGED vector
  <2>1. Len(tick_callbacks) \in Nat \ {0}
    BY <1>1, EmptySeq DEF TickInv, TypeOK
  <2>2. tick_callbacks[1] \in Callbacks
    BY <2>1, ElementOfSeq DEF TickInv, TypeOK
  <2>3. ran' \in Seq(Callbacks)
    BY <1>1, <2>2, AppendElements DEF TickInv, TypeOK
  <2>4. cursor' \in Nat /\ last' \in Nat /\ cursor' \in 1 .. last'
    BY <1>1, <2>1
  <2>5. tick_callbacks' = tick_callbacks /\ capacity' = capacity
    BY <1>1 DEF vector
  <2>6. last' <= Len(tick_callbacks')
    BY <1>1, <2>1, <2>5
  <2> QED
    BY <1>1, <2>3, <2>4, <2>5, <2>6, Zenon DEF TickInv, TypeOK, WalkInv, OnAsync
<1>2. CASE tick_callbacks = <<>> /\ Finish /\ UNCHANGED <<walk, ran>>
  <2>1. phase' # "tick"
    BY <1>2 DEF Finish
  <2> QED
    BY <1>2, <2>1, FinishKeeps, Zenon DEF TickInv, TypeOK, WalkInv, OnAsync, walk
<1> QED
  BY <1>1, <1>2 DEF OnAsync

LEMMA AdvanceKeeps == ASSUME TickInv, Advance PROVE TickInv'
<1>1. CASE /\ cursor < last /\ valid
           /\ cursor' = cursor + 1
           /\ ran' = Append(ran, tick_callbacks[cursor + 1])
           /\ UNCHANGED <<vector, phase, last, valid>>
  <2>1. cursor + 1 \in 1 .. Len(tick_callbacks) /\ cursor + 1 \in 1 .. last
    BY <1>1 DEF Advance, TickInv, TypeOK, WalkInv
  <2>2. tick_callbacks[cursor + 1] \in Callbacks
    BY <2>1, ElementOfSeq DEF TickInv, TypeOK
  <2>3. ran' \in Seq(Callbacks)
    BY <1>1, <2>2, AppendElements DEF TickInv, TypeOK
  <2>4. cursor' \in Nat /\ cursor' \in 1 .. last'
    BY <1>1, <2>1
  <2> QED
    BY <1>1, <2>3, <2>4, Zenon
    DEF TickInv, TypeOK, WalkInv, Advance, vector, uv
<1>2. CASE /\ cursor < last /\ ~valid
           /\ phase' = "terminated"
           /\ UNCHANGED <<vector, walk, ran>>
  <2>1. phase' # "tick"
    BY <1>2
  <2> QED
    BY <1>2, <2>1, Zenon DEF TickInv, TypeOK, WalkInv, Advance, vector, walk, uv
<1>3. CASE cursor = last /\ Finish /\ UNCHANGED <<walk, ran>>
  <2>1. phase' # "tick"
    BY <1>3 DEF Finish
  <2> QED
    BY <1>3, <2>1, FinishKeeps, Zenon
    DEF TickInv, TypeOK, WalkInv, Advance, walk, uv
<1> QED
  BY <1>1, <1>2, <1>3 DEF Advance

LEMMA OthersKeep ==
    ASSUME TickInv,
           \/ Stop \/ Keep \/ Destroy \/ ReturnStopped \/ CloseTick \/ Leave
           \/ \E m \in {"default", "once"} : Run(m)
           \/ UNCHANGED vars
    PROVE  TickInv'
<1> USE DEF TickInv, TypeOK, WalkInv, vector, walk, uv, history, vars
<1>1. CASE Stop
  BY <1>1 DEF Stop
<1>2. CASE Keep
  BY <1>2 DEF Keep
<1>3. CASE Destroy
  BY <1>3 DEF Destroy
<1>4. CASE ReturnStopped
  BY <1>4 DEF ReturnStopped
<1>5. CASE CloseTick
  BY <1>5 DEF CloseTick
<1>6. CASE Leave
  BY <1>6 DEF Leave
<1>7. CASE \E m \in {"default", "once"} : Run(m)
  BY <1>7 DEF Run
<1>8. CASE UNCHANGED vars
  BY <1>8
<1> QED
  BY <1>1, <1>2, <1>3, <1>4, <1>5, <1>6, <1>7, <1>8

\* _on_async() never reads past the end of the vector, whatever the callbacks
\* add to it while it is walked.
THEOREM WalkStaysInside == Spec => []TickInv
<1>1. TickInv /\ [Next]_vars => TickInv'
  BY NextTickKeeps, OnAsyncKeeps, AdvanceKeeps, OthersKeep DEF Next, User, Loop
<1> QED
  BY <1>1, InitTick, PTL DEF Spec

\* The types of the variables
THEOREM Typing == Spec => []TypeOK
<1>1. TickInv => TypeOK
  BY DEF TickInv
<1> QED
  BY <1>1, WalkStaysInside, PTL

-----------------------------------------------------------------------------

\* The flag of a loop nobody stopped is not set.
NotStopped == ~stopped => ~stop_flag

WakeInv == NotStopped /\ WakeupKept

\* In a loop nobody stops every callback that waits outside of a walk has its
\* wake-up on its way, for any number of callbacks, nested calls included.
THEOREM WakeupNeverLost == Spec => []WakeupKept
<1>1. Init => WakeInv
  BY DEF Init, WakeInv, NotStopped, WakeupKept
<1>2. WakeInv /\ [Next]_vars => WakeInv'
  <2> SUFFICES ASSUME WakeInv, [Next]_vars PROVE WakeInv'
    OBVIOUS
  <2> USE DEF WakeInv, NotStopped, WakeupKept, history
  <2>1. ASSUME NEW c \in Callbacks, NextTick(c) PROVE WakeInv'
    BY <2>1 DEF NextTick
  <2>2. CASE Stop
    BY <2>2 DEF Stop
  <2>3. CASE Keep
    BY <2>3 DEF Keep, vector
  <2>4. CASE Destroy
    BY <2>4 DEF Destroy
  <2>5. ASSUME NEW m \in {"default", "once"}, Run(m) PROVE WakeInv'
    BY <2>5 DEF Run, vector
  <2>6. CASE OnAsync
    BY <2>6 DEF OnAsync, Finish, vector
  <2>7. CASE ReturnStopped
    BY <2>7 DEF ReturnStopped
  <2>8. CASE Advance
    BY <2>8 DEF Advance, Finish, vector, uv
  <2>9. CASE CloseTick
    BY <2>9 DEF CloseTick
  <2>10. CASE Leave
    BY <2>10 DEF Leave, vector
  <2>11. CASE UNCHANGED vars
    BY <2>11 DEF vars, vector, uv
  <2> QED
    BY <2>1, <2>2, <2>3, <2>4, <2>5, <2>6, <2>7, <2>8, <2>9, <2>10, <2>11
    DEF Next, User, Loop
<1>3. WakeInv => WakeupKept
  BY DEF WakeInv
<1> QED
  BY <1>1, <1>2, <1>3, PTL DEF Spec

-----------------------------------------------------------------------------

\* In the destructor the loop runs in the default mode until the handle is
\* closed; ticks run, and may terminate the program, only before.
DestructorInv ==
    /\ NotStopped
    /\ tick_async \in {"open", "closing", "closed"}
    /\ ~stopped =>
          /\ tick_async # "open" => mode = "default" /\ phase \in {"iteration", "destroyed"}
          /\ phase = "destroyed" => tick_async = "closed"

\* The destructor of a loop nobody stops always closes the async handle.
THEOREM DestructorAlwaysCloses ==
    Spec => []DestructorCloses
<1>1. Init => DestructorInv
  BY DEF Init, DestructorInv, NotStopped
<1>2. DestructorInv /\ [Next]_vars => DestructorInv'
  <2> SUFFICES ASSUME DestructorInv, [Next]_vars PROVE DestructorInv'
    OBVIOUS
  <2> USE DEF DestructorInv, NotStopped, history
  <2>1. ASSUME NEW c \in Callbacks, NextTick(c) PROVE DestructorInv'
    BY <2>1 DEF NextTick
  <2>2. CASE Stop
    BY <2>2 DEF Stop
  <2>3. CASE Keep
    BY <2>3 DEF Keep
  <2>4. CASE Destroy
    BY <2>4 DEF Destroy
  <2>5. ASSUME NEW m \in {"default", "once"}, Run(m) PROVE DestructorInv'
    BY <2>5 DEF Run
  <2>6. CASE OnAsync
    BY <2>6 DEF OnAsync, Finish
  <2>7. CASE ReturnStopped
    BY <2>7 DEF ReturnStopped, uv
  <2>8. CASE Advance
    BY <2>8 DEF Advance, Finish, vector, uv
  <2>9. CASE CloseTick
    BY <2>9 DEF CloseTick
  <2>10. CASE Leave
    BY <2>10 DEF Leave
  <2>11. CASE UNCHANGED vars
    BY <2>11 DEF vars, uv
  <2> QED
    BY <2>1, <2>2, <2>3, <2>4, <2>5, <2>6, <2>7, <2>8, <2>9, <2>10, <2>11
    DEF Next, User, Loop
<1>3. DestructorInv => DestructorCloses
  BY DEF DestructorInv, DestructorCloses
<1> QED
  BY <1>1, <1>2, <1>3, PTL DEF Spec
-----------------------------------------------------------------------------

\* What a walk has passed was called, what is behind its end was added by its
\* own callbacks: clear() may throw both away.
PassedInv ==
    phase = "tick" =>
        /\ \A i \in 1 .. cursor : tick_callbacks[i] \in Elements(ran)
        /\ \A i \in last + 1 .. Len(tick_callbacks) : tick_callbacks[i] \in nested

LostInv == OutsideNotLost /\ PassedInv

LEMMA NextTickLoses ==
    ASSUME TickInv, LostInv, NEW c \in Callbacks, NextTick(c) PROVE LostInv'
<1>1. /\ Len(tick_callbacks') = Len(tick_callbacks) + 1
      /\ \A i \in 1 .. Len(tick_callbacks) : tick_callbacks'[i] = tick_callbacks[i]
      /\ tick_callbacks'[Len(tick_callbacks) + 1] = c
      /\ Elements(tick_callbacks') = Elements(tick_callbacks) \cup {c}
      /\ Elements(calls') = Elements(calls) \cup {c}
  BY AppendElements DEF NextTick, TickInv, TypeOK
<1>2. nested \subseteq nested' /\ ran' = ran
  BY DEF NextTick
<1>3. OutsideNotLost'
  BY <1>1, <1>2 DEF LostInv, OutsideNotLost
<1>4. ASSUME phase' = "tick" PROVE PassedInv'
  <2>1. phase = "tick" /\ cursor' = cursor /\ last' = last /\ c \in nested'
    BY <1>4 DEF NextTick
  <2>2. Len(tick_callbacks) \in Nat /\ cursor \in 1 .. last /\ last <= Len(tick_callbacks)
        /\ last \in Nat
    BY <2>1 DEF TickInv, TypeOK, WalkInv
  <2>3. ASSUME NEW i \in 1 .. cursor PROVE tick_callbacks'[i] \in Elements(ran')
    BY <1>1, <1>2, <2>1, <2>2 DEF LostInv, PassedInv
  <2>4. ASSUME NEW i \in last + 1 .. Len(tick_callbacks) + 1
        PROVE  tick_callbacks'[i] \in nested'
    <3>1. CASE i = Len(tick_callbacks) + 1
      BY <3>1, <1>1, <2>1
    <3>2. CASE i \in last + 1 .. Len(tick_callbacks)
      <4>1. i \in 1 .. Len(tick_callbacks)
        BY <3>2, <2>2
      <4> QED
        BY <4>1, <3>2, <1>1, <1>2, <2>1 DEF LostInv, PassedInv
    <3> QED
      BY <3>1, <3>2, <2>2
  <2> QED
    BY <2>1, <2>3, <2>4, <1>1 DEF PassedInv
<1> QED
  BY <1>3, <1>4 DEF LostInv, PassedInv

\* A step of the walk that calls callback number n
LEMMA CallLoses ==
    ASSUME TickInv, LostInv, NEW n \in 1 .. Len(tick_callbacks),
           n = 1 \/ (phase = "tick" /\ n = cursor + 1),
           cursor' = n, ran' = Append(ran, tick_callbacks[n]),
           UNCHANGED <<tick_callbacks, calls, nested>>,
           phase # "tick" => last' = Len(tick_callbacks),
           phase = "tick" => last' = last
    PROVE  LostInv'
<1>1. Elements(ran') = Elements(ran) \cup {tick_callbacks[n]}
  <2>1. tick_callbacks[n] \in Callbacks /\ ran \in Seq(Callbacks)
    BY ElementOfSeq DEF TickInv, TypeOK
  <2> QED
    BY <2>1, AppendElements
<1>2. OutsideNotLost'
  BY <1>1 DEF LostInv, OutsideNotLost
<1>3. ASSUME NEW i \in 1 .. n PROVE tick_callbacks[i] \in Elements(ran')
  <2>1. n \in Nat /\ cursor \in Nat
    BY DEF TickInv, TypeOK
  <2>2. i = n \/ (phase = "tick" /\ i \in 1 .. cursor)
    BY <2>1
  <2> QED
    BY <1>1, <2>2 DEF LostInv, PassedInv
<1>4. \A i \in last' + 1 .. Len(tick_callbacks) : tick_callbacks[i] \in nested
  <2>1. CASE phase = "tick"
    BY <2>1 DEF LostInv, PassedInv
  <2>2. CASE phase # "tick"
    <3>1. Len(tick_callbacks) \in Nat
      BY DEF TickInv, TypeOK
    <3> QED
      BY <2>2, <3>1
  <2> QED
    BY <2>1, <2>2
<1> QED
  BY <1>2, <1>3, <1>4 DEF LostInv, PassedInv

\* Finish at the end of a walk
LEMMA FinishLoses ==
    ASSUME TickInv, LostInv, Finish, UNCHANGED <<ran, calls, nested>>,
           tick_callbacks = <<>> \/ (phase = "tick" /\ cursor = last)
    PROVE  LostInv'
<1>1. Elements(tick_callbacks) \subseteq Elements(ran) \cup nested
  <2>1. CASE tick_callbacks = <<>>
    BY <2>1 DEF Elements
  <2>2. CASE phase = "tick" /\ cursor = last
    <3>1. DOMAIN tick_callbacks = 1 .. Len(tick_callbacks)
          /\ Len(tick_callbacks) \in Nat /\ last \in Nat /\ last <= Len(tick_callbacks)
      BY <2>2, LenProperties DEF TickInv, TypeOK, WalkInv
    <3>2. ASSUME NEW i \in 1 .. Len(tick_callbacks)
          PROVE  tick_callbacks[i] \in Elements(ran) \cup nested
      <4>1. i \in 1 .. last \/ i \in last + 1 .. Len(tick_callbacks)
        BY <3>1
      <4> QED
        BY <4>1, <2>2 DEF LostInv, PassedInv
    <3> QED
      BY <3>1, <3>2 DEF Elements
  <2> QED
    BY <2>1, <2>2
<1>2. phase' = "iteration"
  BY DEF Finish
<1> QED
  BY <1>1, <1>2 DEF LostInv, OutsideNotLost, PassedInv

LEMMA OthersLose ==
    ASSUME LostInv, UNCHANGED <<tick_callbacks, walk, calls, nested, ran>>,
           phase' = "tick" => phase = "tick"
    PROVE  LostInv'
  BY DEF LostInv, OutsideNotLost, PassedInv, walk

\* Whatever callbacks call, a callback that was handed to next_tick() outside
\* of a tick is called or still waits, for any number of callbacks.
THEOREM NeverLost == Spec => []OutsideNotLost
<1>1. Init => LostInv
  BY DEF Init, LostInv, OutsideNotLost, PassedInv, Elements
<1>2. TickInv /\ LostInv /\ [Next]_vars => LostInv'
  <2> SUFFICES ASSUME TickInv, LostInv, [Next]_vars PROVE LostInv'
    OBVIOUS
  <2>1. ASSUME NEW c \in Callbacks, NextTick(c) PROVE LostInv'
    BY <2>1, NextTickLoses
  <2>2. CASE OnAsync
    <3>1. CASE tick_callbacks = <<>> /\ Finish /\ UNCHANGED <<walk, ran>>
      BY <2>2, <3>1, FinishLoses DEF OnAsync
    <3>2. CASE /\ tick_callbacks # <<>>
               /\ cursor' = 1 /\ last' = Len(tick_callbacks) /\ valid' = TRUE
               /\ ran' = Append(ran, tick_callbacks[1])
               /\ phase' = "tick"
               /\ UNCHANGED vector
      <4>1. 1 \in 1 .. Len(tick_callbacks)
        BY <3>2, EmptySeq DEF TickInv, TypeOK
      <4> QED
        BY <2>2, <3>2, <4>1, CallLoses DEF OnAsync, vector
    <3> QED
      BY <2>2, <3>1, <3>2 DEF OnAsync
  <2>3. CASE Advance
    <3>1. CASE cursor = last /\ Finish /\ UNCHANGED <<walk, ran>>
      BY <2>3, <3>1, FinishLoses DEF Advance
    <3>2. CASE /\ cursor < last /\ ~valid
               /\ phase' = "terminated"
               /\ UNCHANGED <<vector, walk, ran>>
      BY <2>3, <3>2, OthersLose DEF Advance, vector, history
    <3>3. CASE /\ cursor < last /\ valid
               /\ cursor' = cursor + 1
               /\ ran' = Append(ran, tick_callbacks[cursor + 1])
               /\ UNCHANGED <<vector, phase, last, valid>>
      <4>1. cursor + 1 \in 1 .. Len(tick_callbacks)
        BY <2>3, <3>3 DEF Advance, TickInv, TypeOK, WalkInv
      <4> QED
        BY <2>3, <3>3, <4>1, CallLoses DEF Advance, vector
    <3> QED
      BY <2>3, <3>1, <3>2, <3>3 DEF Advance
  <2>4. CASE \/ Stop \/ Keep \/ Destroy \/ ReturnStopped \/ CloseTick \/ Leave
             \/ \E m \in {"default", "once"} : Run(m)
             \/ UNCHANGED vars
    <3>1. UNCHANGED <<tick_callbacks, walk, calls, nested, ran>>
      BY <2>4 DEF Stop, Keep, Destroy, ReturnStopped, CloseTick, Leave, Run, vars,
                  vector, history
    <3>2. phase' = "tick" => phase = "tick"
      BY <2>4 DEF Stop, Keep, Destroy, ReturnStopped, CloseTick, Leave, Run, vars
    <3> QED
      BY <3>1, <3>2, OthersLose
  <2> QED
    BY <2>1, <2>2, <2>3, <2>4 DEF Next, User, Loop
<1>3. LostInv => OutsideNotLost
  BY DEF LostInv
<1> QED
  BY <1>1, <1>2, <1>3, WalkStaysInside, PTL DEF Spec

-----------------------------------------------------------------------------

\* Nothing has disturbed a walk so far.
Undisturbed == nested = {} /\ ~stopped

\* Such a walk ends where the vector ends, and its buffer stays the vector's.
Ordered ==
    /\ ~stop_flag
    /\ phase = "tick" => last = Len(tick_callbacks) /\ valid
    /\ ran \o Waiting = calls

OrderInv == Undisturbed => Ordered

LEMMA NextTickOrders ==
    ASSUME TickInv, Ordered, Undisturbed', NEW c \in Callbacks, NextTick(c)
    PROVE  Ordered'
<1>1. phase # "tick" /\ phase' = phase
  BY DEF NextTick, Undisturbed
<1>2. ran \in Seq(Callbacks) /\ tick_callbacks \in Seq(Callbacks)
  BY DEF TickInv, TypeOK
<1>3. Append(ran \o tick_callbacks, c) = ran \o Append(tick_callbacks, c)
  <2>1. <<c>> \in Seq(Callbacks) /\ ran \o tick_callbacks \in Seq(Callbacks)
    BY <1>2
  <2>2. Append(ran \o tick_callbacks, c) = (ran \o tick_callbacks) \o <<c>>
    BY <1>2, <2>1, AppendIsConcat
  <2>3. Append(tick_callbacks, c) = tick_callbacks \o <<c>>
    BY <1>2, AppendIsConcat
  <2> QED
    BY <1>2, <2>1, <2>2, <2>3, ConcatAssociative
<1>4. ran \o tick_callbacks = calls
  BY <1>1 DEF Ordered, Waiting
<1>5. ran' \o tick_callbacks' = calls'
  BY <1>3, <1>4 DEF NextTick
<1>6. Waiting' = tick_callbacks'
  BY <1>1 DEF Waiting
<1> QED
  BY <1>1, <1>5, <1>6 DEF Ordered, NextTick

\* The call of the first of the callbacks that wait
LEMMA CallOrders ==
    ASSUME NEW s \in Seq(Callbacks), NEW r \in Seq(Callbacks), NEW n \in 1 .. Len(s)
    PROVE  Append(r, s[n]) \o SubSeq(s, n + 1, Len(s)) = r \o SubSeq(s, n, Len(s))
<1>1. Len(s) \in n .. Len(s)
  OBVIOUS
<1>2. SubSeq(s, n, Len(s)) = <<s[n]>> \o SubSeq(s, n + 1, Len(s))
  BY <1>1, SubSeqRecursiveFirst
<1>3. s[n] \in Callbacks /\ <<s[n]>> \in Seq(Callbacks)
  BY ElementOfSeq
<1>4. SubSeq(s, n + 1, Len(s)) \in Seq(Callbacks)
  <2>1. \A i \in n + 1 .. Len(s) : s[i] \in Callbacks
    BY ElementOfSeq
  <2>2. n + 1 \in Int /\ Len(s) \in Int
    OBVIOUS
  <2> QED
    BY <2>1, <2>2, SubSeqProperties
<1>5. Append(r, s[n]) = r \o <<s[n]>>
  BY <1>3, AppendIsConcat
<1> DEFINE e == <<s[n]>>
           rest == SubSeq(s, n + 1, Len(s))
<1>6. (r \o e) \o rest = r \o (e \o rest)
  <2>1. e \in Seq(Callbacks) /\ rest \in Seq(Callbacks) /\ r \in Seq(Callbacks)
    BY <1>3, <1>4
  <2>2. \A a, b, c \in Seq(Callbacks) : (a \o b) \o c = a \o (b \o c)
    OBVIOUS
  <2> HIDE DEF e, rest
  <2> QED
    BY <2>1, <2>2, Zenon
<1> QED
  BY <1>2, <1>5, <1>6, Zenon

LEMMA OnAsyncOrders == ASSUME TickInv, Ordered, OnAsync PROVE Ordered'
<1>1. CASE tick_callbacks = <<>> /\ Finish /\ UNCHANGED <<walk, ran>>
  <2>1. Waiting' = Waiting
    BY <1>1 DEF OnAsync, Finish, Waiting
  <2> QED
    BY <1>1, <2>1 DEF OnAsync, Finish, Ordered
<1>2. CASE /\ tick_callbacks # <<>>
           /\ cursor' = 1 /\ last' = Len(tick_callbacks) /\ valid' = TRUE
           /\ ran' = Append(ran, tick_callbacks[1])
           /\ phase' = "tick"
           /\ UNCHANGED vector
  <2>1. 1 \in 1 .. Len(tick_callbacks)
    BY <1>2, EmptySeq DEF TickInv, TypeOK
  <2>2. ran \in Seq(Callbacks) /\ tick_callbacks \in Seq(Callbacks)
    BY DEF TickInv, TypeOK
  <2>3. Append(ran, tick_callbacks[1])
              \o SubSeq(tick_callbacks, 1 + 1, Len(tick_callbacks))
          = ran \o tick_callbacks
    BY <2>1, <2>2, CallOrders, SubSeqFull
  <2>4. ran \o tick_callbacks = calls
    BY DEF OnAsync, Ordered, Waiting
  <2>5. Waiting' = SubSeq(tick_callbacks, 1 + 1, Len(tick_callbacks))
    BY <1>2 DEF Waiting, vector
  <2> QED
    BY <1>2, <2>3, <2>4, <2>5 DEF OnAsync, Ordered, vector
<1> QED
  BY <1>1, <1>2 DEF OnAsync

LEMMA AdvanceOrders == ASSUME TickInv, Ordered, Advance PROVE Ordered'
<1>0. phase = "tick" /\ valid /\ last = Len(tick_callbacks)
  BY DEF Advance, Ordered
<1>1. CASE cursor = last /\ Finish /\ UNCHANGED <<walk, ran>>
  <2>1. Waiting = <<>>
    <3>1. Waiting = SubSeq(tick_callbacks, cursor + 1, cursor)
      BY <1>0, <1>1 DEF Waiting
    <3>2. cursor + 1 \in Int /\ cursor \in Int /\ cursor < cursor + 1
      BY DEF TickInv, TypeOK
    <3> QED
      BY <3>1, <3>2, SubSeqEmpty
  <2>2. Waiting' = <<>>
    BY <1>1 DEF Finish, Waiting
  <2> QED
    BY <1>1, <2>1, <2>2 DEF Advance, Finish, Ordered, uv
<1>2. CASE /\ cursor < last
           /\ cursor' = cursor + 1
           /\ ran' = Append(ran, tick_callbacks[cursor + 1])
           /\ UNCHANGED <<vector, phase, last, valid>>
  <2>1. cursor + 1 \in 1 .. Len(tick_callbacks)
    BY <1>0, <1>2 DEF TickInv, TypeOK, WalkInv
  <2>2. ran \in Seq(Callbacks) /\ tick_callbacks \in Seq(Callbacks)
    BY DEF TickInv, TypeOK
  <2>3. ran' \o SubSeq(tick_callbacks, (cursor + 1) + 1, Len(tick_callbacks))
          = ran \o SubSeq(tick_callbacks, cursor + 1, Len(tick_callbacks))
    BY <1>2, <2>1, <2>2, CallOrders
  <2>4. ran' \o Waiting' = calls
    BY <1>0, <1>2, <2>3 DEF Ordered, Waiting, vector
  <2> QED
    BY <1>0, <1>2, <2>4 DEF Advance, Ordered, vector, uv
<1> QED
  BY <1>0, <1>1, <1>2 DEF Advance

LEMMA OthersOrder ==
    ASSUME Ordered, ~stop_flag', UNCHANGED <<tick_callbacks, walk, calls, ran>>,
           phase' = "tick" <=> phase = "tick"
    PROVE  Ordered'
<1>1. Waiting' = Waiting
  BY DEF Waiting, walk
<1> QED
  BY <1>1 DEF Ordered, walk

\* As long as no tick callback nests next_tick() and nobody stops, every callback
\* is called once and in the order of the calls, for any number of them.
THEOREM CalledOnceInOrder == Spec => []OnceInOrder
<1>1. Init => OrderInv
  <2>1. <<>> \o <<>> = <<>>
    OBVIOUS
  <2> QED
    BY <2>1 DEF Init, OrderInv, Ordered, Waiting
<1>2. TickInv /\ OrderInv /\ [Next]_vars => OrderInv'
  <2> SUFFICES ASSUME TickInv, OrderInv, [Next]_vars, Undisturbed' PROVE Ordered'
    BY DEF OrderInv
  <2>1. ASSUME NEW c \in Callbacks, NextTick(c) PROVE Ordered'
    <3>1. Undisturbed
      BY <2>1 DEF NextTick, Undisturbed
    <3> QED
      BY <2>1, <3>1, NextTickOrders DEF OrderInv
  <2>2. CASE OnAsync
    BY <2>2, OnAsyncOrders DEF OrderInv, OnAsync, Undisturbed
  <2>3. CASE Advance
    BY <2>3, AdvanceOrders DEF OrderInv, Advance, Undisturbed
  <2>4. CASE \/ Keep \/ Destroy \/ CloseTick \/ Leave
             \/ \E m \in {"default", "once"} : Run(m)
             \/ UNCHANGED vars
    <3>1. UNCHANGED <<tick_callbacks, walk, history>>
      BY <2>4 DEF Keep, Destroy, CloseTick, Leave, Run, vars, vector
    <3>2. Ordered
      BY <3>1 DEF OrderInv, Undisturbed, history
    <3>3. phase' = "tick" <=> phase = "tick"
      BY <2>4 DEF Keep, Destroy, CloseTick, Leave, Run, vars
    <3>4. ~stop_flag'
      BY <2>4, <3>2 DEF Keep, Destroy, CloseTick, Leave, Run, vars, uv, Ordered
    <3> QED
      BY <3>1, <3>2, <3>3, <3>4, OthersOrder DEF history
  <2>5. CASE Stop
    BY <2>5 DEF Stop, Undisturbed
  <2>6. CASE ReturnStopped
    BY <2>6 DEF ReturnStopped, OrderInv, Ordered, Undisturbed, history
  <2> QED
    BY <2>1, <2>2, <2>3, <2>4, <2>5, <2>6 DEF Next, User, Loop
<1>3. OrderInv => OnceInOrder
  BY DEF OrderInv, Ordered, Undisturbed, OnceInOrder
<1> QED
  BY <1>1, <1>2, <1>3, WalkStaysInside, PTL DEF Spec

=============================================================================
