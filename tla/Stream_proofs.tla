--------------------------- MODULE Stream_proofs ---------------------------
(***************************************************************************)
(* Theorems about Stream: it implements Handle, whose theorems therefore   *)
(* hold for sockets, and it retains the socket once per request.           *)
(***************************************************************************)
EXTENDS Stream, Handle_proofs, NaturalsInduction, WellFoundedInduction

-----------------------------------------------------------------------------
(* Every step of a socket is a step of Handle or leaves its life alone. *)

LEMMA UserStreamLife == UserStreamNext => [Next]_vars
<1> SUFFICES ASSUME UserStreamNext PROVE [Next]_vars
  OBVIOUS
<1>1. ASSUME NEW k \in 1 .. 2, StartRequests(k) PROVE Next
  BY <1>1 DEF Next
<1>2. 1 \in 1 .. 2 /\ 2 \in 1 .. 2
  OBVIOUS
<1>3. Shutdown => Next
  BY <1>1, <1>2 DEF Shutdown
<1>4. CASE Connect
  BY <1>1, <1>2, <1>4 DEF Connect
<1>5. CASE Accept \/ Resume \/ Pause
  BY <1>5 DEF Accept, Resume, Pause
<1>6. CASE WriteFails
  BY <1>6 DEF WriteFails, Next, UserNext
<1>7. CASE End
  BY <1>3, <1>7 DEF End
<1>8. ASSUME NEW n \in Sizes, WriteNow(n) \/ WriteLater(n) \/ EndWith(n)
      PROVE  [Next]_vars
  BY <1>1, <1>2, <1>8 DEF WriteNow, WriteLater, EndWith
<1> QED
  BY <1>4, <1>5, <1>6, <1>7, <1>8 DEF UserStreamNext

LEMMA LibuvLife == LibuvNext => [Next]_vars
<1> SUFFICES ASSUME LibuvNext PROVE [Next]_vars
  OBVIOUS
<1>1. CASE ReadData \/ ReadEof \/ ReadError
  BY <1>1 DEF ReadData, ReadEof, ReadError, Next
<1>2. CASE StreamClosed
  BY <1>2 DEF StreamClosed, Next
<1>3. ASSUME NEW ok \in BOOLEAN, Connected(ok) \/ Written(ok) \/ ShutdownDone(ok)
      PROVE  [Next]_vars
  BY <1>3 DEF Connected, Written, ShutdownDone, Next
<1> QED
  BY <1>1, <1>2, <1>3 DEF LibuvNext

LEMMA StatementLife == Statement => [Next]_vars
<1> SUFFICES ASSUME Statement PROVE [Next]_vars
  OBVIOUS
<1>1. Shutdown => Next
  <2>1. 1 \in 1 .. 2
    OBVIOUS
  <2> QED
    BY <2>1 DEF Shutdown, Next
<1>2. CASE DoEmit \/ DoReadingEnded \/ DoWritten
  BY <1>2 DEF DoEmit, DoReadingEnded, DoWritten, Next
<1>3. CASE DoDestroy \/ DoWritingEnded
  BY <1>3 DEF DoDestroy, DoWritingEnded, Next
<1>4. CASE DoEndOrDestroy
  BY <1>1, <1>4 DEF DoEndOrDestroy, Next
<1>5. CASE DoReturn
  BY <1>5 DEF DoReturn, Next
<1> QED
  BY <1>2, <1>3, <1>4, <1>5 DEF Statement

\* A socket lives the life Handle describes: whatever reads, writes, ends and
\* fails, uv/stream.h and tcp/socket.cc touch the reference count only with
\* the operations of object.h and uv/handle.h.
THEOREM StreamImplementsHandle == StreamSpec => Spec
<1>1. StreamInit => Init
  BY DEF StreamInit
<1>2. [StreamNext]_allVars => [Next]_vars
  <2> SUFFICES ASSUME [StreamNext]_allVars PROVE [Next]_vars
    OBVIOUS
  <2>1. CASE LifeNext
    BY <2>1 DEF LifeNext, Next
  <2>2. CASE UNCHANGED allVars
    BY <2>2 DEF allVars
  <2> QED
    BY <2>1, <2>2, UserStreamLife, LibuvLife, StatementLife DEF StreamNext
<1> QED
  BY <1>1, <1>2, PTL DEF StreamSpec, Spec

\* So a socket is never deleted while libuv, a callback or a listener that
\* will go on with it has it.
THEOREM SocketDeletedIsUnused ==
  ASSUME HasHandle
  PROVE  StreamSpec => []NoUseAfterFree
<1>1. Spec => []NoUseAfterFree
  BY DeletedIsUnused
<1> QED
  BY <1>1, StreamImplementsHandle, PTL

-----------------------------------------------------------------------------
(* Types *)

Entries == Statements \X ({0} \cup Sizes)

LEMMA JobTypes ==
  ASSUME NEW n \in {0} \cup Sizes, NEW a \in Statements, NEW b \in Statements
  PROVE  /\ <<<<a, n>>>> \in Seq(Entries)
         /\ <<<<a, n>>, <<b, 0>>>> \in Seq(Entries)
BY DEF Entries

LEMMA StatementNames ==
  /\ "emit" \in Statements /\ "destroy" \in Statements
  /\ "readingEnded" \in Statements /\ "endOrDestroy" \in Statements
  /\ "written" \in Statements /\ "writingEnded" \in Statements
BY DEF Statements

LEMMA TailTyped ==
  ASSUME NEW S, NEW s \in Seq(S), s # <<>>
  PROVE  Tail(s) \in Seq(S) /\ Head(s) \in S /\ Len(Tail(s)) = Len(s) - 1
         /\ Len(s) > 0
OBVIOUS

LEMMA LevelIsBoolean == \A m, n : (m < n) \in BOOLEAN
OBVIOUS

LEMMA UserStreamTyped ==
  ASSUME StreamTypeOK, UserStreamNext
  PROVE  StreamTypeOK'
<1>1. CASE Connect \/ Accept
  BY <1>1 DEF Connect, Accept, StreamTypeOK, readVars, writeVars
<1>2. CASE Resume \/ Pause
  BY <1>2 DEF Resume, Pause, StreamTypeOK, writeVars
<1>3. CASE WriteFails
  BY <1>3 DEF WriteFails, StreamTypeOK, libuvVars, readVars
<1>4. CASE End
  <2>1. shutting' \in BOOLEAN
    BY <1>4, Zenon DEF End, Shutdown, StreamTypeOK
  <2>2. regular' \in BOOLEAN
    BY <1>4, LevelIsBoolean, Zenon DEF End
  <2>3. writable' \in BOOLEAN
    BY <1>4, Zenon DEF End
  <2>4. UNCHANGED <<conn, reading, writes, readVars, wEnded, wm, job>>
    BY <1>4 DEF End
  <2> QED
    BY <2>1, <2>2, <2>3, <2>4 DEF StreamTypeOK, readVars
<1>5. ASSUME NEW n \in Sizes, WriteNow(n)
      PROVE  StreamTypeOK'
  BY <1>5 DEF WriteNow, StreamTypeOK, libuvVars, readVars
<1>6. ASSUME NEW n \in Sizes, Enqueue(n), StreamTypeOK
      PROVE  writes' \in Seq(Sizes) /\ wm' \in Nat
  BY <1>6, SizesAssumption DEF Enqueue, StreamTypeOK
<1>7. ASSUME NEW n \in Sizes, WriteLater(n)
      PROVE  StreamTypeOK'
  BY <1>6, <1>7 DEF WriteLater, StreamTypeOK, readVars
<1>8. ASSUME NEW n \in Sizes, EndWith(n)
      PROVE  StreamTypeOK'
  <2>1. writes' \in Seq(Sizes) /\ wm' \in Nat
    BY <1>6, <1>8 DEF EndWith
  <2>2. shutting' \in BOOLEAN /\ writable' \in BOOLEAN
    BY <1>8, Zenon DEF EndWith
  <2>3. regular' \in BOOLEAN
    BY <1>8, LevelIsBoolean, Zenon DEF EndWith
  <2>4. UNCHANGED <<conn, reading, readVars, wEnded, job>>
    BY <1>8 DEF EndWith
  <2> QED
    BY <2>1, <2>2, <2>3, <2>4 DEF StreamTypeOK, readVars
<1> QED
  BY <1>1, <1>2, <1>3, <1>4, <1>5, <1>7, <1>8 DEF UserStreamNext

LEMMA LibuvTyped ==
  ASSUME StreamTypeOK, LibuvNext
  PROVE  StreamTypeOK'
<1> USE StatementNames, JobTypes
<1>1. CASE ReadData \/ ReadEof \/ ReadError
  <2>1. job' \in Seq(Entries)
    BY <1>1 DEF ReadData, ReadEof, ReadError
  <2> QED
    BY <1>1, <2>1 DEF ReadData, ReadEof, ReadError, StreamTypeOK, Entries,
                      libuvVars, readVars, writeVars
<1>2. CASE StreamClosed
  BY <1>2 DEF StreamClosed, StreamTypeOK, streamVars, libuvVars, readVars, writeVars
<1>3. ASSUME NEW ok \in BOOLEAN, Connected(ok)
      PROVE  StreamTypeOK'
  <2>1. job' \in Seq(Entries)
    BY <1>3 DEF Connected
  <2> QED
    BY <1>3, <2>1 DEF Connected, StreamTypeOK, Entries, readVars, writeVars
<1>4. ASSUME NEW ok \in BOOLEAN, Written(ok)
      PROVE  StreamTypeOK'
  <2>1. writes' \in Seq(Sizes) /\ Head(writes) \in Sizes
    BY <1>4, TailTyped DEF Written, StreamTypeOK
  <2>2. job' \in Seq(Entries)
    BY <1>4, <2>1 DEF Written
  <2> QED
    BY <1>4, <2>1, <2>2 DEF Written, StreamTypeOK, Entries, readVars, writeVars
<1>5. ASSUME NEW ok \in BOOLEAN, ShutdownDone(ok)
      PROVE  StreamTypeOK'
  <2>1. job' \in Seq(Entries)
    BY <1>5 DEF ShutdownDone
  <2> QED
    BY <1>5, <2>1 DEF ShutdownDone, StreamTypeOK, Entries, readVars, writeVars
<1> QED
  BY <1>1, <1>2, <1>3, <1>4, <1>5 DEF LibuvNext

LEMMA StatementTyped ==
  ASSUME StreamTypeOK, Statement
  PROVE  StreamTypeOK'
<1>1. ASSUME NEW st, Doing(st)
      PROVE  /\ job' \in Seq(Entries)
             /\ Head(job)[2] \in Nat
  <2>1. job \in Seq(Entries) /\ job # <<>>
    BY <1>1 DEF Doing, StreamTypeOK, Entries
  <2>2. Tail(job) \in Seq(Entries) /\ Head(job) \in Entries
    BY <2>1, TailTyped
  <2> QED
    <3>1. Head(job)[2] \in {0} \cup Sizes
      BY <2>2 DEF Entries
    <3>2. Head(job)[2] \in Nat
      <4>1. 0 \in Nat
        OBVIOUS
      <4> QED
        BY <3>1, <4>1, SizesAssumption, Zenon
    <3> QED
      BY <1>1, <2>2, <3>2 DEF Doing
<1>2. CASE DoEmit \/ DoDestroy
  <2>1. job' \in Seq(Entries)
    BY <1>1, <1>2 DEF DoEmit, DoDestroy
  <2> QED
    BY <1>2, <2>1 DEF DoEmit, DoDestroy, StreamTypeOK, Entries, libuvVars,
                      readVars, writeVars
<1>3. CASE DoReadingEnded
  <2>1. job' \in Seq(Entries)
    BY <1>1, <1>3 DEF DoReadingEnded
  <2> QED
    BY <1>3, <2>1 DEF DoReadingEnded, StreamTypeOK, Entries, libuvVars, writeVars
<1>4. CASE DoEndOrDestroy
  <2>1. job' \in Seq(Entries)
    BY <1>1, <1>4 DEF DoEndOrDestroy
  <2>2. shutting' \in BOOLEAN
    BY <1>4, Zenon DEF DoEndOrDestroy, Shutdown, StreamTypeOK
  <2>3. writable' \in BOOLEAN
    BY <1>4, Zenon DEF DoEndOrDestroy, StreamTypeOK
  <2>4. regular' \in BOOLEAN
    BY <1>4, LevelIsBoolean, Zenon DEF DoEndOrDestroy, StreamTypeOK
  <2>5. UNCHANGED <<conn, reading, writes, readVars, wEnded, wm>>
    BY <1>4 DEF DoEndOrDestroy
  <2> QED
    BY <2>1, <2>2, <2>3, <2>4, <2>5 DEF StreamTypeOK, Entries, readVars
<1>5. CASE DoWritten
  <2>1. job' \in Seq(Entries) /\ Head(job)[2] \in Nat /\ wm \in Nat
    BY <1>1, <1>5 DEF DoWritten, StreamTypeOK
  <2>2. wm' \in Nat
    BY <1>5, <2>1 DEF DoWritten
  <2> QED
    BY <1>5, <2>1, <2>2 DEF DoWritten, StreamTypeOK, Entries, libuvVars, readVars
<1>6. CASE DoWritingEnded
  <2>1. job' \in Seq(Entries)
    BY <1>1, <1>6 DEF DoWritingEnded
  <2> QED
    BY <1>6, <2>1 DEF DoWritingEnded, StreamTypeOK, Entries, libuvVars, readVars
<1>7. CASE DoReturn
  BY <1>7 DEF DoReturn, StreamTypeOK, streamVars, libuvVars, readVars, writeVars
<1> QED
  BY <1>2, <1>3, <1>4, <1>5, <1>6, <1>7 DEF Statement

\* The variables of the stream keep their types: the watermark never goes
\* below zero and no callback runs out of its statements.
THEOREM StreamTyping == StreamSpec => []StreamTypeOK
<1>1. StreamInit => StreamTypeOK
  <2>1. <<>> \in Seq(Sizes) /\ <<>> \in Seq(Statements \X ({0} \cup Sizes))
    OBVIOUS
  <2>2. StreamInit => /\ reading \in BOOLEAN /\ shutting \in BOOLEAN
                      /\ consuming \in BOOLEAN /\ rEnded \in BOOLEAN
                      /\ wEnded \in BOOLEAN /\ writable \in BOOLEAN
                      /\ regular \in BOOLEAN
    BY Zenon DEF StreamInit
  <2> QED
    BY <2>1, <2>2 DEF StreamInit, StreamTypeOK
<1>2. StreamTypeOK /\ [StreamNext]_allVars => StreamTypeOK'
  <2> SUFFICES ASSUME StreamTypeOK, [StreamNext]_allVars PROVE StreamTypeOK'
    OBVIOUS
  <2>1. CASE UNCHANGED streamVars
    BY <2>1 DEF StreamTypeOK, streamVars, libuvVars, readVars, writeVars
  <2> QED
    BY <2>1, UserStreamTyped, LibuvTyped, StatementTyped
       DEF StreamNext, LifeNext, allVars
<1> QED
  BY <1>1, <1>2, PTL DEF StreamSpec

-----------------------------------------------------------------------------
(* Requests *)

\* Only StartRequests and Complete change the number of requests.
LEMMA PendingKept ==
  ASSUME \/ UserNext \/ ObjectNext \/ BodyEmits \/ BodyDestroys \/ BodyReturns
         \/ Callback \/ Closed \/ UNCHANGED vars
  PROVE  pending' = pending
<1>1. UserNext => pending' = pending
  BY DEF UserNext, CopyRef, DropRef, Listen, Unlisten, CallDestroy, CallEmit,
         CallEmitError, ReturnToEmit
<1>2. ObjectNext => pending' = pending
  BY DEF ObjectNext, Destroy, DestroyTail, RemoveAll, Release, ReleaseTail, ResetTail,
         Destroying, Delete
<1> QED
  BY <1>1, <1>2 DEF BodyEmits, BodyDestroys, BodyReturns, Callback, Closed, vars

\* end() happens once: nothing shuts the stream down twice.
RequestsInv == RequestsExact /\ (writable => ~shutting)

LEMMA RequestsKept ==
  ASSUME RequestsInv, pending' = pending, UNCHANGED <<conn, writes, shutting>>,
         writable' => writable
  PROVE  RequestsInv'
BY DEF RequestsInv, RequestsExact, One

LEMMA ShutdownExact ==
  ASSUME RequestsInv, TypeOK, StreamTypeOK, Shutdown, writable, writable' = FALSE,
         UNCHANGED <<conn, writes>>
  PROVE  RequestsInv'
<1>1. /\ pending' = pending + 1 /\ shutting' = TRUE /\ shutting = FALSE
      /\ pending \in Nat /\ Len(writes) \in Nat
  BY DEF Shutdown, StartRequests, RequestsInv, TypeOK, StreamTypeOK
<1> QED
  BY <1>1 DEF RequestsInv, RequestsExact, One

LEMMA UserStreamExact ==
  ASSUME RequestsInv, TypeOK, StreamTypeOK, UserStreamNext
  PROVE  RequestsInv'
<1>0. pending \in Nat /\ Len(writes) \in Nat /\ writes \in Seq(Sizes)
  BY DEF TypeOK, StreamTypeOK
<1>1. CASE Connect
  <2>1. /\ conn = "none" /\ conn' = "connecting" /\ pending' = pending + 1
        /\ UNCHANGED <<writes, shutting, writable>>
    BY <1>1 DEF Connect, StartRequests, writeVars
  <2> QED
    BY <1>0, <2>1 DEF RequestsInv, RequestsExact, One
<1>2. CASE Accept
  <2>1. /\ conn = "none" /\ conn' = "connected" /\ pending' = pending
        /\ UNCHANGED <<writes, shutting, writable>>
    BY <1>2 DEF Accept, vars, writeVars
  <2> QED
    BY <1>0, <2>1 DEF RequestsInv, RequestsExact, One
<1>3. CASE Resume \/ Pause
  BY <1>3, PendingKept, RequestsKept DEF Resume, Pause, writeVars
<1>4. CASE WriteFails
  BY <1>4, PendingKept, RequestsKept DEF WriteFails, UserNext, libuvVars
<1>5. CASE End
  <2>1. CASE Shutdown
    BY <1>5, <2>1, ShutdownExact DEF End
  <2>2. CASE UNCHANGED <<vars, shutting>>
    <3>1. pending' = pending
      BY <2>2 DEF vars
    <3> QED
      BY <1>5, <2>2, <3>1, RequestsKept DEF End
  <2> QED
    BY <1>5, <2>1, <2>2 DEF End
<1>6. ASSUME NEW n \in Sizes, WriteNow(n)
      PROVE  RequestsInv'
  BY <1>6, PendingKept, RequestsKept DEF WriteNow, libuvVars
<1>7. ASSUME NEW n \in Sizes, Enqueue(n)
      PROVE  Len(writes') = Len(writes) + 1
  BY <1>0, <1>7 DEF Enqueue
<1>8. ASSUME NEW n \in Sizes, WriteLater(n)
      PROVE  RequestsInv'
  <2>1. /\ Len(writes') = Len(writes) + 1 /\ pending' = pending + 1
        /\ UNCHANGED <<conn, shutting, writable>>
    BY <1>7, <1>8 DEF WriteLater, StartRequests
  <2>2. One(shutting) \in Nat /\ One(conn = "connecting") \in Nat
    BY DEF One
  <2>3. pending' = Len(writes') + One(shutting) + One(conn = "connecting")
    BY <1>0, <2>1, <2>2 DEF RequestsInv, RequestsExact
  <2> QED
    BY <2>1, <2>3 DEF RequestsInv, RequestsExact
<1>9. ASSUME NEW n \in Sizes, EndWith(n)
      PROVE  RequestsInv'
  <2>1. /\ Len(writes') = Len(writes) + 1 /\ pending' = pending + 2
        /\ shutting' = TRUE /\ shutting = FALSE /\ writable' = FALSE
        /\ UNCHANGED conn
    BY <1>7, <1>9 DEF EndWith, StartRequests, RequestsInv, StreamTypeOK
  <2> QED
    BY <1>0, <2>1 DEF RequestsInv, RequestsExact, One
<1> QED
  BY <1>1, <1>2, <1>3, <1>4, <1>5, <1>6, <1>8, <1>9 DEF UserStreamNext

LEMMA LibuvExact ==
  ASSUME RequestsInv, TypeOK, StreamTypeOK, LibuvNext
  PROVE  RequestsInv'
<1>0. pending \in Nat /\ Len(writes) \in Nat /\ writes \in Seq(Sizes)
  BY DEF TypeOK, StreamTypeOK
<1>1. CASE ReadData \/ ReadEof \/ ReadError
  <2>1. /\ pending' = pending /\ UNCHANGED <<conn, writes, shutting, writable>>
    BY <1>1, PendingKept DEF ReadData, ReadEof, ReadError, libuvVars, writeVars
  <2> QED
    BY <2>1, RequestsKept
<1>2. CASE StreamClosed
  BY <1>2, PendingKept, RequestsKept DEF StreamClosed, streamVars, libuvVars,
                                         writeVars
<1>3. ASSUME NEW ok \in BOOLEAN, Connected(ok)
      PROVE  RequestsInv'
  <2>1. /\ conn = "connecting" /\ conn' # "connecting" /\ pending' = pending - 1
        /\ UNCHANGED <<writes, shutting, writable>>
    BY <1>3 DEF Connected, Complete, writeVars
  <2> QED
    BY <1>0, <2>1 DEF RequestsInv, RequestsExact, One
<1>4. ASSUME NEW ok \in BOOLEAN, Written(ok)
      PROVE  RequestsInv'
  <2>1. Len(writes') = Len(writes) - 1
    BY <1>0, <1>4, TailTyped DEF Written
  <2>2. pending' = pending - 1 /\ UNCHANGED <<conn, shutting, writable>>
    BY <1>4 DEF Written, Complete, writeVars
  <2> QED
    BY <1>0, <2>1, <2>2 DEF RequestsInv, RequestsExact, One
<1>5. ASSUME NEW ok \in BOOLEAN, ShutdownDone(ok)
      PROVE  RequestsInv'
  <2>1. /\ shutting = TRUE /\ shutting' = FALSE /\ pending' = pending - 1
        /\ UNCHANGED <<conn, writes, writable>>
    BY <1>5 DEF ShutdownDone, Complete, writeVars, StreamTypeOK
  <2> QED
    BY <1>0, <2>1 DEF RequestsInv, RequestsExact, One
<1> QED
  BY <1>1, <1>2, <1>3, <1>4, <1>5 DEF LibuvNext

LEMMA StatementExact ==
  ASSUME RequestsInv, TypeOK, StreamTypeOK, Statement
  PROVE  RequestsInv'
<1>1. CASE DoEmit \/ DoDestroy
  <2>1. pending' = pending /\ UNCHANGED <<conn, writes, shutting, writable>>
    BY <1>1, PendingKept DEF DoEmit, DoDestroy, libuvVars, writeVars
  <2> QED
    BY <2>1, RequestsKept
<1>2. CASE DoReadingEnded
  <2>1. pending' = pending /\ UNCHANGED <<conn, writes, shutting, writable>>
    BY <1>2, PendingKept DEF DoReadingEnded, libuvVars, writeVars
  <2> QED
    BY <2>1, RequestsKept
<1>3. CASE DoEndOrDestroy
  <2>1. UNCHANGED <<conn, writes>>
    BY <1>3 DEF DoEndOrDestroy
  <2>2. CASE writable /\ writable' = FALSE /\ Shutdown
    BY <2>1, <2>2, ShutdownExact
  <2>3. CASE pending' = pending /\ shutting' = shutting /\ (writable' => writable)
    BY <2>1, <2>3, RequestsKept
  <2>4. CASE wEnded \/ ~writable
    <3>1. /\ BodyDestroys \/ UNCHANGED vars
          /\ UNCHANGED <<shutting, writable>>
      BY <1>3, <2>4 DEF DoEndOrDestroy
    <3> QED
      BY <2>3, <3>1, PendingKept
  <2>5. CASE ~wEnded /\ writable
    <3>1. /\ Shutdown \/ UNCHANGED <<vars, shutting>>
          /\ writable' = FALSE
      BY <1>3, <2>5 DEF DoEndOrDestroy
    <3> QED
      BY <2>2, <2>3, <2>5, <3>1, PendingKept
  <2> QED
    BY <2>4, <2>5 DEF StreamTypeOK
<1>4. CASE DoWritten
  <2>1. pending' = pending /\ UNCHANGED <<conn, writes, shutting, writable>>
    BY <1>4, PendingKept DEF DoWritten, libuvVars
  <2> QED
    BY <2>1, RequestsKept
<1>5. CASE DoWritingEnded
  <2>1. /\ pending' = pending /\ UNCHANGED <<conn, writes, shutting>>
        /\ writable' = FALSE
    BY <1>5, PendingKept DEF DoWritingEnded, libuvVars
  <2> QED
    BY <2>1, RequestsKept
<1>6. CASE DoReturn
  BY <1>6, PendingKept, RequestsKept DEF DoReturn, streamVars, libuvVars, writeVars
<1> QED
  BY <1>1, <1>2, <1>3, <1>4, <1>5, <1>6 DEF Statement

\* Every request libuv holds has retained the socket once, whatever was
\* written, cut short, cancelled or refused.
THEOREM RequestsAreExact ==
  ASSUME HasHandle
  PROVE  StreamSpec => []RequestsExact
<1>1. StreamInit => RequestsInv
  BY DEF StreamInit, Init, RequestsInv, RequestsExact, One
<1>2. RequestsInv /\ TypeOK /\ StreamTypeOK /\ [StreamNext]_allVars => RequestsInv'
  <2> SUFFICES ASSUME RequestsInv, TypeOK, StreamTypeOK, [StreamNext]_allVars
               PROVE  RequestsInv'
    OBVIOUS
  <2>1. CASE LifeNext \/ UNCHANGED allVars
    <3>1. pending' = pending /\ UNCHANGED streamVars
      BY <2>1, PendingKept DEF LifeNext, allVars
    <3> QED
      BY <3>1, RequestsKept DEF streamVars, libuvVars, writeVars
  <2> QED
    BY <2>1, UserStreamExact, LibuvExact, StatementExact DEF StreamNext
<1>3. RequestsInv => RequestsExact
  BY DEF RequestsInv
<1>4. Spec => []TypeOK
  BY Typing
<1> QED
  BY <1>1, <1>2, <1>3, <1>4, StreamImplementsHandle, StreamTyping, PTL
     DEF StreamSpec

-----------------------------------------------------------------------------
(* Sums: what the fold of Sum does, by induction over the set of indices *)

\* A set of numbers has a least element.
LEMMA NatMin ==
  ASSUME NEW T \in SUBSET Nat, T # {}
  PROVE  \E x \in T : \A y \in T : x <= y
<1> DEFINE R == {ss \in Nat \X Nat : ss[1] < ss[2]}
<1>1. IsWellFoundedOn(R, Nat)
  BY NatLessThanWellFounded DEF OpToRel
<1>2. \A x, y \in Nat : <<y, x>> \notin R => x <= y
  OBVIOUS
<1> HIDE DEF R
<1>3. PICK x \in T : \A y \in T : <<y, x>> \notin R
  BY <1>1, WFMin
<1> QED
  BY <1>2, <1>3

\* Induction up to n
LEMMA UpTo ==
  ASSUME NEW n \in Nat, NEW T, n > 0 => 1 \in T,
           \A i \in 1 .. n - 1 : i \in T => i + 1 \in T
  PROVE  1 .. n \subseteq T
<1> SUFFICES ASSUME (1 .. n) \ T # {} PROVE FALSE
  OBVIOUS
<1> DEFINE U == (1 .. n) \ T
<1>4. U \in SUBSET Nat /\ U # {}
  OBVIOUS
<1> HIDE DEF U
<1>5. \E x \in U : \A y \in U : x <= y
  BY <1>4, NatMin
<1>1. PICK x \in (1 .. n) \ T : \A y \in (1 .. n) \ T : x <= y
  BY <1>5 DEF U
<1>2. x # 1 /\ x - 1 \in 1 .. n - 1
  BY <1>1
<1>3. x - 1 \in T
  BY <1>1, <1>2
<1> QED
  BY <1>1, <1>2, <1>3

\* The function by which MapThenFoldSet() folds the elements of s at D
Goes(f, s, D) ==
    f = [T \in SUBSET D |->
            IF T = {} THEN 0
            ELSE LET x == Max(T) IN f[T \ {x}] + s[x]]

LEMMA SumIs ==
  ASSUME NEW s
  PROVE  Sum(s) = (CHOOSE f : Goes(f, s, DOMAIN s))[DOMAIN s]
BY Zenon DEF Sum, FoldLeft, MapThenFoldSet, Goes

LEMMA MaxIsLast ==
  ASSUME NEW k \in Nat, NEW T \in SUBSET (1 .. k + 1), k + 1 \in T
  PROVE  Max(T) = k + 1
<1>1. \A y \in T : k + 1 >= y
  OBVIOUS
<1>2. \A x \in T : (\A y \in T : x >= y) => x = k + 1
  <2> TAKE x \in T
  <2> HAVE \A y \in T : x >= y
  <2>1. x >= k + 1 /\ x \in 1 .. k + 1
    OBVIOUS
  <2> QED
    BY <2>1
<1> QED
  BY <1>1, <1>2 DEF Max

LEMMA GoesOn ==
  ASSUME NEW s, NEW k \in Nat, NEW f, Goes(f, s, 1 .. k)
  PROVE  \E g : Goes(g, s, 1 .. k + 1)
<1> DEFINE g == [T \in SUBSET (1 .. k + 1) |->
                    IF k + 1 \in T THEN f[T \ {k + 1}] + s[k + 1] ELSE f[T]]
<1>1. \A T \in SUBSET (1 .. k + 1) : k + 1 \notin T => T \in SUBSET (1 .. k)
  OBVIOUS
<1>2. \A T \in SUBSET (1 .. k) : T \in SUBSET (1 .. k + 1) /\ k + 1 \notin T
  OBVIOUS
<1>3. \A T \in SUBSET (1 .. k) :
          f[T] = IF T = {} THEN 0 ELSE f[T \ {Max(T)}] + s[Max(T)]
  BY DEF Goes
<1>4. \A T \in SUBSET (1 .. k) : g[T] = f[T]
  BY <1>2
<1>5. \A T \in SUBSET (1 .. k + 1) : k + 1 \in T => g[T] = f[T \ {k + 1}] + s[k + 1]
  OBVIOUS
<1>6. g = [T \in SUBSET (1 .. k + 1) |-> g[T]]
  OBVIOUS
<1> HIDE DEF g
<1>7. \A T \in SUBSET (1 .. k + 1) :
          g[T] = IF T = {} THEN 0 ELSE g[T \ {Max(T)}] + s[Max(T)]
  <2> TAKE T \in SUBSET (1 .. k + 1)
  <2>1. CASE k + 1 \in T
    <3>1. Max(T) = k + 1 /\ T # {}
      BY <2>1, MaxIsLast
    <3>2. T \ {k + 1} \in SUBSET (1 .. k)
      BY <1>1
    <3> QED
      BY <1>4, <1>5, <2>1, <3>1, <3>2
  <2>2. CASE k + 1 \notin T
    <3>1. T \in SUBSET (1 .. k) /\ T \ {Max(T)} \in SUBSET (1 .. k)
      BY <1>1, <2>2
    <3> QED
      BY <1>3, <1>4, <3>1
  <2> QED
    BY <2>1, <2>2
<1>8. Goes(g, s, 1 .. k + 1)
  BY <1>6, <1>7, Zenon DEF Goes
<1> QED
  BY <1>8

LEMMA GoesExists ==
  ASSUME NEW s, NEW n \in Nat
  PROVE  \E f : Goes(f, s, 1 .. n)
<1> DEFINE K == {k \in 1 .. n : \E f : Goes(f, s, 1 .. k)}
<1>1. \E f : Goes(f, s, 1 .. 0)
  <2>1. Goes([T \in SUBSET (1 .. 0) |-> 0], s, 1 .. 0)
    <3>1. \A T \in SUBSET (1 .. 0) : T = {}
      OBVIOUS
    <3> QED
      BY <3>1 DEF Goes
  <2> QED
    BY <2>1
<1>2. \E f : Goes(f, s, 1 .. 1)
  <2>1. \E f : Goes(f, s, 1 .. 0 + 1)
    BY <1>1, GoesOn
  <2>2. 0 + 1 = 1
    OBVIOUS
  <2> QED
    BY <2>1, <2>2
<1>3. \A k \in 1 .. n - 1 : k \in K => k + 1 \in K
  BY GoesOn
<1>4. n > 0 => 1 \in K
  BY <1>2
<1> HIDE DEF K
<1>5. 1 .. n \subseteq K
  BY <1>3, <1>4, UpTo
<1>6. CASE n = 0
  BY <1>1, <1>6
<1>7. CASE n # 0
  BY <1>5, <1>7 DEF K
<1> QED
  BY <1>6, <1>7

\* The sums of the first elements of s
Levels(g, s) ==
    /\ g \in [0 .. Len(s) -> Nat] /\ g[0] = 0
    /\ \A i \in 1 .. Len(s) : g[i] = g[i - 1] + s[i]

LEMMA SumLevels ==
  ASSUME NEW s \in Seq(Nat)
  PROVE  \E g : Levels(g, s) /\ Sum(s) = g[Len(s)]
<1> DEFINE n == Len(s)
           f == CHOOSE h : Goes(h, s, DOMAIN s)
           g == [i \in 0 .. n |-> f[1 .. i]]
           K == {i \in 1 .. n : g[i] \in Nat}
<1>1. n \in Nat /\ DOMAIN s = 1 .. n /\ \A i \in 1 .. n : s[i] \in Nat
  BY LenProperties, ElementOfSeq
<1>2. Goes(f, s, 1 .. n)
  BY <1>1, GoesExists, Zenon
<1>3. Sum(s) = f[1 .. n]
  BY <1>1, SumIs
<1> HIDE DEF f
<1>4. \A T \in SUBSET (1 .. n) :
          f[T] = IF T = {} THEN 0 ELSE f[T \ {Max(T)}] + s[Max(T)]
  BY <1>2 DEF Goes
<1>5. f[1 .. 0] = 0
  <2>1. 1 .. 0 = {} /\ {} \in SUBSET (1 .. n)
    OBVIOUS
  <2>2. f[{}] = 0
    BY <1>4, <2>1
  <2> QED
    BY <2>1, <2>2
<1>6. \A i \in 1 .. n : f[1 .. i] = f[1 .. i - 1] + s[i]
  <2> TAKE i \in 1 .. n
  <2>1. i - 1 \in Nat /\ (i - 1) + 1 = i
    OBVIOUS
  <2>2. Max(1 .. i) = i
    <3>1. ASSUME NEW k \in Nat PROVE Max(1 .. k + 1) = k + 1
      <4>1. 1 .. k + 1 \in SUBSET (1 .. k + 1) /\ k + 1 \in 1 .. k + 1
        OBVIOUS
      <4> QED
        BY <4>1, MaxIsLast
    <3>2. Max(1 .. (i - 1) + 1) = (i - 1) + 1
      BY <2>1, <3>1, Zenon
    <3> QED
      BY <2>1, <3>2, Zenon
  <2>3. 1 .. i \in SUBSET (1 .. n) /\ i \in 1 .. i
    BY <1>1
  <2>4. (1 .. i) \ {i} = 1 .. i - 1
    BY <1>1
  <2>5. f[1 .. i] = f[(1 .. i) \ {Max(1 .. i)}] + s[Max(1 .. i)]
    BY <1>4, <2>3, Zenon
  <2> QED
    BY <2>2, <2>4, <2>5, Zenon
<1>7. g[0] = 0 /\ \A i \in 1 .. n : g[i] = g[i - 1] + s[i]
  <2>1. \A i \in 1 .. n : i \in 0 .. n /\ i - 1 \in 0 .. n
    OBVIOUS
  <2> QED
    BY <1>1, <1>5, <1>6, <2>1
<1>8. g[n] = f[1 .. n] /\ g = [i \in 0 .. n |-> g[i]]
  BY <1>1
<1> HIDE DEF n, g
<1>9. n > 0 => 1 \in K
  <2> HAVE n > 0
  <2>1. 1 \in 1 .. n /\ 1 - 1 = 0
    BY <1>1
  <2>2. g[1] = g[0] + s[1] /\ s[1] \in Nat
    BY <1>1, <1>7, <2>1
  <2> QED
    BY <1>7, <2>1, <2>2
<1>10. \A i \in 1 .. n - 1 : i \in K => i + 1 \in K
  <2> TAKE i \in 1 .. n - 1
  <2> HAVE i \in K
  <2>1. i + 1 \in 1 .. n /\ (i + 1) - 1 = i
    BY <1>1
  <2>2. g[i + 1] = g[i] + s[i + 1] /\ s[i + 1] \in Nat
    BY <1>1, <1>7, <2>1
  <2> QED
    BY <2>1, <2>2
<1> HIDE DEF K
<1>11. 1 .. n \subseteq K
  BY <1>1, <1>9, <1>10, UpTo
<1>12. g \in [0 .. n -> Nat]
  <2>1. \A i \in 0 .. n : g[i] \in Nat
    <3>1. \A i \in 0 .. n : i = 0 \/ i \in 1 .. n
      BY <1>1
    <3> QED
      BY <1>7, <1>11, <3>1 DEF K
  <2> QED
    BY <1>8, <2>1
<1> QED
  BY <1>3, <1>7, <1>8, <1>12 DEF Levels, n

\* Adding up t from its d-th element on is adding up s behind c.
LEMMA LevelsAgree ==
  ASSUME NEW s \in Seq(Nat), NEW t \in Seq(Nat), NEW g, NEW h,
         Levels(g, s), Levels(h, t), NEW c \in Nat, NEW d \in {0, 1},
           Len(s) + d <= Len(t), h[d] = c,
           \A i \in 1 .. Len(s) : s[i] = t[i + d]
  PROVE  \A i \in 0 .. Len(s) : h[i + d] = c + g[i]
<1> DEFINE n == Len(s)
           K == {i \in 1 .. n : h[i + d] = c + g[i]}
<1>1. /\ n \in Nat /\ Len(t) \in Nat /\ n + d <= Len(t)
      /\ g[0] = 0 /\ \A i \in 1 .. n : g[i] = g[i - 1] + s[i]
      /\ \A i \in 0 .. n : g[i] \in Nat
      /\ \A i \in 1 .. Len(t) : h[i] = h[i - 1] + t[i]
      /\ \A i \in 1 .. n : s[i] = t[i + d] /\ s[i] \in Nat
  BY LenProperties, ElementOfSeq DEF Levels
<1> HIDE DEF n
<1>2. \A i \in 1 .. n : i + d \in 1 .. Len(t) /\ (i + d) - 1 = (i - 1) + d
                        /\ i - 1 \in 0 .. n
  BY <1>1
<1>3. \A i \in 1 .. n : h[(i - 1) + d] = c + g[i - 1] => h[i + d] = c + g[i]
  <2> TAKE i \in 1 .. n
  <2> HAVE h[(i - 1) + d] = c + g[i - 1]
  <2>1. h[i + d] = h[(i - 1) + d] + s[i] /\ g[i] = g[i - 1] + s[i]
    BY <1>1, <1>2
  <2>2. g[i - 1] \in Nat /\ s[i] \in Nat
    BY <1>1, <1>2
  <2> QED
    BY <2>1, <2>2
<1>4. h[0 + d] = c + g[0]
  BY <1>1
<1>5. n > 0 => 1 \in K
  <2> HAVE n > 0
  <2>1. 1 \in 1 .. n /\ 1 - 1 = 0
    BY <1>1
  <2> QED
    BY <1>3, <1>4, <2>1
<1>6. \A i \in 1 .. n - 1 : i \in K => i + 1 \in K
  <2> TAKE i \in 1 .. n - 1
  <2> HAVE i \in K
  <2>1. i + 1 \in 1 .. n /\ (i + 1) - 1 = i
    BY <1>1
  <2> QED
    BY <1>3, <2>1
<1> HIDE DEF K
<1>7. 1 .. n \subseteq K
  BY <1>1, <1>5, <1>6, UpTo
<1>8. \A i \in 0 .. n : i = 0 \/ i \in 1 .. n
  BY <1>1
<1> QED
  BY <1>4, <1>7, <1>8 DEF K, n

\* What the sum is when an element is added behind or taken from the front
LEMMA SumProperties ==
    /\ Sum(<<>>) = 0
    /\ \A s \in Seq(Nat) :
          /\ Sum(s) \in Nat
          /\ \A e \in Nat : Sum(Append(s, e)) = Sum(s) + e
          /\ s # <<>> => Sum(s) = Head(s) + Sum(Tail(s))
<1>1. Sum(<<>>) = 0
  <2>1. <<>> \in Seq(Nat) /\ Len(<<>>) = 0
    BY EmptySeq
  <2> QED
    BY <2>1, SumLevels DEF Levels
<1>2. ASSUME NEW s \in Seq(Nat) PROVE Sum(s) \in Nat
  <2>1. Len(s) \in 0 .. Len(s)
    BY LenProperties
  <2> QED
    BY <2>1, SumLevels DEF Levels
<1>3. ASSUME NEW s \in Seq(Nat), NEW e \in Nat
      PROVE  Sum(Append(s, e)) = Sum(s) + e
  <2> DEFINE t == Append(s, e)
             n == Len(s)
  <2>1. /\ t \in Seq(Nat) /\ Len(t) = n + 1 /\ n \in Nat
        /\ \A i \in 1 .. n : t[i] = s[i]
        /\ t[n + 1] = e
    BY AppendProperties, LenProperties
  <2> HIDE DEF t
  <2>2. PICK g : Levels(g, s) /\ Sum(s) = g[n]
    BY SumLevels
  <2>3. PICK h : Levels(h, t) /\ Sum(t) = h[n + 1]
    BY <2>1, SumLevels
  <2>4. \A i \in 1 .. n : s[i] = t[i + 0]
    BY <2>1
  <2>5. \A i \in 0 .. n : h[i + 0] = 0 + g[i]
    <3>1. n + 0 <= Len(t) /\ h[0] = 0 /\ 0 \in Nat /\ 0 \in {0, 1}
      BY <2>1, <2>3 DEF Levels
    <3>2. Levels(g, s) /\ Levels(h, t)
      BY <2>2, <2>3
    <3> HIDE DEF n
    <3> QED
      BY <2>1, <2>4, <3>1, <3>2, LevelsAgree DEF n
  <2>6. h[n] = g[n] /\ g[n] \in Nat
    BY <2>1, <2>2, <2>5 DEF Levels
  <2>7. n + 1 \in 1 .. Len(t) /\ (n + 1) - 1 = n
    BY <2>1
  <2>8. h[n + 1] = h[n] + e
    BY <2>1, <2>3, <2>7 DEF Levels
  <2> QED
    BY <2>2, <2>3, <2>6, <2>8 DEF t
<1>4. ASSUME NEW t \in Seq(Nat), t # <<>>
      PROVE  Sum(t) = Head(t) + Sum(Tail(t))
  <2> DEFINE s == Tail(t)
             n == Len(s)
             c == Head(t)
  <2>1. /\ s \in Seq(Nat) /\ Len(t) = n + 1 /\ n \in Nat
        /\ \A i \in 1 .. n : s[i] = t[i + 1]
        /\ c \in Nat /\ c = t[1]
    <3>1. Len(t) \in Nat \ {0} /\ Head(t) = t[1]
      BY <1>4, EmptySeq
    <3> QED
      BY <1>4, <3>1, HeadTailProperties, LenProperties
  <2> HIDE DEF s, c
  <2>2. PICK g : Levels(g, s) /\ Sum(s) = g[n]
    BY <2>1, SumLevels
  <2>3. PICK h : Levels(h, t) /\ Sum(t) = h[n + 1]
    BY <2>1, SumLevels
  <2>4. h[1] = c
    <3>1. 1 \in 1 .. Len(t) /\ 1 - 1 = 0
      BY <2>1
    <3>2. h[1] = h[0] + c /\ h[0] = 0
      BY <2>1, <2>3, <3>1 DEF Levels
    <3> QED
      BY <2>1, <3>2
  <2>5. \A i \in 0 .. n : h[i + 1] = c + g[i]
    BY <2>1, <2>2, <2>3, <2>4, LevelsAgree
  <2> QED
    BY <2>1, <2>2, <2>3, <2>5 DEF s, c
<1> QED
  BY <1>1, <1>2, <1>3, <1>4

\* The sums of short sequences
LEMMA ShortSums ==
  ASSUME NEW s \in Seq(Nat)
  PROVE  /\ Len(s) = 0 => Sum(s) = 0
         /\ Len(s) = 1 => Sum(s) = s[1]
         /\ Len(s) = 2 => Sum(s) = s[1] + s[2]
<1>1. ASSUME NEW t \in Seq(Nat), Len(t) = 0 PROVE Sum(t) = 0
  <2>1. t = <<>>
    BY <1>1
  <2> QED
    BY <2>1, SumProperties
<1>2. ASSUME NEW t \in Seq(Nat), Len(t) > 0
      PROVE  /\ Tail(t) \in Seq(Nat) /\ Len(Tail(t)) = Len(t) - 1
             /\ Sum(t) = t[1] + Sum(Tail(t)) /\ t[1] \in Nat
             /\ Len(t) = 2 => Tail(t)[1] = t[2]
  <2>1. t # <<>> /\ Head(t) = t[1] /\ t[1] \in Nat /\ Len(t) \in Nat
    BY <1>2
  <2>2. Sum(t) = Head(t) + Sum(Tail(t))
    BY <2>1, SumProperties
  <2> QED
    BY <2>1, <2>2, HeadTailProperties
<1>3. ASSUME NEW t \in Seq(Nat), Len(t) = 1 PROVE Sum(t) = t[1]
  <2>1. Tail(t) \in Seq(Nat) /\ Len(Tail(t)) = 0 /\ t[1] \in Nat
        /\ Sum(t) = t[1] + Sum(Tail(t))
    BY <1>2, <1>3
  <2>2. Sum(Tail(t)) = 0
    BY <1>1, <2>1
  <2> QED
    BY <2>1, <2>2
<1>4. ASSUME Len(s) = 2 PROVE Sum(s) = s[1] + s[2]
  <2>1. Tail(s) \in Seq(Nat) /\ Len(Tail(s)) = 1 /\ Tail(s)[1] = s[2]
        /\ Sum(s) = s[1] + Sum(Tail(s))
    BY <1>2, <1>4
  <2> QED
    BY <1>3, <2>1
<1> QED
  BY <1>1, <1>3, <1>4

-----------------------------------------------------------------------------
(* What callbacks still have to do, and where that puts the call stack *)

OnStack(f) == \E i \in DOMAIN calls : calls[i] = f

\* Only the first statement of a callback takes back the watermark; after the
\* first there is destroy(), or end() once the end of reading was announced.
JobShape ==
  /\ Len(job) <= 2
  /\ \A i \in DOMAIN job :
        /\ job[i][2] # 0 => i = 1 /\ job[i][1] = "written"
        /\ i = 2 => job[i][1] \in {"destroy", "endOrDestroy"}
  /\ job # <<>> /\ job[1][1] = "readingEnded" =>
        Len(job) = 2 /\ job[2][1] = "endOrDestroy"

First(statement) == job # <<>> /\ Head(job)[1] = statement

\* What the running callback will take from the watermark
Owed == IF job = <<>> THEN 0 ELSE Head(job)[2]

\* A callback with something left to do is on the stack, and on top of it
\* while it has not begun to take back the watermark.
JobInv ==
  /\ JobShape
  /\ job # <<>> => OnStack("body")
  /\ First("written") => In("body")

\* Why the level is exact: what a finished request carried is owed until
\* ~packed_req() took it back.
LevelInv == wm = Sum(writes) + Owed /\ FloodCanDrain

\* Who will answer the peer's FIN, and why the stream is not writable.
EofInv ==
  /\ rEnded => \/ destroyed \/ shutting \/ OnStack("destroy")
               \/ First("endOrDestroy") \/ First("writingEnded")
  /\ ~writable => wEnded \/ shutting \/ destroyed \/ First("writingEnded")

EndInv == writable => ~shutting /\ ~wEnded

StreamInv == JobInv /\ LevelInv /\ EofInv /\ EndInv

LEMMA ShortTails ==
  ASSUME NEW S, NEW s \in Seq(S), Len(s) <= 2, s # <<>>
  PROVE  /\ Len(s) \in {1, 2} /\ Head(s) = s[1]
         /\ Len(s) = 1 => Tail(s) = <<>>
         /\ Len(s) = 2 => /\ Tail(s) # <<>> /\ Len(Tail(s)) = 1
                          /\ DOMAIN Tail(s) = {1} /\ Tail(s)[1] = s[2]
                          /\ Head(Tail(s)) = s[2]
<1>1. Len(s) \in Nat /\ Len(s) # 0 /\ Head(s) = s[1]
  OBVIOUS
<1>2. Len(s) \in {1, 2}
  <2>1. \A n \in Nat : n <= 2 /\ n # 0 => n \in {1, 2}
    OBVIOUS
  <2> QED
    BY <1>1, <2>1, Zenon
<1>3. Tail(s) \in Seq(S) /\ Len(Tail(s)) = Len(s) - 1
  OBVIOUS
<1>4. CASE Len(s) = 1
  <2>1. Len(Tail(s)) = 0
    BY <1>3, <1>4
  <2>2. Tail(s) = <<>>
    <3>1. \A t \in Seq(S) : Len(t) = 0 => t = <<>>
      OBVIOUS
    <3> QED
      BY <1>3, <2>1, <3>1, Zenon
  <2>3. Len(s) # 2
    BY <1>4
  <2> QED
    BY <1>1, <1>2, <1>4, <2>2, <2>3, Zenon
<1>5. CASE Len(s) = 2
  <2>1. Tail(s)[1] = s[2]
    <3>1. \A i \in 1 .. Len(Tail(s)) : Tail(s)[i] = s[i + 1]
      BY HeadTailProperties
    <3>2. 1 \in 1 .. Len(Tail(s)) /\ 1 + 1 = 2
      BY <1>3, <1>5
    <3> QED
      BY <3>1, <3>2, Zenon
  <2>2. ASSUME NEW t \in Seq(S), Len(t) = 1
        PROVE  t # <<>> /\ DOMAIN t = {1} /\ Head(t) = t[1]
    <3>1. t # <<>>
      <4>1. Len(t) # Len(<<>>)
        BY <2>2
      <4> QED
        BY <4>1, Zenon
    <3>2. DOMAIN t = {1}
      <4>1. DOMAIN t = 1 .. Len(t) /\ 1 .. 1 = {1}
        BY LenProperties
      <4> QED
        BY <2>2, <4>1, Zenon
    <3>3. Head(t) = t[1]
      BY <3>1
    <3> QED
      BY <3>1, <3>2, <3>3
  <2>3. Len(Tail(s)) = 1
    BY <1>3, <1>5
  <2>4. Tail(s) # <<>> /\ DOMAIN Tail(s) = {1} /\ Head(Tail(s)) = Tail(s)[1]
    BY <1>3, <2>2, <2>3, Zenon
  <2>5. Len(s) # 1
    BY <1>5
  <2> QED
    BY <1>1, <1>2, <1>5, <2>1, <2>3, <2>4, <2>5, Zenon
<1> QED
  BY <1>1, <1>2, <1>4, <1>5, Zenon

LEMMA JobTail ==
  ASSUME StreamTypeOK, JobShape, job # <<>>, job' = Tail(job)
  PROVE  /\ JobShape' /\ Owed' = 0
         /\ ~First("written")' /\ ~First("writingEnded")'
         /\ First("readingEnded") => First("endOrDestroy")'
<1>1. job \in Seq(Entries) /\ Len(job) <= 2
  BY DEF StreamTypeOK, JobShape, Entries
<1>2. CASE Len(job) = 1
  <2>1. job' = <<>> /\ Head(job) = job[1]
    BY <1>1, <1>2, ShortTails, Zenon
  <2> QED
    BY <1>2, <2>1 DEF JobShape, Owed, First
<1>3. CASE Len(job) = 2
  <2>1. /\ job' # <<>> /\ Len(job') = 1 /\ DOMAIN job' = {1} /\ job'[1] = job[2]
        /\ Head(job') = job[2] /\ Head(job) = job[1]
    BY <1>1, <1>3, ShortTails, Zenon
  <2>2. 2 \in DOMAIN job
    BY <1>1, <1>3
  <2>3. job[2][2] = 0 /\ job[2][1] \in {"destroy", "endOrDestroy"}
    BY <2>2 DEF JobShape
  <2>4. First("readingEnded") => job[2][1] = "endOrDestroy"
    BY <2>1 DEF JobShape, First
  <2> QED
    BY <2>1, <2>3, <2>4 DEF JobShape, Owed, First
<1> QED
  BY <1>1, <1>2, <1>3, ShortTails

\* A callback begins with the statement a, and may go on with b.
LEMMA JobBegins ==
  ASSUME NEW a, NEW n, NEW b \in {"destroy", "endOrDestroy"},
         n = 0 \/ a = "written",
         a = "readingEnded" => b = "endOrDestroy",
         \/ job' = <<<<a, n>>>> /\ a # "readingEnded"
         \/ job' = <<<<a, n>>, <<b, 0>>>>
  PROVE  /\ JobShape' /\ Owed' = n /\ job' # <<>>
         /\ \A st : First(st)' <=> st = a
<1>1. CASE job' = <<<<a, n>>>> /\ a # "readingEnded"
  <2>1. /\ Len(job') = 1 /\ DOMAIN job' = {1} /\ job'[1] = <<a, n>>
        /\ Head(job') = <<a, n>> /\ job' # <<>>
    BY <1>1
  <2> QED
    BY <1>1, <2>1 DEF JobShape, Owed, First
<1>2. CASE job' = <<<<a, n>>, <<b, 0>>>>
  <2>1. /\ Len(job') = 2 /\ DOMAIN job' = {1, 2} /\ job'[1] = <<a, n>>
        /\ job'[2] = <<b, 0>> /\ Head(job') = <<a, n>> /\ job' # <<>>
    BY <1>2
  <2> QED
    BY <1>2, <2>1 DEF JobShape, Owed, First
<1> QED
  BY <1>1, <1>2

LEMMA JobLevel ==
  ASSUME StreamTypeOK, JobShape
  PROVE  Sum([i \in DOMAIN job |-> job[i][2]]) = Owed /\ Owed \in Nat
<1> DEFINE s == [i \in DOMAIN job |-> job[i][2]]
<1>1. /\ job \in Seq(Entries) /\ Len(job) \in {0, 1, 2}
      /\ DOMAIN job = 1 .. Len(job)
      /\ job = <<>> <=> Len(job) = 0
      /\ job # <<>> => Head(job) = job[1]
      /\ Len(job) = 2 => job[2][2] = 0
  <2>1. job \in Seq(Entries)
    BY DEF StreamTypeOK, Entries
  <2>2. Len(job) <= 2 /\ \A i \in DOMAIN job : i = 2 => job[i][2] = 0
    BY DEF JobShape
  <2>3. /\ Len(job) \in Nat /\ DOMAIN job = 1 .. Len(job)
        /\ job = <<>> <=> Len(job) = 0
        /\ job # <<>> => Head(job) = job[1]
    BY <2>1, EmptySeq, LenProperties
  <2>4. Len(job) \in {0, 1, 2}
    BY <2>2, <2>3
  <2>5. Len(job) = 2 => job[2][2] = 0
    BY <2>2, <2>3
  <2> QED
    BY <2>1, <2>3, <2>4, <2>5
<1>2. \A i \in DOMAIN job : job[i][2] \in Nat
  <2>1. \A i \in DOMAIN job : job[i] \in Entries
    BY <1>1
  <2>2. \A e \in Entries : e[2] \in {0} \cup Sizes
    BY DEF Entries
  <2>3. \A n \in {0} \cup Sizes : n \in Nat
    BY SizesAssumption
  <2> QED
    BY <2>1, <2>2, <2>3, Zenon
<1>3. s \in Seq(Nat) /\ Len(s) = Len(job) /\ \A i \in DOMAIN job : s[i] = job[i][2]
  BY <1>1, <1>2
<1> HIDE DEF s
<1>4. Sum(s) = Owed /\ Owed \in Nat
  <2>1. CASE Len(job) = 0
    BY <1>1, <1>3, <2>1, ShortSums DEF Owed
  <2>2. CASE Len(job) = 1
    BY <1>1, <1>2, <1>3, <2>2, ShortSums DEF Owed
  <2>3. CASE Len(job) = 2
    BY <1>1, <1>2, <1>3, <2>3, ShortSums DEF Owed
  <2> QED
    BY <1>1, <2>1, <2>2, <2>3
<1> QED
  BY <1>4 DEF s

\* User code does not run on top of a callback's own statements.
LEMMA UserAboveBody == UserRuns => ~In("body")
BY DEF UserRuns, Idle, In, Running

LEMMA StackPushed ==
  ASSUME calls \in Seq(Functions), NEW f, OnStack(f), NEW g,
         calls' = Append(calls, g)
  PROVE  OnStack(f)'
BY DEF OnStack

LEMMA StackPopped ==
  ASSUME calls \in Seq(Functions), NEW f, OnStack(f), ~In(f), calls' = Callers
  PROVE  OnStack(f)'
<1>1. PICK i \in DOMAIN calls : calls[i] = f
  BY DEF OnStack
<1>2. calls # <<>> /\ Len(calls) \in Nat /\ DOMAIN calls = 1 .. Len(calls)
  BY <1>1
<1>3. i # Len(calls)
  BY <1>1, <1>2 DEF In, Top
<1>4. /\ Len(Callers) = Len(calls) - 1 /\ Callers \in Seq(Functions)
      /\ \A j \in DOMAIN Callers : Callers[j] = calls[j]
  BY <1>2, OwningPop DEF Callers
<1>5. i \in DOMAIN Callers
  BY <1>2, <1>3, <1>4
<1> QED
  BY <1>1, <1>4, <1>5 DEF OnStack

LEMMA StackEmits ==
  ASSUME NEW s \in Seq(Functions), NEW f, \E i \in DOMAIN s : s[i] = f, Emitting(s)
  PROVE  OnStack(f)'
<1>1. calls' = s \/ calls' = Append(s, "user") \/ calls' = Append(s, "userCap")
  BY DEF Emitting
<1>2. ASSUME NEW g, calls' = Append(s, g) PROVE OnStack(f)'
  BY <1>2 DEF OnStack
<1> QED
  BY <1>1, <1>2 DEF OnStack

\* _destroy() continues the function it runs for, and destroys the object.
LEMMA StackDestroys ==
  ASSUME calls \in Seq(Functions), calls # <<>>, NEW f \in {"body", "destroy"},
         OnStack(f), ~In("body"), NEW count, NEW tail \in Functions,
         Destroying(count, tail)
  PROVE  OnStack(f)' \/ (f = "destroy" /\ destroyed')
<1>1. destroyed' = TRUE
  BY DEF Destroying
<1>2. CASE f = "body"
  <2>1. PICK i \in DOMAIN calls : calls[i] = f
    BY DEF OnStack
  <2>2. i # Len(calls) /\ Len(calls) \in Nat /\ DOMAIN calls = 1 .. Len(calls)
    BY <1>2, <2>1 DEF In, Top
  <2>3. /\ Len(Callers) = Len(calls) - 1 /\ Callers \in Seq(Functions)
        /\ \A j \in DOMAIN Callers : Callers[j] = calls[j]
    BY OwningPop DEF Callers
  <2> DEFINE t == Callers
             s == Append(Append(t, tail), "rmAll")
  <2>4. i \in DOMAIN t /\ t[i] = f /\ t \in Seq(Functions)
    BY <2>1, <2>2, <2>3
  <2> HIDE DEF t
  <2>5. "rmAll" \in Functions
    BY DEF Functions
  <2>6. s \in Seq(Functions) /\ i \in DOMAIN s /\ s[i] = f
    BY <2>4, <2>5
  <2>7. Emitting(s)
    BY DEF Destroying, t
  <2> QED
    BY <2>6, <2>7, StackEmits
<1> QED
  BY <1>1, <1>2

LEMMA StackRemoves ==
  ASSUME calls \in Seq(Functions), NEW f \in {"body", "destroy"}, OnStack(f),
         RemoveAll
  PROVE  OnStack(f)'
<1>1. PICK i \in DOMAIN calls : calls[i] = f
  BY DEF OnStack
<1>2. /\ calls # <<>> /\ i # Len(calls) /\ Len(calls) \in Nat
      /\ DOMAIN calls = 1 .. Len(calls)
  BY <1>1 DEF RemoveAll, In, Top
<1>3. CASE calls' = Append(Removed(calls), "release")
  <2>1. /\ Removed(calls) \in Seq(Functions) /\ i \in DOMAIN Removed(calls)
        /\ Removed(calls)[i] = f
    BY <1>1, <1>2 DEF Removed, Functions, Running
  <2> HIDE DEF Removed
  <2> QED
    BY <1>3, <2>1 DEF OnStack
<1>4. CASE calls' = Removed(Callers)
  <2>1. /\ Len(Callers) = Len(calls) - 1 /\ Callers \in Seq(Functions)
        /\ \A j \in DOMAIN Callers : Callers[j] = calls[j]
    BY <1>2, OwningPop DEF Callers
  <2>2. i \in DOMAIN Callers /\ Callers[i] = f
    BY <1>1, <1>2, <2>1
  <2>3. i \in DOMAIN Removed(Callers) /\ Removed(Callers)[i] = f
    BY <2>2 DEF Removed
  <2> QED
    BY <1>4, <2>3 DEF OnStack
<1> QED
  BY <1>3, <1>4 DEF RemoveAll

LEMMA RemovedListenerKept ==
  ASSUME calls \in Seq(Functions), NEW f \in {"body", "destroy"}, OnStack(f),
         NEW j \in DOMAIN calls, calls[j] = "userCap",
         calls' = [calls EXCEPT ![j] = "userLost"]
  PROVE  OnStack(f)'
<1>1. PICK i \in DOMAIN calls : calls[i] = f
  BY DEF OnStack
<1>2. i # j
  BY <1>1
<1> QED
  BY <1>1, <1>2 DEF OnStack

\* A callback stays on the stack until it returns, a destroy() until the
\* object is destroyed.
LEMMA StackKept ==
  ASSUME calls \in Seq(Functions), NEW f \in {"body", "destroy"}, OnStack(f),
         UserNext \/ ObjectNext \/ BodyEmits \/ BodyDestroys
  PROVE  OnStack(f)' \/ (f = "destroy" /\ destroyed')
<1>0. calls # <<>>
  BY DEF OnStack
<1>1. CASE CopyRef \/ Listen
  BY <1>1 DEF CopyRef, Listen, OnStack
<1>2. CASE CallDestroy \/ BodyDestroys
  BY <1>2, StackPushed DEF CallDestroy, BodyDestroys
<1>11. CASE DropRef
  <2> DEFINE s == Append(calls, "reset")
  <2>1. s \in Seq(Functions) /\ \E i \in DOMAIN s : s[i] = f
    BY DEF OnStack, Functions
  <2>2. calls' = Append(s, "release")
    BY <1>11 DEF DropRef
  <2> HIDE DEF s
  <2> QED
    BY <2>1, <2>2 DEF OnStack
<1>3. CASE Unlisten
  BY <1>3, StackPushed, RemovedListenerKept DEF Unlisten
<1>4. CASE CallEmit \/ BodyEmits
  <2>1. Emitting(calls)
    BY <1>4 DEF CallEmit, BodyEmits
  <2>2. \E i \in DOMAIN calls : calls[i] = f
    BY DEF OnStack
  <2> QED
    BY <2>1, <2>2, StackEmits
<1>5. CASE CallEmitError
  <2> DEFINE s == Append(calls, "destroy")
  <2>1. "destroy" \in Functions
    BY DEF Functions
  <2>2. s \in Seq(Functions) /\ \E i \in DOMAIN s : s[i] = f
    BY <2>1 DEF OnStack
  <2>3. Emitting(s)
    BY <1>5 DEF CallEmitError
  <2> QED
    BY <2>2, <2>3, StackEmits
<1>6. CASE ReturnToEmit
  <2>1. ~In(f) /\ calls' = Callers
    BY <1>6 DEF ReturnToEmit, In, Running
  <2> QED
    BY <2>1, StackPopped
<1>7. CASE Destroy
  <2>1. ~In("body")
    BY <1>7 DEF Destroy, In
  <2>2. CASE destroyed /\ calls' = Callers /\ UNCHANGED lifeVars
    <3>1. destroyed'
      BY <2>2 DEF lifeVars
    <3>2. CASE f = "body"
      BY <2>1, <2>2, <3>2, StackPopped
    <3> QED
      BY <3>1, <3>2
  <2>3. CASE Destroying(useCount, "destroyTail")
    <3>1. "destroyTail" \in Functions
      BY DEF Functions
    <3> QED
      BY <1>0, <2>1, <2>3, <3>1, StackDestroys
  <2> QED
    BY <1>7, <2>2, <2>3 DEF Destroy
<1>8. CASE DestroyTail \/ ReleaseTail \/ ResetTail
  <2>1. ~In(f) /\ calls' = Callers
    BY <1>8 DEF DestroyTail, ReleaseTail, ResetTail, Delete, In
  <2> QED
    BY <2>1, StackPopped
<1>9. CASE RemoveAll
  BY <1>9, StackRemoves
<1>10. CASE Release
  <2>1. ~In("body") /\ ~In("destroy")
    BY <1>10 DEF Release, In
  <2>2. CASE calls' = Callers
    BY <2>1, <2>2, StackPopped
  <2>3. CASE Destroying(0, "releaseTail")
    <3>1. "releaseTail" \in Functions
      BY DEF Functions
    <3> QED
      BY <1>0, <2>1, <2>3, <3>1, StackDestroys
  <2> QED
    BY <1>10, <2>2, <2>3 DEF Release, Delete
<1> QED
  BY <1>1, <1>2, <1>3, <1>4, <1>5, <1>6, <1>7, <1>8, <1>9, <1>10, <1>11
     DEF UserNext, ObjectNext

\* destroy() is for good.
LEMMA DestroyedStays == [Next]_vars /\ destroyed => destroyed'
<1> SUFFICES ASSUME Next, destroyed PROVE destroyed'
  BY DEF vars, lifeVars
<1>1. CASE UserNext
  BY <1>1 DEF UserNext, CopyRef, DropRef, Listen, Unlisten, CallDestroy, CallEmit,
              CallEmitError, ReturnToEmit, lifeVars
<1>2. CASE ObjectNext
  BY <1>2 DEF ObjectNext, Destroy, DestroyTail, RemoveAll, Release, ReleaseTail, ResetTail,
              Destroying, Delete, lifeVars
<1> QED
  BY <1>1, <1>2 DEF Next, StartRequests, BodyEmits, BodyDestroys, BodyReturns,
                    Callback, Complete, Closed, lifeVars

-----------------------------------------------------------------------------
(* The invariant: one lemma per group of actions *)

LEMMA OwedOnlyByWritten ==
  ASSUME StreamTypeOK, JobShape
  PROVE  /\ ~First("written") => Owed = 0
         /\ \A st : First(st) => Owed = Head(job)[2] /\ Head(job)[2] \in Nat
<1>1. job \in Seq(Entries)
  BY DEF StreamTypeOK, Entries
<1>2. job # <<>> => Head(job) = job[1] /\ 1 \in DOMAIN job
  BY <1>1
<1>3. Owed \in Nat
  BY JobLevel
<1>4. ~First("written") => Owed = 0
  BY <1>2 DEF JobShape, First, Owed
<1> QED
  BY <1>3, <1>4 DEF First, Owed

\* With nothing queued and nothing owed the level is zero.
LEMMA EmptyIsLow ==
  ASSUME StreamTypeOK, LevelInv, Owed = 0, writes = <<>>
  PROVE  wm = 0 /\ wm < HWM
<1>1. Sum(<<>>) = 0
  BY SumProperties
<1> QED
  BY <1>1, WatermarksAssumption DEF LevelInv

LEMMA SizesAreNumbers == \A s \in Seq(Sizes) : s \in Seq(Nat)
BY SizesAssumption, SeqMonotonic

LEMMA WritesSum ==
  ASSUME StreamTypeOK
  PROVE  /\ writes \in Seq(Nat) /\ Sum(writes) \in Nat /\ wm \in Nat
         /\ \A n \in Sizes : n \in Nat /\ Sum(Append(writes, n)) = Sum(writes) + n
         /\ writes # <<>> => Sum(writes) = Head(writes) + Sum(Tail(writes))
<1>1. writes \in Seq(Nat) /\ wm \in Nat
  BY SizesAreNumbers DEF StreamTypeOK
<1>2. \A n \in Sizes : n \in Nat
  BY SizesAssumption
<1> QED
  BY <1>1, <1>2, SumProperties

\* Nothing of what the level depends on changes.
LEMMA LevelKept ==
  ASSUME LevelInv, UNCHANGED <<writes, wm>>, regular \/ ~First("written"),
         Owed' = Owed, regular => regular'
  PROVE  LevelInv'
BY DEF LevelInv, FloodCanDrain, First

\* Nor does the end of either half, while destroy() is called or not.
LEMMA EofKept ==
  ASSUME EofInv, UNCHANGED <<rEnded, wEnded, writable, shutting>>,
         ~First("endOrDestroy"), ~First("writingEnded"),
         destroyed => destroyed',
         OnStack("destroy") => OnStack("destroy")' \/ destroyed'
  PROVE  EofInv'
BY DEF EofInv

LEMMA LifeNotInBody == UserNext \/ ObjectNext => ~In("body")
<1>1. UserNext => ~In("body")
  BY UserAboveBody DEF UserNext, CopyRef, DropRef, Listen, Unlisten, CallDestroy,
                       CallEmit, CallEmitError, ReturnToEmit, User, In, Running
<1>2. ObjectNext => ~In("body")
  BY DEF ObjectNext, Destroy, DestroyTail, RemoveAll, Release, ReleaseTail, ResetTail, In
<1> QED
  BY <1>1, <1>2

LEMMA LifeKeeps ==
  ASSUME Inv, StreamTypeOK, StreamInv, UNCHANGED streamVars,
         UserNext \/ ObjectNext \/ UNCHANGED vars
  PROVE  StreamInv'
<1>1. calls \in Seq(Functions)
  BY DEF Inv, TypeOK
<1>2. ASSUME NEW f \in {"body", "destroy"}, OnStack(f)
      PROVE  OnStack(f)' \/ (f = "destroy" /\ destroyed')
  <2>1. CASE UNCHANGED vars
    BY <1>2, <2>1 DEF vars, OnStack
  <2> QED
    BY <1>1, <1>2, <2>1, StackKept
<1>3. First("written") => UNCHANGED vars
  BY LifeNotInBody DEF StreamInv, JobInv
<1>4. JobInv'
  <2>1. UNCHANGED job
    BY DEF streamVars
  <2>2. In("body") /\ UNCHANGED vars => In("body")'
    BY DEF In, Top, vars
  <2>3. OnStack("body") => OnStack("body")'
    BY <1>2
  <2> QED
    BY <1>3, <2>1, <2>2, <2>3 DEF StreamInv, JobInv, JobShape, First
<1>5. LevelInv'
  BY DEF StreamInv, LevelInv, FloodCanDrain, Owed, streamVars, libuvVars, writeVars
<1>6. EofInv'
  <2>1. destroyed => destroyed'
    BY DestroyedStays DEF Next, vars
  <2>2. OnStack("destroy") => OnStack("destroy")' \/ destroyed'
    BY <1>2
  <2>3. UNCHANGED <<rEnded, wEnded, writable, shutting, job>>
    BY DEF streamVars, libuvVars, readVars, writeVars
  <2> QED
    BY <2>1, <2>2, <2>3 DEF StreamInv, EofInv, First
<1>7. EndInv'
  BY DEF StreamInv, EndInv, streamVars, libuvVars, writeVars
<1> QED
  BY <1>4, <1>5, <1>6, <1>7 DEF StreamInv

\* What user code does never runs on a callback's own statement, and leaves
\* what it will do as it is.
LEMMA UserStreamRuns ==
  ASSUME UserStreamNext
  PROVE  /\ User /\ UNCHANGED <<job, destroyed, rEnded, wEnded>>
         /\ UNCHANGED calls \/ CallEmit
<1>1. CASE Connect \/ Accept \/ Resume \/ Pause
  BY <1>1 DEF Connect, Accept, Resume, Pause, StartRequests, vars, lifeVars,
              readVars, writeVars
<1>2. CASE WriteFails
  BY <1>2 DEF WriteFails, CallEmit, lifeVars, readVars
<1>3. CASE End
  BY <1>3 DEF End, Shutdown, StartRequests, vars, lifeVars, readVars
<1>4. ASSUME NEW n \in Sizes, WriteNow(n) \/ WriteLater(n) \/ EndWith(n)
      PROVE  /\ User /\ UNCHANGED <<job, destroyed, rEnded, wEnded>>
             /\ UNCHANGED calls
  BY <1>4 DEF WriteNow, WriteLater, EndWith, MayWrite, StartRequests, vars, lifeVars,
              readVars
<1> QED
  BY <1>1, <1>2, <1>3, <1>4 DEF UserStreamNext

LEMMA UserStreamKeeps ==
  ASSUME Inv, StreamTypeOK, StreamInv, UserStreamNext
  PROVE  StreamInv'
<1>0. /\ User /\ UNCHANGED <<job, destroyed, rEnded, wEnded>>
      /\ UNCHANGED calls \/ CallEmit
  BY UserStreamRuns
<1>1. ~First("written") /\ ~First("written")' /\ Owed = 0 /\ Owed' = 0
  <2>1. ~First("written")
    BY <1>0, UserAboveBody DEF StreamInv, JobInv, User
  <2>2. Owed = 0
    BY <2>1, OwedOnlyByWritten DEF StreamInv, JobInv
  <2> QED
    BY <1>0, <2>1, <2>2 DEF First, Owed
<1>2. ASSUME NEW f \in {"body", "destroy"}, OnStack(f)
      PROVE  OnStack(f)' \/ (f = "destroy" /\ destroyed')
  <2>1. CASE UNCHANGED calls
    BY <1>2, <2>1 DEF OnStack
  <2>2. CASE CallEmit
    BY <1>2, <2>2, StackKept DEF UserNext, Inv, TypeOK
  <2> QED
    BY <1>0, <2>1, <2>2
<1>3. JobInv'
  <2>1. OnStack("body") => OnStack("body")'
    BY <1>2
  <2> QED
    BY <1>0, <1>1, <2>1 DEF StreamInv, JobInv, JobShape
<1>4. ASSUME NEW n \in Sizes, Enqueue(n) PROVE LevelInv'
  <2>1. writes' = Append(writes, n) /\ wm' = wm + n
    BY <1>4 DEF Enqueue
  <2>2. writes' # <<>>
    BY <2>1 DEF StreamTypeOK
  <2>3. wm' = Sum(writes') + Owed'
    BY <1>1, <2>1, WritesSum DEF StreamInv, LevelInv
  <2> QED
    BY <2>2, <2>3 DEF LevelInv, FloodCanDrain
<1>5. ASSUME UNCHANGED <<writes, wm>>, regular' = (wm < HWM) PROVE LevelInv'
  <2>1. writes = <<>> => regular'
    BY <1>1, <1>5, EmptyIsLow DEF StreamInv
  <2> QED
    BY <1>1, <1>5, <2>1 DEF StreamInv, LevelInv, FloodCanDrain
<1>6. LevelInv'
  <2>1. CASE Connect \/ Accept \/ Resume \/ Pause
    <3>1. UNCHANGED <<writes, wm, regular>>
      BY <2>1 DEF Connect, Accept, Resume, Pause, writeVars
    <3> QED
      BY <1>1, <3>1, LevelKept DEF StreamInv
  <2>2. CASE WriteFails
    <3>1. UNCHANGED <<writes, wm>> /\ regular'
      BY <2>2 DEF WriteFails, libuvVars
    <3> QED
      BY <1>1, <3>1, LevelKept DEF StreamInv
  <2>3. CASE End
    BY <1>5, <2>3 DEF End
  <2>4. ASSUME NEW n \in Sizes, WriteNow(n) PROVE LevelInv'
    BY <1>5, <2>4 DEF WriteNow, libuvVars
  <2>5. ASSUME NEW n \in Sizes, WriteLater(n) \/ EndWith(n) PROVE LevelInv'
    BY <1>4, <2>5 DEF WriteLater, EndWith
  <2> QED
    BY <2>1, <2>2, <2>3, <2>4, <2>5 DEF UserStreamNext
<1>7. \/ UNCHANGED <<shutting, writable>>
      \/ ~writable' /\ (shutting' \/ (shutting' = shutting /\ destroyed))
  <2>1. CASE Connect \/ Accept \/ Resume \/ Pause \/ WriteFails
    BY <2>1 DEF Connect, Accept, Resume, Pause, WriteFails, writeVars, libuvVars
  <2>2. CASE End
    <3>1. handle # "open" => destroyed
      BY DEF Inv, CallsFitHandle
    <3> QED
      BY <2>2, <3>1 DEF End, Shutdown
  <2>3. ASSUME NEW n \in Sizes, WriteNow(n) \/ WriteLater(n) \/ EndWith(n)
        PROVE  UNCHANGED <<shutting, writable>> \/ (~writable' /\ shutting')
    BY <2>3 DEF WriteNow, WriteLater, EndWith, libuvVars
  <2> QED
    BY <2>1, <2>2, <2>3 DEF UserStreamNext
<1>8. EofInv'
  <2>1. OnStack("destroy") => OnStack("destroy")' \/ destroyed'
    BY <1>2
  <2>2. \A st : First(st)' <=> First(st)
    BY <1>0 DEF First
  <2> QED
    BY <1>0, <1>7, <2>1, <2>2 DEF StreamInv, EofInv
<1>9. EndInv'
  BY <1>0, <1>7 DEF StreamInv, EndInv
<1> QED
  BY <1>3, <1>6, <1>8, <1>9 DEF StreamInv

LEMMA IdleHasNoJob ==
  ASSUME Idle, JobInv
  PROVE  job = <<>> /\ Owed = 0 /\ ~OnStack("body") /\ ~OnStack("destroy")
         /\ \A st : ~First(st)
<1>1. \A f : ~OnStack(f)
  BY DEF Idle, OnStack
<1> QED
  BY <1>1 DEF JobInv, Owed, First

\* A libuv callback begins, with the statement a, and does not yet touch what
\* the invariant is about.
LEMMA CallbackKeeps ==
  ASSUME Inv, StreamTypeOK, StreamInv, Idle,
         NEW a \in {"emit", "readingEnded"}, NEW b \in {"destroy", "endOrDestroy"},
         a = "readingEnded" => b = "endOrDestroy",
         \/ job' = <<<<a, 0>>>> /\ a # "readingEnded"
         \/ job' = <<<<a, 0>>, <<b, 0>>>>,
         calls' = <<"body">> \/ calls' = <<"release", "body">>,
         UNCHANGED <<destroyed, rEnded, wEnded, writable, shutting, wm, writes, regular>>
  PROVE  StreamInv'
<1>1. /\ JobShape' /\ Owed' = 0 /\ \A st : First(st)' <=> st = a
  BY JobBegins, Zenon
<1>2. job = <<>> /\ Owed = 0 /\ ~OnStack("destroy") /\ \A st : ~First(st)
  BY IdleHasNoJob DEF StreamInv
<1>3. OnStack("body")'
  BY DEF OnStack
<1>4. JobInv'
  BY <1>1, <1>3 DEF JobInv
<1>5. LevelInv'
  BY <1>1, <1>2, LevelKept DEF StreamInv
<1>6. EofInv' /\ EndInv'
  BY <1>2 DEF StreamInv, EofInv, EndInv
<1> QED
  BY <1>4, <1>5, <1>6 DEF StreamInv

LEMMA LibuvKeeps ==
  ASSUME Inv, StreamTypeOK, StreamInv, LibuvNext
  PROVE  StreamInv'
<1> USE DEF StreamInv
<1>1. CASE ReadData \/ ReadEof \/ ReadError
  <2>1. /\ Idle /\ calls' = <<"body">>
        /\ UNCHANGED <<destroyed, rEnded, wEnded, writable, shutting, wm, writes, regular>>
    BY <1>1 DEF ReadData, ReadEof, ReadError, Callback, lifeVars, libuvVars, readVars,
                writeVars
  <2>2. \/ job' = <<<<"emit", 0>>>>
        \/ job' = <<<<"emit", 0>>, <<"destroy", 0>>>>
        \/ job' = <<<<"readingEnded", 0>>, <<"endOrDestroy", 0>>>>
    BY <1>1 DEF ReadData, ReadEof, ReadError
  <2> QED
    BY <2>1, <2>2, CallbackKeeps
<1>2. CASE StreamClosed
  <2>1. Idle /\ calls' = <<"release">> /\ UNCHANGED destroyed /\ UNCHANGED streamVars
    BY <1>2 DEF StreamClosed, Closed
  <2>2. job = <<>> /\ ~OnStack("destroy")
    BY <2>1, IdleHasNoJob
  <2>3. UNCHANGED <<job, rEnded, wEnded, writable, shutting, wm, writes, regular>>
    BY <2>1 DEF streamVars, libuvVars, readVars, writeVars
  <2>4. JobInv' /\ LevelInv'
    BY <2>2, <2>3 DEF JobInv, JobShape, First, LevelInv, FloodCanDrain, Owed
  <2>5. EofInv' /\ EndInv'
    BY <2>1, <2>2, <2>3 DEF EofInv, EndInv, First
  <2> QED
    BY <2>4, <2>5
<1>3. ASSUME NEW ok \in BOOLEAN, Connected(ok) PROVE StreamInv'
  <2>1. /\ Idle /\ calls' = <<"release", "body">>
        /\ UNCHANGED <<destroyed, rEnded, wEnded, writable, shutting, wm, writes, regular>>
        /\ job' = <<<<"emit", 0>>>> \/ job' = <<<<"emit", 0>>, <<"destroy", 0>>>>
    BY <1>3 DEF Connected, Complete, lifeVars, readVars, writeVars
  <2> QED
    BY <2>1, CallbackKeeps
<1>4. ASSUME NEW ok \in BOOLEAN, Written(ok) PROVE StreamInv'
  <2> DEFINE n == Head(writes)
  <2>1. /\ Idle /\ calls' = <<"release", "body">> /\ writes # <<>>
        /\ UNCHANGED <<destroyed, rEnded, wEnded, writable, shutting, wm, regular>>
        /\ writes' = Tail(writes)
        /\ job' = <<<<"written", n>>>> \/ job' = <<<<"written", n>>, <<"destroy", 0>>>>
    BY <1>4 DEF Written, Complete, lifeVars, readVars, writeVars
  <2>2. Sum(writes) = n + Sum(Tail(writes)) /\ n \in Nat /\ Sum(Tail(writes)) \in Nat
    <3>1. Sum(writes) = n + Sum(Tail(writes))
      BY <2>1, WritesSum
    <3>2. n \in Sizes /\ Tail(writes) \in Seq(Sizes)
      BY <2>1, TailTyped DEF StreamTypeOK
    <3>3. n \in Nat /\ Tail(writes) \in Seq(Nat)
      BY <3>2, SizesAssumption, SizesAreNumbers
    <3> QED
      BY <3>1, <3>3, SumProperties
  <2> HIDE DEF n
  <2>3. JobShape' /\ Owed' = n /\ job' # <<>> /\ \A st : First(st)' <=> st = "written"
    BY <2>1, JobBegins, Zenon
  <2>4. job = <<>> /\ Owed = 0 /\ ~OnStack("destroy") /\ \A st : ~First(st)
    BY <2>1, IdleHasNoJob
  <2>5. JobInv'
    <3>1. OnStack("body")' /\ In("body")'
      BY <2>1 DEF OnStack, In, Top
    <3> QED
      BY <2>3, <3>1 DEF JobInv
  <2>6. LevelInv'
    <3>1. wm' = Sum(writes') + Owed'
      BY <2>1, <2>2, <2>3, <2>4 DEF LevelInv
    <3> QED
      BY <2>3, <3>1 DEF LevelInv, FloodCanDrain, First
  <2>7. EofInv' /\ EndInv'
    BY <2>1, <2>4 DEF EofInv, EndInv
  <2> QED
    BY <2>5, <2>6, <2>7
<1>5. ASSUME NEW ok \in BOOLEAN, ShutdownDone(ok) PROVE StreamInv'
  <2>1. /\ Idle /\ calls' = <<"release", "body">> /\ shutting' = FALSE
        /\ UNCHANGED <<destroyed, rEnded, wEnded, writable, wm, writes, regular>>
        /\ \/ job' = <<<<"writingEnded", 0>>>>
           \/ job' = <<<<"writingEnded", 0>>, <<"destroy", 0>>>>
    BY <1>5 DEF ShutdownDone, Complete, lifeVars, readVars, writeVars
  <2>3. JobShape' /\ Owed' = 0 /\ \A st : First(st)' <=> st = "writingEnded"
    BY <2>1, JobBegins
  <2>4. job = <<>> /\ Owed = 0 /\ ~OnStack("destroy") /\ \A st : ~First(st)
    BY <2>1, IdleHasNoJob
  <2>5. JobInv'
    <3>1. OnStack("body")'
      BY <2>1 DEF OnStack
    <3> QED
      BY <2>3, <3>1 DEF JobInv
  <2>6. LevelInv'
    BY <2>1, <2>3, <2>4, LevelKept
  <2>7. EofInv' /\ EndInv'
    BY <2>1, <2>3 DEF EofInv, EndInv
  <2> QED
    BY <2>5, <2>6, <2>7
<1> QED
  BY <1>1, <1>2, <1>3, <1>4, <1>5 DEF LibuvNext

LEMMA StatementKeeps ==
  ASSUME Inv, StreamTypeOK, StreamInv, Statement
  PROVE  StreamInv'
<1> USE DEF StreamInv
<1>1. calls \in Seq(Functions) /\ LWM \in Nat /\ (handle # "open" => destroyed)
  BY WatermarksAssumption DEF Inv, TypeOK, CallsFitHandle
<1>2. ASSUME NEW st, Doing(st)
      PROVE  /\ First(st) /\ \A other : First(other) => other = st
             /\ JobShape' /\ Owed' = 0 /\ ~First("written")' /\ ~First("writingEnded")'
             /\ st = "readingEnded" => First("endOrDestroy")'
             /\ st # "written" => Owed = 0 /\ ~First("written")
             /\ OnStack("body")
  <2>1. First(st) /\ job # <<>> /\ job' = Tail(job)
    BY <1>2 DEF Doing, First
  <2>2. \A other : First(other) => other = st
    BY <2>1 DEF First
  <2>3. /\ JobShape' /\ Owed' = 0 /\ ~First("written")' /\ ~First("writingEnded")'
        /\ First("readingEnded") => First("endOrDestroy")'
    BY <2>1, JobTail DEF JobInv
  <2>4. st # "written" => Owed = 0 /\ ~First("written")
    BY <2>2, OwedOnlyByWritten DEF JobInv
  <2> QED
    BY <2>1, <2>2, <2>3, <2>4 DEF JobInv
<1>3. ASSUME BodyEmits \/ BodyDestroys \/ UNCHANGED calls
      PROVE  /\ OnStack("body") => OnStack("body")'
             /\ OnStack("destroy") => OnStack("destroy")' \/ destroyed'
  <2>1. CASE UNCHANGED calls
    BY <2>1 DEF OnStack
  <2>2. CASE BodyEmits \/ BodyDestroys
    BY <1>1, <2>2, StackKept
  <2> QED
    BY <1>3, <2>1, <2>2
<1>4. ASSUME BodyDestroys PROVE OnStack("destroy")' /\ UNCHANGED destroyed
  BY <1>1, <1>4 DEF BodyDestroys, OnStack, lifeVars
<1>5. ASSUME NEW st, Doing(st), BodyEmits \/ BodyDestroys \/ UNCHANGED calls
      PROVE  JobInv'
  BY <1>2, <1>3, <1>5 DEF JobInv
<1>6. CASE DoEmit \/ DoDestroy
  <2>1. PICK st \in {"emit", "destroy"} : Doing(st)
    BY <1>6 DEF DoEmit, DoDestroy
  <2>2. /\ BodyEmits \/ BodyDestroys
        /\ UNCHANGED <<destroyed, rEnded, wEnded, writable, shutting, wm, writes, regular>>
    BY <1>6 DEF DoEmit, DoDestroy, BodyEmits, BodyDestroys, lifeVars, libuvVars, readVars,
                writeVars
  <2>3. JobInv' /\ LevelInv'
    BY <1>2, <1>5, <2>1, <2>2, LevelKept
  <2>4. EofInv'
    BY <1>2, <1>3, <2>1, <2>2, EofKept
  <2>5. EndInv'
    BY <2>2 DEF EndInv
  <2> QED
    BY <2>3, <2>4, <2>5
<1>7. CASE DoReadingEnded
  <2>1. /\ Doing("readingEnded")
        /\ BodyEmits \/ UNCHANGED calls
        /\ UNCHANGED <<destroyed, wEnded, writable, shutting, wm, writes, regular>>
    BY <1>7 DEF DoReadingEnded, BodyEmits, vars, lifeVars, libuvVars, writeVars
  <2>2. JobInv'
    BY <1>5, <2>1
  <2>3. /\ Owed = 0 /\ Owed' = 0 /\ ~First("written") /\ First("endOrDestroy")'
        /\ ~First("writingEnded")
    BY <1>2, <2>1
  <2>4. LevelInv'
    BY <2>1, <2>3, LevelKept
  <2>5. EofInv'
    <3>1. ~First("endOrDestroy")
      BY <1>2, <2>1
    <3> QED
      BY <2>1, <2>3, <3>1 DEF EofInv
  <2>6. EndInv'
    BY <2>1 DEF EndInv
  <2> QED
    BY <2>2, <2>4, <2>5, <2>6
<1>8. CASE DoEndOrDestroy
  <2>1. /\ Doing("endOrDestroy")
        /\ UNCHANGED <<writes, rEnded, wEnded, wm>>
    BY <1>8 DEF DoEndOrDestroy, readVars
  <2>2. \/ wEnded /\ BodyDestroys /\ UNCHANGED <<shutting, writable, regular>>
        \/ ~wEnded /\ ~writable /\ UNCHANGED <<calls, destroyed, shutting, writable, regular>>
        \/ /\ ~wEnded /\ ~writable' /\ regular' = (wm < HWM)
           /\ UNCHANGED <<calls, destroyed>>
           /\ shutting' \/ (destroyed /\ UNCHANGED shutting)
    <3>1. Shutdown => shutting' /\ UNCHANGED <<calls, destroyed>>
      BY DEF Shutdown, StartRequests
    <3>2. UNCHANGED vars => UNCHANGED <<calls, destroyed>>
      BY DEF vars, lifeVars
    <3> QED
      BY <1>1, <1>8, <3>1, <3>2 DEF DoEndOrDestroy
  <2>3. JobInv'
    BY <1>5, <2>1, <2>2
  <2>4. LevelInv'
    <3>0. Owed = 0 /\ Owed' = 0 /\ ~First("written")
      BY <1>2, <2>1
    <3>1. CASE UNCHANGED regular
      BY <2>1, <3>0, <3>1, LevelKept
    <3>2. CASE regular' = (wm < HWM)
      <4>1. writes = <<>> => regular'
        BY <2>1, <3>0, <3>2, EmptyIsLow
      <4> QED
        BY <2>1, <3>0, <4>1 DEF LevelInv, FloodCanDrain
    <3> QED
      BY <2>2, <3>1, <3>2
  <2>5. EofInv' /\ EndInv'
    BY <1>2, <1>4, <2>1, <2>2 DEF EofInv, EndInv
  <2> QED
    BY <2>3, <2>4, <2>5
<1>9. CASE DoWritten
  <2> DEFINE n == Head(job)[2]
  <2>1. /\ Doing("written")
        /\ BodyEmits \/ UNCHANGED calls
        /\ UNCHANGED <<destroyed, rEnded, wEnded, writable, shutting, writes>>
        /\ wm' = IF wm > n THEN wm - n ELSE 0
        /\ regular' \/ wm' > LWM
    BY <1>9 DEF DoWritten, BodyEmits, vars, lifeVars, libuvVars, readVars
  <2>2. wm = Sum(writes) + n /\ n \in Nat /\ Sum(writes) \in Nat
    <3>1. First("written")
      BY <1>2, <2>1
    <3>2. Owed = n /\ n \in Nat
      BY <3>1, OwedOnlyByWritten DEF JobInv
    <3> QED
      BY <3>2, WritesSum DEF LevelInv
  <2> HIDE DEF n
  <2>3. wm' = Sum(writes)
    BY <2>1, <2>2
  <2>4. LevelInv'
    <3>1. writes = <<>> => Sum(writes) = 0
      BY SumProperties
    <3>2. writes = <<>> => regular'
      BY <1>1, <2>1, <2>3, <3>1
    <3>3. wm' = Sum(writes') + Owed'
      <4>1. Owed' = 0 /\ Sum(writes') = Sum(writes)
        BY <1>2, <2>1
      <4> QED
        BY <2>2, <2>3, <4>1
    <3> QED
      BY <2>1, <3>2, <3>3 DEF LevelInv, FloodCanDrain
  <2>5. JobInv'
    BY <1>5, <2>1, Zenon
  <2>6. EofInv'
    <3>1. ~First("endOrDestroy") /\ ~First("writingEnded")
      BY <1>2, <2>1
    <3>2. OnStack("destroy") => OnStack("destroy")' \/ destroyed'
      BY <1>3, <2>1
    <3> QED
      BY <2>1, <3>1, <3>2, EofKept
  <2>7. EndInv'
    BY <2>1 DEF EndInv
  <2> QED
    BY <2>4, <2>5, <2>6, <2>7
<1>10. CASE DoWritingEnded
  <2>1. /\ Doing("writingEnded") /\ wEnded' = TRUE /\ writable' = FALSE
        /\ UNCHANGED <<rEnded, shutting, wm, writes, regular>>
        /\ IF rEnded THEN BodyDestroys ELSE UNCHANGED calls
    BY <1>10 DEF DoWritingEnded, vars, libuvVars, readVars
  <2>2. JobInv' /\ LevelInv'
    BY <1>2, <1>5, <2>1, LevelKept
  <2>3. EofInv' /\ EndInv'
    BY <1>4, <2>1 DEF EofInv, EndInv
  <2> QED
    BY <2>2, <2>3
<1>11. CASE DoReturn
  <2>1. /\ job = <<>> /\ In("body") /\ calls' = Callers
        /\ UNCHANGED <<job, destroyed, rEnded, wEnded, writable, shutting, wm, writes, regular>>
    BY <1>11 DEF DoReturn, BodyReturns, lifeVars, streamVars, libuvVars, readVars, writeVars
  <2>2. JobInv' /\ LevelInv'
    BY <2>1 DEF JobInv, JobShape, First, LevelInv, FloodCanDrain, Owed
  <2>3. OnStack("destroy") => OnStack("destroy")'
    BY <1>1, <2>1, StackPopped DEF In
  <2>4. EofInv' /\ EndInv'
    BY <2>1, <2>3 DEF EofInv, EndInv, First
  <2> QED
    BY <2>2, <2>4
<1> QED
  BY <1>6, <1>7, <1>8, <1>9, <1>10, <1>11 DEF Statement

LEMMA StreamInvariant ==
  ASSUME HasHandle
  PROVE  StreamSpec => [](Inv /\ StreamTypeOK /\ StreamInv)
<1>1. StreamInit => StreamInv
  <2> SUFFICES ASSUME StreamInit PROVE StreamInv
    OBVIOUS
  <2>1. JobInv
    BY DEF StreamInit, JobInv, JobShape, First
  <2>2. LevelInv
    BY SumProperties DEF StreamInit, LevelInv, FloodCanDrain, Owed
  <2>3. EofInv /\ EndInv
    BY DEF StreamInit, EofInv, EndInv
  <2> QED
    BY <2>1, <2>2, <2>3 DEF StreamInv
<1>2. Inv /\ StreamTypeOK /\ StreamInv /\ [StreamNext]_allVars => StreamInv'
  BY LifeKeeps, UserStreamKeeps, LibuvKeeps, StatementKeeps
     DEF StreamNext, LifeNext, allVars
<1>3. Spec => []Inv
  BY Invariance
<1> QED
  BY <1>1, <1>2, <1>3, StreamImplementsHandle, StreamTyping, PTL DEF StreamSpec

\* The level by which write() reports back-pressure is what the queued
\* requests carry, after every partial write, refusal and cancellation, and
\* while it is reported something is under way that will lower it
\* (stream.h:244-262, uv/stream.h packed_req).
THEOREM LevelIsExact ==
  ASSUME HasHandle
  PROVE  StreamSpec => []LevelExact
<1>1. StreamTypeOK /\ StreamInv => LevelExact
  BY JobLevel DEF StreamInv, JobInv, LevelInv, LevelExact, WatermarkExact
<1> QED
  BY <1>1, StreamInvariant, PTL

\* No half closed connection is left behind by the read and the shutdown
\* callback, in either order, whatever the listeners did in between
\* (uv/stream.h:93-105, 187-204).
THEOREM EofHasAnAnswer ==
  ASSUME HasHandle
  PROVE  StreamSpec => []EofIsAnswered
<1>1. StreamInv => EofIsAnswered
  BY IdleHasNoJob DEF StreamInv, EofInv, EofIsAnswered
<1> QED
  BY <1>1, StreamInvariant, PTL

\* Nothing is queued behind the shutdown.
THEOREM EndIsTheEnd ==
  ASSUME HasHandle
  PROVE  StreamSpec => NothingAfterEnd
<1>1. EndInv /\ StreamTypeOK /\ [StreamNext]_allVars
        => [Len(writes') > Len(writes) => ~shutting /\ ~wEnded]_allVars
  <2> SUFFICES ASSUME EndInv, StreamTypeOK, StreamNext, Len(writes') > Len(writes)
               PROVE  ~shutting /\ ~wEnded
    OBVIOUS
  <2>1. Len(writes) \in Nat /\ writes \in Seq(Sizes)
    BY DEF StreamTypeOK
  <2>2. ~UNCHANGED writes
    BY <2>1
  <2>3. ~\E ok \in BOOLEAN : Written(ok)
    <3> SUFFICES ASSUME NEW ok \in BOOLEAN, Written(ok) PROVE FALSE
      OBVIOUS
    <3>1. Len(writes') = Len(writes) - 1
      BY <2>1, TailTyped DEF Written
    <3> QED
      BY <2>1, <3>1
  <2>4. ~LifeNext /\ ~Statement
    BY <2>2 DEF LifeNext, Statement, DoEmit, DoDestroy, DoReadingEnded, DoEndOrDestroy,
                DoWritten, DoWritingEnded, DoReturn, streamVars, libuvVars
  <2>5. ~LibuvNext
    BY <2>2, <2>3 DEF LibuvNext, ReadData, ReadEof, ReadError, StreamClosed, Connected,
                      ShutdownDone, streamVars, libuvVars
  <2>6. PICK n \in Sizes : WriteLater(n) \/ EndWith(n)
    <3>1. ~(Connect \/ Accept \/ Resume \/ Pause \/ WriteFails \/ End)
      BY <2>2 DEF Connect, Accept, Resume, Pause, WriteFails, End, libuvVars
    <3>2. ~\E n \in Sizes : WriteNow(n)
      BY <2>2 DEF WriteNow, libuvVars
    <3> QED
      BY <2>4, <2>5, <3>1, <3>2 DEF StreamNext, UserStreamNext
  <2> QED
    BY <2>6 DEF WriteLater, EndWith, MayWrite, EndInv
<1> QED
  BY <1>1, StreamInvariant, PTL DEF StreamSpec, NothingAfterEnd, StreamInv

\* Who waits for drain_event gets it: nothing else ends the flood of a stream
\* that goes on.
THEOREM FloodEndsAudibly ==
  ASSUME HasHandle
  PROVE  StreamSpec => FloodEndsWithDrain
<1> DEFINE Drains == \/ /\ wm' <= LWM
                        /\ \/ job # <<>> /\ Head(job)[1] = "written"
                           \/ conn = "none" \/ handle # "open"
                     \/ ~Patient /\ Len(writes') > Len(writes)
                     \/ ~writable'
<1>1. StreamInv /\ StreamTypeOK /\ [StreamNext]_allVars
        => [~regular /\ regular' => Drains]_allVars
  <2> SUFFICES ASSUME StreamInv, StreamTypeOK, StreamNext, ~regular, regular'
               PROVE  Drains
    OBVIOUS
  <2>1. ~UNCHANGED regular
    OBVIOUS
  <2>2. ~LifeNext
    BY <2>1 DEF LifeNext, streamVars, writeVars
  <2>3. ~LibuvNext
    BY <2>1 DEF LibuvNext, ReadData, ReadEof, ReadError, StreamClosed, Connected,
                Written, ShutdownDone, streamVars, writeVars
  <2>4. CASE Statement
    <3>1. CASE DoWritten
      <4>1. Doing("written") /\ wm' <= LWM
        BY <2>1, <3>1 DEF DoWritten
      <4> QED
        BY <4>1 DEF Doing
    <3>2. CASE DoEndOrDestroy
      <4>1. ~writable'
        BY <2>1, <3>2 DEF DoEndOrDestroy
      <4> QED
        BY <4>1
    <3> QED
      BY <2>1, <2>4, <3>1, <3>2 DEF Statement, DoEmit, DoDestroy, DoReadingEnded,
         DoWritingEnded, DoReturn, streamVars, writeVars
  <2>5. CASE UserStreamNext
    <3>1. CASE WriteFails
      <4>1. wm' <= LWM /\ (conn = "none" \/ handle # "open")
        BY <3>1 DEF WriteFails
      <4> QED
        BY <4>1
    <3>2. CASE End
      BY <3>2 DEF End
    <3>3. CASE Connect \/ Accept \/ Resume \/ Pause
      BY <2>1, <3>3 DEF Connect, Accept, Resume, Pause, writeVars
    <3>4. ASSUME NEW n \in Sizes, WriteNow(n) PROVE FALSE
      <4>1. writes = <<>> /\ UserRuns
        BY <3>4 DEF WriteNow, MayWrite, User
      <4>2. ~First("written")
        BY <4>1, UserAboveBody DEF StreamInv, JobInv
      <4> QED
        BY <4>1, <4>2 DEF StreamInv, LevelInv, FloodCanDrain, First
    <3>5. ASSUME NEW n \in Sizes, WriteLater(n) PROVE Drains
      <4>1. writes' = Append(writes, n) /\ ~Patient
        BY <3>5 DEF WriteLater, MayWrite, Enqueue
      <4>2. Len(writes') > Len(writes)
        BY <4>1 DEF StreamTypeOK
      <4> QED
        BY <4>1, <4>2
    <3>6. ASSUME NEW n \in Sizes, EndWith(n) PROVE Drains
      BY <3>6 DEF EndWith
    <3> QED
      BY <2>5, <3>1, <3>2, <3>3, <3>4, <3>5, <3>6 DEF UserStreamNext
  <2> QED
    BY <2>2, <2>3, <2>4, <2>5 DEF StreamNext
<1> QED
  BY <1>1, StreamInvariant, PTL DEF StreamSpec, FloodEndsWithDrain

=============================================================================
