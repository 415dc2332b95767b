------------------------------- MODULE Stream -------------------------------
(***************************************************************************)
(* A TCP connection: node::uv::stream<uv_tcp_t> (uv/stream.h) and          *)
(* tcp::socket::connect() (tcp/socket.cc) with the readable and writable   *)
(* halves they inherit (stream.h), on top of the life cycle of Handle.     *)
(*                                                                         *)
(* Every action that touches the object's life is one of Handle's actions  *)
(* in conjunction with what the stream does.  libuv's side (what uv_write, *)
(* uv_shutdown, uv_read_start accept and in which order their callbacks    *)
(* arrive) is external.                                                    *)
(***************************************************************************)
EXTENDS Handle, SequencesExt

CONSTANTS
    Sizes,      \* the sizes of the chunks that are written
    LWM,        \* writable_base::_lwm
    HWM,        \* writable_base::_hwm
    Patient,    \* whether everybody who writes waits for drain_event once
                \* write() returned false
    MaxWrites   \* bound: uv_write requests under way

ASSUME PatientAssumption == Patient \in BOOLEAN
ASSUME SizesAssumption == Sizes \subseteq Nat
\* With a high mark of zero every write floods the stream for good.
ASSUME WatermarksAssumption == LWM \in Nat /\ HWM \in Nat \ {0}
\* a connection has its writes, one connect and one shutdown under way
ASSUME RequestsAssumption == MaxWrites \in Nat /\ MaxPending >= MaxWrites + 2

VARIABLES
    conn,        \* libuv: none, connecting, connected or failed
    reading,     \* libuv: uv_read_start() is in effect
    writes,      \* libuv: the sizes of the queued packed_req, oldest first
    shutting,    \* libuv: the uv_shutdown_t has not completed
    consuming,   \* readable_base::_is_consuming
    rEnded,      \* readable_base::_has_ended
    wEnded,      \* writable_base::_has_ended
    writable,    \* writable_base::_is_writable
    wm,          \* writable_base::_wm
    regular,     \* writable_base::_is_regular_level
    job          \* what the running libuv callback will still do

libuvVars == <<conn, reading, writes, shutting>>
readVars == <<consuming, rEnded>>
writeVars == <<wEnded, writable, wm, regular>>
streamVars == <<libuvVars, readVars, writeVars, job>>
allVars == <<vars, streamVars>>

Sum(s) == FoldLeft(LAMBDA a, b : a + b, 0, s)

(***************************************************************************)
(* The statements of the callbacks:                                        *)
(*   emit          emit() of data_event, connect_event or error_event      *)
(*   destroy       destroy()                                               *)
(*   readingEnded  _set_reading_ended()                                    *)
(*   endOrDestroy  after it: destroy() or end()                            *)
(*   written       ~packed_req() of a write request                        *)
(*   writingEnded  _set_writing_ended() and destroy() if reading ended     *)
(***************************************************************************)
Statements == {"emit", "destroy", "readingEnded", "endOrDestroy",
               "written", "writingEnded"}

StreamTypeOK ==
    /\ conn \in {"none", "connecting", "connected", "failed"}
    /\ reading \in BOOLEAN /\ shutting \in BOOLEAN
    /\ consuming \in BOOLEAN /\ rEnded \in BOOLEAN
    /\ wEnded \in BOOLEAN /\ writable \in BOOLEAN /\ regular \in BOOLEAN
    /\ writes \in Seq(Sizes)
    /\ wm \in Nat
    /\ job \in Seq(Statements \X ({0} \cup Sizes))

StreamInit ==
    /\ Init
    /\ conn = "none"
    /\ reading = FALSE /\ shutting = FALSE
    /\ writes = <<>>
    /\ consuming = FALSE /\ rEnded = FALSE
    /\ wEnded = FALSE /\ writable = TRUE /\ wm = 0 /\ regular = TRUE
    /\ job = <<>>

-----------------------------------------------------------------------------
(* Connecting *)

\* socket::connect(addr); a second uv_tcp_connect() fails and connect() throws.
Connect ==
    /\ User /\ conn = "none"
    /\ StartRequests(1)
    /\ conn' = "connecting"
    /\ UNCHANGED <<reading, writes, shutting, readVars, writeVars, job>>

\* server::accept() connects the socket that user code passes.
Accept ==
    /\ conn = "none"
    /\ User /\ handle = "open"
    /\ conn' = "connected"
    /\ UNCHANGED <<vars, reading, writes, shutting, readVars, writeVars, job>>

\* The connect callback; an error destroys the socket.
Connected(ok) ==
    /\ conn = "connecting"
    /\ ok => handle = "open"
    /\ Complete
    /\ conn' = IF ok THEN "connected" ELSE "failed"
    /\ job' = IF ok THEN <<<<"emit", 0>>>> ELSE <<<<"emit", 0>>, <<"destroy", 0>>>>
    /\ UNCHANGED <<reading, writes, shutting, readVars, writeVars>>

-----------------------------------------------------------------------------
(* Reading *)

\* readable_base::resume(): uv_read_start() fails, and resume() throws,
\* without a connection or on a closing handle.
Resume ==
    /\ User /\ ~consuming
    /\ conn = "connected" /\ handle = "open"
    /\ reading' = TRUE
    /\ consuming' = TRUE
    /\ UNCHANGED <<vars, conn, writes, shutting, rEnded, writeVars, job>>

\* readable_base::pause()
Pause ==
    /\ User /\ consuming
    /\ reading' = FALSE
    /\ consuming' = FALSE
    /\ UNCHANGED <<vars, conn, writes, shutting, rEnded, writeVars, job>>

\* The read callback with data
ReadData ==
    /\ conn = "connected" /\ reading /\ ~rEnded
    /\ Callback
    /\ job' = <<<<"emit", 0>>>>
    /\ UNCHANGED <<libuvVars, readVars, writeVars>>

\* The read callback with UV_EOF, after which libuv stops reading.  resume()
\* after pause() makes it report UV_EOF again.
ReadEof ==
    /\ conn = "connected" /\ reading
    /\ Callback
    /\ reading' = FALSE
    /\ job' = <<<<"readingEnded", 0>>, <<"endOrDestroy", 0>>>>
    /\ UNCHANGED <<conn, writes, shutting, readVars, writeVars>>

\* The read callback with another error: hard close
ReadError ==
    /\ conn = "connected" /\ reading
    /\ Callback
    /\ reading' = FALSE
    /\ job' = <<<<"emit", 0>>, <<"destroy", 0>>>>
    /\ UNCHANGED <<conn, writes, shutting, readVars, writeVars>>

-----------------------------------------------------------------------------
(* Writing *)

\* Mutant: write() does not look at _is_writable.
MayWriteEnded == User /\ (Patient => regular)

MayWrite == User /\ writable /\ (Patient => regular)

\* uv_try_write() sends everything: only while nothing is queued.
WriteNow(n) ==
    /\ MayWrite /\ n > 0
    /\ conn = "connected" /\ handle = "open" /\ writes = <<>>
    /\ regular' = (wm < HWM)
    /\ UNCHANGED <<vars, libuvVars, readVars, wEnded, writable, wm, job>>

\* Mutant: what was not sent is counted, but what was asked for is taken back.
EnqueueRest(n) ==
    /\ conn # "none"
    /\ Len(writes) < MaxWrites
    /\ writes' = Append(writes, n)
    /\ \E rest \in 0 .. n : wm' = wm + rest

\* The rest, after uv_try_write() sent a part or nothing, is queued, and
\* counted in full.
Enqueue(n) ==
    /\ conn # "none"
    /\ Len(writes) < MaxWrites
    /\ writes' = Append(writes, n)
    /\ wm' = wm + n

WriteLater(n) ==
    /\ MayWrite
    /\ StartRequests(1)
    /\ Enqueue(n)
    /\ regular' = (wm' < HWM)
    /\ UNCHANGED <<conn, reading, shutting, readVars, wEnded, writable, job>>

\* uv_write() fails without a connection or on a closing handle: ~packed_req()
\* takes the watermark back, which may drain the stream, and write() throws.
WriteFails ==
    /\ writable
    /\ conn = "none" \/ handle # "open"
    /\ ~regular /\ wm <= LWM
    /\ regular' = TRUE
    /\ CallEmit
    /\ UNCHANGED <<libuvVars, readVars, wEnded, writable, wm, job>>

\* uv_shutdown() succeeds.
Shutdown ==
    /\ StartRequests(1)
    /\ shutting' = TRUE

\* Mutant: end() does not look at _is_writable.
EndAgain ==
    /\ User
    /\ \/ conn # "none" /\ Shutdown
       \/ handle # "open" /\ UNCHANGED <<vars, shutting>>
    /\ regular' = (wm < HWM)
    /\ writable' = FALSE
    /\ UNCHANGED <<conn, reading, writes, readVars, wEnded, wm, job>>

\* writable::end() without a chunk, or with one that uv_try_write() sends.
\* uv_shutdown() refuses a socket that never connected, and end() throws.
End ==
    /\ User /\ writable
    /\ \/ conn # "none" /\ Shutdown
       \/ handle # "open" /\ UNCHANGED <<vars, shutting>>
    /\ regular' = (wm < HWM)
    /\ writable' = FALSE
    /\ UNCHANGED <<conn, reading, writes, readVars, wEnded, wm, job>>

\* writable::end(chunk): a write and a shutdown request at once
EndWith(n) ==
    /\ User /\ writable
    /\ StartRequests(2) /\ Enqueue(n)
    /\ shutting' = TRUE
    /\ regular' = (wm' < HWM)
    /\ writable' = FALSE
    /\ UNCHANGED <<conn, reading, readVars, wEnded, job>>

\* The write callback, for the requests in their order
Written(ok) ==
    /\ writes # <<>> /\ conn # "connecting"
    /\ Complete
    /\ writes' = Tail(writes)
    /\ job' = IF ok THEN <<<<"written", Head(writes)>>>>
              ELSE <<<<"written", Head(writes)>>, <<"destroy", 0>>>>
    /\ UNCHANGED <<conn, reading, shutting, readVars, writeVars>>

\* The shutdown callback, once everything is written
ShutdownDone(ok) ==
    /\ shutting /\ writes = <<>> /\ conn # "connecting"
    /\ ok => handle = "open"
    /\ Complete
    /\ shutting' = FALSE
    /\ job' = IF ok THEN <<<<"writingEnded", 0>>>>
              ELSE <<<<"writingEnded", 0>>, <<"destroy", 0>>>>
    /\ UNCHANGED <<conn, reading, writes, readVars, writeVars>>

-----------------------------------------------------------------------------
(* The statements of the callbacks *)

Doing(statement) ==
    /\ job # <<>> /\ Head(job)[1] = statement
    /\ job' = Tail(job)

DoEmit ==
    /\ Doing("emit") /\ BodyEmits
    /\ UNCHANGED <<libuvVars, readVars, writeVars>>

DoDestroy ==
    /\ Doing("destroy") /\ BodyDestroys
    /\ UNCHANGED <<libuvVars, readVars, writeVars>>

\* _set_reading_ended(): end_event, once
DoReadingEnded ==
    /\ Doing("readingEnded")
    /\ \/ ~rEnded /\ BodyEmits
       \/ rEnded /\ In("body") /\ UNCHANGED vars
    /\ rEnded' = TRUE
    /\ UNCHANGED <<libuvVars, consuming, writeVars>>

\* Mutant: the read callback only calls end().
DoEndOnly ==
    /\ Doing("endOrDestroy") /\ In("body")
    /\ \/ /\ ~writable
          /\ UNCHANGED <<vars, shutting, writable, regular>>
       \/ /\ writable
          /\ \/ Shutdown
             \/ handle # "open" /\ UNCHANGED <<vars, shutting>>
          /\ regular' = (wm < HWM)
          /\ writable' = FALSE
    /\ UNCHANGED <<conn, reading, writes, readVars, wEnded, wm>>

DoEndOrDestroy ==
    /\ Doing("endOrDestroy") /\ In("body")
    /\ \/ /\ wEnded
          /\ BodyDestroys
          /\ UNCHANGED <<shutting, writable, regular>>
       \/ /\ ~wEnded /\ ~writable
          /\ UNCHANGED <<vars, shutting, writable, regular>>
       \/ /\ ~wEnded /\ writable
          /\ \/ Shutdown
             \/ handle # "open" /\ UNCHANGED <<vars, shutting>>
          /\ regular' = (wm < HWM)
          /\ writable' = FALSE
    /\ UNCHANGED <<conn, reading, writes, readVars, wEnded, wm>>

\* Mutants of _decrease_watermark(): drain_event comes too early, or too late.
Decreases(drains) ==
    /\ Doing("written")
    /\ wm' = wm - Head(job)[2]
    /\ \/ /\ ~regular /\ drains
          /\ regular' = TRUE
          /\ BodyEmits
       \/ /\ regular \/ ~drains
          /\ In("body") /\ UNCHANGED <<vars, regular>>
    /\ UNCHANGED <<libuvVars, readVars, wEnded, writable>>

DrainsEarly == Decreases(wm - Head(job)[2] <= HWM)
DrainsLate == Decreases(wm - Head(job)[2] < LWM)

\* _decrease_watermark(): drain_event when the level falls to the low mark
DoWritten ==
    LET n == Head(job)[2]
    IN  /\ Doing("written")
        /\ wm' = IF wm > n THEN wm - n ELSE 0
        /\ \/ /\ ~regular /\ wm' <= LWM
              /\ regular' = TRUE
              /\ BodyEmits
           \/ /\ regular \/ wm' > LWM
              /\ In("body") /\ UNCHANGED <<vars, regular>>
        /\ UNCHANGED <<libuvVars, readVars, wEnded, writable>>

\* Mutant: the shutdown callback does not destroy the socket.
DoWritingEndedOnly ==
    /\ Doing("writingEnded")
    /\ wEnded' = TRUE
    /\ writable' = FALSE
    /\ In("body") /\ UNCHANGED vars
    /\ UNCHANGED <<libuvVars, readVars, wm, regular>>

DoWritingEnded ==
    /\ Doing("writingEnded")
    /\ wEnded' = TRUE
    /\ writable' = FALSE
    /\ IF rEnded THEN BodyDestroys ELSE In("body") /\ UNCHANGED vars
    /\ UNCHANGED <<libuvVars, readVars, wm, regular>>

DoReturn ==
    /\ job = <<>> /\ BodyReturns
    /\ UNCHANGED streamVars

Statement ==
    \/ DoEmit \/ DoDestroy \/ DoReadingEnded \/ DoEndOrDestroy
    \/ DoWritten \/ DoWritingEnded \/ DoReturn

-----------------------------------------------------------------------------

LifeNext == (UserNext \/ ObjectNext) /\ UNCHANGED streamVars

StreamClosed ==
    /\ conn # "connecting" /\ writes = <<>> /\ ~shutting
    /\ Closed
    /\ UNCHANGED streamVars

UserStreamNext ==
    \/ Connect \/ Accept \/ Resume \/ Pause \/ WriteFails \/ End
    \/ \E n \in Sizes : WriteNow(n) \/ WriteLater(n) \/ EndWith(n)

LibuvNext ==
    \/ ReadData \/ ReadEof \/ ReadError \/ StreamClosed
    \/ \E ok \in BOOLEAN : Connected(ok) \/ Written(ok) \/ ShutdownDone(ok)

StreamNext == LifeNext \/ UserStreamNext \/ LibuvNext \/ Statement

StreamSpec == StreamInit /\ [][StreamNext]_allVars

(***************************************************************************)
(* Fairness, on top of Handle's: the statements of callbacks are executed, *)
(* and libuv completes what it was given: the peer reads what is sent to   *)
(* it, or the connection breaks, or the handle was closed.                 *)
(***************************************************************************)
StreamFairness ==
    /\ WF_allVars(ObjectNext /\ UNCHANGED streamVars)
    /\ \A d \in 1 .. MaxCalls + 3 :
          SF_allVars(Len(calls) = d /\ ReturnToEmit /\ UNCHANGED streamVars)
    /\ WF_allVars(Statement)
    /\ SF_allVars(\E ok \in BOOLEAN :
                     Connected(ok) \/ Written(ok) \/ ShutdownDone(ok))
    /\ SF_allVars(StreamClosed)

FairStreamSpec == StreamSpec /\ StreamFairness

-----------------------------------------------------------------------------
(* Safety *)

One(b) == IF b THEN 1 ELSE 0

\* Every request libuv holds has retained the socket once: each successful
\* uv_tcp_connect, uv_write and uv_shutdown is matched with one retain().
RequestsExact ==
    pending = Len(writes) + One(shutting) + One(conn = "connecting")

\* _wm is what the queued requests carry, whatever failed, was cancelled or
\* threw: a leak would flood the stream for good.
WatermarkExact ==
    wm = Sum(writes) + Sum([i \in DOMAIN job |-> job[i][2]])

\* write() has returned false: then something is queued whose completion can
\* bring the level down, and nobody waits for a drain_event in vain.
FloodCanDrain ==
    ~regular => writes # <<>> \/ (job # <<>> /\ Head(job)[1] = "written")

\* The level by which write() reports back-pressure is exact, and it can fall
\* again whenever it was reported (stream.h:244-262).
LevelExact == StreamTypeOK /\ WatermarkExact /\ FloodCanDrain

\* The flood ends with a drain_event for those who wait for it, when a request
\* is finished or refused; only a write() of somebody who did not wait, and the
\* end of the stream, clear it silently.
FloodEndsWithDrain ==
    [][~regular /\ regular' =>
          \/ /\ wm' <= LWM
             /\ \/ job # <<>> /\ Head(job)[1] = "written"
                \/ conn = "none" \/ handle # "open"
          \/ ~Patient /\ Len(writes') > Len(writes)
          \/ ~writable']_allVars

\* Nothing is queued behind the shutdown, from no listener of no event.
NothingAfterEnd ==
    [][Len(writes') > Len(writes) => ~shutting /\ ~wEnded]_allVars

\* Once the callback for the peer's FIN is through, the socket is destroyed or
\* its own shutdown, which will destroy it, is under way: whichever side ends
\* first, and whatever the listeners of end_event did.
EofIsAnswered == Idle /\ rEnded => destroyed \/ shutting

(* Liveness *)

\* No half closed connection lingers: after the peer's FIN the socket is
\* destroyed, without a call of user code.
EofDestroys == rEnded ~> destroyed

\* A flooded stream is drained or destroyed, when those who write are patient:
\* those who are not can keep its level up forever.
FloodSubsides == ~regular ~> regular \/ destroyed

=============================================================================
