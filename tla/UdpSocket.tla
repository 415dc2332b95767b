----------------------------- MODULE UdpSocket -----------------------------
(***************************************************************************)
(* udp::socket (udp/socket.h, .cc): datagrams are tried at once and        *)
(* queued in libuv when the kernel does not take them; every queued one    *)
(* retains the socket, a send or a receive that fails destroys it.         *)
(*                                                                         *)
(* A datagram is [id, size].  Handle models the object and the listeners   *)
(* in detail; here one reference stands for all those of the program.      *)
(***************************************************************************)
EXTENDS Naturals, Sequences

CONSTANTS
    DatagramSizes,
    MaxDatagrams  \* bound: calls of write()

VARIABLES
    handle,     \* open, closing or closed
    useCount,   \* _use_count
    owned,      \* whether the program has its reference
    deleted,
    consuming,  \* _is_consuming
    receiving,  \* libuv receives for the handle
    queue,      \* datagrams in uv_udp_send() requests
    wire,       \* history: datagrams the kernel took
    written     \* history: datagrams write() was called with and accepted

vars == <<handle, useCount, owned, deleted, consuming, receiving, queue, wire,
          written>>

Init ==
    /\ handle = "open"
    /\ useCount = 1
    /\ owned = TRUE
    /\ deleted = FALSE
    /\ consuming = FALSE
    /\ receiving = FALSE
    /\ queue = <<>>
    /\ wire = <<>>
    /\ written = <<>>

\* release() of a destroyed handle
Release(count) == useCount' = count - 1 /\ deleted' = (count = 1)

\* handle::_destroy(): uv_close() stops receiving and cancels the requests; the
\* close callback releases what is retained here.
StartClose == handle' = "closing" /\ receiving' = FALSE

-----------------------------------------------------------------------------
(* The program *)

User == owned /\ handle = "open"

\* Throws, and changes nothing, if libuv refuses.
Resume ==
    /\ User /\ ~consuming
    /\ consuming' = TRUE
    /\ receiving' = TRUE
    /\ UNCHANGED <<handle, useCount, owned, deleted, queue, wire, written>>

Pause ==
    /\ User /\ consuming
    /\ consuming' = FALSE
    /\ receiving' = FALSE
    /\ UNCHANGED <<handle, useCount, owned, deleted, queue, wire, written>>

\* Mutant: a datagram is tried at once while others are queued.
WriteOvertakes(size) ==
    LET d == [id |-> Len(written) + 1, size |-> size]
    IN  /\ User
        /\ Len(written) < MaxDatagrams
        /\ written' = Append(written, d)
        /\ wire' \in {Append(wire, d), wire}
        /\ IF wire' # wire /\ size > 0
           THEN UNCHANGED <<queue, useCount>>
           ELSE queue' = Append(queue, d) /\ useCount' = useCount + 1
        /\ UNCHANGED <<handle, owned, deleted, consuming, receiving>>

\* uv_udp_try_send() returns the bytes sent: an empty datagram looks as if it
\* had not been sent, and is sent again.  Where uv_udp_send() refuses, write()
\* throws before it retains the socket, and nothing has happened.
Write(size) ==
    LET d == [id |-> Len(written) + 1, size |-> size]
    IN  /\ User
        /\ Len(written) < MaxDatagrams
        /\ written' = Append(written, d)
        /\ \/ queue = <<>> /\ wire' = Append(wire, d)  \* the kernel takes it
           \/ wire' = wire                             \* EAGAIN
        /\ IF wire' # wire /\ size > 0
           THEN UNCHANGED <<queue, useCount>>
           ELSE queue' = Append(queue, d) /\ useCount' = useCount + 1
        /\ UNCHANGED <<handle, owned, deleted, consuming, receiving>>

Destroy ==
    /\ User
    /\ StartClose
    /\ useCount' = useCount + 1
    /\ UNCHANGED <<owned, deleted, consuming, queue, wire, written>>

\* The last reference of the program goes; only without requests in the queue
\* that destroys the socket.
Drop ==
    /\ owned
    /\ owned' = FALSE
    /\ IF handle = "open" /\ useCount = 1
       THEN StartClose /\ UNCHANGED <<useCount, deleted>>
       ELSE /\ UNCHANGED <<handle, receiving>>
            /\ Release(useCount)
    /\ UNCHANGED <<consuming, queue, wire, written>>

-----------------------------------------------------------------------------
(* Callbacks of libuv *)

ReceiveError ==
    /\ receiving
    /\ StartClose
    /\ useCount' = useCount + 1
    /\ UNCHANGED <<owned, deleted, consuming, queue, wire, written>>

Sent ==
    /\ handle = "open"
    /\ queue # <<>>
    /\ wire' = Append(wire, Head(queue))
    /\ queue' = Tail(queue)
    /\ IF useCount = 1 THEN StartClose /\ UNCHANGED <<useCount, deleted>>
       ELSE Release(useCount) /\ UNCHANGED <<handle, receiving>>
    /\ UNCHANGED <<owned, consuming, written>>

\* The callback of a send that failed: destroy(), then release()
SendFails ==
    /\ handle = "open"
    /\ queue # <<>>
    /\ queue' = Tail(queue)
    /\ StartClose
    /\ UNCHANGED <<useCount, deleted, owned, consuming, wire, written>>

Cancelled ==
    /\ handle = "closing"
    /\ queue # <<>>
    /\ queue' = Tail(queue)
    /\ Release(useCount)
    /\ UNCHANGED <<handle, owned, consuming, receiving, wire, written>>

\* Mutant: the close callback does not release the socket.
CloseDoneUnreleased ==
    /\ handle = "closing"
    /\ queue = <<>>
    /\ handle' = "closed"
    /\ UNCHANGED <<useCount, owned, deleted, consuming, receiving, queue, wire,
                   written>>

CloseDone ==
    /\ handle = "closing"
    /\ queue = <<>>
    /\ handle' = "closed"
    /\ Release(useCount)
    /\ UNCHANGED <<owned, consuming, receiving, queue, wire, written>>

Completion == Sent \/ Cancelled \/ CloseDone

Next ==
    \/ Resume \/ Pause
    \/ \E size \in DatagramSizes : Write(size)
    \/ Destroy \/ Drop
    \/ ReceiveError
    \/ SendFails
    \/ Completion

Spec == Init /\ [][Next]_vars

\* The kernel takes what is queued, and libuv calls its callbacks.
Fairness == WF_vars(Completion)

FairSpec == Spec /\ Fairness

-----------------------------------------------------------------------------
Datagram == [id : Nat, size : Nat]

TypeOK ==
    /\ handle \in {"open", "closing", "closed"}
    /\ useCount \in Nat
    /\ {owned, deleted, consuming, receiving} \subseteq BOOLEAN
    /\ queue \in Seq(Datagram)
    /\ wire \in Seq(Datagram)
    /\ written \in Seq(Datagram)

\* The socket is retained by each request, by the close callback and by the
\* program, and deleted after the last of them.
UseCountExact ==
    /\ useCount = Len(queue) + (IF owned THEN 1 ELSE 0)
                  + (IF handle = "closing" THEN 1 ELSE 0)
    /\ deleted <=> useCount = 0
    /\ deleted => handle = "closed"

\* Where the datagrams that are not empty are in s, and what they are
Full(s) == {i \in DOMAIN s : s[i].size > 0}
Ids(s) == {s[i].id : i \in Full(s)}
Ascends(s) == \A i, j \in Full(s) : i < j => s[i].id < s[j].id

\* Datagrams that are not empty leave in the order of write(), none twice and
\* none lost as long as nothing failed, though some are sent at once and others
\* from the queue.
DatagramsInOrder ==
    /\ Ascends(wire \o queue)
    /\ handle = "open" => Ids(wire \o queue) = Ids(written)
    /\ Ids(wire) \subseteq Ids(written)
    /\ \A a \in Ids(written), b \in Ids(wire) : a < b => a \in Ids(wire)

\* Without the program's reference the socket sends what is queued, closes and
\* is deleted.
DroppedIsDeleted == ~owned ~> deleted

\* Neither failures and cancellations in the middle of the queue nor sends that
\* bypass it confuse the references or the order (udp/socket.cc:113-194).
UdpSafe == TypeOK /\ UseCountExact /\ DatagramsInOrder

=============================================================================
