---------------------------- MODULE AsyncChannel ----------------------------
(***************************************************************************)
(* util::async_channel (util/async_channel.h) over node::channel           *)
(* (channel.h) and uv::async (uv/async.cc): threads send() values, the     *)
(* thread of the loop receives all of them at once when its async handle   *)
(* fires.  uv_async_send() coalesces: any number of calls before the loop  *)
(* wakes up fire once.                                                     *)
(*                                                                         *)
(* send() looks at _async after it has left the mutex of the channel, and  *)
(* no lock protects _async: a sender may read an old null pointer after    *)
(* init() wrote the new one.  It cannot once it has locked the mutex after *)
(* the loop's thread unlocked it (the lock orders the two), which is what  *)
(* "published" and "synced" keep track of.                                 *)
(***************************************************************************)
EXTENDS Integers, Sequences, FiniteSets

CONSTANTS
    Senders,    \* the threads that send
    MaxSends    \* bound: the values each of them sends

ASSUME SendersAssumption == IsFiniteSet(Senders)
ASSUME MaxSendsAssumption == MaxSends \in Nat

VARIABLES
    queue,      \* channel::_q, values <<sender, number>>
    async,      \* whether async_channel::_async points to a handle
    signal,     \* libuv: uv_async_send() was called and has not fired
    published,  \* the loop's thread unlocked the mutex after init() set _async
    loop,       \* what the loop's thread does
    batch,      \* the vector recv() returned
    got,        \* the values recv_event delivered, in their order
    at,         \* for every sender: where it is in send()
    synced,     \* for every sender: it locked the mutex after "published"
    sent        \* for every sender: the number of values it put into _q

channelVars == <<queue, async, signal, published>>
loopVars == <<loop, batch, got>>
senderVars == <<at, synced, sent>>
asyncVars == <<channelVars, loopVars, senderVars>>

Values == Senders \X (1 .. MaxSends)

ChannelTypeOK ==
    /\ queue \in Seq(Values) /\ batch \in Seq(Values) /\ got \in Seq(Values)
    /\ async \in BOOLEAN /\ signal \in BOOLEAN /\ published \in BOOLEAN
    /\ loop \in {"idle", "init", "fired", "received"}
    /\ at \in [Senders -> {"outside", "pushed", "checked"}]
    /\ synced \in [Senders -> BOOLEAN]
    /\ sent \in [Senders -> 0 .. MaxSends]

ChannelInit ==
    /\ queue = <<>> /\ batch = <<>> /\ got = <<>>
    /\ async = FALSE /\ signal = FALSE /\ published = FALSE
    /\ loop = "idle"
    /\ at = [p \in Senders |-> "outside"]
    /\ synced = [p \in Senders |-> FALSE]
    /\ sent = [p \in Senders |-> 0]

-----------------------------------------------------------------------------
(* async_channel::send() *)

\* channel::send(): append the value under the mutex
Push(p) ==
    /\ at[p] = "outside" /\ sent[p] < MaxSends
    /\ queue' = Append(queue, <<p, sent[p] + 1>>)
    /\ sent' = [sent EXCEPT ![p] = @ + 1]
    /\ synced' = [synced EXCEPT ![p] = published]
    /\ at' = [at EXCEPT ![p] = "pushed"]
    /\ UNCHANGED <<async, signal, published, loopVars>>

\* if (this->_async): without a lock
Check(p) ==
    /\ at[p] = "pushed"
    /\ \/ async /\ at' = [at EXCEPT ![p] = "checked"]
       \/ (~async \/ ~synced[p]) /\ at' = [at EXCEPT ![p] = "outside"]
    /\ UNCHANGED <<channelVars, loopVars, synced, sent>>

\* this->_async->send()
Signal(p) ==
    /\ at[p] = "checked"
    /\ signal' = TRUE
    /\ at' = [at EXCEPT ![p] = "outside"]
    /\ UNCHANGED <<queue, async, published, loopVars, synced, sent>>

-----------------------------------------------------------------------------
(* The thread of the loop *)

\* Mutant: init() does not wake the loop for what was sent before.
CreateSilently ==
    /\ loop = "idle" /\ ~async
    /\ async' = TRUE
    /\ UNCHANGED <<queue, signal, published, loopVars, senderVars>>

\* init(): create the handle and set _async...
Create ==
    /\ loop = "idle" /\ ~async
    /\ async' = TRUE
    /\ loop' = "init"
    /\ UNCHANGED <<queue, signal, published, batch, got, senderVars>>

\* ...and wake the loop for what was sent before.
Wake ==
    /\ loop = "init"
    /\ signal' = TRUE
    /\ loop' = "idle"
    /\ UNCHANGED <<queue, async, published, batch, got, senderVars>>

\* The loop takes the signal back and calls the callback of uv::async, which
\* emits async_event.
Fire ==
    /\ loop = "idle" /\ signal
    /\ signal' = FALSE
    /\ loop' = "fired"
    /\ UNCHANGED <<queue, async, published, batch, got, senderVars>>

\* Mutant: recv() copies the queue.
ReceiveCopies ==
    /\ loop = "fired"
    /\ batch' = queue
    /\ published' = TRUE
    /\ loop' = "received"
    /\ UNCHANGED <<queue, async, signal, got, senderVars>>

\* channel::recv(): swap the queue with an empty one under the mutex
Receive ==
    /\ loop = "fired"
    /\ batch' = queue
    /\ queue' = <<>>
    /\ published' = TRUE
    /\ loop' = "received"
    /\ UNCHANGED <<async, signal, got, senderVars>>

\* Mutant: the signal is taken back after the callback.
DeliverResets ==
    /\ loop = "received"
    /\ got' = got \o batch
    /\ batch' = <<>>
    /\ signal' = FALSE
    /\ loop' = "idle"
    /\ UNCHANGED <<queue, async, published, senderVars>>

\* recv_event, unless the batch is empty
Deliver ==
    /\ loop = "received"
    /\ got' = got \o batch
    /\ batch' = <<>>
    /\ loop' = "idle"
    /\ UNCHANGED <<channelVars, senderVars>>

\* destroy(): the handle is closed, its signal with it.  Nothing protects
\* a sender that has found the handle: the owner calls it while nobody sends,
\* and this order also makes the null pointer visible to them.
DestroyChannel ==
    /\ loop = "idle" /\ async
    /\ \A p \in Senders : at[p] = "outside"
    /\ async' = FALSE /\ signal' = FALSE /\ published' = FALSE
    /\ synced' = [p \in Senders |-> FALSE]
    /\ UNCHANGED <<queue, loopVars, at, sent>>

LoopThread == Create \/ Wake \/ Fire \/ Receive \/ Deliver \/ DestroyChannel

Send(p) == Push(p) \/ Check(p) \/ Signal(p)

ChannelNext == LoopThread \/ \E p \in Senders : Send(p)

ChannelSpec == ChannelInit /\ [][ChannelNext]_asyncVars

\* A send() that began ends, the loop runs on: uv_run() returns to the async
\* handle again and again.
ChannelFairness ==
    /\ \A p \in Senders : WF_asyncVars(Check(p) \/ Signal(p))
    /\ WF_asyncVars(Wake) /\ WF_asyncVars(Fire)
    /\ WF_asyncVars(Receive) /\ WF_asyncVars(Deliver)

FairChannelSpec == ChannelSpec /\ ChannelFairness

-----------------------------------------------------------------------------
(* Properties *)

\* Whenever a value waits and the channel has its handle, a wake-up is on its
\* way: it is signalled, or a sender or init() is about to signal it, or the
\* callback is about to receive.  No value is forgotten because its sender
\* missed the handle or because several signals fired once.
NoLostWakeup ==
    queue # <<>> /\ async =>
        \/ signal
        \/ loop \in {"init", "fired"}
        \/ \E p \in Senders :
              at[p] = "checked" \/ (at[p] = "pushed" /\ synced[p])

\* What was delivered, is being delivered and waits, in this order
Conveyed == got \o batch \o queue

\* For every sender, exactly what it sent was delivered, is being delivered or
\* waits: in its order, without loss and without repetition.
InOrder ==
    /\ {Conveyed[i] : i \in DOMAIN Conveyed} = {v \in Values : v[2] <= sent[v[1]]}
    /\ \A i, j \in DOMAIN Conveyed :
          i < j /\ Conveyed[i][1] = Conveyed[j][1] => Conveyed[i][2] < Conveyed[j][2]

\* Everything sent is delivered while the channel has its handle.
Delivered == queue # <<>> /\ async ~> queue = <<>> \/ ~async

=============================================================================
