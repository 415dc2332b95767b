# A verification project for libnodecc

libnodecc is a C++ library in the style of node.js on top of libuv: event
emitters, reference counted handles, streams, TCP, UDP, HTTP/1.1, DNS, and the
buffers and encodings they need. These TLA+ modules model its behaviour, TLC
checks them on small instances, and TLAPS proves the most important properties
for instances of every size. All paths are relative to the repository's root,
`src/` (so `src/src/loop.cc` is its `src/loop.cc`).

## 1. The system

One `node::loop` runs on one thread. Nearly everything happens in callbacks
libuv makes on that thread. There is little parallelism, but every object is
*re-entrant*: an operation emits an event, the listener calls the same object
again, and so on to any depth. Four kinds of behaviour are hard here:

- re-entrancy: raw pointers, counters and flags that change under the feet of a
  function which is further down the C++ call stack;
- lifetime: objects delete themselves when the last reference goes, while libuv
  may still own requests with pointers to them;
- the order of libuv's callbacks: data, the peer's FIN, write and shutdown
  completions, errors, cancellations and the close callback race each other;
- threads: `async_channel`, `channel`, `queue_work` and the HTTP date buffer.

| component | state | operations | interacts with | correct when |
|---|---|---|---|---|
| `events::emitter` | map of intrusive lists, `head`, `tail`, `next`, `ref_count` | `on`, `off`, `removeAllListeners`, `emit` | every class derives from it; handlers call back into it | no dangling pointer, nothing missed, repeated or leaked |
| `object`, `shared_ptr`, `uv::handle` | `_use_count`, `_is_destroyed`, the `uv_handle_t` | `retain`, `release`, `destroy`, `_destroy` | emits `destroy_event`, `uv_close` | deleted exactly once, after the last use, and eventually |
| `stream`, `uv::stream` | `_is_consuming`, `_has_ended`, `_wm`, `_is_regular_level`, `_is_writable` | `resume`, `pause`, `write`, `end`, libuv's callbacks | handle's life, user listeners | the level is exact, floods end, half closed sockets go away |
| `tcp::socket`, `tcp::server` | requests, address list of a DNS connect | `connect`, `accept`, `listen` | streams, `dns::lookup` | one callback per request, no leak |
| `async_channel`, `channel`, `uv::async` | queue under a mutex, unprotected `_async`, libuv's signal | `send`, `init`, `destroy`, `recv` | several threads | no lost wake-up, values once and in order |
| `loop` | `_tick_callbacks`, `_tick_async`, `stop_flag` | `next_tick`, `_on_async`, `stop` | every callback | a tick callback runs once |
| `http::server`, `request`, messages | client list, parser, `_headers_sent`, `_is_chunked` | `_end`, `http_write`, parser callbacks | sockets, streams, objects | messages are framed, nobody is used after destruction |
| HTTP date buffer | atomic `_last_update`, buffer under a mutex | `update`, `get_buffer` | servers on several loops | the header is fresh and does not go back |
| `udp::socket`, `timer`, `watcher` | one handle each, send requests | `send`, `bind`, `start`... | handle's life | as handle |
| `dns::lookup`, `queue_work` | one request each | factory with one callback | loop, thread pool | one callback |
| buffers, strings | shared control block, size, capacity | `slice`, `append`, `copy`... | everything | every handle has the value its own operations gave it |
| base64, URI, SHA-1, CRC-32C, math | none | pure functions | buffers, HTTP | return what they are defined to, where they do |

`PROJECT.json` lists every component with its status and every hazard with the
line where it bites and the property that covers it.

## 2. What is modelled

### Emitter (`events/emitter.h`, `events/emitter.cc`)

`Emitter` keeps the pointers: `head`, `tail` and `next`, `ref_count` (`refs`), the
heap, and `stack`, the running `emit()` loops with the handler each one invokes
now. `On`, `Off` (with `Erase`), `RemoveAllListenersOf` and `RemoveAllListeners`
(with `Clear`) are the public operations. Between two calls of handlers the
code of `emit()` runs without interruption, so it is two actions: `Emit` up to
the first call, `Return` from a handler's return up to the next call or the end
of the loop. Any operation can happen while `stack` is not empty; that is the
re-entrancy. Addresses are never reused, so that an access to deleted memory
stays visible.

`EventList` says what users may rely on: one sequence of handlers per symbol.
`EmitterDelivery` adds, as history, what each running `emit()` owes and has
invoked, and maps the pointers to `EventList` (`AbstractSpec`): `Lists` follows `next` from
every `head`, by a recursive function.

Functors have no effect of their own when they are destroyed here: what the
destructor of a captured `shared_ptr` does is the subject of Handle.

### Handle (`object.h`, `uv/handle.h`)

One reference counted object, with a libuv handle or without one
(`Kinds`: what is inside the object at first). The functions of its life cycle are executed in small steps on an
explicit call stack, `calls`: `destroy()`, `removeAllListeners()`, `release()` and
their continuations after the calls they make, and the `emit()`s that run
listeners. Whenever user code runs (`User`: no callback, or a listener on top of
the stack) it may copy and drop references, register and remove listeners that
captured a reference, call `destroy()` or `emit()`.

- `refs`, `captures`, `lost` and the frames `userCap`, `userLost` count the
  `shared_ptr`s by where they live; `lost` are those in listeners that were removed
  while they ran, which `emit()` never deletes (finding 1).
- Requests (`pending`) and callbacks (`body`) stand for what subclasses do. `Closed`,
  `Callback` and `Complete` are libuv's side: no callback but those of requests
  after `uv_close()`, and the close callback last.
- `reset()` and `~shared_ptr()` call `release()` first, and the pointer is set to null when it has
  returned (`DropRef`, the frame `reset`, `ResetTail`): the listeners of `destroy_event` still find
  it and may use or copy it (`Resetting`).
- A frame `user` does not touch the object when it returns: `emit()` goes on with
  the handler it holds, whose successor the emitter's destructor has nulled.
- Preconditions: user code reaches the object only through a `shared_ptr` of its
  own, and does not call `handle::emit(error_event)` on a handle that is closed.
- A rule for the programs of `Spec`: nobody resets, overwrites or moves from a pointer in the middle
  of its own `reset()`. `CarelessSpec` has the programs that do reset it again (`ResetAgain`), and
  the assertion of `release()` fails for them (finding 3).

### Stream (`uv/stream.h`, `stream.h`, `tcp/socket.cc`)

`Stream` EXTENDS `Handle`: every action that touches the object's life is one of
Handle's actions conjoined with what the stream does. A libuv callback is the
frame `body` with a list of statements to execute, `job`; each statement may emit,
hence run user code, before the next one. So `DoReadingEnded` and
`DoEndOrDestroy` are the two halves of the EOF branch of the read callback, with
everything listeners of `end_event` may do in between. Chunks are their sizes. The
failing path of `write()` (`WriteFails`) keeps the `drain_event` that
`~packed_req()` may emit while the exception is on its way.

libuv's part is external: `uv_try_write` sends only while nothing is queued, writes
complete in order, the shutdown completes after them, requests are cancelled
when the handle closes, and the functions fail without a connection. A `write()`
whose `uv_try_write()` fails at once is an ordinary queued write to the code, whose
callback reports the error.

### AsyncChannel (`util/async_channel.h`, `channel.h`, `uv/async.cc`)

Threads that send, and the thread of the loop. `channel::send()` and
`channel::recv()` are atomic (they hold the mutex); the check of `_async` and the
signal are steps of their own, outside of any lock. A sender may read an old
null pointer until a lock orders it after `init()`; `published` and `synced` say
when that is. Signals coalesce.
`destroy()` is only called while nobody sends: nothing in the class would make it
safe otherwise.

### LoopTick (`loop.h`, `loop.cc`)

The vector of `next_tick()`, with its capacity, and the walk of `_on_async()` over it:
`cursor` and `last` are the iterators, `valid` is false once `emplace_back()` has moved
the vector to another buffer. In the old buffer there are only functions that
were moved from; calling one throws out of a `noexcept` function (`"terminated"`).
That is the least that can happen: any other use of freed memory is not modelled.
Every call of a tick callback is a step, so that user code runs in between:
`NextTick` (then `nested`), `Stop`, `Keep`. `Run` is the three run
functions; an iteration of `uv_run()` is the phase `"iteration"`, in which callbacks of other
handles run too. `Destroy`, `CloseTick` and `Leave` are the destructor with its last
run. `run()` is never called from a callback.

### Connect (`tcp/socket.cc`, `dns/lookup.h`, `dns/lookup.cc`)

`tcp::socket::connect()` with a name: one `connect_pack` with one request structure, and
a socket for every address of the answer, which names it here. `at` is what runs or
is waited for. `ConnectFails` is both ways to the next address: the error of
`uv_tcp_connect()`, for which the function calls itself, and that of the callback. `count`
is the `_use_count` of every socket, `member` the socket of the pack, `reqOf` the one the
request was started for, `kept` what the program took. Handle says what
`release()` to zero does.

### SharedPtr (`object.h`)

Owners, their members with a responsible object, and `shared_ptr`s to owners: every
constructor and assignment, `destroy()` of owner and member, and requests that
retain a member. `lost` counts the pointers that an assignment overwrites without
`release()`, as the code does. The listeners that run meanwhile, which still find the
pointer that `reset()` is about to clear, are Handle's subject.

### HttpServer (`http/server.h`, `http/server.cc`)

Connections with their socket, request and response, which hold each other by the
closures of `destroy_event` and `headers_complete_callback` (`holders`), and the
server's `_clients`. `stack` holds the calls that wait for a listener: http_parser in a
request (for `request_event`, and for `data_event` and `end_event` of the body), `destroy()` of a
socket, the walk of the server's `_destroy()`. A listener
may answer, keep and drop messages, destroy any connection it reaches, or the
server. The parser is a part of the request, and nothing in the code keeps the request from
a listener that runs inside the parser and destroys the connection: the closures are cleared and
the last `shared_ptr` goes. The constant `MessagesKept` says whether the program sees to it
(`Careful`: it has kept `req` and `res` and does not drop them meanwhile). The run and
the theorem have it `TRUE`. With `FALSE` the model has every program, and TLC finds `NoUseAfterFree`
violated at once: accept, a request whose listener calls `destroy()`, and its return. When the parser refuses the rest of the data
after the connection was destroyed, `_socket` is null
(`incoming_message.cc:192`) and the program ends there (`Crashed`), with messages that were kept, too. The socket is reduced to its five stages and the peer's FIN: what Handle
and Stream prove about one object is taken for granted, and what the counts of
three objects together do is modelled. `Erased` takes the connection's own element out
of the list, which has it once (`ClientsExact`).

### HttpOutgoing (`http/outgoing_message.h`, `http/outgoing_message.cc`, `http/server.cc`)

The framing of one message: `Chunked` is the decision of `http_write()`, `Compiled` what a
call writes for it, as tokens (head, chunk size, chunk, line end, last chunk),
and `Receiver` reads the tokens as a peer must. The socket may end or disappear
between two calls, and then `write()` throws or does nothing. Chunks are their sizes.
The peer follows HTTP (RFC 7230, 3.3.3): a transfer-encoding takes precedence over a content-length.
Three uses are excluded, because the body cannot be read then: empty chunks in the chunked
encoding (`Printable`); `end()` without a chunk before the head when the user chose the
encoding (`BareEnd = FALSE`); and a content-length together with a transfer-encoding
(`BothHeaders = FALSE`), which `set_header()` accepts and `outgoing_message.cc:54-55` sends both, with a body
that is not chunked. With either switch `TRUE`, TLC finds `BodyReadable` violated.

### HttpIncoming (`http/incoming_message.h`, `http/incoming_message.cc`)

The callbacks of http_parser for the messages of one connection, in pieces as TCP cut
them, and the accessors, which may be called at any time and parse late.
`phase` is http_parser (external); `sent`, `sentUrl` are what the peer sent, `whole` says
that on this connection no value was divided or empty and no trailer came: `HeadersExact` is only stated for
those, since what is left of such a value goes to the next name. `taken` says that an earlier
message was a websocket request, whose headers stay. The end of a message is two steps, `OnMessageComplete` and `MessageEnded`,
with the listeners of `end_event` between them (`phase = "ending"`). The test whether it is a websocket request comes
before them; when one of them is the first to call `is_websocket_request()` (`late`), the headers are
cleared all the same, and `WebsocketKeepsHeaders` leaves that out.

### DateBuffer (`http/_http_date_buffer.h`, `http/_http_date_buffer.cc`)

Threads that share the date header: `Load`, `Cas`, `Time` and `Store` are the steps of the
lock-free `update()`, `UpdateLocked` is the other version (`atomic` chooses). Times are
unsigned (`Modulus`), and each loop's cached time lags behind the clock by any amount.
The clock runs on at any point, also between `Time` and `Store`. So a second thread can win the next
compare-and-swap while the first still holds its date, and the older date may be stored
last: `alone` and `clean` remember whether the latest update was overlapped, and after one that was, nothing is
promised until the next that was not. `OneUpdater`, the comment of line 46 as a formula, does not hold.

### UdpSocket (`udp/socket.h`, `udp/socket.cc`)

Datagrams that are sent at once or queued; every queued one retains the socket.
The callback of one that failed destroys the socket, and libuv then cancels the
others before it closes. One reference stands for the program's. Datagrams carry
the place of their `write()` as `id`; `Ids` leaves out the empty ones, which the code may send twice.

### Buffers (`buffer/buffer.cc`, `buffer/mutable_buffer.cc`)

Handles (block, offset, size, capacity), blocks of memory and their reference
counts; `mutable_buffer`s append into memory that others share. `swap()` is inherited, so that it also
gives a `mutable_buffer` memory its capacity does not fit; one that was moved from keeps its capacity; copies and
slices take over a capacity together with shared memory; and `slice()` subtracts in `size_t`
(`SizeT` is its number of values) and wraps around. All of this happens in the model. `misfit` is the set
of the handles it happened to, and what is promised is promised to programs that assign, reset or
swap such a handle before they append to it (`Usable`): an append writes into other handles' memory or behind it
otherwise. The head of the module lists this and the other rules
the classes need and do not check. `BufferValues` is the
promise: every handle has a value of its own, and an operation changes only those of
the handles it is called on.

### Encodings (`util/math.cc`, `uri.cc`, `base64.cc`, `sha1.cc`, `crc32c.cc`)

Pure algorithms as operators against definitions that say what the result is; a loop
over an input is a fold, so that the proofs can follow it. The state is an input that grows byte
by byte, and the alignment of its address, on which two of the loops depend. Two bytes are also
a number to print. `InputAssumption` bounds the input by 8191 bytes, whose bits fit in the two lowest bytes of
SHA-1's length: `Digest` writes the upper six as zeros.

Where the code does not return what one expects, the model has what it returns and the property says
so. `digits()` of a base that is neither 10 nor a power of 2 is the quotient of two logarithms, rounded down:
one digit less than the number has, or two when the quotient of a power comes out too low (`LogBelow` names these
powers). `append_number()` then drops the highest digits (`NumberShort`). `component_decode()`
takes the first digit of an escape for the lower half of the byte: `%41` becomes 0x14 (`UriEscape`). Neither
contradicts a comment or a test, so no run reports them. Zero digits, for numbers below such a base and for
0 in bases of powers of 2, divide by zero or write into memory that was not asked for, and are left out.

`MCStream`, `MCLoop`, `MCNetwork` and `MCData` put components side by side that share no state: every behaviour picks
one of them (`part`) and leaves the others' variables alone, so that one run
explores each component's states, not their product.

## 3. What is checked

Every run finishes within five minutes, most of them within two. A component's invariants are named one by one in its
module, and conjoined in the property the run checks.

| run | instance | shows |
|---|---|---|
| `emitter` | 4 handlers, 2 symbols, 3 nested emits | `NoUseAfterFree`, `RefCountExact`, `WellFormed` (types, map entries, lists), `AbstractSpec` (refinement), `Delivery` (nothing missed, repeated or invoked after its removal) |
| `emitter_leak` | 3 handlers | violation: `RemovedIsDeleted`, finding 1 |
| `handle` | objects with and without a handle; 2 references, 1 capturing listener, 1 request, stack of 5 | `RefCountExact`, `NoUseAfterFree`, and with `TypeOK` that the `assert` in `release()` does not fail for programs that keep the rule about `reset()`; liveness: `DestroyedIsDeleted`, `UnusedIsDeleted` |
| `reset_again` | both kinds; 1 reference, a listener that resets it again | violation: `ReleaseHasUse`, finding 3 |
| `plain_dangling` | no handle; 1, 1 | violation: `UnusedWhenDeleted`, finding 2 |
| `stream` | sizes 0 to 2, both marks at 2, 2 queued writes | `RequestsExact`, `LevelExact` (types, watermark, floods can drain), `EofIsAnswered`, `NothingAfterEnd` |
| | messages: 6 pieces, 2 messages | `MessageExact` (headers, URL, caches, websocket) |
| `stream_life` | size 1, marks 0 and 2, patient writers | `FloodEndsWithDrain`; liveness: `EofDestroys`, `FloodSubsides` |
| `loop` | 2 senders, 2 values each | `NoLostWakeup`, `InOrder` (what was received and what is under way is what every sender sent, once and in its order); liveness: `Delivered` |
| | 4 callbacks | `OnceInOrder`, `WakeupKept`, `OutsideNotLost`, `DestructorCloses`; liveness: `TicksRun` |
| `loop_tick_stopped` | 2 callbacks | violation: `EmptyForNextIteration`, finding 4 |
| `network` | 4 addresses | `ConnectSafe` (cb once, counts, one socket, one request, order); liveness: `Answered` |
| | 2 connections, messages kept | `ServerSafe` (`_clients`, messages alive, no leak, no throw in the parser, the walk); liveness: `AnsweredIsClosed` |
| | 2 threads, timeout 1, clock to 4 | `DatesSafe` (fresh, and not back, where no two updates overlap) |
| | 4 datagrams of sizes 0 and 1 | `UdpSafe` (references, order); liveness: `DroppedIsDeleted` |
| | 2 owners with 2 members, 3 pointers | `PointersSafe` (counts, nothing dangles, nothing unused stays) |
| `data` | 2 mutable buffers and one other, 3 blocks of 2 bytes, `size_t` of 3 values | `BuffersSafe` (counts, bounds, private room, appends), `ImplementsValues` (refinement) |
| | calls of 2 chunks, 4 per message | `OutgoingSafe` (wire, head first, framing), `BodyReadable` (what the peer reads, content-length), with one framing header |
| | inputs of up to 26 bytes | `TextExact` (numbers, URI, base64), `DigestExact` (padding, CRC32C) |
| `declared_encoding` | with a list of codings | violation: `DeclaredEncoding`, finding 5 |

Why the bounds are enough. Emitter: a list of three handlers has a first, a
middle and a last one, the fourth can be added during an emit, and three nested
emits put two guards on one handler below another emit. Handle: two references
and a capturing listener allow the last reference to be held by user code, by
a registered, a running and a removed listener, and by the pointer that is being reset; the stack is deep enough for
`destroy()` in a listener of the event that `release()` emitted in the `reset()` of a listener; the
safety properties are proved for every bound.
Stream: with two writes of different sizes the level passes the marks in both
directions, and the queue has a head and a tail. Marks that coincide let a failing
`write()` find a flooded stream at its low mark, which then drains; `stream_life`
has the marks apart. AsyncChannel: the second sender
can find the queue before, within and after the first one's steps; the third
event is always the loop's. LoopTick: the vector grows from 1 to 2 to 4, so that with
four callbacks a nested call finds it full and with room to spare, and a second
walk starts from the capacity the first one left.
Connect: four addresses have a first, a last and two that are neither; proved for every
number. HttpServer: with two connections a listener of one destroys itself, the other, the
server, and each of these inside the other. DateBuffer: one thread wins, the other
loses or lags, and the clock runs for several timeouts. UdpSocket: the queue
has a head, a middle and a tail when the head fails. SharedPtr: two owners, so that an
assignment overwrites a pointer to another one; two members end in both orders.
Buffers: `size_t` has few values, so that the capacity of a slice wraps around to one that exceeds the blocks; three blocks let a handle move from one block to another while the third holds
what it shared, and size and capacity differ; proved for every size.
HttpOutgoing: sums of chunks pass `MaxLength`, where `size_t` would overflow, and a body takes
several calls. HttpIncoming: six pieces make two headers with divided names, and the
second message follows the first through the same object. Encodings: up to 4 free bytes from
six values (a zero, an escape, a plus, a digit, a letter, and 243, which is a power of 3) pass every branch of the decoders and
of `digits()`;
longer inputs, of one pattern, cross the boundaries of the loops at 3, 8, 12 and 16
bytes. SHA-1's blocks have 16 bytes here, of which 8 are for the length.

The runs say `CHECK_DEADLOCK FALSE`: handlers and values run out, a deleted object
does nothing any more, a destroyed loop or a terminated program neither, and a
program may simply stop.

`SYMMETRY` is used for the emitter's handlers and symbols and for the blocks and mutable
buffers of `data`, in runs without liveness properties.

### Fairness

- Handle: the object's own functions go on (`WF` of `ObjectNext`). A listener and a
  callback return after finitely many calls: `SF` of `ReturnToEmit`, for every depth
  of the stack, because a listener could otherwise postpone its return forever
  with calls whose listeners do return. libuv cancels the requests of a closing handle and
  then calls the close callback, as long as the loop runs: `SF` of `Complete` for a
  closing handle, and of `Closed`. User code need not do anything, and
  the requests of an open handle may stay pending forever.
- Stream: the same, the statements of a callback (`WF`), and completion of the
  requests (`SF`): the peer reads, or the connection breaks. The peer need not
  send anything. `FloodSubsides` needs patient writers, since others can keep the level up forever.
- AsyncChannel: a `send()` that began ends, the loop runs on. Nobody has to send.
- LoopTick: while `uv_run()` does not return it polls again and again, and callbacks
  return: `WF` of `OnAsync` and `Advance`. Nobody has to call `run()`, nor keep the loop alive:
  `TicksRun` promises nothing for a run that returns.
- Connect: `WF` of `Step`: the lookup and the connects come to an end, as the timeouts of the
  operating system see to, and `cb` returns.
- HttpServer: listeners return (`WF` of `Return`); a shutdown that is done is called back (`SF`,
  since other callbacks may come first any number of times); a peer that got its answer, which
  says `connection: close`, sends its FIN in the end (`SF`). Without that peer a connection
  stays open for good: the server has no timeout.
- UdpSocket: `WF` of `Completion`: the kernel takes what is queued, and the close callback comes.

### Findings

1. `emitter_leak`: `emit()` deletes a handler when its count equals `delete_flag`
   (`emitter.h:154`), but nothing sets the flag. A handler that is removed while
   it runs leaks, with all it captured. In Handle this is `lost`: a socket that is
   destroyed by one of its own capturing listeners is never deleted.
2. `plain_dangling`: `object.h:17-19` promises that an object is only deleted when
   it is not running a callback. `destroy()` does not retain the object; a uv
   handle survives because `uv_close()` retains it, an HTTP message does not.
3. `reset_again`: `release()` asserts that there is a use to give up (`object.h:80`). `reset()` calls it before
   it clears the pointer (`object.h:199-205`): a listener of `destroy_event` that resets the
   same pointer releases the same use again, and the assertion fails.
4. `loop_tick_stopped`: `loop.cc:63` says that the vector of `next_tick()` is empty for the next
   iteration. `stop()` leaves the walk before `clear()`: the callbacks that ran run
   again with the next tick, the others wait until somebody calls `next_tick()`.
5. `declared_encoding`: `outgoing_message.h:28-30` asks for a transfer-encoding that has `chunked` as
   its last entry; `http_write()` compares the whole value (`outgoing_message.cc:65`), so a list of
   codings is announced and the body is not chunked.

`loop.cc:18` says that the destructor's `run()` closes the async handle. After a `stop()`
outside of `run()` it returns at once, and `check()` throws out of the destructor:
`DestructorCloses` holds only for loops nobody stopped, which is its premise.

A nested `next_tick()` is lost by `clear()` when it fits in the vector and makes the walk
read a freed buffer when it does not. LoopTick has both behaviours; they contradict no
sentence of the repository, so no run reports them.

## 4. What is proved

`Handle_proofs` (for an object with a handle, any number of references, listeners and
requests, any depth of the stack): `Typing`, `CountIsExact` and `DeletedIsUnused`,
that is `TypeOK`, `RefCountExact` and `NoUseAfterFree` of every behaviour. The
inductive invariant is

    Inv == TypeOK /\ RefCountExact /\ CallsFitHandle /\ UnusedWhenDeleted

`RefCountExact` alone does not say that the object may be deleted: when the
count reaches zero, frames that own nothing (`rmAll`, `destroyTail`, `body`) could
still be on the stack. `CallsFitHandle` excludes them: they need a handle that is
not closed, and as long as it is closing the count is at least one; and once the handle is closed, a `reset()`
is the caller of the last `release()` or the top of the stack, where it clears its pointer before other
code runs. The theorems are about `Spec`, whose programs keep the rule about `reset()`; `CarelessSpec` breaks
`RefCountExact` at the first step that does not. The argument
is by lemmas about `Owning` (the frames that own a use) under a push, a pop and the
renaming of removed listeners; one lemma per action; `LastRelease` is the heart.

`Emitter_proofs`, for any handlers, symbols and nested `emit()`s: `NothingDangles`, `GuardsAreExact`,
`ListsAreWellFormed` and `RemovedStaysRemoved` of the pointers, `ListenersAreDelivered` of the history,
and `EmitterRefinesLists`, the refinement. A pointer structure is hard to
reason about pointer by pointer; the invariant

    EmitterInv == TypeOK /\ (\E L : Listing(L)) /\ RefCountExact /\ InvokedAlive

says that there is a family `L` of sequences which `head`, `tail` and `next` spell out: no
handler twice, all of them alive, no successor outside of a list. Then `on()` appends to
one of the sequences (`OnAppends`), `off()` takes an element out (`OffRemoves`, with its three
cases: first, middle, last), `removeAllListeners()` empties some (`ClearEmpties`).
`InvokedAlive` is what lets a loop read `next` when its handler returns. For `Delivery` the invariant says that what
an `emit()` owes lies behind the handler it is at, and what it invoked before or at it
(`DeliveryInv`); removals thin the sequences and additions are behind everything.
For the refinement the recursive `From[head[s]]` is shown to be `L[s]` (`ListsAreListed`), from the last element
of the list to the first.

`Stream_proofs`: `StreamImplementsHandle` (every step of a socket is a step of Handle
or a stutter), with `SocketDeletedIsUnused` as its consequence; `StreamTyping`;
`RequestsAreExact`, whose strengthening is that a stream which is still writable
is not shutting down; and `LevelIsExact`, `EofHasAnAnswer`, `EndIsTheEnd`, `FloodEndsAudibly`.
The invariant of the last four, for any sizes, marks and number of writes, is

    StreamInv == JobInv /\ LevelInv /\ EofInv /\ EndInv

`JobInv` says which statements a callback may still have to execute. `LevelInv`: between the completion of a
request and `~packed_req()` its chunk is owed (`wm = Sum(writes) + Owed`). `EofInv` names, for every
state after the peer's FIN, the frame or statement that will answer it. The watermark's
sum is a fold; it is characterised by what an append and a removal of the head do to it.

`AsyncChannel_proofs`: `Typing` and `WakeupNeverLost` for every finite set of senders, and
`DeliveredInOrder`, whose invariant is `InOrder` with the empty batch of an idle loop: the
sequence `got \o batch \o queue` changes by what `send()` appends and by nothing else.

`LoopTick_proofs`: `Typing`, `WakeupNeverLost`, `DestructorAlwaysCloses`, `NeverLost` and
`CalledOnceInOrder`, that is all safety invariants of LoopTick, for any set of callbacks.
`NeverLost` rests on `PassedInv`: of the vector that `clear()` throws away, what lies
before the cursor was called and what lies behind the captured end was added by
the walk itself. `CalledOnceInOrder` needs (`Ordered`) that a walk nobody disturbs ends exactly where
the vector ends, and moves one callback at a time from what waits to what ran.

`Network_proofs`, one theorem for everything a component of `network` must keep, and `NetworkIsSafe`,
by which they hold of the behaviours the run explores:

- `ConnectIsSafe` for any number of addresses. The invariant adds to the
  properties (`Progress`) which socket `member`, `reqOf` and `tried` name in each phase, and
  (`LastError`) that an error comes after the last address; `OneSocket` follows from the counts.
- `ServerIsSafe` for any number of connections and any depth of calls, from the premise `MessagesKept`. The invariant

      ServerInv == Types /\ Held /\ Taken /\ Frames(..) /\ Covers(..) /\ Listed(..)

  relates the calls that wait to what they will use: a parsed request is held by its connection or the user
  (`Frames`), a connection that is being closed by its own closure, exactly once; the walk of the server still has every open connection before it (`Covers`), so that
  `_clients` can be cleared after it; and a socket that ends has an answer, an error or a FIN behind it (`Taken`), so that
  an answer of the server itself does not throw. A program that ended at the null pointer (`CrashInv`) has no
  more steps. Calls are pushed and popped by five lemmas about `Frames`.
- `DatagramsAreSafe` for any number of datagrams: `References` counts the socket's references in each phase, and
  `UdpOrder` says that what is sent, followed by what is queued, ascends by `id`.
- `DatesAreSafe` for any number of threads, with a clock that runs on at any point. Nothing can be said of the
  header while a thread replaces it, or after two that did overlapped. The invariant follows one thread that updates
  alone: from the compare-and-swap to the store the date it holds is recent enough (`Good`: no
  earlier than `_last_update`, nor than the loop of a thread that lost the compare-and-swap), and then
  the header is, as long as `clean` holds.
- `PointersAreSafe` for any finite sets of owners, members and pointers. The count is a cardinality; each
  assignment moves one pointer between the sets of two owners.

`Data_proofs`, on HttpOutgoing: `OutgoingIsSafe` for any sizes and calls, assuming `~BareEnd`, with both framing headers or one. The heart is
that the framing of a concatenation is the concatenation of the framings (`Chunks`, `Plain`), so
that every call extends the wire by exactly its part. `BodyIsReadable` adds, also assuming `~BothHeaders` and that
`transfer-encoding` is no list (finding 5 shows why), what a peer makes of it: `Readable` says that the head
is true of the framed body behind it (`Fits`: chunked exactly when announced, no empty chunk, the announced sum),
and `ReadsWire` follows the peer's fold over the wire, three tokens for each chunk
(`ReceiverUnrolls`, `ReadsChunkedBody`).

On HttpIncoming: `MessageIsExact` for any pieces and messages, with the invariant

    IncomingInv == IncomingTypes /\ LinesInOrder /\ UrlInOrder
                   /\ UrlCacheFresh /\ WebsocketKeepsHeaders

`LinesInOrder` says in every phase of the parser which lines of `sent` have reached `headers`
and which one is still in `field` and `value`; `UrlInOrder` says when the URL is in `generic`, which
later keeps the method, and when in `url`. The property alone speaks of complete messages only, and is not
inductive, and it says of headers only what `whole` and `late` leave. The headers are the fold of the lines (`CombinedIs`), so that a line that is
complete is one step of it. TLC agreed with the invariant on the states of `stream` before it was proved.

On Encodings, where nothing changes but the input, the theorems say what the functions return. A fold
of the community modules is a recursion over a set; `FoldUnrolls` turns it into the sequence of
its intermediate results, which a proof can follow from each to the next.

- `DigestIsExact`, for any bytes at any address. SHA-1: `Holds(s, data)` says that whole blocks and an unfinished one
  make up what was pushed (`PushAllHolds`); the padding is the case whether the length still fits. CRC-32C: words are sets of bits, `Xor` is their
  symmetric difference, and the effect of a byte of zeros (`Shr` and the table) is linear in it. Eight such steps are the eight tables
  of `PushWords`, and the three loops together read the input once (`ChecksumHolds`).
- `TextIsExact`. Numbers: `ValueOf` and the digits are inverse by `Division`, from the last digit
  to the first, and the count of `digits()` is the least power above the number in base 10 and the powers of 2; with fewer digits the value is the
  remainder by a power (`NumberShort`). URI: the loop is followed up to the escape, over it and behind it; `Shortened` counts the escapes
  that were decoded, with what is still to be skipped. base64: both directions
  go by groups of four characters (`Written(i)` is the group of the i-th three bytes); `Bounded` says how much the decoder wrote
  after i groups of anything, also of ones that are not valid, where its counter of sextets is a byte that may wrap;
  for groups the encoder wrote, the decoder stands at the same byte after each (`WrittenBack`).

`Buffers_proofs`: `BuffersAreSafe` and `BuffersImplementValues` for any handles, blocks and bytes. The
invariant is

    BuffersInv == TypeOK /\ Len(mem[Static]) = MaxSize /\ Shape
                  /\ InBounds /\ SpareIsPrivate /\ CountExact

`SpareIsPrivate` is what makes an append in place invisible to the others, and `CountExact` what
makes freed memory unreachable. Of capacities they say only what holds of handles that are no
`misfit`. `Shape` says that only a `mutable_buffer` has a capacity,
and none to spare in a literal's memory, which is not counted. The refinement maps each operation to a change of one
value or of two (`StepOfValues`).

The theorems of Handle, HttpServer, DateBuffer, HttpOutgoing, HttpIncoming and Buffers are about programs that keep the
rules section 2 names, because the code goes wrong otherwise: as premises (`MessagesKept`, `~BareEnd`,
`~BothHeaders`), as guards of the program's actions (`Printable`, `Usable`, no `ResetAgain`), or as histories in the
properties (`clean`, `whole`, `late`).

The other assumptions are the named `ASSUME`s of the modules (types and bounds of the
constants; the clock does not run for 2^64 milliseconds, `ClockAssumption`; an object is no member and
`nullptr` no object, `ObjectsAssumption`) and, for the theorems about handles, `HasHandle`
(`Kinds = {"open"}`).

The provers cannot instantiate an induction principle. Where a proof needs to go along a
sequence (the lists of Emitter, a fold), it takes the least index that would be an exception (`NatMin`, `UpTo`, `DownFrom` in
`Emitter_proofs`, `Upward` in `Data_proofs`), which the library's theorem on well-founded sets allows.

Every invariant that a passing run checks is thereby a theorem, `RefCountExact` and its companions in `handle` for objects with a handle. Only
model-checked: all liveness (no prover here handles fairness); and the counts of
objects without a handle, which finding 2 shows to be deleted while in use.

## 5. What is not modelled

Formatting, and libuv, http_parser and getaddrinfo beyond the contracts above. Allocation
failure, also that of `on()`, which leaves an empty map entry (`emitter.h:126`).
`listener_count()` (it reads only, and does not return for a symbol that has a listener).
`pipe()` (written for an event API that does not exist any more) and `shared_from_this()`, which only
`pipe()` calls. `http::request` (unfinished), `fs/read_stream.h` (no source includes it), `timer` and
`fs::watcher` (handles with one callback, whose life is Handle's), simple queries of the operating
system, strings, views and hashed buffers (they add hashing and comparison to
Buffers), callback and type templates. The compression function of SHA-1, which test
vectors cover better. The undefined behaviour a
program can cause with rules it breaks: sending during `async_channel::destroy()`, printing a number that has no
digits, and those at the head of Buffers. What happens after a `release()` too much (`CarelessSpec`) or after the request was freed under its parser
(`MessagesKept = FALSE`) is modelled as if the memory were still there.

## 6. Plan

1. Done: Emitter with EventList and EmitterDelivery, Handle, Stream,
   AsyncChannel, LoopTick, and their proofs.
2. Done: Connect, SharedPtr, HttpServer, HttpOutgoing, HttpIncoming, DateBuffer, UdpSocket,
   Buffers with BufferValues, Encodings; proofs of Connect, HttpOutgoing and Buffers.
3. Done: proofs of Emitter with its refinement and `Delivery`, the rest of Stream, `InOrder` of
   AsyncChannel, HttpServer, UdpSocket, DateBuffer, SharedPtr, and `BodyReadable` of HttpOutgoing.
4. Done: proofs of HttpIncoming and Encodings.
5. Done: the window inside `reset()`, listeners of the body and the switches `MessagesKept` and `BothHeaders`,
   the two steps of a message's end, dates of overlapping updates, capacities that do not fit, every base.
6. Not done: a run of its own for each rule a program has to keep; models of allocation failure in `on()`, and of a server whose connections are instances of Stream.
