---------------------------- MODULE HttpOutgoing ----------------------------
(***************************************************************************)
(* http::outgoing_message (http/outgoing_message.h, .cc): one HTTP message *)
(* that the program writes piece by piece.  http_write() decides with the  *)
(* first piece how the body is framed and then writes, from different      *)
(* calls, a head, chunk sizes, chunks and the terminating chunk into the   *)
(* socket.                                                                 *)
(*                                                                         *)
(* wire is what reached the socket, as a sequence of tokens; a chunk is    *)
(* its size.  Receiver reads the tokens the way a peer does.               *)
(***************************************************************************)
EXTENDS Naturals, Sequences, SequencesExt

CONSTANTS
    MaxLength,    \* numeric_limits<size_t>::max()
    Sizes,      \* the sizes of the chunks that are written
    Encodings,  \* the values the program gives "transfer-encoding": "chunked",
                \* or "list" for a list of codings that ends in it
    BareEnd,    \* whether the program may call end() without a chunk when
                \* the encoding is chunked and the head was not written
    BothHeaders, \* whether the program may declare a content-length and a
                \* transfer-encoding: a peer ignores the length then, while
                \* http_write() only chunks a body that has none
    MaxBufs,    \* bound: chunks per call
    MaxBody     \* bound: chunks per message

ASSUME LengthsAssumption == Sizes \subseteq Nat

VARIABLES
    contentLength, \* _headers["content-length"]: none, or set by the user
    encoding,      \* _headers["transfer-encoding"]: none or a value
    headersSent,   \* _headers_sent
    isChunked,     \* _is_chunked, which the constructor does not set
    writable,      \* writable_base::_is_writable
    socket,        \* the socket: open, ended (not writable) or gone
    wire,          \* what was written to the socket
    body           \* history: the chunks the program wrote, in order

outgoingVars == <<contentLength, encoding, headersSent, isChunked, writable, socket,
          wire, body>>

Token == [t : {"head"}, length : {"none", "user", "sum"}, sum : Nat,
          encoding : {"none"} \union Encodings \union {"chunked"}]
         \union [t : {"size", "data"}, n : Nat]
         \union [t : {"crlf", "last"}]

OutgoingInit ==
    /\ contentLength = "none"
    /\ encoding = "none"
    /\ headersSent = FALSE
    /\ isChunked \in BOOLEAN
    /\ writable = TRUE
    /\ socket = "open"
    /\ wire = <<>>
    /\ body = <<>>

-----------------------------------------------------------------------------
(* http_write() *)

Total(bufs) == FoldLeft(LAMBDA a, b : a + b, 0, bufs)

\* The sum of the sizes is printed when it does not overflow.
AutoLength(bufs, end) ==
    /\ contentLength = "none"
    /\ encoding = "none"
    /\ end
    /\ Total(bufs) <= MaxLength

\* The framing of the message, chosen by the call that writes the head.
Chunked(bufs, end) ==
    IF headersSent THEN isChunked
    ELSE /\ contentLength = "none"
         /\ \/ encoding = "chunked"
            \/ /\ encoding = "none"
               /\ ~AutoLength(bufs, end)

Headers(bufs, end) ==
    [t |-> "head",
     length |-> IF AutoLength(bufs, end) THEN "sum" ELSE contentLength,
     sum |-> IF AutoLength(bufs, end) THEN Total(bufs) ELSE 0,
     encoding |-> IF encoding = "none" /\ Chunked(bufs, end)
                  THEN "chunked" ELSE encoding]

\* Mutant: every size is that of the first chunk
ChunksFirstSize(bufs) ==
    [k \in 1..3 * Len(bufs) |->
        IF k % 3 = 1 THEN [t |-> "size", n |-> bufs[1]]
        ELSE IF k % 3 = 2 THEN [t |-> "data", n |-> bufs[(k + 2) \div 3]]
        ELSE [t |-> "crlf"]]

\* ([header] + hex + \r\n) + data + (\r\n + hex + \r\n) + ... + \r\n
Chunks(bufs) ==
    [k \in 1..3 * Len(bufs) |->
        LET n == bufs[(k + 2) \div 3]
        IN  IF k % 3 = 1 THEN [t |-> "size", n |-> n]
            ELSE IF k % 3 = 2 THEN [t |-> "data", n |-> n]
            ELSE [t |-> "crlf"]]

Plain(bufs) == [i \in DOMAIN bufs |-> [t |-> "data", n |-> bufs[i]]]

\* Mutant: a call that writes chunks does not write the terminating chunk
CompiledUnterminated(bufs, end) ==
    LET head == IF headersSent THEN <<>> ELSE <<Headers(bufs, end)>>
    IN  CASE ~Chunked(bufs, end) -> head \o Plain(bufs)
          [] Chunked(bufs, end) /\ bufs # <<>> -> head \o Chunks(bufs)
          [] Chunked(bufs, end) /\ bufs = <<>> ->
                 IF end THEN <<[t |-> "last"]>> ELSE <<>>

\* What one call hands to the socket.  The head goes into the buffer of the
\* first chunk size, so that without a chunk it goes nowhere.
Compiled(bufs, end) ==
    LET head == IF headersSent THEN <<>> ELSE <<Headers(bufs, end)>>
        last == IF end THEN <<[t |-> "last"]>> ELSE <<>>
    IN  CASE ~Chunked(bufs, end) -> head \o Plain(bufs)
          [] Chunked(bufs, end) /\ bufs # <<>> ->
                 head \o Chunks(bufs) \o last
          [] Chunked(bufs, end) /\ bufs = <<>> -> last

\* There is something to write: compiledBufcnt is not zero.
Writes(bufs, end) ==
    \/ bufs # <<>>
    \/ end
    \/ ~headersSent /\ ~Chunked(bufs, end)

\* append_number() cannot print a chunk size of zero (see Encodings).
Printable(bufs, end) ==
    Chunked(bufs, end) => \A i \in DOMAIN bufs : bufs[i] > 0

\* http_write() up to the call of socket->write()
Compile(bufs, end) ==
    /\ isChunked' = Chunked(bufs, end)
    /\ IF Writes(bufs, end) /\ ~headersSent
       THEN /\ headersSent' = TRUE
            /\ contentLength' = "none"
            /\ encoding' = "none"
       ELSE /\ encoding' = IF headersSent THEN encoding
                           ELSE Headers(bufs, end).encoding
            /\ UNCHANGED <<headersSent, contentLength>>

\* _end() after http_write(): the headers are cleared, the message is over.
Finish ==
    /\ headersSent' = FALSE
    /\ contentLength' = "none"
    /\ encoding' = "none"
    /\ writable' = FALSE

-----------------------------------------------------------------------------
(* What the program does *)

\* set_header() does not replace a header that is there.
SetContentLength ==
    /\ BothHeaders \/ encoding = "none"
    /\ contentLength' = IF contentLength = "none" THEN "user" ELSE contentLength
    /\ UNCHANGED <<encoding, headersSent, isChunked, writable, socket, wire, body>>

SetEncoding(e) ==
    /\ BothHeaders \/ contentLength = "none"
    /\ encoding' = IF encoding = "none" THEN e ELSE encoding
    /\ UNCHANGED <<contentLength, headersSent, isChunked, writable, socket, wire,
                   body>>

\* write(); send_headers() is write() without a chunk
Write(bufs) ==
    /\ writable
    /\ socket = "open"
    /\ Printable(bufs, FALSE)
    /\ Compile(bufs, FALSE)
    /\ wire' = IF Writes(bufs, FALSE) THEN wire \o Compiled(bufs, FALSE) ELSE wire
    /\ body' = body \o bufs
    /\ UNCHANGED <<writable, socket>>

End(bufs) ==
    /\ writable
    /\ socket = "open"
    /\ Printable(bufs, TRUE)
    /\ BareEnd \/ bufs # <<>> \/ headersSent \/ ~Chunked(bufs, TRUE)
    /\ isChunked' = Chunked(bufs, TRUE)
    /\ wire' = wire \o Compiled(bufs, TRUE)
    /\ body' = body \o bufs
    /\ Finish
    /\ UNCHANGED socket

\* The socket throws "write after end" through http_write(): the framing is
\* decided and the headers are gone, but nothing was written, and end() does
\* not get to close the message.
Throw(bufs, end) ==
    /\ writable
    /\ socket = "ended"
    /\ Printable(bufs, end)
    /\ Writes(bufs, end)
    /\ Compile(bufs, end)
    /\ UNCHANGED <<writable, socket, wire, body>>

\* Without a socket http_write() returns at once.
WriteNowhere(bufs) ==
    /\ writable
    /\ socket = "gone"
    /\ body' = body \o bufs
    /\ UNCHANGED <<contentLength, encoding, headersSent, isChunked, writable,
                   socket, wire>>

EndNowhere(bufs) ==
    /\ writable
    /\ socket = "gone"
    /\ body' = body \o bufs
    /\ contentLength' = "none"
    /\ encoding' = "none"
    /\ writable' = FALSE
    /\ UNCHANGED <<headersSent, isChunked, socket, wire>>

\* The peer shut its side down, so that the socket ended itself.
SocketEnds ==
    /\ socket = "open"
    /\ socket' = "ended"
    /\ UNCHANGED <<contentLength, encoding, headersSent, isChunked, writable, wire,
                   body>>

\* _destroy(): _socket is reset
Destroy ==
    /\ socket # "gone"
    /\ socket' = "gone"
    /\ UNCHANGED <<contentLength, encoding, headersSent, isChunked, writable, wire,
                   body>>

Call(bufs) ==
    \/ Write(bufs)
    \/ End(bufs)
    \/ \E end \in BOOLEAN : Throw(bufs, end)
    \/ WriteNowhere(bufs)
    \/ EndNowhere(bufs)

OutgoingNext ==
    \/ SetContentLength
    \/ \E e \in Encodings : SetEncoding(e)
    \/ \E bufs \in BoundedSeq(Sizes, MaxBufs) :
          Len(body) + Len(bufs) <= MaxBody /\ Call(bufs)
    \/ SocketEnds
    \/ Destroy

OutgoingSpec == OutgoingInit /\ [][OutgoingNext]_outgoingVars

-----------------------------------------------------------------------------
(***************************************************************************)
(* The peer.  It reads the head and then data by the rules the head sets,  *)
(* where a transfer-encoding takes precedence over a content-length:       *)
(* phase is head (nothing came), plain (data until the length or the end   *)
(* of the connection), size, data, crlf (inside chunks), done, or bad when *)
(* a token is not what the rules allow.                                    *)
(***************************************************************************)
Expect(r, token) ==
    CASE r.phase = "head" /\ token.t = "head" ->
             [r EXCEPT !.length = token.length, !.sum = token.sum,
                       !.phase = IF token.encoding # "none" THEN "size" ELSE "plain"]
      [] r.phase = "plain" /\ token.t = "data" ->
             [r EXCEPT !.body = Append(@, token.n)]
      [] r.phase = "size" /\ token.t = "size" /\ token.n > 0 ->
             [r EXCEPT !.phase = "data", !.size = token.n]
      [] r.phase = "data" /\ token.t = "data" /\ token.n = r.size ->
             [r EXCEPT !.phase = "crlf", !.body = Append(@, token.n)]
      [] r.phase = "crlf" /\ token.t = "crlf" -> [r EXCEPT !.phase = "size"]
      [] r.phase = "size" /\ token.t = "last" -> [r EXCEPT !.phase = "done"]
      [] OTHER -> [r EXCEPT !.phase = "bad"]

Receiver ==
    FoldLeft(Expect, [phase |-> "head", length |-> "none", sum |-> 0, size |-> 0,
                       body |-> <<>>],
             wire)

OutgoingTypeOK ==
    /\ contentLength \in {"none", "user"}
    /\ encoding \in {"none", "chunked"} \union Encodings
    /\ headersSent \in BOOLEAN
    /\ isChunked \in BOOLEAN
    /\ writable \in BOOLEAN
    /\ socket \in {"open", "ended", "gone"}
    /\ wire \in Seq(Token)
    /\ body \in Seq(Nat)

\* As long as the socket takes what is written, the peer can parse it and finds
\* exactly the chunks the program wrote, in their order, whatever mixture of
\* write(), send_headers() and end() produced them; and a chunked message is
\* over for the peer when it is over for the program.  (For messages with at
\* most one of the two headers, see BothHeaders, although set_header() accepts
\* "a transfer-encoding [...] or a content-length entry", outgoing_message.h:28.)
BodyArrives ==
    socket = "open" =>
        /\ Receiver.phase # "bad"
        /\ Receiver.body = body
        /\ isChunked => (Receiver.phase = "done" <=> ~writable)

\* The length http_write() computes is the length of what follows.
LengthIsTrue ==
    Receiver.length = "sum" => Receiver.sum = Total(Receiver.body)

\* The body as one call of end() would write it
Framed ==
    IF isChunked
    THEN Chunks(body) \o IF writable THEN <<>> ELSE <<[t |-> "last"]>>
    ELSE Plain(body)

\* However the body is divided among write() and end(), what follows the head is
\* what one call with all of it would write: no token of the framing is lost,
\* written twice or left to the wrong call.
WireExact ==
    socket = "open" =>
        IF wire = <<>> THEN body = <<>> /\ writable
        ELSE wire = <<wire[1]>> \o Framed

\* The head is written once, and before anything else.
HeadFirst == \A i \in DOMAIN wire : wire[i].t = "head" <=> i = 1

\* headers_sent() tells whether the head is on the wire as long as the message
\* is being written to a socket that takes it.
HeadersSentExact == socket = "open" /\ writable => (headersSent <=> wire # <<>>)

\* The encoding a list of codings declares is the one the body has: set_header()
\* accepts a "transfer-encoding" that has "chunked" as its last entry.
DeclaredEncoding ==
    \A i \in DOMAIN wire :
        wire[i].t = "head" /\ wire[i].length = "none" /\ wire[i].encoding # "none"
            => isChunked

\* Once the head is written the framing stays until the message is over, even
\* when the headers are changed or a write throws.
FramingFixed == [][headersSent /\ headersSent' => isChunked' = isChunked]_outgoingVars

\* The message on the wire is well framed after any sequence of calls
\* (outgoing_message.cc:31-218).
OutgoingSafe ==
    /\ [](WireExact /\ HeadFirst /\ HeadersSentExact)
    /\ FramingFixed

\* The peer of the socket can use it: it reads the body that was written, of the
\* length the head announced (outgoing_message.cc:49-198).
BodyReadable == OutgoingTypeOK /\ BodyArrives /\ LengthIsTrue

=============================================================================
