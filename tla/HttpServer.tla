----------------------------- MODULE HttpServer -----------------------------
(***************************************************************************)
(* http::server (http/server.h, .cc): every connection has a socket, a     *)
(* request and a response that hold each other through the closures of     *)
(* destroy_event and headers_complete_callback, and an entry in _clients   *)
(* that the closure erases.  Listeners run inside http_parser, inside      *)
(* destroy() and inside the server's walk over _clients, and may answer,   *)
(* destroy or drop any connection there.                                   *)
(*                                                                         *)
(* The parser is a part of the request, and nothing but the program keeps  *)
(* the request from a listener that runs inside the parser and destroys    *)
(* the connection.  Whether the program follows this rule is the constant  *)
(* MessagesKept; the code does not enforce it.                             *)
(*                                                                         *)
(* stack holds the calls that are waiting for a listener, the last one on  *)
(* top; with an empty stack the event loop runs.  The life of the socket   *)
(* object itself is modelled in Handle, its streams in Stream.             *)
(***************************************************************************)
EXTENDS Naturals, Sequences, FiniteSets, SequencesExt

CONSTANTS
    Conns,
    MessagesKept  \* rule: a listener inside http_parser that destroys its own
                  \* connection, or the server, has kept req and res, and the
                  \* program does not drop them before the parser returns

VARIABLES
    destroyed,   \* the server: no, walking (*_is_destroyed is set) or yes
    clients,     \* _clients, the newest first
    sock,        \* the socket: none, open, ending (end() was called), ended
                 \* (shutdown callback) or closed (destroyed)
    eof,         \* the peer's FIN was read
    dead,        \* http_parser failed and takes nothing more
    holders,     \* who holds the request and the response: the closures
                 \* destroyEvent and headersComplete, and the user
    resWritable, \* writable_base::_is_writable of the response
    answered,    \* history: the response is on the wire
    stack        \* the calls that are running

connVars == <<sock, eof, dead, holders, resWritable, answered>>
vars == <<destroyed, clients, connVars, stack>>

Init ==
    /\ destroyed = "no"
    /\ clients = <<>>
    /\ sock = [c \in Conns |-> "none"]
    /\ eof = [c \in Conns |-> FALSE]
    /\ dead = [c \in Conns |-> FALSE]
    /\ holders = [c \in Conns |-> {}]
    /\ resWritable = [c \in Conns |-> FALSE]
    /\ answered = [c \in Conns |-> FALSE]
    /\ stack = <<>>

Idle == stack = <<>>
Top == Last(stack)
Pop == Front(stack)
Connected(c) == sock[c] \in {"open", "ending", "ended"}

\* Listeners of request_event, and of data_event and end_event of the request,
\* run inside http_parser_execute().
Parsers == {"request", "body"}
InParser(c) == \E i \in DOMAIN stack : stack[i].in \in Parsers /\ stack[i].c = c

\* A null pointer was dereferenced: the program is gone.
Crashed == IF Idle THEN FALSE ELSE Top.in = "crashed"

\* http_parser takes input for the connection.
Parses(c) == Connected(c) /\ ~eof[c] /\ ~dead[c]

\* Whoever kept the messages reaches them, and the listener of request_event
\* does through its parameters: they are those of the closure of
\* headers_complete_callback.
Reaches(c) ==
    \/ "user" \in holders[c]
    \/ /\ "headersComplete" \in holders[c]
       /\ \E i \in DOMAIN stack : stack[i].in = "request" /\ stack[i].c = c

-----------------------------------------------------------------------------
(* destroy() of a socket up to the listeners of the user *)

\* _clients.erase(it): the closure has the place of its own connection.
Erased(c) == RemoveAt(clients, CHOOSE i \in DOMAIN clients : clients[i] = c)

\* Mutant: the closure of destroy_event is deleted before the listeners ran.
CloseAtOnce(c, frames) ==
    /\ sock' = [sock EXCEPT ![c] = "closed"]
    /\ holders' = [holders EXCEPT ![c] = @ \ {"headersComplete", "destroyEvent"}]
    /\ clients' = IF destroyed = "no" THEN Erased(c) ELSE clients
    /\ stack' = Append(frames, [in |-> "closing", c |-> c])
    /\ UNCHANGED <<destroyed, eof, dead, resWritable, answered>>

Close(c, frames) ==
    /\ sock' = [sock EXCEPT ![c] = "closed"]
    /\ holders' = [holders EXCEPT ![c] = @ \ {"headersComplete"}]
    /\ clients' = IF destroyed = "no" THEN Erased(c) ELSE clients
    /\ stack' = Append(frames, [in |-> "closing", c |-> c])
    /\ UNCHANGED <<destroyed, eof, dead, resWritable, answered>>

\* removeAllListeners() deletes the closure of destroy_event.
Closed ==
    /\ Top.in = "closing"
    /\ holders' = [holders EXCEPT ![Top.c] = @ \ {"destroyEvent"}]
    /\ stack' = Pop
    /\ UNCHANGED <<destroyed, clients, sock, eof, dead, resWritable, answered>>

\* socket->end()
Ended(c) == [sock EXCEPT ![c] = IF @ = "open" THEN "ending" ELSE @]

\* res->end(): it is ignored after the first one, goes nowhere when the
\* socket is destroyed, and throws when the socket does not take it.
End(c) ==
    /\ resWritable[c] => sock[c] \in {"open", "closed"}
    /\ resWritable' = [resWritable EXCEPT ![c] = FALSE]
    /\ IF resWritable[c] /\ sock[c] = "open"
       THEN answered' = [answered EXCEPT ![c] = TRUE] /\ sock' = Ended(c)
       ELSE UNCHANGED <<answered, sock>>

-----------------------------------------------------------------------------
(* Callbacks of libuv *)

Accept(c) ==
    /\ Idle
    /\ destroyed = "no"
    /\ sock[c] = "none"
    /\ sock' = [sock EXCEPT ![c] = "open"]
    /\ clients' = <<c>> \o clients
    /\ holders' = [holders EXCEPT ![c] = {"destroyEvent", "headersComplete"}]
    /\ resWritable' = [resWritable EXCEPT ![c] = TRUE]
    /\ UNCHANGED <<destroyed, eof, dead, answered, stack>>

\* The head of a request is complete: without a host, without a listener, or
\* with an upgrade, the server answers itself.  An upgrade also makes
\* data_event end the socket.
Reject(c) ==
    /\ Idle
    /\ Parses(c)
    /\ End(c)
    /\ UNCHANGED <<destroyed, clients, eof, dead, holders, stack>>

Request(c) ==
    /\ Idle
    /\ Parses(c)
    /\ stack' = Append(stack, [in |-> "request", c |-> c])
    /\ UNCHANGED <<destroyed, clients, connVars>>

\* A piece of the body, or the end of the message
Body(c) ==
    /\ Idle
    /\ Parses(c)
    /\ stack' = Append(stack, [in |-> "body", c |-> c])
    /\ UNCHANGED <<destroyed, clients, connVars>>

\* The listener has returned and the rest of the data is parsed, which touches
\* the request.  If http_parser refuses it data_event calls _socket->end():
\* _socket is null when the listener destroyed the connection.
Requested(refused) ==
    /\ Top.in \in Parsers
    /\ IF refused /\ sock[Top.c] = "closed"
       THEN /\ stack' = Append(Pop, [Top EXCEPT !.in = "crashed"])
            /\ UNCHANGED <<dead, sock>>
       ELSE /\ dead' = [dead EXCEPT ![Top.c] = @ \/ refused]
            /\ sock' = IF refused THEN Ended(Top.c) ELSE sock
            /\ stack' = Pop
    /\ UNCHANGED <<destroyed, clients, eof, holders, resWritable, answered>>

\* Input that does not complete a head and is refused
ParseError(c) ==
    /\ Idle
    /\ Parses(c)
    /\ dead' = [dead EXCEPT ![c] = TRUE]
    /\ sock' = Ended(c)
    /\ UNCHANGED <<destroyed, clients, eof, holders, resWritable, answered, stack>>

Eof(c) ==
    /\ Idle
    /\ Connected(c)
    /\ ~eof[c]
    /\ eof' = [eof EXCEPT ![c] = TRUE]
    /\ IF sock[c] = "ended"
       THEN /\ sock' = [sock EXCEPT ![c] = "closed"]
            /\ holders' = [holders EXCEPT ![c] = @ \ {"headersComplete"}]
            /\ clients' = Erased(c)
            /\ stack' = <<[in |-> "closing", c |-> c]>>
       ELSE sock' = Ended(c) /\ UNCHANGED <<holders, clients, stack>>
    /\ UNCHANGED <<destroyed, dead, resWritable, answered>>

\* Mutant: the shutdown callback does not destroy the socket.
ShutdownDoneOnly(c) ==
    /\ Idle
    /\ sock[c] = "ending"
    /\ sock' = [sock EXCEPT ![c] = "ended"]
    /\ UNCHANGED <<destroyed, clients, eof, dead, holders, resWritable, answered,
                   stack>>

ShutdownDone(c) ==
    /\ Idle
    /\ sock[c] = "ending"
    /\ IF eof[c] THEN Close(c, stack)
       ELSE /\ sock' = [sock EXCEPT ![c] = "ended"]
            /\ UNCHANGED <<destroyed, clients, eof, dead, holders, resWritable,
                           answered, stack>>

ReadError(c) == Idle /\ Connected(c) /\ Close(c, stack)

-----------------------------------------------------------------------------
(* The program, from the event loop or in a listener *)

MayCall == IF Idle THEN TRUE ELSE Top.in \notin {"walk", "crashed"}

Keep(c) ==
    /\ ~Idle /\ Top.in = "request" /\ Top.c = c
    /\ "headersComplete" \in holders[c]
    /\ holders' = [holders EXCEPT ![c] = @ \union {"user"}]
    /\ UNCHANGED <<destroyed, clients, sock, eof, dead, resWritable, answered,
                   stack>>

\* The rule for a listener that destroys the connection whose data is parsed
Careful(c) == MessagesKept /\ InParser(c) => "user" \in holders[c]

Drop(c) ==
    /\ MayCall
    /\ "user" \in holders[c]
    /\ ~(MessagesKept /\ InParser(c))
    /\ holders' = [holders EXCEPT ![c] = @ \ {"user"}]
    /\ UNCHANGED <<destroyed, clients, sock, eof, dead, resWritable, answered,
                   stack>>

Answer(c) ==
    /\ MayCall
    /\ Reaches(c)
    /\ End(c)
    /\ UNCHANGED <<destroyed, clients, eof, dead, holders, stack>>

\* destroy() of the socket, the request or the response
Destroy(c) ==
    /\ MayCall
    /\ Reaches(c)
    /\ Connected(c)
    /\ Careful(c)
    /\ Close(c, stack)

\* server::_destroy(): the closures must not erase from the list it walks over.
DestroyServer ==
    /\ MayCall
    /\ destroyed = "no"
    /\ \A c \in Conns : Careful(c)
    /\ destroyed' = "walking"
    /\ stack' = Append(stack, [in |-> "walk", left |-> clients])
    /\ UNCHANGED <<clients, connVars>>

Walk ==
    /\ Top.in = "walk"
    /\ Top.left # <<>>
    /\ LET c == Head(Top.left)
           frames == Append(Pop, [Top EXCEPT !.left = Tail(@)])
       IN  IF Connected(c) THEN Close(c, frames)
           ELSE stack' = frames /\ UNCHANGED <<destroyed, clients, connVars>>

\* _clients.clear() and tcp::server::_destroy()
Walked ==
    /\ Top.in = "walk"
    /\ Top.left = <<>>
    /\ destroyed' = "yes"
    /\ clients' = <<>>
    /\ stack' = Pop
    /\ UNCHANGED connVars

Return == ~Idle /\ (Closed \/ Walk \/ Walked \/ \E r \in BOOLEAN : Requested(r))

Next ==
    \/ \E c \in Conns :
          \/ Accept(c) \/ Reject(c) \/ Request(c) \/ Body(c) \/ ParseError(c)
          \/ Eof(c) \/ ShutdownDone(c) \/ ReadError(c)
          \/ Keep(c) \/ Drop(c) \/ Answer(c) \/ Destroy(c)
    \/ DestroyServer
    \/ Return

Spec == Init /\ [][Next]_vars

\* Listeners return, the loop does not prefer other callbacks for ever to a
\* completed shutdown, and a peer that was told "connection: close" sends its
\* FIN after finitely many requests.
Fairness ==
    /\ WF_vars(Return)
    /\ \A c \in Conns : SF_vars(ShutdownDone(c)) /\ SF_vars(answered[c] /\ Eof(c))

FairSpec == Spec /\ Fairness

-----------------------------------------------------------------------------
TypeOK ==
    /\ destroyed \in {"no", "walking", "yes"}
    /\ clients \in Seq(Conns)
    /\ sock \in [Conns -> {"none", "open", "ending", "ended", "closed"}]
    /\ eof \in [Conns -> BOOLEAN]
    /\ dead \in [Conns -> BOOLEAN]
    /\ holders \in [Conns -> SUBSET {"destroyEvent", "headersComplete", "user"}]
    /\ resWritable \in [Conns -> BOOLEAN]
    /\ answered \in [Conns -> BOOLEAN]
    /\ \A i \in DOMAIN stack : stack[i].in \in Parsers \cup {"crashed"} => i = 1
    /\ destroyed = "walking" <=> \E i \in DOMAIN stack : stack[i].in = "walk"

\* _clients has every connection once and no other, whoever destroyed them and
\* in which order; a destroyed server has left none open.
ClientsExact ==
    /\ IsInjective(clients)
    /\ destroyed = "no" => ToSet(clients) = {c \in Conns : Connected(c)}
    /\ destroyed = "yes" => clients = <<>> /\ ~\E c \in Conns : Connected(c)

\* "... to comfortably ensure that an object will only get deleted if it's
\* currently not running an asynchronous callback" (object.h:17-19): http_parser
\* runs inside the request, which is there until the parser returns, and so it is
\* while the listeners of the socket's destroy_event run.  Nothing but the rule
\* for the program sees to it.
NoUseAfterFree == \A i \in DOMAIN stack :
    stack[i].in \in Parsers \cup {"closing"} => holders[stack[i].c] # {}

\* A request and its response, which refer to their socket and to each other,
\* are not kept by anything but the user once the socket is destroyed.
NoLeak == \A c \in Conns :
    sock[c] = "closed" /\ [in |-> "closing", c |-> c] \notin ToSet(stack)
        => holders[c] \subseteq {"user"}

\* The answers the server gives itself cannot throw through http_parser and
\* libuv: as long as requests are parsed the socket takes the response.
NoThrowInParser == \A c \in Conns :
    Parses(c) /\ resWritable[c] => sock[c] = "open"

\* While the server walks over _clients nothing erases from it.
WalkUndisturbed ==
    [][destroyed = "walking" /\ destroyed' = "walking" => clients' = clients]_vars

\* Connections, messages and the walk of the server survive a destroy() from any
\* listener (server.cc:100-197) of a program that keeps what is being parsed.
ServerSafe ==
    /\ [](TypeOK /\ ClientsExact /\ NoUseAfterFree /\ NoLeak /\ NoThrowInParser)
    /\ WalkUndisturbed

\* An answered connection is closed, and the messages are the user's only, unless
\* the program ends before.
AnsweredIsClosed == \A c \in Conns :
    answered[c] ~> (sock[c] = "closed" /\ holders[c] \subseteq {"user"}) \/ Crashed

=============================================================================
