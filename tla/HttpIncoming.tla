---------------------------- MODULE HttpIncoming ----------------------------
(***************************************************************************)
(* http::incoming_message and http::url (http/incoming_message.h, .cc):    *)
(* the callbacks of http_parser collect the messages of one connection     *)
(* piece by piece.  A piece is what one callback got: a name or a value    *)
(* that lies in two TCP segments arrives in two pieces, and the value of a *)
(* header without one arrives as an empty piece.                           *)
(*                                                                         *)
(* phase is the state of http_parser (external): which callback came last. *)
(* The sent... variables are what the peer sent in the present message.    *)
(***************************************************************************)
EXTENDS Naturals, Sequences, SequencesExt

CONSTANTS
    Pieces,      \* pieces of URLs and of header names
    Values,      \* pieces of header values, "" is the empty one
    Lowered,     \* the pieces of names with lower case letters instead
    MaxPieces,   \* bound: pieces of URLs and headers on the connection
    MaxMessages  \* bound: messages on the connection

VARIABLES
    phase,       \* start, url, field, value, body (headers are complete), the
                 \* field and the value of a trailer, ending (the listeners of
                 \* end_event run), or dead
    generic,     \* _generic_value: pieces of the URL, later the method
    field,       \* _partial_header_field
    value,       \* _partial_header_value
    headers,     \* _headers: name -> the values appended for it
    upgrade,     \* _parser.upgrade
    isWebsocket, \* _is_websocket: unknown, yes or no
    url,         \* url._url
    urlState,    \* url._state: uninitialized, url_parsed, params_parsed, error
    parsed,      \* the URL url._parser describes
    params,      \* the URL url._params was filled from, <<>> when it is empty
    messages,    \* history: messages begun on the connection
    pieces,      \* history: pieces that came on the connection
    sentUrl,     \* history
    sent,        \* history: [name, value] of each header, as pieces
    whole,       \* history: no value was split or empty, and no trailer came
    taken,       \* history: a message ended as a websocket request
    late         \* history: a listener of end_event found out that it is one

lines == <<generic, field, value, headers>>
urlVars == <<url, urlState, parsed, params>>
history == <<messages, pieces, sentUrl, sent, whole, taken, late>>
incomingVars == <<phase, lines, upgrade, isWebsocket, urlVars, history>>

IncomingInit ==
    /\ phase = "start"
    /\ generic = <<>> /\ field = <<>> /\ value = <<>> /\ headers = <<>>
    /\ upgrade = FALSE
    /\ isWebsocket = "unknown"
    /\ url = <<>> /\ urlState = "uninitialized" /\ parsed = <<>> /\ params = <<>>
    /\ messages = 0 /\ pieces = 0 /\ sentUrl = <<>> /\ sent = <<>>
    /\ whole = TRUE /\ taken = FALSE /\ late = FALSE

-----------------------------------------------------------------------------
(* The callbacks of http_parser *)

LowerCase(name) == [i \in DOMAIN name |-> Lowered[name[i]]]

\* What emplace(), or append(", ") and append() make of a name and a value
AddTo(h, name, v) ==
    [n \in {name} \union DOMAIN h |->
        IF n # name THEN h[n]
        ELSE (IF name \in DOMAIN h THEN h[name] ELSE <<>>) \o <<v>>]

\* Mutant: a field alone is a header
LineCompleteEarly == field # <<>>

\* _add_header_partials(): called by every header callback before it appends
LineComplete == field # <<>> /\ value # <<>>

AddHeaderPartials(f, v) ==
    IF LineComplete
    THEN /\ headers' = AddTo(headers, LowerCase(field), value)
         /\ field' = f
         /\ value' = v
    ELSE /\ headers' = headers
         /\ field' = field \o f
         /\ value' = value \o v

NonEmpty(v) == IF v = "" THEN <<>> ELSE <<v>>

OnUrl(p) ==
    /\ phase \in {"start", "url"}
    /\ phase = "start" => messages < MaxMessages
    /\ messages' = IF phase = "start" THEN messages + 1 ELSE messages
    /\ pieces' = pieces + 1
    /\ phase' = "url"
    /\ generic' = Append(generic, p)
    /\ sentUrl' = Append(sentUrl, p)
    /\ UNCHANGED <<field, value, headers, upgrade, isWebsocket, urlVars, sent,
                   whole, taken, late>>

\* A field after the body is one of a chunked message's trailer.
OnHeaderField(p) ==
    /\ phase \notin {"start", "ending", "dead"}
    /\ phase' = IF phase \in {"url", "field", "value"} THEN "field"
                ELSE "trailerField"
    /\ AddHeaderPartials(<<p>>, <<>>)
    /\ sent' = IF phase = phase'
               THEN [sent EXCEPT ![Len(sent)].name = Append(@, p)]
               ELSE Append(sent, [name |-> <<p>>, value |-> <<>>])
    /\ whole' = (whole /\ phase' = "field")
    /\ pieces' = pieces + 1
    /\ UNCHANGED <<generic, upgrade, isWebsocket, urlVars, messages, sentUrl,
                   taken, late>>

OnHeaderValue(v) ==
    /\ \/ phase \in {"field", "trailerField"}
       \/ /\ phase \in {"value", "trailerValue"}
          /\ Last(sent).value # <<>>
          /\ v # ""
    /\ phase' = IF phase \in {"field", "value"} THEN "value" ELSE "trailerValue"
    /\ AddHeaderPartials(<<>>, NonEmpty(v))
    /\ sent' = [sent EXCEPT ![Len(sent)].value = @ \o NonEmpty(v)]
    /\ whole' = (whole /\ phase = "field" /\ v # "")
    /\ pieces' = pieces + 1
    /\ UNCHANGED <<generic, upgrade, isWebsocket, urlVars, messages, sentUrl,
                   taken, late>>

SetUrl(u) ==
    /\ url' = u
    /\ params' = <<>>
    /\ urlState' = "uninitialized"
    /\ UNCHANGED parsed

\* Up to the call of headers_complete_callback; the listener calls the
\* operations of the message below.
OnHeadersComplete(up) ==
    /\ phase \in {"url", "value"}
    /\ phase' = "body"
    /\ AddHeaderPartials(<<>>, <<>>)
    /\ upgrade' = up
    /\ SetUrl(generic)
    /\ generic' = <<"method">>
    /\ UNCHANGED <<isWebsocket, history>>

\* Up to the call of emit(end_event), whose listeners call the operations below;
\* a websocket request gets no end_event and keeps what it holds.
OnMessageComplete ==
    /\ phase \in {"body", "trailerValue"}
    /\ IF isWebsocket # "yes"
       THEN phase' = "ending" /\ UNCHANGED <<sentUrl, sent, taken>>
       ELSE phase' = "start" /\ sentUrl' = <<>> /\ sent' = <<>> /\ taken' = TRUE
    /\ UNCHANGED <<lines, upgrade, isWebsocket, urlVars, messages, pieces, whole,
                   late>>

\* After the listeners, whatever they found out: the message is cleared.
MessageEnded ==
    /\ phase = "ending"
    /\ phase' = "start"
    /\ generic' = <<>> /\ headers' = <<>> /\ SetUrl(<<>>)
    /\ sentUrl' = <<>> /\ sent' = <<>>
    /\ UNCHANGED <<field, value, upgrade, isWebsocket, messages, pieces, whole, taken,
                   late>>

\* The parser does not accept what the peer sent and will take nothing more.
OnError ==
    /\ phase \notin {"ending", "dead"}
    /\ phase' = "dead"
    /\ UNCHANGED <<lines, upgrade, isWebsocket, urlVars, history>>

-----------------------------------------------------------------------------
(* The operations of the program, at any time *)

\* "upgrade" stands for the three headers of a websocket request.
IsWebsocketRequest ==
    /\ isWebsocket = "unknown"
    /\ isWebsocket' = IF upgrade /\ <<"upgrade">> \in DOMAIN headers
                      THEN "yes" ELSE "no"
    /\ late' = (isWebsocket' = "yes" /\ phase = "ending")
    /\ UNCHANGED <<phase, lines, upgrade, urlVars, messages, pieces, sentUrl, sent,
                   whole, taken>>

\* _parse_url(); http_parser_parse_url() may refuse what http_parser took.
ParseUrl(s) ==
    /\ urlState = "uninitialized"
    /\ url # <<>>
    /\ parsed' = url
    /\ urlState' = s

\* schema(), host(), ..., port_num()
Get ==
    /\ \E s \in {"url_parsed", "error"} : ParseUrl(s)
    /\ UNCHANGED <<phase, lines, upgrade, isWebsocket, url, params, history>>

\* has_param(), param(), params()
Params ==
    /\ \/ urlState = "url_parsed" /\ UNCHANGED parsed /\ urlState' = "params_parsed"
       \/ \E s \in {"params_parsed", "error"} : ParseUrl(s)
    /\ params' = IF urlState' = "params_parsed" THEN parsed' ELSE params
    /\ UNCHANGED <<phase, lines, upgrade, isWebsocket, url, history>>

\* The same without a URL: there is nothing to parse, but _parser is read.
ParamsOfNothing ==
    /\ urlState = "uninitialized"
    /\ url = <<>>
    /\ urlState' = "params_parsed"
    /\ UNCHANGED <<phase, lines, upgrade, isWebsocket, url, parsed, params, history>>

IncomingNext ==
    \/ pieces < MaxPieces /\ \E p \in Pieces : OnUrl(p) \/ OnHeaderField(p)
    \/ pieces < MaxPieces /\ \E v \in Values : OnHeaderValue(v)
    \/ \E up \in BOOLEAN : OnHeadersComplete(up)
    \/ OnMessageComplete
    \/ MessageEnded
    \/ OnError
    \/ IsWebsocketRequest
    \/ Get
    \/ Params
    \/ ParamsOfNothing

IncomingSpec == IncomingInit /\ [][IncomingNext]_incomingVars

-----------------------------------------------------------------------------
IncomingTypeOK ==
    /\ phase \in {"start", "url", "field", "value", "body", "trailerField",
                  "trailerValue", "ending", "dead"}
    /\ generic \in Seq(Pieces \union {"method"})
    /\ field \in Seq(Pieces)
    /\ value \in Seq(Values \ {""})
    /\ \A name \in DOMAIN headers : headers[name] \in Seq(Seq(Values \ {""}))
    /\ upgrade \in BOOLEAN
    /\ isWebsocket \in {"unknown", "yes", "no"}
    /\ urlState \in {"uninitialized", "url_parsed", "params_parsed", "error"}

Combined == FoldLeft(LAMBDA h, s : AddTo(h, LowerCase(s.name), s.value), <<>>, sent)

\* When the headers are complete, headers() is what the peer sent in this
\* message, up to the last listener of end_event: every header under its name in
\* lower case, the values of equal names in their order, nothing of the message
\* before, however names and URL were split; as long as no value was split or
\* empty, on this connection: what is left of such a value goes to the next name.
HeadersExact ==
    phase \in {"body", "ending"} /\ whole /\ ~taken => headers = Combined

\* url() and method() are those of this message, however the URL was split.
UrlExact ==
    phase \in {"body", "ending"} /\ ~taken =>
        url = sentUrl /\ generic = <<"method">>

\* What the accessors of url answer is computed from the URL it holds now,
\* though the parts are parsed late and the object is used for every message.
UrlCacheFresh ==
    /\ urlState \in {"url_parsed", "error"} => parsed = url
    /\ urlState = "params_parsed" => params = url
    /\ params # <<>> => params = url

\* A websocket request keeps the headers the answer was derived from, also when
\* the connection goes on; but if a listener of end_event is the first to ask,
\* they are cleared behind it.
WebsocketKeepsHeaders ==
    isWebsocket = "yes" /\ ~late => <<"upgrade">> \in DOMAIN headers

\* A header that was complete is not changed or lost before the end of the
\* message: later lines only add values behind its own.
HeadersOnlyGrow ==
    [][messages' = messages /\ phase' # "start" =>
           \A name \in DOMAIN headers :
               /\ name \in DOMAIN headers'
               /\ IsPrefix(headers[name], headers'[name])]_incomingVars

\* The message the program reads is the one the peer sent, for any order of the
\* accessors and any division of URL and names into pieces; of the values only
\* those that came whole and not empty (incoming_message.cc:13-366).
MessageExact ==
    /\ [](/\ IncomingTypeOK /\ HeadersExact /\ UrlExact
         /\ UrlCacheFresh /\ WebsocketKeepsHeaders)
    /\ HeadersOnlyGrow

=============================================================================
