------------------------------ MODULE Connect ------------------------------
(***************************************************************************)
(* tcp::socket::connect(loop, address, port, cb) with connect_pack         *)
(* (tcp/socket.cc) and dns::lookup() (dns/lookup.h, .cc): look the name    *)
(* up, try its addresses one after the other, each with a socket of its    *)
(* own but all with one request structure, and call cb once.               *)
(*                                                                         *)
(* A socket is named by the number of its address; count is its            *)
(* _use_count.  Handle models what release() to zero does: it closes the   *)
(* handle, which is all that is kept of it here.                           *)
(***************************************************************************)
EXTENDS Naturals

CONSTANTS N  \* the addresses the name has

ASSUME NAssumption == N \in Nat \ {0}

VARIABLES
    at,       \* none, lookup, trying, pending (uv_tcp_connect is under way),
              \* calling (cb runs) or deleted (no pack is left)
    current,  \* current_ai, as the number of the address
    reqOf,    \* the socket whose connect uses req, 0 without one
    member,   \* the socket the member socket holds, 0 for none
    count,    \* _use_count of each socket; 0: it is closed
    kept,     \* the socket cb has taken a reference to, 0 for none
    result,   \* history: what cb was called with
    called,   \* history: how often cb was called
    tried     \* history: the addresses that were tried

vars == <<at, current, reqOf, member, count, kept, result, called, tried>>

Sockets == 1..N

\* release() of socket s; nothing without a socket
Release(s) == [t \in Sockets |-> IF t = s THEN count[t] - 1 ELSE count[t]]

Init ==
    /\ at = "none"
    /\ current = 0
    /\ reqOf = 0
    /\ member = 0
    /\ count = [s \in Sockets |-> 0]
    /\ kept = 0
    /\ result = "none"
    /\ called = 0
    /\ tried = 0

-----------------------------------------------------------------------------
(* The program *)

\* getaddrinfo() is under way; if it cannot be started both packs are freed
\* while the exception passes, and cb is not called.
Call(started) ==
    /\ at = "none"
    /\ at' = IF started THEN "lookup" ELSE "deleted"
    /\ UNCHANGED <<current, reqOf, member, count, kept, result, called, tried>>

\* cb copies the shared_ptr it is given.
Take ==
    /\ at = "calling"
    /\ result = "connected"
    /\ kept = 0
    /\ kept' = member
    /\ count' = [count EXCEPT ![member] = @ + 1]
    /\ UNCHANGED <<at, current, reqOf, member, result, called, tried>>

Drop ==
    /\ kept # 0
    /\ kept' = 0
    /\ count' = Release(kept)
    /\ UNCHANGED <<at, current, reqOf, member, result, called, tried>>

-----------------------------------------------------------------------------
(* Callbacks of libuv *)

CallCb(r) ==
    /\ at' = "calling"
    /\ result' = r
    /\ called' = called + 1

LookupFails ==
    /\ at = "lookup"
    /\ CallCb("error")
    /\ UNCHANGED <<current, reqOf, member, count, kept, tried>>

LookupDone ==
    /\ at = "lookup"
    /\ at' = "trying"
    /\ current' = 1
    /\ UNCHANGED <<reqOf, member, count, kept, result, called, tried>>

\* connect() up to uv_tcp_connect(): the member is reset, a socket is made for
\* the address and retained for the request.
Connect ==
    /\ at = "trying"
    /\ member' = current
    /\ count' = [Release(member) EXCEPT ![current] = 2]
    /\ tried' = current
    /\ reqOf' = current
    /\ at' = "pending"
    /\ UNCHANGED <<current, kept, result, called>>

\* Mutants: the failed socket is not released; cb does not hear of the last error.
ConnectFailsWith(counts, cb) ==
    /\ at = "pending"
    /\ reqOf' = 0
    /\ count' = counts
    /\ current' = IF current < N THEN current + 1 ELSE 0
    /\ IF current < N THEN at' = "trying" /\ UNCHANGED <<result, called>> ELSE cb
    /\ UNCHANGED <<member, kept, tried>>

ConnectFailsRetained == ConnectFailsWith(count, CallCb("error"))
ConnectFailsSilently ==
    ConnectFailsWith(Release(member), at' = "deleted" /\ UNCHANGED <<result, called>>)

\* The connection fails, from uv_tcp_connect() itself or in its callback.
\* Both go on with the next address; without one cb gets the last error.
ConnectFails ==
    /\ at = "pending"
    /\ reqOf' = 0
    /\ count' = Release(member)
    /\ current' = IF current < N THEN current + 1 ELSE 0
    /\ IF current < N THEN at' = "trying" /\ UNCHANGED <<result, called>>
       ELSE CallCb("error")
    /\ UNCHANGED <<member, kept, tried>>

Connected ==
    /\ at = "pending"
    /\ reqOf' = 0
    /\ count' = Release(member)
    /\ CallCb("connected")
    /\ UNCHANGED <<current, member, kept, tried>>

\* delete self, or the unique_ptr of the lookup's callback
Returned ==
    /\ at = "calling"
    /\ at' = "deleted"
    /\ member' = 0
    /\ count' = Release(member)
    /\ UNCHANGED <<current, reqOf, kept, result, called, tried>>

Step ==
    \/ LookupFails \/ LookupDone
    \/ Connect \/ ConnectFails \/ Connected
    \/ Returned

Next == Step \/ Take \/ Drop \/ \E started \in BOOLEAN : Call(started)

Spec == Init /\ [][Next]_vars

\* getaddrinfo() and connect() come to an end, and cb returns.
Fairness == WF_vars(Step)

FairSpec == Spec /\ Fairness

-----------------------------------------------------------------------------
TypeOK ==
    /\ at \in {"none", "lookup", "trying", "pending", "calling", "deleted"}
    /\ current \in 0..N
    /\ reqOf \in 0..N
    /\ member \in 0..N
    /\ count \in [Sockets -> Nat]
    /\ kept \in 0..N
    /\ result \in {"none", "error", "connected"}
    /\ called \in Nat
    /\ tried \in 0..N

\* cb is called at most once, with a socket only if that socket connected, and
\* not before every address was tried if it gets an error.
CalledOnce ==
    /\ called <= 1
    /\ called = 1 <=> result # "none"
    /\ at = "deleted" /\ tried > 0 => called = 1

\* A socket is referenced exactly by the member, the request and the program:
\* it is open no longer than it is used, the one that connected reaches cb
\* open, and those that failed are closed before the next one is made.
CountExact == \A s \in Sockets :
    count[s] = (IF member = s THEN 1 ELSE 0) + (IF reqOf = s THEN 1 ELSE 0)
               + (IF kept = s THEN 1 ELSE 0)

\* One socket at a time: the ones that failed are closed.
OneSocket == \A s, t \in Sockets : count[s] > 0 /\ count[t] > 0 => s = t

\* The request structure is free when the next connect uses it, and the pack it
\* lies in is deleted after everything that was started has come back.
RequestFree == at # "pending" => reqOf = 0

\* The addresses are tried in the order of the lookup, none twice and none
\* skipped, and the result is an error only after the last.
InOrder ==
    [][ /\ tried' # tried => tried' = tried + 1 /\ result = "none"
        /\ result' = "error" /\ tried > 0 => tried' = N ]_vars

\* Whatever fails and in whichever callback, cb is called once, every socket is
\* released in time and the addresses are taken in turn (socket.cc:14-110).
ConnectSafe ==
    /\ [](TypeOK /\ CalledOnce /\ CountExact /\ OneSocket /\ RequestFree)
    /\ InOrder

\* Whoever called connect() and got no exception hears of it.
Answered == at = "lookup" ~> called = 1 /\ at = "deleted"

=============================================================================
