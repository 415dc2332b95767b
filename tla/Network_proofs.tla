--------------------------- MODULE Network_proofs ---------------------------
(***************************************************************************)
(* Theorems about the components that exchange messages, each for all      *)
(* values of its own constants: Connect for names with any number of       *)
(* addresses, HttpServer for any number of connections and calls that wait *)
(* for each other, UdpSocket for any number of datagrams, DateBuffer for   *)
(* any number of loops, SharedPtr for any number of pointers and objects.  *)
(***************************************************************************)
EXTENDS MCNetwork, SequenceTheorems, FiniteSetTheorems, TLAPS

-----------------------------------------------------------------------------
(* A connect to a name *)

\* What the phases have in common with the attempts: which of them was made
\* last, who refers to its socket and whether cb was called.
Unanswered == kept = 0 /\ called = 0 /\ result = "none"

Progress ==
    /\ at \in {"none", "lookup"} => tried = 0 /\ member = 0 /\ Unanswered
    /\ at = "trying" =>
          current \in Sockets /\ tried = current - 1 /\ member = tried /\ Unanswered
    /\ at = "pending" =>
          /\ current \in Sockets
          /\ tried = current /\ member = current /\ reqOf = current
          /\ Unanswered
    /\ at = "calling" =>
          /\ member = tried /\ kept \in {0, member}
          /\ called = 1
          /\ result = "connected" => member # 0
    /\ at = "deleted" => member = 0

LastError == result = "error" /\ tried > 0 => tried = N

ConnectInv ==
    TypeOK /\ Progress /\ CalledOnce /\ CountExact /\ RequestFree /\ LastError

-----------------------------------------------------------------------------

LEMMA InitConnect == Init => ConnectInv
<1> SUFFICES ASSUME Init PROVE ConnectInv
  OBVIOUS
<1>1. TypeOK
  BY NAssumption DEF Init, TypeOK, Sockets
<1>2. Progress /\ CalledOnce /\ RequestFree /\ LastError
  BY DEF Init, Progress, Unanswered, CalledOnce, RequestFree, LastError
<1>3. CountExact
  BY DEF Init, CountExact, Sockets
<1> QED
  BY <1>1, <1>2, <1>3 DEF ConnectInv

LEMMA ReleaseCounts ==
    ASSUME NEW s \in 0 .. N, count \in [Sockets -> Nat], s # 0 => count[s] > 0
    PROVE  /\ Release(s) \in [Sockets -> Nat]
           /\ \A t \in Sockets : Release(s)[t] = count[t] - IF t = s THEN 1 ELSE 0
  BY NAssumption DEF Release, Sockets

LEMMA CallKeeps ==
    ASSUME ConnectInv, NEW started \in BOOLEAN, Call(started) PROVE ConnectInv'
<1> USE NAssumption DEF ConnectInv
<1>1. TypeOK' /\ Progress' /\ RequestFree' /\ CalledOnce' /\ LastError'
  BY DEF Call, TypeOK, Progress, Unanswered, RequestFree, CalledOnce, LastError,
         Sockets
<1>2. CountExact'
  BY DEF Call, CountExact
<1> QED
  BY <1>1, <1>2

LEMMA TakeKeeps == ASSUME ConnectInv, Take PROVE ConnectInv'
<1> USE NAssumption DEF ConnectInv
<1>1. member \in Sockets
  BY DEF Take, Progress, TypeOK, Sockets
<1>2. count' \in [Sockets -> Nat]
  BY <1>1 DEF Take, TypeOK
<1>3. TypeOK'
  BY <1>1, <1>2 DEF Take, TypeOK, Sockets
<1>4. Progress' /\ RequestFree' /\ CalledOnce' /\ LastError'
  BY DEF Take, TypeOK, Progress, Unanswered, RequestFree, CalledOnce, LastError,
         Sockets
<1>5. CountExact'
  BY <1>1 DEF Take, CountExact, TypeOK, Sockets
<1> QED
  BY <1>3, <1>4, <1>5

LEMMA DropKeeps == ASSUME ConnectInv, Drop PROVE ConnectInv'
<1> USE NAssumption DEF ConnectInv
<1>1. count[kept] > 0
  BY DEF Drop, CountExact, TypeOK, Sockets
<1>2. /\ count' \in [Sockets -> Nat]
      /\ \A t \in Sockets : count'[t] = count[t] - IF t = kept THEN 1 ELSE 0
  BY <1>1, ReleaseCounts DEF Drop, TypeOK
<1>3. TypeOK'
  BY <1>2 DEF Drop, TypeOK, Sockets
<1>4. Progress' /\ RequestFree' /\ CalledOnce' /\ LastError'
  BY DEF Drop, TypeOK, Progress, Unanswered, RequestFree, CalledOnce, LastError,
         Sockets
<1>5. CountExact'
  BY SMTT(60), <1>2 DEF Drop, CountExact, TypeOK, Sockets
<1> QED
  BY <1>3, <1>4, <1>5

LEMMA LookupFailsKeeps == ASSUME ConnectInv, LookupFails PROVE ConnectInv'
<1> USE NAssumption DEF ConnectInv
<1>1. TypeOK' /\ Progress' /\ RequestFree' /\ CalledOnce' /\ LastError'
  BY DEF LookupFails, CallCb, TypeOK, Progress, Unanswered, RequestFree, CalledOnce,
         LastError, Sockets
<1>2. CountExact'
  BY DEF LookupFails, CountExact
<1> QED
  BY <1>1, <1>2

LEMMA LookupDoneKeeps == ASSUME ConnectInv, LookupDone PROVE ConnectInv'
<1> USE NAssumption DEF ConnectInv
<1>1. TypeOK' /\ Progress' /\ RequestFree' /\ CalledOnce' /\ LastError'
  BY DEF LookupDone, TypeOK, Progress, Unanswered, RequestFree, CalledOnce,
         LastError, Sockets
<1>2. CountExact'
  BY DEF LookupDone, CountExact
<1> QED
  BY <1>1, <1>2

LEMMA ConnectKeeps == ASSUME ConnectInv, Connect PROVE ConnectInv'
<1> USE NAssumption DEF ConnectInv
<1>1. current \in Sockets /\ member = current - 1 /\ reqOf = 0 /\ kept = 0
  BY DEF Connect, Progress, Unanswered, RequestFree
<1>2. member \in 0 .. N /\ (member # 0 => count[member] > 0)
  BY <1>1 DEF CountExact, TypeOK, Sockets
<1>3. /\ Release(member) \in [Sockets -> Nat]
      /\ \A t \in Sockets :
            Release(member)[t] = count[t] - IF t = member THEN 1 ELSE 0
  BY <1>2, ReleaseCounts DEF TypeOK
<1>4. \A t \in Sockets : Release(member)[t] = 0
  BY SMTT(60), <1>1, <1>3 DEF CountExact, Sockets
<1>5. /\ count' \in [Sockets -> Nat]
      /\ \A t \in Sockets : count'[t] = IF t = current THEN 2 ELSE 0
  BY <1>1, <1>3, <1>4 DEF Connect
<1>6. TypeOK'
  BY <1>1, <1>5 DEF Connect, TypeOK, Sockets
<1>7. Progress' /\ RequestFree' /\ CalledOnce' /\ LastError'
  BY <1>1 DEF Connect, TypeOK, Progress, Unanswered, RequestFree, CalledOnce,
              LastError, Sockets
<1>8. CountExact'
  BY <1>1, <1>5 DEF Connect, CountExact, Sockets
<1> QED
  BY <1>6, <1>7, <1>8

\* What a connect that comes to an end does to the references
LEMMA RequestReturns ==
    ASSUME ConnectInv, at = "pending",
           reqOf' = 0, count' = Release(member), UNCHANGED <<member, kept>>
    PROVE  count' \in [Sockets -> Nat] /\ CountExact'
<1> USE NAssumption DEF ConnectInv
<1>1. member \in Sockets /\ member = reqOf /\ kept = 0
  BY DEF Progress, Unanswered
<1>2. count[member] > 0
  BY <1>1 DEF CountExact, Sockets
<1>3. /\ count' \in [Sockets -> Nat]
      /\ \A t \in Sockets : count'[t] = count[t] - IF t = member THEN 1 ELSE 0
  BY <1>1, <1>2, ReleaseCounts DEF TypeOK
<1> QED
  BY SMTT(60), <1>1, <1>3 DEF CountExact, Sockets

LEMMA ConnectFailsKeeps == ASSUME ConnectInv, ConnectFails PROVE ConnectInv'
<1> USE NAssumption DEF ConnectInv
<1>1. count' \in [Sockets -> Nat] /\ CountExact'
  BY RequestReturns DEF ConnectFails
<1>2. CASE current < N
  BY <1>1, <1>2 DEF ConnectFails, TypeOK, Progress, Unanswered, RequestFree,
                    CalledOnce, LastError, Sockets
<1>3. CASE ~(current < N)
  BY <1>1, <1>3 DEF ConnectFails, CallCb, TypeOK, Progress, Unanswered,
                    RequestFree, CalledOnce, LastError, Sockets
<1> QED
  BY <1>2, <1>3

LEMMA ConnectedKeeps == ASSUME ConnectInv, Connected PROVE ConnectInv'
<1> USE NAssumption DEF ConnectInv
<1>1. count' \in [Sockets -> Nat] /\ CountExact'
  BY RequestReturns DEF Connected
<1>2. TypeOK' /\ Progress' /\ RequestFree' /\ CalledOnce' /\ LastError'
  BY <1>1 DEF Connected, CallCb, TypeOK, Progress, Unanswered, RequestFree,
              CalledOnce, LastError, Sockets
<1> QED
  BY <1>1, <1>2

LEMMA ReturnedKeeps == ASSUME ConnectInv, Returned PROVE ConnectInv'
<1> USE NAssumption DEF ConnectInv
<1>1. member # 0 => count[member] > 0
  BY DEF CountExact, TypeOK, Sockets
<1>2. /\ count' \in [Sockets -> Nat]
      /\ \A t \in Sockets : count'[t] = count[t] - IF t = member THEN 1 ELSE 0
  BY <1>1, ReleaseCounts DEF Returned, TypeOK
<1>3. TypeOK' /\ Progress' /\ RequestFree' /\ CalledOnce' /\ LastError'
  BY <1>2 DEF Returned, TypeOK, Progress, Unanswered, RequestFree, CalledOnce,
              LastError, Sockets
<1>4. CountExact'
  BY SMTT(60), <1>2 DEF Returned, CountExact, TypeOK, Sockets
<1> QED
  BY <1>3, <1>4

LEMMA NextConnect == ConnectInv /\ [Next]_vars => ConnectInv'
<1> SUFFICES ASSUME ConnectInv, [Next]_vars PROVE ConnectInv'
  OBVIOUS
<1>1. CASE \E started \in BOOLEAN : Call(started)
  BY <1>1, CallKeeps
<1>2. CASE Take
  BY <1>2, TakeKeeps
<1>3. CASE Drop
  BY <1>3, DropKeeps
<1>4. CASE LookupFails
  BY <1>4, LookupFailsKeeps
<1>5. CASE LookupDone
  BY <1>5, LookupDoneKeeps
<1>6. CASE Connect
  BY <1>6, ConnectKeeps
<1>7. CASE ConnectFails
  BY <1>7, ConnectFailsKeeps
<1>8. CASE Connected
  BY <1>8, ConnectedKeeps
<1>9. CASE Returned
  BY <1>9, ReturnedKeeps
<1>10. CASE UNCHANGED vars
  BY <1>10 DEF vars, ConnectInv, TypeOK, Progress, Unanswered, CalledOnce,
               CountExact, RequestFree, LastError
<1> QED
  BY <1>1, <1>2, <1>3, <1>4, <1>5, <1>6, <1>7, <1>8, <1>9, <1>10 DEF Next, Step

LEMMA InvConnect == Spec => []ConnectInv
  BY InitConnect, NextConnect, PTL DEF Spec

-----------------------------------------------------------------------------

\* The variables have their types: in particular the count of a socket does not
\* go below zero, and the list of addresses is not read behind its end.
THEOREM ConnectTypeOK == Spec => []TypeOK
<1>1. ConnectInv => TypeOK
  BY DEF ConnectInv
<1> QED
  BY InvConnect, <1>1, PTL

\* cb is called at most once, however many addresses fail.
THEOREM ConnectCalledOnce == Spec => []CalledOnce
<1>1. ConnectInv => CalledOnce
  BY DEF ConnectInv
<1> QED
  BY InvConnect, <1>1, PTL

\* The socket of every attempt is referenced exactly by the pack, the request and
\* the program: none leaks, and none is closed under the request.
THEOREM ConnectCountExact == Spec => []CountExact
<1>1. ConnectInv => CountExact
  BY DEF ConnectInv
<1> QED
  BY InvConnect, <1>1, PTL

\* The request structure, which all attempts share, is never in use twice.
THEOREM ConnectRequestFree == Spec => []RequestFree
<1>1. ConnectInv => RequestFree
  BY DEF ConnectInv
<1> QED
  BY InvConnect, <1>1, PTL

\* At most one socket is open: the one of a failed attempt is closed before the
\* next one is made.
THEOREM ConnectOneSocket == Spec => []OneSocket
<1>1. ASSUME ConnectInv PROVE OneSocket
  <2> SUFFICES ASSUME NEW s \in Sockets, NEW t \in Sockets,
                      count[s] > 0, count[t] > 0
               PROVE  s = t
    BY DEF OneSocket
  <2>1. /\ s \in {member, reqOf, kept} \ {0}
        /\ t \in {member, reqOf, kept} \ {0}
    BY <1>1 DEF ConnectInv, CountExact, Sockets
  <2>2. \/ member = 0 /\ reqOf = 0
        \/ reqOf \in {0, member} /\ kept \in {0, member}
    BY <1>1 DEF ConnectInv, Progress, Unanswered, RequestFree, TypeOK
  <2> QED
    BY <2>1, <2>2
<1> QED
  BY InvConnect, <1>1, PTL

\* The addresses are tried in their order, none twice and none skipped, and only
\* after the last of them is the result an error.
THEOREM ConnectInOrder == Spec => InOrder
<1>1. ASSUME ConnectInv, ConnectInv', [Next]_vars
      PROVE  [ /\ tried' # tried => tried' = tried + 1 /\ result = "none"
               /\ result' = "error" /\ tried > 0 => tried' = N ]_vars
  <2>1. ASSUME tried' # tried PROVE Connect
    BY <1>1, <2>1 DEF Next, Step, vars, Call, Take, Drop, LookupFails, LookupDone,
                      ConnectFails, Connected, Returned
  <2>2. tried' # tried => tried' = tried + 1 /\ result = "none"
    <3>1. ASSUME Connect PROVE tried' = tried + 1 /\ result = "none"
      BY <1>1, <3>1, NAssumption
      DEF Connect, ConnectInv, Progress, Unanswered, Sockets
    <3> QED
      BY <2>1, <3>1
  <2>3. tried' = tried \/ (result' = "none" /\ tried' = tried + 1)
    BY <1>1, <2>1, <2>2 DEF Connect
  <2>4. result' = "error" /\ tried > 0 => tried' = N
    BY <1>1, <2>3 DEF ConnectInv, LastError
  <2> QED
    BY <2>2, <2>4
<1> QED
  BY InvConnect, <1>1, PTL DEF Spec, InOrder

\* Everything the run requires of a DNS connect but its end, for any number of
\* addresses.
THEOREM ConnectIsSafe == Spec => ConnectSafe
  BY ConnectTypeOK, ConnectCalledOnce, ConnectCountExact, ConnectOneSocket,
     ConnectRequestFree, ConnectInOrder, PTL DEF ConnectSafe

-----------------------------------------------------------------------------
(* The HTTP server *)

Frame == [in : {"request", "body", "closing"}, c : Conns] \cup [in : {"walk"}, left : Seq(Conns)]

Open(s, c) == s[c] \in {"open", "ending", "ended"}

\* What the stack, whose frames f has at 1 .. n, says of the connections: only the
\* event loop parses, the server walks once, and a connection is closed once; the
\* messages of a request that is parsed are held by the connection or the user, and
\* those of a connection that is being closed by its closure.
Frames(n, f, d, s, h) ==
  /\ \A i \in 1 .. n : f[i] \in Frame
  /\ \A i \in 1 .. n : f[i].in \in {"request", "body"} =>
        /\ i = 1
        /\ "user" \in h[f[i].c] \/ (Open(s, f[i].c) /\ d = "no")
  /\ \A i, j \in 1 .. n : f[i].in = "walk" /\ f[j].in = "walk" => i = j
  /\ d = "walking" <=> \E i \in 1 .. n : f[i].in = "walk"
  /\ \A i \in 1 .. n : f[i].in = "closing" =>
        /\ s[f[i].c] = "closed" /\ "destroyEvent" \in h[f[i].c]
        /\ \A j \in 1 .. n : f[j].in = "closing" /\ f[j].c = f[i].c => j = i
  /\ \A c \in Conns : s[c] = "closed" /\ "destroyEvent" \in h[c] =>
        \E i \in 1 .. n : f[i].in = "closing" /\ f[i].c = c

\* The walk has all connections before it that are open, but perhaps x.
Covers(n, f, s, x) ==
  \A i \in 1 .. n : f[i].in = "walk" =>
     \A c \in Conns \ x : Open(s, c) => \E k \in DOMAIN f[i].left : f[i].left[k] = c

\* Who holds the messages of a connection
Held ==
  \A c \in Conns :
     /\ Open(sock, c) => {"destroyEvent", "headersComplete"} \subseteq holders[c]
     /\ sock[c] = "closed" => holders[c] \subseteq {"destroyEvent", "user"}

\* _clients as the list of the open connections
Listed(cs, d, s) ==
  /\ cs \in Seq(Conns)
  /\ Server!IsInjective(cs)
  /\ d = "no" => \A c \in Conns :
        Open(s, c) <=> \E i \in DOMAIN cs : cs[i] = c
  /\ d = "yes" => cs = <<>> /\ \A c \in Conns : ~Open(s, c)

Types ==
  /\ destroyed \in {"no", "walking", "yes"}
  /\ sock \in [Conns -> {"none", "open", "ending", "ended", "closed"}]
  /\ eof \in [Conns -> BOOLEAN]
  /\ dead \in [Conns -> BOOLEAN]
  /\ holders \in [Conns -> SUBSET {"destroyEvent", "headersComplete", "user"}]
  /\ resWritable \in [Conns -> BOOLEAN]
  /\ answered \in [Conns -> BOOLEAN]
  /\ stack \in Seq(Frame)

\* As long as requests are parsed the socket takes the response.
Taken ==
  \A c \in Conns :
     sock[c] \in {"ending", "ended"} => eof[c] \/ dead[c] \/ ~resWritable[c]

ServerInv ==
  /\ Types /\ Held /\ Taken
  /\ Frames(Len(stack), stack, destroyed, sock, holders)
  /\ Covers(Len(stack), stack, sock, {})
  /\ Listed(clients, destroyed, sock)

-----------------------------------------------------------------------------
\* t is s without x.
Without(t, s, x) ==
  \A e : (\E i \in DOMAIN t : t[i] = e) <=> e # x /\ \E i \in DOMAIN s : s[i] = e

\* The connection that is removed was in the list once.
LEMMA RemovedOnce ==
  ASSUME NEW S, NEW s \in Seq(S), NEW k \in 1 .. Len(s),
         Server!IsInjective(s)
  PROVE  /\ Server!RemoveAt(s, k) \in Seq(S) /\ Server!IsInjective(Server!RemoveAt(s, k))
         /\ Without(Server!RemoveAt(s, k), s, s[k])
<1> DEFINE a == SubSeq(s, 1, k - 1)
           b == SubSeq(s, k + 1, Len(s))
           t == a \o b
           n == Len(s)
<1>0. DOMAIN s = 1 .. n /\ n \in Nat /\ k \in Nat /\ k >= 1 /\ k <= n
      /\ \A i \in 1 .. n : s[i] \in S
  BY LenProperties, ElementOfSeq
<1>1. /\ a \in Seq(S) /\ Len(a) = k - 1 /\ \A i \in 1 .. k - 1 : a[i] = s[i]
  <2>1. \A i \in 1 .. k - 1 : s[i] \in S
    BY <1>0
  <2>2. /\ a \in Seq(S)
        /\ Len(a) = IF 1 <= k - 1 THEN k - 1 - 1 + 1 ELSE 0
        /\ \A i \in 1 .. k - 1 - 1 + 1 : a[i] = s[1 + i - 1]
    BY <1>0, <2>1, SubSeqProperties
  <2> HIDE DEF a
  <2> QED
    BY <1>0, <2>2
<1>2. /\ b \in Seq(S) /\ Len(b) = n - k /\ \A i \in 1 .. n - k : b[i] = s[k + i]
  <2>1. \A i \in k + 1 .. n : s[i] \in S
    BY <1>0
  <2>2. /\ b \in Seq(S)
        /\ Len(b) = IF k + 1 <= n THEN n - (k + 1) + 1 ELSE 0
        /\ \A i \in 1 .. n - (k + 1) + 1 : b[i] = s[k + 1 + i - 1]
    BY <1>0, <2>1, SubSeqProperties
  <2> HIDE DEF b, n
  <2>3. Len(b) = n - k /\ n - (k + 1) + 1 = n - k
    BY <1>0, <2>2
  <2>4. \A i \in 1 .. n - k : k + 1 + i - 1 = k + i
    BY <1>0
  <2> QED
    BY <2>2, <2>3, <2>4
<1> HIDE DEF a, b
<1>3. /\ t \in Seq(S) /\ Len(t) = n - 1
      /\ \A i \in 1 .. n - 1 : t[i] = IF i < k THEN s[i] ELSE s[i + 1]
  <2>1. /\ t \in Seq(S) /\ Len(t) = Len(a) + Len(b)
        /\ \A i \in 1 .. Len(a) + Len(b) : t[i] = IF i <= Len(a) THEN a[i] ELSE b[i - Len(a)]
    BY <1>1, <1>2, ConcatProperties
  <2>2. Len(a) + Len(b) = n - 1
    BY <1>0, <1>1, <1>2
  <2> HIDE DEF t, n
  <2>3. ASSUME NEW i \in 1 .. n - 1 PROVE t[i] = IF i < k THEN s[i] ELSE s[i + 1]
    <3>1. CASE i < k
      <4>1. i <= Len(a) /\ i \in 1 .. k - 1 /\ i \in 1 .. Len(a) + Len(b)
        BY <1>0, <1>1, <2>2, <3>1
      <4> QED
        BY <1>1, <2>1, <3>1, <4>1
    <3>2. CASE ~(i < k)
      <4>1. /\ ~(i <= Len(a)) /\ i - Len(a) \in 1 .. n - k /\ i \in 1 .. Len(a) + Len(b)
            /\ k + (i - Len(a)) = i + 1
        BY <1>0, <1>1, <2>2, <3>2
      <4> QED
        BY <1>2, <2>1, <3>2, <4>1
    <3> QED
      BY <3>1, <3>2
  <2> QED
    BY <2>1, <2>2, <2>3
<1>4. DOMAIN t = 1 .. n - 1
  BY <1>0, <1>3, LenProperties
<1>5. Server!RemoveAt(s, k) = t
  BY DEF Server!RemoveAt, a, b
<1> HIDE DEF t, n
<1>6. Server!IsInjective(t)
  <2> SUFFICES ASSUME NEW i \in 1 .. n - 1, NEW j \in 1 .. n - 1, t[i] = t[j] PROVE i = j
    BY <1>4 DEF Server!IsInjective
  <2> DEFINE old(x) == IF x < k THEN x ELSE x + 1
  <2>1. /\ old(i) \in 1 .. n /\ old(j) \in 1 .. n /\ (old(i) = old(j) => i = j)
    BY <1>0
  <2>2. t[i] = s[old(i)] /\ t[j] = s[old(j)]
    BY <1>3
  <2> QED
    BY <1>0, <2>1, <2>2 DEF Server!IsInjective
<1>7. ASSUME NEW e
      PROVE  (\E i \in DOMAIN t : t[i] = e) <=> e # s[k] /\ \E i \in DOMAIN s : s[i] = e
  <2>1. ASSUME NEW i \in DOMAIN t, t[i] = e
        PROVE  e # s[k] /\ \E j \in DOMAIN s : s[j] = e
    <3>1. \E j \in 1 .. n : j # k /\ t[i] = s[j]
      <4>1. CASE i < k
        <5>1. i \in 1 .. n /\ i # k /\ t[i] = s[i]
          BY <1>0, <1>3, <1>4, <4>1
        <5> QED
          BY <5>1
      <4>2. CASE ~(i < k)
        <5>1. i + 1 \in 1 .. n /\ i + 1 # k /\ t[i] = s[i + 1]
          BY <1>0, <1>3, <1>4, <4>2
        <5> QED
          BY <5>1
      <4> QED
        BY <4>1, <4>2
    <3> QED
      BY <1>0, <2>1, <3>1 DEF Server!IsInjective
  <2>2. ASSUME e # s[k], NEW j \in DOMAIN s, s[j] = e
        PROVE  \E i \in DOMAIN t : t[i] = e
    <3>1. CASE j < k
      <4>1. j \in 1 .. n - 1
        BY <1>0, <3>1
      <4> QED
        BY <1>3, <1>4, <2>2, <3>1, <4>1
    <3>2. CASE j > k
      <4>1. j - 1 \in 1 .. n - 1 /\ ~(j - 1 < k) /\ (j - 1) + 1 = j
        BY <1>0, <3>2
      <4> QED
        BY <1>3, <1>4, <2>2, <4>1
    <3>3. j # k /\ j \in Nat
      BY <1>0, <2>2
    <3> QED
      BY <1>0, <3>1, <3>2, <3>3
  <2> QED
    BY <2>1, <2>2
<1> QED
  BY <1>3, <1>5, <1>6, <1>7 DEF Without

LEMMA ErasedIs ==
  ASSUME Listed(clients, destroyed, sock), destroyed = "no", NEW c \in Conns,
         Open(sock, c)
  PROVE  /\ Server!Erased(c) \in Seq(Conns) /\ Server!IsInjective(Server!Erased(c))
         /\ Without(Server!Erased(c), clients, c)
<1> DEFINE k == CHOOSE i \in DOMAIN clients : clients[i] = c
<1>1. /\ k \in 1 .. Len(clients) /\ clients[k] = c /\ clients \in Seq(Conns)
      /\ Server!IsInjective(clients)
  BY LenProperties DEF Listed
<1>2. Server!Erased(c) = Server!RemoveAt(clients, k)
  BY DEF Server!Erased
<1> HIDE DEF k
<1> QED
  BY <1>1, <1>2, RemovedOnce

-----------------------------------------------------------------------------
\* What the calls do to the stack, its frames f becoming g

LEMMA FramesKept ==
  ASSUME NEW n \in Nat, NEW f, NEW d, NEW s, NEW h, NEW t, NEW k,
         Frames(n, f, d, s, h),
         \A c \in Conns : /\ Open(t, c) <=> Open(s, c)
                          /\ t[c] = "closed" <=> s[c] = "closed"
                          /\ "destroyEvent" \in k[c] <=> "destroyEvent" \in h[c],
         \A i \in 1 .. n : f[i].in \in {"request", "body"} /\ "user" \in h[f[i].c]
                              => "user" \in k[f[i].c]
  PROVE  Frames(n, f, d, t, k)
<1>1. \A i \in 1 .. n : f[i].in \in {"request", "body", "closing"} => f[i].c \in Conns
  BY DEF Frames, Frame
<1> QED
  BY <1>1 DEF Frames

LEMMA ClosingPushed ==
  ASSUME NEW n \in Nat, NEW f, NEW g, NEW d, NEW s, NEW h, NEW t, NEW k, NEW c \in Conns,
         Frames(n, f, d, s, h), Open(s, c), "destroyEvent" \in h[c],
         \A i \in 1 .. n : g[i] = f[i],
         g[n + 1] = [in |-> "closing", c |-> c],
         t[c] = "closed", \A e \in Conns \ {c} : t[e] = s[e] /\ k[e] = h[e],
         k[c] = h[c] \ {"headersComplete"},
         \A i \in 1 .. n : f[i].in \in {"request", "body"} /\ f[i].c = c => "user" \in h[c]
  PROVE  Frames(n + 1, g, d, t, k)
<1> DEFINE z == [in |-> "closing", c |-> c]
<1>1. z \in Frame /\ z.in = "closing" /\ z.c = c
  BY DEF Frame
<1>2. \A i \in 1 .. n + 1 : (i \in 1 .. n /\ g[i] = f[i]) \/ (i = n + 1 /\ g[i] = z)
  OBVIOUS
<1>3. n + 1 \in 1 .. n + 1 /\ \A i \in 1 .. n : i \in 1 .. n + 1 /\ i # n + 1
  OBVIOUS
<1>4. \A i \in 1 .. n : f[i].in \in {"request", "body", "closing"} => f[i].c \in Conns
  BY DEF Frames, Frame
<1>5. \A i \in 1 .. n : f[i].in = "closing" => f[i].c # c
  BY DEF Frames, Open
<1>6. ~Open(t, c)
  BY DEF Open
<1>7. \A e \in Conns \ {c} : Open(t, e) <=> Open(s, e)
  BY DEF Open
<1> HIDE DEF z
<1>8. \A i \in 1 .. n + 1 : g[i] \in Frame
  BY <1>1, <1>2 DEF Frames
<1>9. \A i \in 1 .. n + 1 : g[i].in \in {"request", "body"} =>
        /\ i = 1
        /\ "user" \in k[g[i].c] \/ (Open(t, g[i].c) /\ d = "no")
  BY <1>1, <1>2, <1>4, <1>7 DEF Frames
<1>10. \A i, j \in 1 .. n + 1 : g[i].in = "walk" /\ g[j].in = "walk" => i = j
  BY <1>1, <1>2 DEF Frames
<1>11. d = "walking" <=> \E i \in 1 .. n + 1 : g[i].in = "walk"
  BY <1>1, <1>2, <1>3 DEF Frames
<1>12. \A i \in 1 .. n + 1 : g[i].in = "closing" =>
         /\ t[g[i].c] = "closed" /\ "destroyEvent" \in k[g[i].c]
         /\ \A j \in 1 .. n + 1 : g[j].in = "closing" /\ g[j].c = g[i].c => j = i
  BY <1>1, <1>2, <1>4, <1>5 DEF Frames
<1>13. \A e \in Conns : t[e] = "closed" /\ "destroyEvent" \in k[e] =>
         \E i \in 1 .. n + 1 : g[i].in = "closing" /\ g[i].c = e
  BY <1>1, <1>2, <1>3 DEF Frames
<1> QED
  BY <1>8, <1>9, <1>10, <1>11, <1>12, <1>13 DEF Frames

\* A frame of the event loop or of destroy() of the server, which needs that a
\* listener keeps the messages
LEMMA CallPushed ==
  ASSUME NEW n \in Nat, NEW f, NEW g, NEW d, NEW e, NEW s, NEW h,
         Frames(n, f, d, s, h), \A i \in 1 .. n : g[i] = f[i], g[n + 1] \in Frame,
         d = "no",
         \/ /\ g[n + 1].in \in {"request", "body"} /\ n = 0 /\ Open(s, g[n + 1].c) /\ e = "no"
         \/ /\ g[n + 1].in = "walk" /\ e = "walking"
            /\ \A i \in 1 .. n : f[i].in \in {"request", "body"} => "user" \in h[f[i].c]
  PROVE  Frames(n + 1, g, e, s, h)
<1> DEFINE z == g[n + 1]
<1>2. \A i \in 1 .. n + 1 : (i \in 1 .. n /\ g[i] = f[i]) \/ (i = n + 1 /\ g[i] = z)
  OBVIOUS
<1>3. n + 1 \in 1 .. n + 1 /\ \A i \in 1 .. n : i \in 1 .. n + 1 /\ i # n + 1
  OBVIOUS
<1>4. z \in Frame /\ z.in # "closing" /\ (n = 0 => n + 1 = 1)
  OBVIOUS
<1>5. \A i \in 1 .. n : f[i].in # "walk"
  BY DEF Frames
<1> HIDE DEF z
<1>8. \A i \in 1 .. n + 1 : g[i] \in Frame
  BY <1>2, <1>4 DEF Frames
<1>9. \A i \in 1 .. n + 1 : g[i].in \in {"request", "body"} =>
        /\ i = 1
        /\ "user" \in h[g[i].c] \/ (Open(s, g[i].c) /\ e = "no")
  BY <1>2, <1>4 DEF Frames, z
<1>10. \A i, j \in 1 .. n + 1 : g[i].in = "walk" /\ g[j].in = "walk" => i = j
  BY <1>2, <1>5 DEF Frames
<1>11. e = "walking" <=> \E i \in 1 .. n + 1 : g[i].in = "walk"
  BY <1>2, <1>3, <1>5 DEF Frames
<1>12. \A i \in 1 .. n + 1 : g[i].in = "closing" =>
         /\ s[g[i].c] = "closed" /\ "destroyEvent" \in h[g[i].c]
         /\ \A j \in 1 .. n + 1 : g[j].in = "closing" /\ g[j].c = g[i].c => j = i
  BY <1>2, <1>4 DEF Frames
<1>13. \A c \in Conns : s[c] = "closed" /\ "destroyEvent" \in h[c] =>
         \E i \in 1 .. n + 1 : g[i].in = "closing" /\ g[i].c = c
  BY <1>2, <1>3 DEF Frames
<1> QED
  BY <1>8, <1>9, <1>10, <1>11, <1>12, <1>13 DEF Frames

\* The walk has done a connection.
LEMMA WalkAdvanced ==
  ASSUME NEW n \in Nat, n > 0, NEW f, NEW g, NEW d, NEW s, NEW h,
         Frames(n, f, d, s, h), \A i \in 1 .. n - 1 : g[i] = f[i],
         g[n] \in Frame, f[n].in = "walk", g[n].in = "walk"
  PROVE  Frames(n, g, d, s, h)
<1>1. \A i \in 1 .. n : g[i] = f[i] \/ (i = n /\ g[i].in = "walk")
  OBVIOUS
<1>2. n \in 1 .. n
  OBVIOUS
<1>3. \A i \in 1 .. n : g[i].in = f[i].in /\ (g[i].in # "walk" => g[i] = f[i])
  BY <1>1, <1>2
<1>4. \A i \in 1 .. n : g[i] \in Frame
  BY <1>1 DEF Frames
<1> QED
  BY <1>3, <1>4 DEF Frames

\* A call returns: that of a listener from http_parser, one of destroy(), which
\* deletes the closure, or the walk of the server, which is then destroyed.
LEMMA Popped ==
  ASSUME NEW n \in Nat, n > 0, NEW f, NEW g, NEW d, NEW e, NEW s, NEW h, NEW k,
         Frames(n, f, d, s, h), \A i \in 1 .. n - 1 : g[i] = f[i],
         \/ f[n].in \in {"request", "body"} /\ e = d /\ k = h
         \/ /\ f[n].in = "closing" /\ e = d
            /\ \A c \in Conns : k[c] = IF c = f[n].c THEN h[c] \ {"destroyEvent"} ELSE h[c]
         \/ f[n].in = "walk" /\ e = "yes" /\ k = h
  PROVE  Frames(n - 1, g, e, s, k)
<1> DEFINE z == f[n]
<1>1. \A i \in 1 .. n - 1 : i \in 1 .. n /\ i # n /\ g[i] = f[i]
  OBVIOUS
<1>2. n \in 1 .. n /\ \A i \in 1 .. n : i \in 1 .. n - 1 \/ i = n
  OBVIOUS
<1>3. \A i \in 1 .. n : f[i].in \in {"request", "body", "closing"} => f[i].c \in Conns
  BY DEF Frames, Frame
<1>4. \A c \in Conns : /\ "user" \in k[c] <=> "user" \in h[c]
                       /\ ("destroyEvent" \in k[c] =>
                             "destroyEvent" \in h[c] /\ ~(z.in = "closing" /\ z.c = c))
                       /\ ("destroyEvent" \in h[c] /\ ~(z.in = "closing" /\ z.c = c)
                             => "destroyEvent" \in k[c])
  <2>1. CASE k = h /\ z.in # "closing"
    BY <2>1
  <2>2. CASE /\ z.in = "closing"
             /\ \A c \in Conns : k[c] = IF c = z.c THEN h[c] \ {"destroyEvent"} ELSE h[c]
    BY <2>2
  <2> QED
    BY <2>1, <2>2
<1>14. ASSUME NEW c \in Conns, "destroyEvent" \in h[c], ~(z.in = "closing" /\ z.c = c)
       PROVE  "destroyEvent" \in k[c]
  BY <1>4, <1>14
<1>15. ASSUME NEW c \in Conns, "destroyEvent" \in k[c]
       PROVE  "destroyEvent" \in h[c] /\ ~(z.in = "closing" /\ z.c = c)
  BY <1>4, <1>15
<1>5. \/ e = d /\ z.in # "walk"
      \/ e = "yes" /\ z.in = "walk" /\ d = "walking"
  BY <1>2 DEF Frames
<1>6. \A i \in 1 .. n - 1 : f[i].in = "closing" => ~(z.in = "closing" /\ z.c = f[i].c)
  BY <1>1, <1>2 DEF Frames
<1> HIDE DEF z
<1>7. \A i \in 1 .. n - 1 : f[i].in = "walk" => z.in # "walk"
  BY <1>1, <1>2 DEF Frames, z
<1>8. \A i \in 1 .. n - 1 : g[i] \in Frame
  BY <1>1 DEF Frames
<1>9. ASSUME NEW i \in 1 .. n - 1, g[i].in \in {"request", "body"}
      PROVE  /\ i = 1
             /\ "user" \in k[g[i].c] \/ (Open(s, g[i].c) /\ e = "no")
  <2>1. /\ i \in 1 .. n /\ g[i] = f[i] /\ f[i].in \in {"request", "body"} /\ f[i].c \in Conns
    BY <1>1, <1>3, <1>9
  <2>2. /\ i = 1
        /\ "user" \in h[f[i].c] \/ (Open(s, f[i].c) /\ d = "no")
    BY <2>1 DEF Frames
  <2>3. d = "no" => e = "no"
    BY <1>5
  <2> QED
    BY <1>4, <2>1, <2>2, <2>3
<1>10. \A i, j \in 1 .. n - 1 : g[i].in = "walk" /\ g[j].in = "walk" => i = j
  BY <1>1 DEF Frames
<1>11. e = "walking" <=> \E i \in 1 .. n - 1 : g[i].in = "walk"
  BY <1>1, <1>2, <1>5, <1>7 DEF Frames, z
<1>12. ASSUME NEW i \in 1 .. n - 1, g[i].in = "closing"
       PROVE  /\ s[g[i].c] = "closed" /\ "destroyEvent" \in k[g[i].c]
              /\ \A j \in 1 .. n - 1 : g[j].in = "closing" /\ g[j].c = g[i].c => j = i
  <2>1. /\ i \in 1 .. n /\ g[i] = f[i] /\ f[i].in = "closing" /\ f[i].c \in Conns
        /\ ~(z.in = "closing" /\ z.c = f[i].c)
    BY <1>1, <1>3, <1>6, <1>12
  <2>2. /\ s[f[i].c] = "closed" /\ "destroyEvent" \in h[f[i].c]
        /\ \A j \in 1 .. n : f[j].in = "closing" /\ f[j].c = f[i].c => j = i
    BY <2>1 DEF Frames
  <2>3. "destroyEvent" \in k[f[i].c]
    BY <1>14, <2>1, <2>2
  <2> QED
    BY <1>1, <2>1, <2>2, <2>3
<1>13. ASSUME NEW c \in Conns, s[c] = "closed", "destroyEvent" \in k[c]
       PROVE  \E i \in 1 .. n - 1 : g[i].in = "closing" /\ g[i].c = c
  <2>1. "destroyEvent" \in h[c] /\ ~(z.in = "closing" /\ z.c = c)
    BY <1>13, <1>15
  <2>2. PICK i \in 1 .. n : f[i].in = "closing" /\ f[i].c = c
    BY <1>13, <2>1 DEF Frames
  <2>3. i \in 1 .. n - 1
    BY <1>2, <2>1, <2>2 DEF z
  <2> QED
    BY <1>1, <2>2, <2>3
<1> QED
  BY <1>8, <1>9, <1>10, <1>11, <1>12, <1>13 DEF Frames

-----------------------------------------------------------------------------
(* The steps of the server *)

\* The connection c is closed while the calls of base are waiting.
LEMMA CloseKeeps ==
  ASSUME ServerInv, NEW c \in Conns, Open(sock, c), NEW base \in Seq(Frame),
         Frames(Len(base), base, destroyed, sock, holders),
         Covers(Len(base), base, sock, {c}),
         \A i \in 1 .. Len(base) : base[i].in \in {"request", "body"} /\ base[i].c = c
                                    => "user" \in holders[c],
         sock' = [sock EXCEPT ![c] = "closed"],
         holders' = [holders EXCEPT ![c] = @ \ {"headersComplete"}],
         clients' = IF destroyed = "no" THEN Server!Erased(c) ELSE clients,
         stack' = Append(base, [in |-> "closing", c |-> c]),
         UNCHANGED <<destroyed, resWritable, answered, dead>>,
         eof' \in [Conns -> BOOLEAN], \A e \in Conns : eof[e] => eof'[e]
  PROVE  ServerInv'
<1> DEFINE z == [in |-> "closing", c |-> c]
           n == Len(base)
<1>1. /\ Types /\ z \in Frame /\ n \in Nat
      /\ stack' \in Seq(Frame) /\ Len(stack') = n + 1
      /\ \A i \in 1 .. n : stack'[i] = base[i]
      /\ stack'[n + 1] = z
  BY AppendProperties, LenProperties DEF ServerInv, Frame
<1>2. /\ sock'[c] = "closed" /\ \A e \in Conns \ {c} : sock'[e] = sock[e]
      /\ holders'[c] = holders[c] \ {"headersComplete"}
      /\ \A e \in Conns \ {c} : holders'[e] = holders[e]
      /\ {"destroyEvent", "headersComplete"} \subseteq holders[c]
      /\ holders[c] \in SUBSET {"destroyEvent", "headersComplete", "user"}
  BY <1>1 DEF Types, ServerInv, Held
<1>3. Types'
  BY <1>1, <1>2 DEF Types
<1>4. Held'
  BY <1>2 DEF Held, ServerInv, Open
<1>5. Taken'
  BY <1>2 DEF Taken, ServerInv
<1>6. Frames(n + 1, stack', destroyed', sock', holders')
  <2>1. "destroyEvent" \in holders[c]
    BY <1>2
  <2>2. destroyed' = destroyed
    OBVIOUS
  <2> HIDE DEF n
  <2>3. /\ Frames(n, base, destroyed, sock, holders)
        /\ \A i \in 1 .. n : base[i].in \in {"request", "body"} /\ base[i].c = c
                              => "user" \in holders[c]
    BY DEF n
  <2>4. ASSUME NEW g, NEW t, NEW h, g = stack', t = sock', h = holders'
        PROVE  Frames(n + 1, g, destroyed, t, h)
    <3>1. /\ \A i \in 1 .. n : g[i] = base[i]
          /\ g[n + 1] = [in |-> "closing", c |-> c]
      BY <1>1, <2>4
    <3>2. /\ t[c] = "closed" /\ h[c] = holders[c] \ {"headersComplete"}
          /\ \A e \in Conns \ {c} : t[e] = sock[e] /\ h[e] = holders[e]
      BY <1>2, <2>4
    <3>3. Open(sock, c) /\ n \in Nat
      BY <1>1
    <3> QED
      BY <2>1, <2>3, <3>1, <3>2, <3>3, ClosingPushed
  <2>5. Frames(n + 1, stack', destroyed, sock', holders')
    BY <2>4
  <2> QED
    BY <2>2, <2>5
<1>7. Covers(n + 1, stack', sock', {})
  <2>1. \A i \in 1 .. n + 1 : (i \in 1 .. n /\ stack'[i] = base[i]) \/ stack'[i] = z
    BY <1>1
  <2>2. \A e \in Conns : Open(sock', e) => e \in Conns \ {c} /\ Open(sock, e)
    BY <1>2 DEF Open
  <2> HIDE DEF n
  <2> QED
    BY <2>1, <2>2 DEF Covers, n
<1>8. Listed(clients', destroyed', sock')
  <2>1. \A e \in Conns : Open(sock', e) <=> Open(sock, e) /\ e # c
    BY <1>2 DEF Open
  <2>2. Listed(clients, destroyed, sock) /\ destroyed' = destroyed
    BY DEF ServerInv
  <2>3. CASE destroyed = "no"
    <3>1. /\ clients' \in Seq(Conns) /\ Server!IsInjective(clients')
          /\ Without(clients', clients, c)
      BY <2>2, <2>3, ErasedIs
    <3> QED
      BY <2>1, <2>2, <2>3, <3>1 DEF Listed, Without
  <2>4. CASE destroyed # "no"
    BY <2>1, <2>2, <2>4 DEF Listed
  <2> QED
    BY <2>3, <2>4
<1> QED
  BY <1>1, <1>3, <1>4, <1>5, <1>6, <1>7, <1>8 DEF ServerInv

\* The states of the socket in which it is open pass without a call.
LEMMA FlowKeeps ==
  ASSUME ServerInv, Types', Held', Taken', UNCHANGED <<destroyed, clients, stack>>,
         \A c \in Conns : /\ Open(sock', c) <=> Open(sock, c)
                          /\ sock'[c] = "closed" <=> sock[c] = "closed"
                          /\ "destroyEvent" \in holders'[c] <=> "destroyEvent" \in holders[c],
         \A c \in Conns : Server!InParser(c) /\ "user" \in holders[c] => "user" \in holders'[c]
  PROVE  ServerInv'
<1> DEFINE n == Len(stack)
<1>1. n \in Nat /\ DOMAIN stack = 1 .. n /\ Frames(n, stack, destroyed, sock, holders)
  BY LenProperties DEF ServerInv, Types
<1>2. Len(stack') = n
  OBVIOUS
<1> HIDE DEF n
<1>3. \A i \in 1 .. n : stack[i].in \in {"request", "body", "closing"} => stack[i].c \in Conns
  BY <1>1 DEF Frames, Frame
<1>4. \A i \in 1 .. n : stack[i].in \in {"request", "body"} /\ "user" \in holders[stack[i].c]
                           => "user" \in holders'[stack[i].c]
  BY <1>1, <1>3 DEF Server!InParser, Server!Parsers
<1>5. Frames(n, stack, destroyed, sock', holders')
  <2> SUFFICES ASSUME NEW t, NEW h, t = sock', h = holders'
               PROVE  Frames(n, stack, destroyed, t, h)
    OBVIOUS
  <2>1. \A c \in Conns : /\ Open(t, c) <=> Open(sock, c)
                         /\ t[c] = "closed" <=> sock[c] = "closed"
                         /\ "destroyEvent" \in h[c] <=> "destroyEvent" \in holders[c]
    OBVIOUS
  <2>2. \A i \in 1 .. n : stack[i].in \in {"request", "body"} /\ "user" \in holders[stack[i].c]
                           => "user" \in h[stack[i].c]
    BY <1>4
  <2> QED
    BY <1>1, <2>1, <2>2, FramesKept
<1>6. Frames(n, stack', destroyed', sock', holders')
  BY <1>5
<1>7. Covers(n, stack', sock', {})
  BY DEF ServerInv, Covers, n
<1>8. Listed(clients', destroyed', sock')
  BY DEF ServerInv, Listed
<1> QED
  BY <1>2, <1>6, <1>7, <1>8 DEF ServerInv

LEMMA EndedKeeps ==
  ASSUME Types, NEW c \in Conns, NEW t, t = Server!Ended(c)
  PROVE  /\ t \in [Conns -> {"none", "open", "ending", "ended", "closed"}]
         /\ \A e \in Conns : /\ Open(t, e) <=> Open(sock, e)
                             /\ t[e] = "closed" <=> sock[e] = "closed"
                             /\ t[e] \in {"ending", "ended"} /\ e # c
                                   => sock[e] \in {"ending", "ended"}
BY DEF Server!Ended, Types, Open

LEMMA AtTop ==
  ASSUME Types, stack # <<>>
  PROVE  /\ Len(stack) \in Nat /\ Len(stack) > 0 /\ DOMAIN stack = 1 .. Len(stack)
         /\ Server!Top = stack[Len(stack)] /\ Server!Top \in Frame
         /\ Server!Pop \in Seq(Frame) /\ Len(Server!Pop) = Len(stack) - 1
         /\ \A i \in 1 .. Len(stack) - 1 : Server!Pop[i] = stack[i]
<1>1. /\ stack \in Seq(Frame) /\ Len(stack) \in Nat /\ DOMAIN stack = 1 .. Len(stack)
      /\ \A i \in 1 .. Len(stack) : stack[i] \in Frame
  BY LenProperties, ElementOfSeq DEF Types
<1>2. Len(stack) > 0
  BY <1>1, EmptySeq
<1>3. /\ Server!Top = stack[Len(stack)] /\ Server!Pop = SubSeq(stack, 1, Len(stack) - 1)
  BY DEF Server!Top, Server!Last, Server!Pop, Server!Front
<1>4. /\ SubSeq(stack, 1, Len(stack) - 1) \in Seq(Frame)
      /\ Len(SubSeq(stack, 1, Len(stack) - 1)) = Len(stack) - 1
      /\ \A i \in 1 .. Len(stack) - 1 : SubSeq(stack, 1, Len(stack) - 1)[i] = stack[i]
  <2> DEFINE t == SubSeq(stack, 1, Len(stack) - 1)
             m == Len(stack) - 1
  <2>1. /\ t \in Seq(Frame)
        /\ Len(t) = IF 1 <= m THEN m - 1 + 1 ELSE 0
        /\ \A i \in 1 .. m - 1 + 1 : t[i] = stack[1 + i - 1]
    <3>1. \A i \in 1 .. m : stack[i] \in Frame
      BY <1>1
    <3> QED
      BY <1>1, <1>2, <3>1, SubSeqProperties
  <2>2. m \in Nat
    BY <1>1, <1>2
  <2> HIDE DEF t, m
  <2>3. m - 1 + 1 = m /\ \A i \in 1 .. m : 1 + i - 1 = i
    BY <2>2
  <2>4. t \in Seq(Frame) /\ Len(t) = m /\ \A i \in 1 .. m : t[i] = stack[i]
    BY <2>1, <2>2, <2>3
  <2> QED
    BY <2>4 DEF t, m
<1> QED
  BY <1>1, <1>2, <1>3, <1>4

LEMMA AtRest ==
  ASSUME ServerInv, Server!Idle
  PROVE  /\ Len(stack) = 0 /\ DOMAIN stack = {} /\ destroyed # "walking"
         /\ \A c \in Conns : ~Server!InParser(c) /\ Server!Careful(c)
         /\ \A c \in Conns : Open(sock, c) => destroyed = "no"
<1>1. stack = <<>>
  BY DEF Server!Idle
<1>2. Len(stack) = 0 /\ DOMAIN stack = {}
  BY <1>1
<1>3. destroyed # "walking"
  BY <1>2 DEF ServerInv, Frames
<1>4. \A c \in Conns : ~Server!InParser(c) /\ Server!Careful(c)
  BY <1>2 DEF Server!InParser, Server!Careful
<1>5. \A c \in Conns : Open(sock, c) => destroyed = "no"
  BY <1>3 DEF ServerInv, Types, Listed
<1> QED
  BY <1>2, <1>3, <1>4, <1>5

\* destroy() of a connection by a listener that keeps the messages
LEMMA CloseStep ==
  ASSUME MessagesKept, ServerInv, NEW c \in Conns, Open(sock, c), Server!Careful(c),
         Server!Close(c, stack)
  PROVE  ServerInv'
<1>1. /\ stack \in Seq(Frame) /\ DOMAIN stack = 1 .. Len(stack)
      /\ Frames(Len(stack), stack, destroyed, sock, holders)
  BY LenProperties DEF ServerInv, Types
<1>2. Covers(Len(stack), stack, sock, {c})
  BY DEF ServerInv, Covers
<1>3. \A i \in 1 .. Len(stack) : stack[i].in \in {"request", "body"} /\ stack[i].c = c
                                   => "user" \in holders[c]
  BY <1>1 DEF Server!Careful, Server!InParser, Server!Parsers
<1>4. /\ sock' = [sock EXCEPT ![c] = "closed"]
      /\ holders' = [holders EXCEPT ![c] = @ \ {"headersComplete"}]
      /\ clients' = IF destroyed = "no" THEN Server!Erased(c) ELSE clients
      /\ stack' = Append(stack, [in |-> "closing", c |-> c])
      /\ UNCHANGED <<destroyed, resWritable, answered, dead>>
      /\ eof' = eof
  BY DEF Server!Close
<1>5. eof' \in [Conns -> BOOLEAN] /\ \A e \in Conns : eof[e] => eof'[e]
  BY <1>4 DEF ServerInv, Types
<1> QED
  BY <1>1, <1>2, <1>3, <1>4, <1>5, CloseKeeps

LEMMA AcceptKeeps ==
  ASSUME ServerInv, NEW c \in Conns, Server!Accept(c)
  PROVE  ServerInv'
<1>1. /\ Server!Idle /\ destroyed = "no" /\ sock[c] = "none" /\ Types
      /\ sock' = [sock EXCEPT ![c] = "open"]
      /\ clients' = <<c>> \o clients
      /\ holders' = [holders EXCEPT ![c] = {"destroyEvent", "headersComplete"}]
      /\ resWritable' = [resWritable EXCEPT ![c] = TRUE]
      /\ UNCHANGED <<destroyed, eof, dead, answered, stack>>
  BY DEF Server!Accept, ServerInv
<1>2. /\ sock'[c] = "open" /\ holders'[c] = {"destroyEvent", "headersComplete"}
      /\ \A e \in Conns \ {c} : /\ sock'[e] = sock[e] /\ holders'[e] = holders[e]
                                /\ resWritable'[e] = resWritable[e]
  BY <1>1 DEF Types
<1>3. Types'
  BY <1>1 DEF Types
<1>4. Held'
  BY <1>2 DEF Held, ServerInv, Open
<1>5. Taken'
  BY <1>1, <1>2 DEF Taken, ServerInv
<1>6. Len(stack) = 0 /\ Len(stack') = 0
  BY <1>1, AtRest
<1>7. Frames(0, stack', destroyed', sock', holders')
  <2>1. \A e \in Conns : sock'[e] = "closed" /\ "destroyEvent" \in holders'[e]
                            => sock[e] = "closed" /\ "destroyEvent" \in holders[e]
    BY <1>2
  <2>2. \A e \in Conns : ~(sock[e] = "closed" /\ "destroyEvent" \in holders[e])
    BY <1>6 DEF ServerInv, Frames
  <2>3. \A i \in 1 .. 0 : FALSE
    OBVIOUS
  <2>4. destroyed' # "walking"
    BY <1>1
  <2> QED
    BY <2>1, <2>2, <2>3, <2>4 DEF Frames
<1>8. Covers(0, stack', sock', {})
  BY DEF Covers
<1>9. Listed(clients', destroyed', sock')
  <2> DEFINE n == Len(clients)
  <2>1. /\ clients \in Seq(Conns) /\ n \in Nat /\ DOMAIN clients = 1 .. n
        /\ Server!IsInjective(clients)
        /\ \A e \in Conns : Open(sock, e) <=> \E i \in 1 .. n : clients[i] = e
    BY <1>1, LenProperties DEF ServerInv, Listed
  <2>2. /\ <<c>> \in Seq(Conns) /\ Len(<<c>>) = 1 /\ <<c>>[1] = c
    OBVIOUS
  <2>3. /\ clients' \in Seq(Conns) /\ Len(clients') = Len(<<c>>) + n
        /\ \A i \in 1 .. Len(<<c>>) + n :
              clients'[i] = IF i <= Len(<<c>>) THEN <<c>>[i] ELSE clients[i - Len(<<c>>)]
    BY <1>1, <2>1, <2>2, ConcatProperties
  <2>4. DOMAIN clients' = 1 .. Len(clients')
    BY <2>3, LenProperties
  <2> HIDE DEF n
  <2>5. DOMAIN clients' = 1 .. 1 + n
    BY <2>2, <2>3, <2>4
  <2>6. clients'[1] = c
    BY <2>1, <2>2, <2>3
  <2>7. \A i \in 2 .. 1 + n : i - 1 \in 1 .. n /\ clients'[i] = clients[i - 1]
    BY <2>1, <2>2, <2>3
  <2>8. \A i \in 1 .. 1 + n : i = 1 \/ i \in 2 .. 1 + n
    BY <2>1
  <2>9. \A i \in 1 .. n : clients[i] # c
    BY <1>1, <2>1 DEF Open
  <2>10. Server!IsInjective(clients')
    <3> SUFFICES ASSUME NEW i \in 1 .. 1 + n, NEW j \in 1 .. 1 + n, clients'[i] = clients'[j]
                 PROVE  i = j
      BY <2>5 DEF Server!IsInjective
    <3>1. CASE i \in 2 .. 1 + n /\ j \in 2 .. 1 + n
      <4>1. i - 1 = j - 1
        <5>1. /\ i - 1 \in DOMAIN clients /\ j - 1 \in DOMAIN clients
              /\ clients[i - 1] = clients[j - 1]
          BY <2>1, <2>7, <3>1
        <5> QED
          BY <2>1, <5>1 DEF Server!IsInjective
      <4> QED
        BY <2>1, <3>1, <4>1
    <3>2. CASE i = 1 /\ j \in 2 .. 1 + n
      BY <2>6, <2>7, <2>9, <3>2
    <3>3. CASE j = 1 /\ i \in 2 .. 1 + n
      BY <2>6, <2>7, <2>9, <3>3
    <3> QED
      BY <2>8, <3>1, <3>2, <3>3
  <2>11. ASSUME NEW e \in Conns
         PROVE  Open(sock', e) <=> \E i \in DOMAIN clients' : clients'[i] = e
    <3>1. CASE e = c
      <4>1. 1 \in DOMAIN clients'
        BY <2>1, <2>5
      <4> QED
        BY <1>2, <2>6, <3>1, <4>1 DEF Open
    <3>2. CASE e # c
      <4>1. Open(sock', e) <=> \E i \in 1 .. n : clients[i] = e
        BY <1>2, <2>1, <3>2 DEF Open
      <4>2. \A i \in 1 .. n : i + 1 \in DOMAIN clients' /\ clients'[i + 1] = clients[i]
        BY <2>1, <2>5, <2>7
      <4>3. ASSUME NEW i \in DOMAIN clients', clients'[i] = e
            PROVE  \E j \in 1 .. n : clients[j] = e
        BY <2>5, <2>6, <2>7, <2>8, <3>2, <4>3
      <4> QED
        BY <4>1, <4>2, <4>3
    <3> QED
      BY <3>1, <3>2
  <2> QED
    BY <1>1, <2>3, <2>10, <2>11 DEF Listed
<1> QED
  BY <1>3, <1>4, <1>5, <1>6, <1>7, <1>8, <1>9 DEF ServerInv

LEMMA AnswerKeeps ==
  ASSUME ServerInv, NEW c \in Conns, Server!End(c),
         UNCHANGED <<destroyed, clients, eof, dead, holders, stack>>
  PROVE  ServerInv'
<1>1. Types
  BY DEF ServerInv
<1>2. PICK t : t = Server!Ended(c)
  OBVIOUS
<1>3. /\ resWritable' = [resWritable EXCEPT ![c] = FALSE]
      /\ \/ resWritable[c] /\ sock[c] = "open" /\ sock' = t
            /\ answered' = [answered EXCEPT ![c] = TRUE]
         \/ sock' = sock /\ answered' = answered
  BY <1>2 DEF Server!End
<1>4. /\ sock' \in [Conns -> {"none", "open", "ending", "ended", "closed"}]
      /\ \A e \in Conns : /\ Open(sock', e) <=> Open(sock, e)
                          /\ sock'[e] = "closed" <=> sock[e] = "closed"
                          /\ sock'[e] \in {"ending", "ended"} /\ e # c
                                => sock[e] \in {"ending", "ended"}
  <2>1. CASE sock' = t
    BY <1>1, <1>2, <2>1, EndedKeeps
  <2>2. CASE sock' = sock
    BY <1>1, <2>2 DEF Types
  <2> QED
    BY <1>3, <2>1, <2>2
<1>5. Types'
  BY <1>1, <1>3, <1>4 DEF Types
<1>6. Held'
  BY <1>4 DEF ServerInv, Held
<1>7. Taken'
  <2> SUFFICES ASSUME NEW e \in Conns, sock'[e] \in {"ending", "ended"}
               PROVE  (eof[e] \/ dead[e] \/ ~resWritable[e])'
    BY DEF Taken
  <2>1. CASE e = c
    BY <1>1, <1>3, <2>1 DEF Types
  <2>2. CASE e # c
    <3>1. eof[e] \/ dead[e] \/ ~resWritable[e]
      BY <1>4, <2>2 DEF ServerInv, Taken
    <3>2. resWritable'[e] = resWritable[e]
      BY <1>1, <1>3, <2>2 DEF Types
    <3> QED
      BY <3>1, <3>2
  <2> QED
    BY <2>1, <2>2
<1> QED
  BY <1>4, <1>5, <1>6, <1>7, FlowKeeps

\* http_parser refuses the data, or the peer has sent its FIN.
LEMMA EndKeeps ==
  ASSUME ServerInv, NEW c \in Conns, sock' = Server!Ended(c),
         UNCHANGED <<destroyed, clients, holders, resWritable, answered, stack>>,
         \/ dead' = [dead EXCEPT ![c] = TRUE] /\ eof' = eof
         \/ eof' = [eof EXCEPT ![c] = TRUE] /\ dead' = dead
  PROVE  ServerInv'
<1>1. Types
  BY DEF ServerInv
<1>2. PICK t : t = Server!Ended(c)
  OBVIOUS
<1>3. /\ sock' \in [Conns -> {"none", "open", "ending", "ended", "closed"}]
      /\ \A e \in Conns : /\ Open(sock', e) <=> Open(sock, e)
                          /\ sock'[e] = "closed" <=> sock[e] = "closed"
                          /\ sock'[e] \in {"ending", "ended"} /\ e # c
                                => sock[e] \in {"ending", "ended"}
  BY <1>1, <1>2, EndedKeeps
<1>4. /\ dead' \in [Conns -> BOOLEAN] /\ eof' \in [Conns -> BOOLEAN]
      /\ dead'[c] \/ eof'[c]
      /\ \A e \in Conns : (dead[e] => dead'[e]) /\ (eof[e] => eof'[e])
  BY <1>1 DEF Types
<1>5. Types'
  BY <1>1, <1>3, <1>4 DEF Types
<1>6. Held'
  BY <1>3 DEF ServerInv, Held
<1>7. Taken'
  BY <1>3, <1>4 DEF ServerInv, Taken
<1> QED
  BY <1>3, <1>5, <1>6, <1>7, FlowKeeps

LEMMA EofKeeps ==
  ASSUME ServerInv, NEW c \in Conns, Server!Eof(c)
  PROVE  ServerInv'
<1>1. /\ Server!Idle /\ Open(sock, c) /\ Types
      /\ eof' = [eof EXCEPT ![c] = TRUE]
      /\ UNCHANGED <<destroyed, dead, resWritable, answered>>
  BY DEF Server!Eof, Server!Connected, Open, ServerInv
<1>2. CASE sock[c] = "ended"
  <2>1. /\ sock' = [sock EXCEPT ![c] = "closed"]
        /\ holders' = [holders EXCEPT ![c] = @ \ {"headersComplete"}]
        /\ clients' = Server!Erased(c)
        /\ stack' = <<[in |-> "closing", c |-> c]>>
    BY <1>2 DEF Server!Eof
  <2>2. Len(stack) = 0 /\ stack = <<>> /\ destroyed = "no"
    BY <1>1, AtRest DEF Server!Idle
  <2>3. stack' = Append(stack, [in |-> "closing", c |-> c])
    BY <2>1, <2>2
  <2>4. eof' \in [Conns -> BOOLEAN] /\ \A e \in Conns : eof[e] => eof'[e]
    BY <1>1 DEF Types
  <2>5. /\ stack \in Seq(Frame) /\ Frames(Len(stack), stack, destroyed, sock, holders)
        /\ Covers(Len(stack), stack, sock, {c})
    BY DEF ServerInv, Types, Covers
  <2>6. \A i \in 1 .. Len(stack) : FALSE
    BY <2>2
  <2> QED
    BY <1>1, <2>1, <2>2, <2>3, <2>4, <2>5, <2>6, CloseKeeps
<1>3. CASE sock[c] # "ended"
  <2>1. sock' = Server!Ended(c) /\ UNCHANGED <<holders, clients, stack>>
    BY <1>3 DEF Server!Eof
  <2> QED
    BY <1>1, <2>1, EndKeeps
<1> QED
  BY <1>2, <1>3

LEMMA ShutdownKeeps ==
  ASSUME MessagesKept, ServerInv, NEW c \in Conns, Server!ShutdownDone(c)
  PROVE  ServerInv'
<1>1. Server!Idle /\ sock[c] = "ending" /\ Types /\ Open(sock, c)
  BY DEF Server!ShutdownDone, ServerInv, Open
<1>2. CASE eof[c]
  <2>1. Server!Close(c, stack)
    BY <1>2 DEF Server!ShutdownDone
  <2> QED
    BY <1>1, <2>1, AtRest, CloseStep
<1>3. CASE ~eof[c]
  <2>1. /\ sock' = [sock EXCEPT ![c] = "ended"]
        /\ UNCHANGED <<destroyed, clients, eof, dead, holders, resWritable, answered, stack>>
    BY <1>3 DEF Server!ShutdownDone
  <2>2. sock'[c] = "ended" /\ \A e \in Conns \ {c} : sock'[e] = sock[e]
    BY <1>1, <2>1 DEF Types
  <2>3. Types'
    BY <1>1, <2>1 DEF Types
  <2>4. \A e \in Conns : /\ Open(sock', e) <=> Open(sock, e)
                         /\ sock'[e] = "closed" <=> sock[e] = "closed"
                         /\ sock'[e] \in {"ending", "ended"} => sock[e] \in {"ending", "ended"}
    BY <1>1, <2>2 DEF Open
  <2>5. Held' /\ Taken'
    BY <2>1, <2>4 DEF ServerInv, Held, Taken
  <2> QED
    BY <2>1, <2>3, <2>4, <2>5, FlowKeeps
<1> QED
  BY <1>2, <1>3

\* The user keeps the messages, or drops them when http_parser does not run.
LEMMA HoldKeeps ==
  ASSUME ServerInv, NEW c \in Conns,
         UNCHANGED <<destroyed, clients, sock, eof, dead, resWritable, answered, stack>>,
         \/ holders' = [holders EXCEPT ![c] = @ \union {"user"}]
         \/ ~Server!InParser(c) /\ holders' = [holders EXCEPT ![c] = @ \ {"user"}]
  PROVE  ServerInv'
<1>1. Types
  BY DEF ServerInv
<1>2. /\ \A e \in Conns \ {c} : holders'[e] = holders[e]
      /\ \/ holders'[c] = holders[c] \union {"user"}
         \/ ~Server!InParser(c) /\ holders'[c] = holders[c] \ {"user"}
  BY <1>1 DEF Types
<1>3. Types'
  BY <1>1 DEF Types
<1>4. Held' /\ Taken'
  BY <1>2 DEF ServerInv, Held, Taken, Open
<1>5. \A e \in Conns : /\ "destroyEvent" \in holders'[e] <=> "destroyEvent" \in holders[e]
                       /\ Server!InParser(e) /\ "user" \in holders[e] => "user" \in holders'[e]
  BY <1>2
<1>6. \A e \in Conns : /\ Open(sock', e) <=> Open(sock, e)
                       /\ sock'[e] = "closed" <=> sock[e] = "closed"
  OBVIOUS
<1> QED
  BY <1>3, <1>4, <1>5, <1>6, FlowKeeps

\* A call to a listener from http_parser
LEMMA RequestKeeps ==
  ASSUME ServerInv, NEW c \in Conns, Server!Request(c) \/ Server!Body(c)
  PROVE  ServerInv'
<1>0. PICK kind \in {"request", "body"} : stack' = Append(stack, [in |-> kind, c |-> c])
  BY DEF Server!Request, Server!Body
<1> DEFINE z == [in |-> kind, c |-> c]
<1>1. /\ Server!Idle /\ Open(sock, c) /\ stack' = Append(stack, z)
      /\ UNCHANGED <<destroyed, clients, sock, eof, dead, holders, resWritable, answered>>
  BY <1>0 DEF Server!Request, Server!Body, Server!Parses, Server!Connected, Open,
              Server!connVars
<1>2. Len(stack) = 0 /\ destroyed = "no" /\ Types /\ stack \in Seq(Frame)
  BY <1>1, AtRest DEF ServerInv, Types
<1>3. z \in Frame /\ z.in \in {"request", "body"} /\ z.c = c
  BY DEF Frame
<1> HIDE DEF z
<1>4. stack' \in Seq(Frame) /\ Len(stack') = 0 + 1 /\ stack'[0 + 1] = z
  BY <1>1, <1>2, <1>3, AppendProperties
<1>5. Frames(0 + 1, stack', destroyed', sock', holders')
  <2>1. Frames(0, stack, destroyed, sock, holders) /\ 0 \in Nat
    BY <1>2 DEF ServerInv
  <2> SUFFICES ASSUME NEW g, g = stack' PROVE Frames(0 + 1, g, destroyed, sock, holders)
    BY <1>1
  <2>2. /\ g[0 + 1] \in Frame /\ g[0 + 1].in \in {"request", "body"} /\ g[0 + 1].c = c
        /\ \A i \in 1 .. 0 : g[i] = stack[i]
    BY <1>3, <1>4
  <2> QED
    BY <1>1, <1>2, <2>1, <2>2, CallPushed
<1>6. Covers(0 + 1, stack', sock', {})
  BY <1>3, <1>4 DEF Covers
<1>7. Types' /\ Held' /\ Taken' /\ Listed(clients', destroyed', sock')
  BY <1>1, <1>4 DEF ServerInv, Types, Held, Taken, Listed, Open
<1> QED
  BY <1>4, <1>5, <1>6, <1>7 DEF ServerInv

LEMMA RequestedKeeps ==
  ASSUME ServerInv, stack # <<>>, NEW r \in BOOLEAN, Server!Requested(r),
         ~(r /\ sock[Server!Top.c] = "closed")
  PROVE  ServerInv'
<1> DEFINE n == Len(stack)
           c == Server!Top.c
<1>1. /\ n \in Nat /\ n > 0
      /\ Server!Top = stack[n] /\ Server!Top \in Frame
      /\ Server!Pop \in Seq(Frame) /\ Len(Server!Pop) = n - 1
      /\ \A i \in 1 .. n - 1 : Server!Pop[i] = stack[i]
      /\ Types
  BY AtTop DEF ServerInv
<1>2. /\ Server!Top.in \in {"request", "body"}
      /\ dead' = [dead EXCEPT ![c] = @ \/ r]
      /\ sock' = IF r THEN Server!Ended(c) ELSE sock
      /\ stack' = Server!Pop
      /\ UNCHANGED <<destroyed, clients, eof, holders, resWritable, answered>>
  <2>1. ~(r /\ sock[Server!Top.c] = "closed")
    OBVIOUS
  <2> QED
    BY <2>1, Zenon DEF Server!Requested, Server!Parsers
<1>3. c \in Conns
  BY <1>1, <1>2 DEF Frame
<1> HIDE DEF n, c
<1>4. PICK t : t = Server!Ended(c)
  OBVIOUS
<1>5. /\ sock' \in [Conns -> {"none", "open", "ending", "ended", "closed"}]
      /\ \A e \in Conns : /\ Open(sock', e) <=> Open(sock, e)
                          /\ sock'[e] = "closed" <=> sock[e] = "closed"
                          /\ sock'[e] \in {"ending", "ended"} /\ (e # c \/ ~r)
                                => sock[e] \in {"ending", "ended"}
  <2>1. CASE r
    BY <1>1, <1>2, <1>3, <1>4, <2>1, EndedKeeps
  <2>2. CASE ~r
    <3>1. sock' = sock
      BY <1>2, <2>2
    <3> QED
      BY <1>1, <3>1 DEF Types
  <2> QED
    BY <2>1, <2>2
<1>6. /\ dead' \in [Conns -> BOOLEAN] /\ (r => dead'[c])
      /\ \A e \in Conns : dead[e] => dead'[e]
  BY <1>1, <1>2, <1>3 DEF Types
<1>7. Types'
  BY <1>1, <1>2, <1>5, <1>6 DEF Types
<1>8. Held'
  BY <1>2, <1>5 DEF ServerInv, Held
<1>9. Taken'
  BY <1>2, <1>5, <1>6 DEF ServerInv, Taken
<1>10. Frames(n - 1, Server!Pop, destroyed, sock, holders)
  <2>1. Frames(n, stack, destroyed, sock, holders)
    BY DEF ServerInv, n
  <2>2. stack[n].in \in {"request", "body"}
    BY <1>1, <1>2
  <2> QED
    BY <1>1, <2>1, <2>2, Popped
<1>11. Frames(n - 1, stack', destroyed', sock', holders')
  <2> SUFFICES ASSUME NEW g, NEW s, g = Server!Pop, s = sock'
               PROVE  Frames(n - 1, g, destroyed, s, holders)
    BY <1>2
  <2>1. n - 1 \in Nat
    BY <1>1
  <2>2. /\ \A e \in Conns : /\ Open(s, e) <=> Open(sock, e)
                            /\ s[e] = "closed" <=> sock[e] = "closed"
        /\ Frames(n - 1, g, destroyed, sock, holders)
    BY <1>5, <1>10
  <2> QED
    BY <2>1, <2>2, FramesKept
<1>12. Covers(n - 1, stack', sock', {})
  <2>1. \A i \in 1 .. n - 1 : i \in 1 .. n /\ stack'[i] = stack[i]
    BY <1>1, <1>2
  <2> QED
    BY <1>5, <2>1 DEF Covers, ServerInv, n
<1>13. Listed(clients', destroyed', sock')
  BY <1>2, <1>5 DEF Listed, ServerInv
<1> QED
  BY <1>1, <1>2, <1>7, <1>8, <1>9, <1>11, <1>12, <1>13 DEF ServerInv

\* destroy() of a socket is done.
LEMMA ClosedKeeps ==
  ASSUME ServerInv, stack # <<>>, Server!Closed
  PROVE  ServerInv'
<1> DEFINE n == Len(stack)
           c == Server!Top.c
<1>1. /\ n \in Nat /\ n > 0
      /\ Server!Top = stack[n] /\ Server!Top \in Frame
      /\ Server!Pop \in Seq(Frame) /\ Len(Server!Pop) = n - 1
      /\ \A i \in 1 .. n - 1 : Server!Pop[i] = stack[i]
      /\ Types
  BY AtTop DEF ServerInv
<1>2. /\ Server!Top.in = "closing"
      /\ holders' = [holders EXCEPT ![c] = @ \ {"destroyEvent"}]
      /\ stack' = Server!Pop
      /\ UNCHANGED <<destroyed, clients, sock, eof, dead, resWritable, answered>>
  BY DEF Server!Closed
<1>3. c \in Conns /\ stack[n].in = "closing" /\ stack[n].c = c
  BY <1>1, <1>2 DEF Frame
<1> HIDE DEF n, c
<1>4. Frames(n, stack, destroyed, sock, holders)
  BY DEF ServerInv, n
<1>5. sock[c] = "closed"
  <2>1. n \in 1 .. n
    BY <1>1
  <2> QED
    BY <1>3, <1>4, <2>1 DEF Frames
<1>6. \A e \in Conns : holders'[e] = IF e = c THEN holders[e] \ {"destroyEvent"} ELSE holders[e]
  BY <1>1, <1>2, <1>3 DEF Types
<1>7. Types'
  BY <1>1, <1>2 DEF Types
<1>8. Held' /\ Taken'
  BY <1>2, <1>5, <1>6 DEF ServerInv, Held, Taken, Open
<1>9. Frames(n - 1, stack', destroyed', sock', holders')
  <2> SUFFICES ASSUME NEW g, NEW h, g = Server!Pop, h = holders'
               PROVE  Frames(n - 1, g, destroyed, sock, h)
    BY <1>2
  <2>1. /\ \A i \in 1 .. n - 1 : g[i] = stack[i]
        /\ \A e \in Conns : h[e] = IF e = stack[n].c THEN holders[e] \ {"destroyEvent"}
                                   ELSE holders[e]
    BY <1>1, <1>3, <1>6
  <2> QED
    BY <1>1, <1>3, <1>4, <2>1, Popped
<1>10. Covers(n - 1, stack', sock', {})
  <2>1. \A i \in 1 .. n - 1 : i \in 1 .. n /\ stack'[i] = stack[i]
    BY <1>1, <1>2
  <2> QED
    BY <1>2, <2>1 DEF Covers, ServerInv, n
<1>11. Listed(clients', destroyed', sock')
  BY <1>2 DEF Listed, ServerInv
<1> QED
  BY <1>1, <1>2, <1>7, <1>8, <1>9, <1>10, <1>11 DEF ServerInv

\* server::_destroy() starts its walk.
LEMMA DestroyServerKeeps ==
  ASSUME MessagesKept, ServerInv, Server!DestroyServer
  PROVE  ServerInv'
<1> DEFINE z == [in |-> "walk", left |-> clients]
           n == Len(stack)
<1>1. /\ destroyed = "no" /\ destroyed' = "walking"
      /\ \A c \in Conns : Server!Careful(c)
      /\ stack' = Append(stack, z)
      /\ UNCHANGED <<clients, sock, eof, dead, holders, resWritable, answered>>
  BY DEF Server!DestroyServer, Server!connVars
<1>2. /\ Types /\ n \in Nat /\ DOMAIN stack = 1 .. n /\ stack \in Seq(Frame)
      /\ clients \in Seq(Conns) /\ Server!IsInjective(clients)
      /\ \A c \in Conns : Open(sock, c) => \E i \in DOMAIN clients : clients[i] = c
      /\ Frames(n, stack, destroyed, sock, holders)
  BY <1>1, LenProperties DEF ServerInv, Types, Listed
<1>3. z \in Frame /\ z.in = "walk" /\ z.left = clients
  BY <1>2 DEF Frame
<1> HIDE DEF z
<1>4. /\ stack' \in Seq(Frame) /\ Len(stack') = n + 1 /\ stack'[n + 1] = z
      /\ \A i \in 1 .. n : stack'[i] = stack[i]
  BY <1>1, <1>2, <1>3, AppendProperties
<1> HIDE DEF n
<1>5. \A i \in 1 .. n : stack[i].in \in {"request", "body"} => "user" \in holders[stack[i].c]
  <2> SUFFICES ASSUME NEW i \in 1 .. n, stack[i].in \in {"request", "body"}
               PROVE  "user" \in holders[stack[i].c]
    OBVIOUS
  <2>1. stack[i].c \in Conns
    BY <1>2 DEF Frames, Frame
  <2>2. Server!InParser(stack[i].c)
    BY <1>2 DEF Server!InParser, Server!Parsers
  <2> QED
    BY <1>1, <2>1, <2>2 DEF Server!Careful
<1>6. Frames(n + 1, stack', destroyed', sock', holders')
  <2> SUFFICES ASSUME NEW g, g = stack' PROVE Frames(n + 1, g, "walking", sock, holders)
    BY <1>1
  <2>1. /\ g[n + 1] \in Frame /\ g[n + 1].in = "walk"
        /\ \A i \in 1 .. n : g[i] = stack[i]
    BY <1>3, <1>4
  <2> QED
    BY <1>1, <1>2, <1>5, <2>1, CallPushed
<1>7. Covers(n + 1, stack', sock', {})
  <2>1. \A i \in 1 .. n : stack[i].in # "walk"
    BY <1>1, <1>2 DEF Frames
  <2>2. \A i \in 1 .. n + 1 : i \in 1 .. n \/ i = n + 1
    BY <1>2
  <2>3. ASSUME NEW i \in 1 .. n + 1, stack'[i].in = "walk"
        PROVE  stack'[i].left = clients
    BY <1>3, <1>4, <2>1, <2>2, <2>3
  <2> QED
    BY <1>1, <1>2, <2>3 DEF Covers
<1>8. Types' /\ Held' /\ Taken'
  BY <1>1, <1>4 DEF ServerInv, Types, Held, Taken, Open
<1>9. Listed(clients', destroyed', sock')
  BY <1>1, <1>2 DEF Listed
<1> QED
  BY <1>4, <1>6, <1>7, <1>8, <1>9 DEF ServerInv

LEMMA TailCovers ==
  ASSUME NEW s \in Seq(Conns), s # <<>>, NEW c \in Conns, c # Head(s),
         \E k \in DOMAIN s : s[k] = c
  PROVE  \E k \in DOMAIN Tail(s) : Tail(s)[k] = c
<1>1. /\ Len(s) \in Nat /\ DOMAIN s = 1 .. Len(s)
  BY LenProperties
<1>2. /\ Tail(s) \in Seq(Conns) /\ Len(Tail(s)) = Len(s) - 1 /\ Head(s) = s[1]
      /\ \A i \in 1 .. Len(Tail(s)) : Tail(s)[i] = s[i + 1]
  BY HeadTailProperties
<1>3. DOMAIN Tail(s) = 1 .. Len(s) - 1
  BY <1>2, LenProperties
<1>4. PICK k \in 1 .. Len(s) : s[k] = c
  BY <1>1
<1>5. k # 1
  BY <1>2, <1>4
<1>6. k - 1 \in 1 .. Len(s) - 1 /\ (k - 1) + 1 = k
  BY <1>1, <1>4, <1>5
<1> QED
  BY <1>2, <1>3, <1>4, <1>6

\* The walk destroys the next connection unless a listener did.
LEMMA WalkKeeps ==
  ASSUME ServerInv, stack # <<>>, Server!Walk
  PROVE  ServerInv'
<1> DEFINE n == Len(stack)
           top == Server!Top
           c == Head(top.left)
           w == [top EXCEPT !.left = Tail(@)]
           frames == Append(Server!Pop, w)
<1>1. /\ n \in Nat /\ n > 0
      /\ Server!Top = stack[n] /\ Server!Top \in Frame
      /\ Server!Pop \in Seq(Frame) /\ Len(Server!Pop) = n - 1
      /\ \A i \in 1 .. n - 1 : Server!Pop[i] = stack[i]
      /\ Types
  BY AtTop DEF ServerInv
<1>2. /\ top.in = "walk" /\ top.left # <<>>
      /\ \/ Open(sock, c) /\ Server!Close(c, frames)
         \/ /\ ~Open(sock, c) /\ stack' = frames
            /\ UNCHANGED <<destroyed, clients, sock, eof, dead, holders, resWritable, answered>>
  BY DEF Server!Walk, Server!Connected, Open, Server!connVars
<1>3. top.left \in Seq(Conns) /\ top = stack[n]
  BY <1>1, <1>2 DEF Frame
<1>4. c \in Conns /\ Tail(top.left) \in Seq(Conns)
  BY <1>2, <1>3, HeadTailProperties
<1>5. top \in [in : {"walk"}, left : Seq(Conns)]
  BY <1>1, <1>2 DEF Frame
<1>6. w \in Frame /\ w.in = "walk" /\ w.left = Tail(top.left)
  BY <1>4, <1>5 DEF Frame
<1> HIDE DEF top, c, w
<1>7. /\ frames \in Seq(Frame) /\ Len(frames) = n /\ frames[n] = w
      /\ \A i \in 1 .. n - 1 : frames[i] = stack[i]
  <2>1. /\ frames \in Seq(Frame) /\ Len(frames) = Len(Server!Pop) + 1
        /\ \A i \in 1 .. Len(Server!Pop) : frames[i] = Server!Pop[i]
        /\ frames[Len(Server!Pop) + 1] = w
    BY <1>1, <1>6, AppendProperties
  <2>2. Len(Server!Pop) + 1 = n
    BY <1>1
  <2> HIDE DEF frames, n
  <2> QED
    BY <1>1, <2>1, <2>2
<1> HIDE DEF n, frames
<1>8. Frames(n, stack, destroyed, sock, holders) /\ Covers(n, stack, sock, {})
  BY DEF ServerInv, n
<1>9. Frames(n, frames, destroyed, sock, holders)
  <2>1. frames[n] \in Frame /\ frames[n].in = "walk" /\ stack[n].in = "walk"
    BY <1>2, <1>3, <1>6, <1>7
  <2> QED
    BY <1>1, <1>7, <1>8, <2>1, WalkAdvanced
<1>10. n \in 1 .. n /\ \A i \in 1 .. n : i \in 1 .. n - 1 \/ i = n
  BY <1>1
<1>11. ASSUME NEW e \in Conns, Open(sock, e), e # c, NEW i \in 1 .. n, frames[i].in = "walk"
       PROVE  \E k \in DOMAIN frames[i].left : frames[i].left[k] = e
  <2>1. CASE i \in 1 .. n - 1
    BY <1>7, <1>8, <1>11, <2>1 DEF Covers
  <2>2. CASE i = n
    <3>1. \E k \in DOMAIN top.left : top.left[k] = e
      <4>1. stack[n].in = "walk" /\ n \in 1 .. n /\ e \in Conns \ {} /\ top = stack[n]
        BY <1>2, <1>3, <1>10
      <4> QED
        BY <1>8, <1>11, <4>1 DEF Covers
    <3>2. \E k \in DOMAIN Tail(top.left) : Tail(top.left)[k] = e
      BY <1>2, <1>3, <1>11, <3>1, TailCovers DEF c
    <3> QED
      BY <1>6, <1>7, <2>2, <3>2
  <2> QED
    BY <1>10, <2>1, <2>2
<1>12. destroyed = "walking"
  BY <1>2, <1>3, <1>8, <1>10 DEF Frames
<1>13. CASE Open(sock, c) /\ Server!Close(c, frames)
  <2>1. Covers(Len(frames), frames, sock, {c})
    BY <1>7, <1>11 DEF Covers
  <2>2. Frames(Len(frames), frames, destroyed, sock, holders)
    BY <1>7, <1>9
  <2>3. \A i \in 1 .. Len(frames) : frames[i].in \in {"request", "body"} /\ frames[i].c = c
                                      => "user" \in holders[c]
    BY <1>12, <2>2 DEF Frames
  <2>4. /\ sock' = [sock EXCEPT ![c] = "closed"]
        /\ holders' = [holders EXCEPT ![c] = @ \ {"headersComplete"}]
        /\ clients' = IF destroyed = "no" THEN Server!Erased(c) ELSE clients
        /\ stack' = Append(frames, [in |-> "closing", c |-> c])
        /\ UNCHANGED <<destroyed, resWritable, answered, dead>>
        /\ eof' = eof
    BY <1>13 DEF Server!Close
  <2>5. eof' \in [Conns -> BOOLEAN] /\ \A e \in Conns : eof[e] => eof'[e]
    BY <1>1, <2>4 DEF Types
  <2> QED
    BY <1>4, <1>7, <1>13, <2>1, <2>2, <2>3, <2>4, <2>5, CloseKeeps
<1>14. CASE /\ ~Open(sock, c) /\ stack' = frames
            /\ UNCHANGED <<destroyed, clients, sock, eof, dead, holders, resWritable, answered>>
  <2>1. Len(stack') = n /\ Frames(n, stack', destroyed', sock', holders')
    BY <1>7, <1>9, <1>14
  <2>2. Covers(n, frames, sock, {})
    BY <1>11, <1>14 DEF Covers
  <2>3. Covers(n, stack', sock', {})
    BY <1>14, <2>2
  <2>4. Types' /\ Held' /\ Taken' /\ Listed(clients', destroyed', sock')
    BY <1>7, <1>14 DEF ServerInv, Types, Held, Taken, Listed, Open
  <2> QED
    BY <2>1, <2>3, <2>4 DEF ServerInv
<1> QED
  BY <1>2, <1>13, <1>14

LEMMA WalkedKeeps ==
  ASSUME ServerInv, stack # <<>>, Server!Walked
  PROVE  ServerInv'
<1> DEFINE n == Len(stack)
<1>1. /\ n \in Nat /\ n > 0
      /\ Server!Top = stack[n] /\ Server!Top \in Frame
      /\ Server!Pop \in Seq(Frame) /\ Len(Server!Pop) = n - 1
      /\ \A i \in 1 .. n - 1 : Server!Pop[i] = stack[i]
      /\ Types
  BY AtTop DEF ServerInv
<1>2. /\ stack[n].in = "walk" /\ stack[n].left = <<>>
      /\ destroyed' = "yes" /\ clients' = <<>> /\ stack' = Server!Pop
      /\ UNCHANGED <<sock, eof, dead, holders, resWritable, answered>>
  BY <1>1 DEF Server!Walked, Server!connVars
<1> HIDE DEF n
<1>3. Frames(n, stack, destroyed, sock, holders) /\ Covers(n, stack, sock, {})
  BY DEF ServerInv, n
<1>4. n \in 1 .. n /\ \A i \in 1 .. n - 1 : i \in 1 .. n /\ i # n
  BY <1>1
<1>5. \A c \in Conns : ~Open(sock, c)
  <2>1. DOMAIN stack[n].left = {}
    BY <1>2
  <2>2. \A c \in Conns \ {} : Open(sock, c) => \E k \in DOMAIN stack[n].left : stack[n].left[k] = c
    BY <1>2, <1>3, <1>4 DEF Covers
  <2> QED
    BY <2>1, <2>2
<1>6. Frames(n - 1, stack', destroyed', sock', holders')
  <2> SUFFICES ASSUME NEW g, g = Server!Pop PROVE Frames(n - 1, g, "yes", sock, holders)
    BY <1>2
  <2> QED
    BY <1>1, <1>2, <1>3, Popped
<1>7. Covers(n - 1, stack', sock', {})
  BY <1>2, <1>5 DEF Covers
<1>8. Types' /\ Held' /\ Taken'
  BY <1>1, <1>2 DEF ServerInv, Types, Held, Taken, Open
<1>9. Listed(clients', destroyed', sock')
  <2>1. <<>> \in Seq(Conns) /\ DOMAIN <<>> = {}
    OBVIOUS
  <2>2. Server!IsInjective(<<>>)
    BY <2>1 DEF Server!IsInjective
  <2> QED
    BY <1>2, <1>5, <2>1, <2>2 DEF Listed
<1> QED
  BY <1>1, <1>2, <1>6, <1>7, <1>8, <1>9 DEF ServerInv

\* What the invariant says of a server
LEMMA ServerInvSafe ==
  ASSUME ServerInv
  PROVE  /\ Server!TypeOK /\ Server!ClientsExact /\ Server!NoUseAfterFree
         /\ Server!NoLeak /\ Server!NoThrowInParser
<1> DEFINE n == Len(stack)
<1>1. /\ Types /\ Held /\ Taken /\ Listed(clients, destroyed, sock)
      /\ Frames(n, stack, destroyed, sock, holders)
      /\ n \in Nat /\ DOMAIN stack = 1 .. n
  BY LenProperties DEF ServerInv, Types
<1> HIDE DEF n
<1>2. \A i \in 1 .. n : stack[i].in \in {"request", "body", "closing"} => stack[i].c \in Conns
  BY <1>1 DEF Frames, Frame
<1>3. Server!TypeOK
  <2>1. \A i \in 1 .. n : stack[i].in # "crashed"
    BY <1>1 DEF Frames, Frame
  <2> QED
    BY <1>1, <2>1 DEF Server!TypeOK, Types, Listed, Frames, Server!Parsers
<1>4. Server!ClientsExact
  <2>1. clients \in Seq(Conns) /\ \A i \in DOMAIN clients : clients[i] \in Conns
    BY <1>1, LenProperties, ElementOfSeq DEF Listed
  <2>2. ASSUME destroyed = "no"
        PROVE  Server!ToSet(clients) = {c \in Conns : Server!Connected(c)}
    BY <1>1, <2>1, <2>2 DEF Listed, Server!ToSet, Server!Connected, Open
  <2> QED
    BY <1>1, <2>2 DEF Server!ClientsExact, Listed, Server!Connected, Open
<1>5. Server!NoUseAfterFree
  <2> SUFFICES ASSUME NEW i \in 1 .. n, stack[i].in \in {"request", "body", "closing"}
               PROVE  holders[stack[i].c] # {}
    BY <1>1 DEF Server!NoUseAfterFree, Server!Parsers
  <2> QED
    BY <1>1, <1>2 DEF Frames, Held
<1>6. Server!NoLeak
  <2> SUFFICES ASSUME NEW c \in Conns, sock[c] = "closed",
                      [in |-> "closing", c |-> c] \notin Server!ToSet(stack)
               PROVE  holders[c] \subseteq {"user"}
    BY DEF Server!NoLeak
  <2>1. "destroyEvent" \notin holders[c]
    <3> SUFFICES ASSUME "destroyEvent" \in holders[c] PROVE FALSE
      OBVIOUS
    <3>1. PICK i \in 1 .. n : stack[i].in = "closing" /\ stack[i].c = c
      BY <1>1 DEF Frames
    <3>2. stack[i] \in Frame
      BY <1>1 DEF Frames
    <3>3. stack[i] = [in |-> "closing", c |-> c]
      BY <3>1, <3>2 DEF Frame
    <3> QED
      BY <1>1, <3>3 DEF Server!ToSet
  <2> QED
    BY <1>1, <2>1 DEF Held
<1>7. Server!NoThrowInParser
  BY <1>1 DEF Server!NoThrowInParser, Server!Parses, Server!Connected, Taken
<1> QED
  BY <1>3, <1>4, <1>5, <1>6, <1>7

\* What is left of a program that dereferenced a null pointer inside http_parser
CrashInv ==
  /\ Server!Crashed
  /\ Server!TypeOK /\ Server!ClientsExact /\ Server!NoUseAfterFree
  /\ Server!NoLeak /\ Server!NoThrowInParser

\* The parser refuses the rest of a message whose connection was destroyed.
LEMMA CrashStep ==
  ASSUME ServerInv, stack # <<>>, Server!Requested(TRUE), sock[Server!Top.c] = "closed"
  PROVE  CrashInv'
<1> DEFINE n == Len(stack)
           z == [Server!Top EXCEPT !.in = "crashed"]
<1>1. /\ n \in Nat /\ n > 0 /\ DOMAIN stack = 1 .. n
      /\ Server!Top = stack[n] /\ Server!Top \in Frame
      /\ Server!Pop \in Seq(Frame) /\ Len(Server!Pop) = n - 1
      /\ Frames(n, stack, destroyed, sock, holders)
  BY AtTop DEF ServerInv
<1>2. /\ Server!Top.in \in {"request", "body"}
      /\ stack' = Append(Server!Pop, z)
      /\ UNCHANGED <<destroyed, clients, sock, eof, dead, holders, resWritable, answered>>
  BY DEF Server!Requested, Server!Parsers
<1>3. n = 1
  BY <1>1, <1>2 DEF Frames
<1>4. z.in = "crashed"
  BY <1>1, <1>2 DEF Frame
<1> HIDE DEF n, z
<1>5. Server!Pop = <<>>
  BY <1>1, <1>3, EmptySeq
<1>6. stack' = <<z>>
  BY <1>2, <1>5
<1>7. /\ stack' # <<>> /\ Len(stack') = 1 /\ DOMAIN stack' = 1 .. 1 /\ stack'[1] = z
      /\ Server!Top' = z
  BY <1>6 DEF Server!Top, Server!Last
<1>8. /\ Server!TypeOK /\ Server!ClientsExact /\ Server!NoLeak /\ Server!NoThrowInParser
      /\ Types
  BY ServerInvSafe DEF ServerInv
<1>9. Server!Crashed'
  BY <1>4, <1>7 DEF Server!Crashed, Server!Idle
<1>10. Server!TypeOK'
  <2>1. destroyed # "walking"
    BY <1>1, <1>2, <1>3 DEF Frames
  <2> QED
    BY <1>2, <1>4, <1>7, <1>8, <2>1 DEF Server!TypeOK
<1>11. Server!ClientsExact'
  BY <1>2, <1>8 DEF Server!ClientsExact, Server!Connected
<1>12. Server!NoUseAfterFree'
  BY <1>4, <1>7 DEF Server!NoUseAfterFree, Server!Parsers
<1>13. Server!NoLeak'
  <2> SUFFICES ASSUME NEW c \in Conns, sock[c] = "closed"
               PROVE  holders[c] \subseteq {"user"}
    BY <1>2 DEF Server!NoLeak
  <2>1. [in |-> "closing", c |-> c] \notin Server!ToSet(stack)
    BY <1>1, <1>2, <1>3 DEF Server!ToSet
  <2> QED
    BY <1>8, <2>1 DEF Server!NoLeak
<1>14. Server!NoThrowInParser'
  BY <1>2, <1>8 DEF Server!NoThrowInParser, Server!Parses, Server!Connected
<1> QED
  BY <1>9, <1>10, <1>11, <1>12, <1>13, <1>14 DEF CrashInv

\* Nothing happens any more.
LEMMA CrashStays ==
  ASSUME CrashInv, [Server!Next]_(Server!vars)
  PROVE  UNCHANGED Server!vars
<1>1. ~Server!Idle /\ Server!Top.in = "crashed" /\ ~Server!MayCall
  BY DEF CrashInv, Server!Crashed, Server!MayCall
<1>2. ~Server!Return
  BY <1>1 DEF Server!Return, Server!Closed, Server!Walk, Server!Walked, Server!Requested,
              Server!Parsers
<1> QED
  BY <1>1, <1>2 DEF Server!Next, Server!Accept, Server!Reject, Server!Request, Server!Body,
     Server!ParseError, Server!Eof, Server!ShutdownDone, Server!ReadError, Server!Keep,
     Server!Drop, Server!Answer, Server!Destroy, Server!DestroyServer

LEMMA ServerStep ==
  ASSUME MessagesKept, ServerInv, [Server!Next]_(Server!vars)
  PROVE  ServerInv' \/ CrashInv'
<1>1. CASE UNCHANGED Server!vars
  BY <1>1 DEF Server!vars, Server!connVars, ServerInv, Types, Held, Taken, Frames, Covers,
              Listed, Open
<1>2. ASSUME NEW c \in Conns, Server!Accept(c) PROVE ServerInv'
  BY <1>2, AcceptKeeps
<1>3. ASSUME NEW c \in Conns, Server!Reject(c) PROVE ServerInv'
  BY <1>3, AnswerKeeps DEF Server!Reject
<1>4. ASSUME NEW c \in Conns, Server!Request(c) \/ Server!Body(c) PROVE ServerInv'
  BY <1>4, RequestKeeps
<1>5. ASSUME NEW c \in Conns, Server!ParseError(c) PROVE ServerInv'
  BY <1>5, EndKeeps DEF Server!ParseError
<1>6. ASSUME NEW c \in Conns, Server!Eof(c) PROVE ServerInv'
  BY <1>6, EofKeeps
<1>7. ASSUME NEW c \in Conns, Server!ShutdownDone(c) PROVE ServerInv'
  BY <1>7, ShutdownKeeps
<1>8. ASSUME NEW c \in Conns, Server!ReadError(c) PROVE ServerInv'
  <2>1. Server!Idle /\ Open(sock, c) /\ Server!Close(c, stack)
    BY <1>8 DEF Server!ReadError, Server!Connected, Open
  <2> QED
    BY <2>1, AtRest, CloseStep
<1>9. ASSUME NEW c \in Conns, Server!Keep(c) \/ Server!Drop(c) PROVE ServerInv'
  <2>1. CASE Server!Keep(c)
    BY <2>1, HoldKeeps DEF Server!Keep
  <2>2. CASE Server!Drop(c)
    BY <2>2, HoldKeeps DEF Server!Drop
  <2> QED
    BY <1>9, <2>1, <2>2
<1>10. ASSUME NEW c \in Conns, Server!Answer(c) PROVE ServerInv'
  BY <1>10, AnswerKeeps DEF Server!Answer
<1>11. ASSUME NEW c \in Conns, Server!Destroy(c) PROVE ServerInv'
  BY <1>11, CloseStep DEF Server!Destroy, Server!Connected, Open
<1>12. CASE Server!DestroyServer
  BY <1>12, DestroyServerKeeps
<1>13. CASE Server!Return
  BY <1>13, ClosedKeeps, WalkKeeps, WalkedKeeps, RequestedKeeps, CrashStep
     DEF Server!Return, Server!Idle
<1> QED
  BY <1>1, <1>2, <1>3, <1>4, <1>5, <1>6, <1>7, <1>8, <1>9, <1>10, <1>11, <1>12, <1>13
     DEF Server!Next

LEMMA ServerStart ==
  ASSUME Server!Init
  PROVE  ServerInv
<1>1. /\ stack = <<>> /\ clients = <<>> /\ destroyed = "no"
      /\ Len(stack) = 0 /\ DOMAIN clients = {} /\ stack \in Seq(Frame)
      /\ clients \in Seq(Conns)
  BY DEF Server!Init
<1>2. \A c \in Conns : sock[c] = "none" /\ ~Open(sock, c)
  BY DEF Server!Init, Open
<1>3. Types /\ Held /\ Taken
  BY <1>1, <1>2 DEF Server!Init, Types, Held, Taken
<1>4. Frames(0, stack, destroyed, sock, holders) /\ Covers(0, stack, sock, {})
  BY <1>1, <1>2 DEF Frames, Covers
<1>5. Listed(clients, destroyed, sock)
  BY <1>1, <1>2 DEF Listed, Server!IsInjective
<1> QED
  BY <1>1, <1>3, <1>4, <1>5 DEF ServerInv

LEMMA WalkStays ==
  ASSUME ServerInv, [Server!Next]_(Server!vars)
  PROVE  destroyed = "walking" /\ destroyed' = "walking" => clients' = clients
<1> SUFFICES ASSUME destroyed = "walking", destroyed' = "walking" PROVE clients' = clients
  OBVIOUS
<1>1. CASE Server!Idle
  BY <1>1, AtRest
<1>2. CASE UNCHANGED Server!vars
  BY <1>2 DEF Server!vars
<1>3. CASE ~Server!Idle /\ Server!Next
  BY <1>3 DEF Server!Next, Server!Return, Server!Accept, Server!Reject, Server!Request,
     Server!Body, Server!ParseError, Server!Eof, Server!ShutdownDone, Server!ReadError,
     Server!Keep, Server!Drop, Server!Answer, Server!Destroy, Server!DestroyServer, Server!Closed,
     Server!Walk, Server!Walked, Server!Requested, Server!Close
<1> QED
  BY <1>1, <1>2, <1>3

\* The program follows its rule: _clients has the open connections once each,
\* whoever destroys them; what http_parser and the listeners of destroy_event run
\* in is there until they return, and nothing is kept afterwards; an answer of the
\* server itself never throws; and nothing erases from the list the server walks
\* over (server.cc:100-197).  The premise MessagesKept is needed: without it the
\* request is deleted under http_parser.
THEOREM ServerIsSafe == MessagesKept /\ Server!Spec => ServerSafe
<1> SUFFICES ASSUME MessagesKept PROVE Server!Spec => ServerSafe
  OBVIOUS
<1> DEFINE Inv == ServerInv \/ CrashInv
<1>1. Server!Init => Inv
  BY ServerStart
<1>2. Inv /\ [Server!Next]_(Server!vars) => Inv'
  <2>1. CASE ServerInv
    BY <2>1, ServerStep
  <2>2. CASE CrashInv
    <3> SUFFICES ASSUME [Server!Next]_(Server!vars) PROVE CrashInv'
      OBVIOUS
    <3>1. UNCHANGED Server!vars
      BY <2>2, CrashStays
    <3> QED
      BY <2>2, <3>1 DEF Server!vars, Server!connVars, CrashInv, Server!Crashed, Server!Idle,
         Server!Top, Server!TypeOK, Server!ClientsExact, Server!Connected,
         Server!NoUseAfterFree, Server!NoLeak, Server!NoThrowInParser, Server!Parses
  <2> QED
    BY <2>1, <2>2
<1>3. Inv => /\ Server!TypeOK /\ Server!ClientsExact /\ Server!NoUseAfterFree
             /\ Server!NoLeak /\ Server!NoThrowInParser
  BY ServerInvSafe DEF CrashInv
<1>4. Inv /\ [Server!Next]_(Server!vars)
        => [destroyed = "walking" /\ destroyed' = "walking" => clients' = clients]_(Server!vars)
  <2>1. CASE ServerInv
    BY <2>1, WalkStays
  <2>2. CASE CrashInv
    BY <2>2, CrashStays DEF Server!vars
  <2> QED
    BY <2>1, <2>2
<1> HIDE DEF Inv
<1> QED
  BY <1>1, <1>2, <1>3, <1>4, PTL
     DEF Server!Spec, ServerSafe, Server!ServerSafe, Server!WalkUndisturbed

-----------------------------------------------------------------------------
(* Datagrams: what moving them between sequences does to their order *)

LEMMA IdsAppended ==
  ASSUME NEW s \in Seq(Udp!Datagram), NEW d \in Udp!Datagram
  PROVE  /\ Udp!Ids(Append(s, d))
              = Udp!Ids(s) \cup (IF d.size > 0 THEN {d.id} ELSE {})
         /\ Udp!Ascends(s) /\ (d.size > 0 => \A a \in Udp!Ids(s) : a < d.id)
              => Udp!Ascends(Append(s, d))
<1> DEFINE t == Append(s, d)
<1>1. /\ DOMAIN t = 1 .. Len(s) + 1 /\ DOMAIN s = 1 .. Len(s) /\ Len(s) \in Nat
      /\ \A i \in 1 .. Len(s) : t[i] = s[i]
      /\ t[Len(s) + 1] = d
  BY AppendProperties, LenProperties
<1> HIDE DEF t
<1>2. Udp!Full(t) = Udp!Full(s) \cup (IF d.size > 0 THEN {Len(s) + 1} ELSE {})
  BY <1>1 DEF Udp!Full
<1>3. Udp!Full(s) \subseteq 1 .. Len(s)
  BY <1>1 DEF Udp!Full
<1>4. Udp!Ids(t) = Udp!Ids(s) \cup (IF d.size > 0 THEN {d.id} ELSE {})
  <2>1. \A i \in Udp!Full(s) : t[i] = s[i]
    BY <1>1, <1>3
  <2>2. CASE d.size > 0
    BY <1>1, <1>2, <2>1, <2>2 DEF Udp!Ids
  <2>3. CASE ~(d.size > 0)
    BY <1>1, <1>2, <2>1, <2>3 DEF Udp!Ids
  <2> QED
    BY <2>2, <2>3
<1>5. ASSUME Udp!Ascends(s), d.size > 0 => \A a \in Udp!Ids(s) : a < d.id
      PROVE  Udp!Ascends(t)
  <2> SUFFICES ASSUME NEW i \in Udp!Full(t), NEW j \in Udp!Full(t), i < j
               PROVE  t[i].id < t[j].id
    BY DEF Udp!Ascends
  <2>1. i \in 1 .. Len(s) + 1 /\ j \in 1 .. Len(s) + 1
    BY <1>1, <1>2, <1>3
  <2>2. i \in Udp!Full(s) /\ t[i] = s[i] /\ s[i].id \in Udp!Ids(s)
    BY <1>1, <1>2, <2>1 DEF Udp!Ids
  <2>3. CASE j \in Udp!Full(s)
    BY <1>1, <1>3, <1>5, <2>2, <2>3 DEF Udp!Ascends
  <2>4. CASE j = Len(s) + 1 /\ d.size > 0
    BY <1>1, <1>5, <2>2, <2>4
  <2> QED
    BY <1>2, <2>3, <2>4
<1> QED
  BY <1>4, <1>5 DEF t

\* Where an append ends up in a concatenation
LEMMA ConcatAppend ==
  ASSUME NEW S, NEW w \in Seq(S), NEW q \in Seq(S), NEW d \in S
  PROVE  w \o Append(q, d) = Append(w \o q, d)
<1>1. Append(q, d) = q \o <<d>>
  BY AppendIsConcat
<1>2. (w \o q) \o <<d>> = w \o (q \o <<d>>)
  BY ConcatAssociative
<1>3. Append(w \o q, d) = (w \o q) \o <<d>>
  BY ConcatProperties, AppendIsConcat
<1> QED
  BY <1>1, <1>2, <1>3

\* The kernel takes the oldest of the queue.
LEMMA HeadMoved ==
  ASSUME NEW S, NEW w \in Seq(S), NEW q \in Seq(S), q # <<>>
  PROVE  Append(w, Head(q)) \o Tail(q) = w \o q
<1> DEFINE h == <<Head(q)>>
           r == h \o Tail(q)
<1>1. /\ Head(q) \in S /\ Tail(q) \in Seq(S) /\ Len(Tail(q)) = Len(q) - 1
      /\ \A i \in 1 .. Len(q) - 1 : Tail(q)[i] = q[i + 1]
      /\ Head(q) = q[1] /\ Len(q) \in Nat \ {0}
  BY HeadTailProperties, EmptySeq, LenProperties
<1>2. h \in Seq(S) /\ Len(h) = 1 /\ h[1] = q[1]
  BY <1>1
<1> HIDE DEF h
<1>3. r = q
  <2>1. /\ r \in Seq(S) /\ Len(r) = Len(h) + Len(Tail(q))
        /\ \A i \in 1 .. Len(h) + Len(Tail(q)) :
              r[i] = IF i <= Len(h) THEN h[i] ELSE Tail(q)[i - Len(h)]
    BY <1>1, <1>2, ConcatProperties
  <2> HIDE DEF r
  <2>2. Len(r) = Len(q) /\ \A i \in 1 .. Len(q) : r[i] = q[i]
    BY <1>1, <1>2, <2>1
  <2> QED
    BY <2>1, <2>2, SeqEqual
<1>4. Append(w, Head(q)) = w \o h
  BY <1>1, AppendIsConcat DEF h
<1>5. (w \o h) \o Tail(q) = w \o r
  BY <1>1, <1>2, ConcatAssociative
<1> QED
  BY <1>3, <1>4, <1>5

LEMMA ConcatIds ==
  ASSUME NEW w \in Seq(Udp!Datagram), NEW q \in Seq(Udp!Datagram)
  PROVE  /\ w \o q \in Seq(Udp!Datagram) /\ DOMAIN (w \o q) = 1 .. Len(w) + Len(q)
         /\ Len(w) \in Nat /\ Len(q) \in Nat
         /\ \A i \in 1 .. Len(w) : (w \o q)[i] = w[i]
         /\ \A i \in 1 .. Len(q) : (w \o q)[Len(w) + i] = q[i]
         /\ \A i \in DOMAIN (w \o q) :
               i \in 1 .. Len(w) \/ (i > Len(w) /\ i - Len(w) \in 1 .. Len(q)
                                     /\ (w \o q)[i] = q[i - Len(w)])
<1>1. /\ w \o q \in Seq(Udp!Datagram) /\ Len(w \o q) = Len(w) + Len(q)
      /\ \A i \in 1 .. Len(w \o q) : (w \o q)[i] = IF i <= Len(w) THEN w[i]
                                                   ELSE q[i - Len(w)]
      /\ Len(w) \in Nat /\ Len(q) \in Nat /\ DOMAIN (w \o q) = 1 .. Len(w \o q)
  BY ConcatProperties, LenProperties
<1> DEFINE s == w \o q
<1> HIDE DEF s
<1>2. /\ s \in Seq(Udp!Datagram) /\ DOMAIN s = 1 .. Len(w) + Len(q)
      /\ \A i \in 1 .. Len(w) + Len(q) :
            s[i] = IF i <= Len(w) THEN w[i] ELSE q[i - Len(w)]
  BY <1>1 DEF s
<1>3. \A i \in 1 .. Len(w) : s[i] = w[i]
  BY <1>1, <1>2
<1>4. \A i \in 1 .. Len(q) : s[Len(w) + i] = q[i]
  BY <1>1, <1>2
<1>5. \A i \in DOMAIN s :
        i \in 1 .. Len(w) \/ (i > Len(w) /\ i - Len(w) \in 1 .. Len(q)
                              /\ s[i] = q[i - Len(w)])
  BY <1>1, <1>2
<1> QED
  BY <1>1, <1>2, <1>3, <1>4, <1>5 DEF s

\* A concatenation has the datagrams of both parts; those before the head of an
\* ascending queue are in the first.
LEMMA IdsOfBoth ==
  ASSUME NEW w \in Seq(Udp!Datagram), NEW q \in Seq(Udp!Datagram)
  PROVE  /\ Udp!Ids(w) \subseteq Udp!Ids(w \o q)
         /\ q # <<>> /\ Head(q).size > 0 =>
               /\ Head(q).id \in Udp!Ids(w \o q)
               /\ Udp!Ascends(w \o q) =>
                     \A a \in Udp!Ids(w \o q) : a < Head(q).id => a \in Udp!Ids(w)
<1> DEFINE s == w \o q
<1>1. /\ DOMAIN s = 1 .. Len(w) + Len(q)
      /\ Len(w) \in Nat /\ Len(q) \in Nat
      /\ DOMAIN w = 1 .. Len(w)
      /\ \A i \in 1 .. Len(w) : s[i] = w[i]
      /\ \A i \in 1 .. Len(q) : s[Len(w) + i] = q[i]
  <2>1. DOMAIN w = 1 .. Len(w)
    BY LenProperties
  <2> QED
    BY <2>1, ConcatIds
<1>2. s \in Seq(Udp!Datagram) /\ \A i \in DOMAIN s : s[i].id \in Nat
  <2>1. s \in Seq(Udp!Datagram)
    BY ConcatIds
  <2> HIDE DEF s
  <2>2. \A i \in DOMAIN s : s[i] \in Udp!Datagram
    BY <2>1, ElementOfSeq, LenProperties
  <2> QED
    BY <2>1, <2>2 DEF Udp!Datagram
<1> HIDE DEF s
<1>3. Udp!Ids(w) \subseteq Udp!Ids(s)
  BY <1>1 DEF Udp!Ids, Udp!Full
<1>4. ASSUME q # <<>>, Head(q).size > 0
      PROVE  /\ Head(q).id \in Udp!Ids(s)
             /\ Udp!Ascends(s) =>
                   \A a \in Udp!Ids(s) : a < Head(q).id => a \in Udp!Ids(w)
  <2>1. Head(q) = q[1] /\ Len(q) > 0
    BY <1>1, <1>4, HeadTailProperties, EmptySeq
  <2>2. s[Len(w) + 1] = Head(q) /\ Len(w) + 1 \in DOMAIN s
    BY <1>1, <2>1
  <2>3. Len(w) + 1 \in Udp!Full(s) /\ Head(q).id \in Udp!Ids(s)
    BY <1>4, <2>2 DEF Udp!Full, Udp!Ids
  <2>4. ASSUME Udp!Ascends(s), NEW a \in Udp!Ids(s), a < Head(q).id
        PROVE  a \in Udp!Ids(w)
    <3>1. PICK i \in Udp!Full(s) : a = s[i].id
      BY DEF Udp!Ids
    <3>2. i \in 1 .. Len(w) + Len(q) /\ s[i].size > 0
      BY <1>1, <3>1 DEF Udp!Full
    <3>3. ~(Len(w) + 1 < i)
      <4> SUFFICES ASSUME Len(w) + 1 < i PROVE FALSE
        OBVIOUS
      <4>1. Head(q).id < a
        BY <2>2, <2>3, <2>4, <3>1 DEF Udp!Ascends
      <4>2. Head(q).id \in Nat /\ a \in Nat
        BY <1>1, <1>2, <2>2, <3>1, <3>2
      <4> QED
        BY <2>4, <4>1, <4>2
    <3>4. i # Len(w) + 1
      <4> SUFFICES ASSUME i = Len(w) + 1 PROVE FALSE
        OBVIOUS
      <4>1. a = Head(q).id /\ a \in Nat
        BY <1>1, <1>2, <2>2, <3>1, <3>2
      <4> QED
        BY <2>4, <4>1
    <3>5. i \in 1 .. Len(w)
      BY <1>1, <3>2, <3>3, <3>4
    <3> QED
      BY <1>1, <3>1, <3>2, <3>5 DEF Udp!Ids, Udp!Full
  <2> QED
    BY <2>3, <2>4
<1> QED
  BY <1>3, <1>4 DEF s

\* What is cancelled leaves the others in order.
LEMMA HeadCancelled ==
  ASSUME NEW w \in Seq(Udp!Datagram), NEW q \in Seq(Udp!Datagram), q # <<>>,
         Udp!Ascends(w \o q)
  PROVE  Udp!Ascends(w \o Tail(q))
<1> DEFINE s == w \o q
           t == w \o Tail(q)
           old(i) == IF i <= Len(w) THEN i ELSE i + 1
<1>1. /\ Tail(q) \in Seq(Udp!Datagram) /\ Len(Tail(q)) = Len(q) - 1
      /\ \A i \in 1 .. Len(Tail(q)) : Tail(q)[i] = q[i + 1]
      /\ Len(q) \in Nat \ {0} /\ Len(w) \in Nat
  BY HeadTailProperties, EmptySeq, LenProperties
<1>2. /\ DOMAIN s = 1 .. Len(w) + Len(q)
      /\ \A i \in 1 .. Len(w) : s[i] = w[i]
      /\ \A i \in 1 .. Len(q) : s[Len(w) + i] = q[i]
  BY ConcatIds
<1>3. /\ DOMAIN t = 1 .. Len(w) + Len(Tail(q))
      /\ \A i \in 1 .. Len(w) : t[i] = w[i]
      /\ \A i \in DOMAIN t :
            i \in 1 .. Len(w) \/ (i > Len(w) /\ i - Len(w) \in 1 .. Len(Tail(q))
                                  /\ t[i] = Tail(q)[i - Len(w)])
  BY <1>1, ConcatIds
<1>0. Udp!Ascends(s)
  OBVIOUS
<1> HIDE DEF s, t
<1>4. ASSUME NEW i \in DOMAIN t PROVE old(i) \in DOMAIN s /\ t[i] = s[old(i)]
  <2>1. CASE i \in 1 .. Len(w)
    BY <1>1, <1>2, <1>3, <2>1
  <2>2. CASE i > Len(w) /\ i - Len(w) \in 1 .. Len(Tail(q)) /\ t[i] = Tail(q)[i - Len(w)]
    <3> DEFINE k == i - Len(w)
    <3>1. k \in 1 .. Len(Tail(q)) /\ t[i] = Tail(q)[k] /\ i > Len(w)
      BY <2>2
    <3>0. i \in Nat
      BY <1>1, <1>3
    <3>5. i = Len(w) + k
      BY <1>1, <3>0
    <3> HIDE DEF k
    <3>2. k + 1 \in 1 .. Len(q) /\ t[i] = q[k + 1]
      BY <1>1, <3>1
    <3>3. s[Len(w) + (k + 1)] = q[k + 1]
      BY <1>2, <3>2
    <3>4. old(i) = Len(w) + (k + 1) /\ old(i) \in 1 .. Len(w) + Len(q)
      BY <1>1, <3>1, <3>2, <3>5
    <3> QED
      BY <1>2, <3>2, <3>3, <3>4
  <2> QED
    BY <1>3, <2>1, <2>2
<1>5. \A i, j \in DOMAIN t : i < j => old(i) < old(j)
  BY <1>1, <1>3
<1> HIDE DEF old
<1>6. Udp!Ascends(t)
  BY <1>0, <1>4, <1>5 DEF Udp!Ascends, Udp!Full
<1> QED
  BY <1>6 DEF t

-----------------------------------------------------------------------------
(* UdpSocket *)

\* n requests, u references, and whether they say what they should
References(n, u, o, h, d) ==
  /\ n \in Nat /\ u \in Nat /\ o \in BOOLEAN /\ d \in BOOLEAN
  /\ h \in {"open", "closing", "closed"}
  /\ u = n + (IF o THEN 1 ELSE 0) + (IF h = "closing" THEN 1 ELSE 0)
  /\ d <=> u = 0
  /\ d => h = "closed"
  /\ h = "closed" => n = 0

\* What each action does to them
LEMMA ReferencesMove ==
  ASSUME NEW n, NEW u, NEW o, NEW h, NEW d, References(n, u, o, h, d)
  PROVE  /\ h = "open" => /\ References(n + 1, u + 1, o, h, d)
                          /\ References(n, u + 1, o, "closing", d)
         /\ o /\ h = "open" /\ u = 1 => References(n, u, FALSE, "closing", d)
         /\ o /\ ~(h = "open" /\ u = 1) => References(n, u - 1, FALSE, h, u = 1)
         /\ h = "open" /\ n > 0 => References(n - 1, u, o, "closing", d)
         /\ h = "open" /\ n > 0 /\ u # 1 => References(n - 1, u - 1, o, h, u = 1)
         /\ h = "closing" /\ n > 0 => References(n - 1, u - 1, o, h, u = 1)
         /\ h = "closing" /\ n = 0 => References(n, u - 1, o, "closed", u = 1)
<1>1. h = "open" => /\ References(n + 1, u + 1, o, h, d)
                    /\ References(n, u + 1, o, "closing", d)
  BY DEF References
<1>2. o /\ h = "open" /\ u = 1 => References(n, u, FALSE, "closing", d)
  BY DEF References
<1>3. o /\ ~(h = "open" /\ u = 1) => References(n, u - 1, FALSE, h, u = 1)
  BY DEF References
<1>4. h = "open" /\ n > 0 => References(n - 1, u, o, "closing", d)
  BY DEF References
<1>5. h = "open" /\ n > 0 /\ u # 1 => References(n - 1, u - 1, o, h, u = 1)
  BY DEF References
<1>6. h = "closing" /\ n > 0 => References(n - 1, u - 1, o, h, u = 1)
  BY DEF References
<1>7. h = "closing" /\ n = 0 => References(n, u - 1, o, "closed", u = 1)
  BY DEF References
<1> QED
  BY <1>1, <1>2, <1>3, <1>4, <1>5, <1>6, <1>7

\* The order and the numbers of the datagrams
UdpOrder ==
  /\ queue \in Seq(Udp!Datagram) /\ wire \in Seq(Udp!Datagram)
  /\ written \in Seq(Udp!Datagram)
  /\ \A i \in DOMAIN written : written[i].id = i
  /\ Udp!DatagramsInOrder

UdpInv ==
  /\ References(Len(queue), useCount, owned, handle, deleted)
  /\ consuming \in BOOLEAN /\ receiving \in BOOLEAN
  /\ receiving => handle = "open"
  /\ UdpOrder

LEMMA UdpInvIsSafe == UdpInv => UdpSafe
BY DEF UdpInv, UdpOrder, References, UdpSafe, Udp!UdpSafe, Udp!TypeOK, Udp!UseCountExact

\* Nothing happens to the datagrams.
LEMMA OrderKept ==
  ASSUME UdpOrder, UNCHANGED <<queue, wire, written>>, handle' = "open" => handle = "open"
  PROVE  UdpOrder'
BY DEF UdpOrder, Udp!DatagramsInOrder

\* The actions that leave the queue alone
LEMMA UdpQueueKept ==
  ASSUME UdpInv,
         \/ Udp!Resume \/ Udp!Pause \/ Udp!Destroy \/ Udp!Drop \/ Udp!ReceiveError
         \/ Udp!CloseDone
  PROVE  UdpInv'
<1> DEFINE n == Len(queue)
<1>0. References(n, useCount, owned, handle, deleted)
  BY DEF UdpInv
<1>1. UNCHANGED <<queue, wire, written>>
  BY DEF Udp!Resume, Udp!Pause, Udp!Destroy, Udp!Drop, Udp!ReceiveError, Udp!CloseDone
<1>2. n' = n
  BY <1>1
<1>3. queue = <<>> => n = 0
  OBVIOUS
<1> HIDE DEF n
<1>4. /\ References(n, useCount', owned', handle', deleted')
      /\ handle' = "open" => handle = "open"
      /\ consuming' \in {consuming, TRUE, FALSE}
      /\ receiving' \in {receiving, TRUE, FALSE}
      /\ receiving' => handle' = "open"
  <2>1. CASE Udp!Resume \/ Udp!Pause
    BY <1>0, <2>1 DEF Udp!Resume, Udp!Pause, Udp!User
  <2>2. CASE Udp!Destroy \/ Udp!ReceiveError
    <3>1. handle = "open"
      BY <2>2 DEF Udp!Destroy, Udp!ReceiveError, Udp!User, UdpInv
    <3> QED
      <4>1. References(n, useCount + 1, owned, "closing", deleted)
        BY <1>0, <3>1, ReferencesMove
      <4> QED
        BY <2>2, <4>1 DEF Udp!Destroy, Udp!ReceiveError, Udp!StartClose
  <2>3. CASE Udp!Drop
    <3>1. /\ owned /\ owned' = FALSE /\ consuming' = consuming
          /\ receiving => handle = "open"
      BY <2>3 DEF Udp!Drop, UdpInv
    <3>2. CASE handle = "open" /\ useCount = 1
      <4>1. References(n, useCount, FALSE, "closing", deleted)
        BY <1>0, <3>1, <3>2, ReferencesMove
      <4> QED
        <5>1. /\ handle' = "closing" /\ useCount' = useCount /\ deleted' = deleted
              /\ receiving' = FALSE
          BY <2>3, <3>2 DEF Udp!Drop, Udp!StartClose
        <5> QED
          BY <3>1, <3>2, <4>1, <5>1, Zenon
    <3>3. CASE ~(handle = "open" /\ useCount = 1)
      <4>1. References(n, useCount - 1, FALSE, handle, useCount = 1)
        BY <1>0, <3>1, <3>3, ReferencesMove
      <4>2. /\ handle' = handle /\ useCount' = useCount - 1 /\ deleted' = (useCount = 1)
            /\ receiving' = receiving
        BY <2>3, <3>3 DEF Udp!Drop, Udp!Release
      <4>3. receiving' \in {receiving, TRUE, FALSE} /\ (receiving' => handle' = "open")
        BY <3>1, <4>2
      <4> QED
        BY <3>1, <4>1, <4>2, <4>3, Zenon
    <3> QED
      BY <3>2, <3>3
  <2>4. CASE Udp!CloseDone
    <3>1. handle = "closing" /\ n = 0 /\ (receiving => handle = "open")
      BY <1>3, <2>4 DEF Udp!CloseDone, UdpInv
    <3> QED
      BY <1>0, <2>4, <3>1, ReferencesMove DEF Udp!CloseDone, Udp!Release
  <2> QED
    BY <2>1, <2>2, <2>3, <2>4
<1>5. UdpOrder'
  BY <1>1, <1>4, OrderKept DEF UdpInv
<1> QED
  BY <1>2, <1>4, <1>5 DEF UdpInv, n

\* write(): sent at once, queued, or both if it is empty
LEMMA WriteKeepsOrder ==
  ASSUME UdpOrder, NEW size \in DatagramSizes, Udp!Write(size)
  PROVE  UdpOrder'
<1> DEFINE d == [id |-> Len(written) + 1, size |-> size]
           S == wire \o queue
<1>1. /\ queue \in Seq(Udp!Datagram) /\ wire \in Seq(Udp!Datagram)
      /\ written \in Seq(Udp!Datagram) /\ size \in Nat
      /\ Len(written) \in Nat /\ DOMAIN written = 1 .. Len(written)
      /\ \A i \in DOMAIN written : written[i].id = i
  BY DatagramsAssumption, LenProperties DEF UdpOrder
<1>2. /\ handle = "open" /\ handle' = "open" /\ written' = Append(written, d)
      /\ \/ size > 0 /\ queue = <<>> /\ wire' = Append(wire, d) /\ queue' = <<>>
         \/ wire' = wire /\ queue' = Append(queue, d)
         \/ ~(size > 0) /\ queue = <<>> /\ wire' = Append(wire, d) /\ queue' = <<d>>
  <2>1. /\ handle = "open" /\ handle' = handle /\ written' = Append(written, d)
        /\ (queue = <<>> /\ wire' = Append(wire, d)) \/ wire' = wire
        /\ wire' # wire /\ size > 0 => queue' = queue
        /\ ~(wire' # wire /\ size > 0) => queue' = Append(queue, d)
    BY DEF Udp!Write, Udp!User
  <2>2. Append(<<>>, d) = <<d>>
    OBVIOUS
  <2> HIDE DEF d
  <2> QED
    BY <2>1, <2>2
<1>3. /\ d \in Udp!Datagram /\ d.id = Len(written) + 1 /\ d.size = size
  BY <1>1 DEF Udp!Datagram
<1>4. /\ Udp!Ids(S) = Udp!Ids(written) /\ Udp!Ascends(S)
      /\ Udp!Ids(wire) \subseteq Udp!Ids(written)
      /\ \A a \in Udp!Ids(written), b \in Udp!Ids(wire) : a < b => a \in Udp!Ids(wire)
  BY <1>2 DEF UdpOrder, Udp!DatagramsInOrder
<1> HIDE DEF d
<1>5. \A a \in Udp!Ids(written) : a \in Nat /\ a < d.id
  BY <1>1, <1>3 DEF Udp!Ids, Udp!Full
<1>6. S \in Seq(Udp!Datagram)
  BY <1>1, ConcatProperties
<1>7. written' \in Seq(Udp!Datagram) /\ \A i \in DOMAIN written' : written'[i].id = i
  <2>1. /\ written' \in Seq(Udp!Datagram) /\ Len(written') = Len(written) + 1
        /\ \A i \in 1 .. Len(written) : written'[i] = written[i]
        /\ written'[Len(written) + 1] = d
    BY <1>1, <1>2, <1>3, AppendProperties
  <2>2. DOMAIN written' = 1 .. Len(written) + 1
    BY <2>1, LenProperties
  <2> QED
    BY <1>1, <1>3, <2>1, <2>2
<1>8. Udp!Ids(written') = Udp!Ids(written) \cup (IF d.size > 0 THEN {d.id} ELSE {})
  BY <1>1, <1>2, <1>3, IdsAppended
<1>9. Udp!Ascends(Append(S, d))
      /\ Udp!Ids(Append(S, d)) = Udp!Ids(S) \cup (IF d.size > 0 THEN {d.id} ELSE {})
  <2>1. \A a \in Udp!Ids(S) : a < d.id
    BY <1>4, <1>5
  <2> HIDE DEF S
  <2> QED
    BY <1>3, <1>4, <1>6, <2>1, IdsAppended
<1>10. CASE size > 0 /\ queue = <<>> /\ wire' = Append(wire, d) /\ queue' = <<>>
  <2>1. S = wire /\ wire' \in Seq(Udp!Datagram) /\ wire' \o queue' = Append(S, d)
    BY <1>1, <1>3, <1>10, ConcatEmptySeq, AppendProperties
  <2>2. Udp!Ids(wire') = Udp!Ids(written') /\ Udp!Ids(wire' \o queue') = Udp!Ids(written')
    BY <1>4, <1>8, <1>9, <1>10, <2>1
  <2> QED
    BY <1>1, <1>2, <1>7, <1>9, <1>10, <2>1, <2>2 DEF UdpOrder, Udp!DatagramsInOrder
<1>11. CASE wire' = wire /\ queue' = Append(queue, d)
  <2>1. wire' \o queue' = Append(S, d) /\ queue' \in Seq(Udp!Datagram)
    BY <1>1, <1>3, <1>11, ConcatAppend, AppendProperties
  <2>2. Udp!Ids(wire' \o queue') = Udp!Ids(written')
    BY <1>4, <1>8, <1>9, <2>1
  <2>3. \A a \in Udp!Ids(written'), b \in Udp!Ids(wire') : a < b => a \in Udp!Ids(wire')
    <3> SUFFICES ASSUME NEW a \in Udp!Ids(written'), NEW b \in Udp!Ids(wire), a < b
                 PROVE  a \in Udp!Ids(wire)
      BY <1>11
    <3>1. b \in Nat /\ b < d.id /\ d.id \in Nat
      BY <1>1, <1>3, <1>4, <1>5
    <3>2. a # d.id
      BY <3>1
    <3> QED
      BY <1>4, <1>8, <3>2
  <2>4. Udp!Ids(wire') \subseteq Udp!Ids(written')
    BY <1>4, <1>8, <1>11
  <2> QED
    BY <1>1, <1>2, <1>7, <1>9, <1>11, <2>1, <2>2, <2>3, <2>4
    DEF UdpOrder, Udp!DatagramsInOrder
<1>12. CASE ~(size > 0) /\ queue = <<>> /\ wire' = Append(wire, d) /\ queue' = <<d>>
  <2>1. S = wire /\ wire' \in Seq(Udp!Datagram) /\ queue' \in Seq(Udp!Datagram)
    BY <1>1, <1>3, <1>12, ConcatEmptySeq, AppendProperties
  <2>2. wire' \o queue' = Append(wire', d)
    BY <1>3, <1>12, <2>1, AppendIsConcat
  <2>3. /\ Udp!Ids(wire') = Udp!Ids(wire) /\ Udp!Ids(written') = Udp!Ids(written)
        /\ Udp!Ascends(wire')
    BY <1>3, <1>8, <1>9, <1>12, <2>1
  <2>4. /\ Udp!Ids(wire' \o queue') = Udp!Ids(wire')
        /\ Udp!Ascends(wire' \o queue')
    <3>1. ~(d.size > 0)
      BY <1>3, <1>12
    <3>2. Udp!Ids(Append(wire', d)) = Udp!Ids(wire') /\ Udp!Ascends(Append(wire', d))
      BY <1>3, <2>1, <2>3, <3>1, IdsAppended
    <3> QED
      BY <2>2, <3>2
  <2> QED
    BY <1>1, <1>2, <1>4, <1>7, <2>1, <2>3, <2>4 DEF UdpOrder, Udp!DatagramsInOrder
<1> QED
  BY <1>2, <1>10, <1>11, <1>12

\* The oldest of the queue is sent: the whole stays as it is.
LEMMA SentKeepsOrder ==
  ASSUME UdpOrder, Udp!Sent
  PROVE  UdpOrder'
<1> DEFINE h == Head(queue)
<1>1. /\ queue \in Seq(Udp!Datagram) /\ wire \in Seq(Udp!Datagram)
      /\ handle = "open" /\ queue # <<>> /\ written' = written
      /\ wire' = Append(wire, h) /\ queue' = Tail(queue)
  BY DEF UdpOrder, Udp!Sent
<1>2. /\ h \in Udp!Datagram /\ wire' \in Seq(Udp!Datagram) /\ queue' \in Seq(Udp!Datagram)
  BY <1>1, HeadTailProperties, AppendProperties
<1>3. wire' \o queue' = wire \o queue
  BY <1>1, HeadMoved
<1>4. /\ Udp!Ids(wire \o queue) = Udp!Ids(written) /\ Udp!Ascends(wire \o queue)
      /\ Udp!Ids(wire) \subseteq Udp!Ids(written)
      /\ \A a \in Udp!Ids(written), b \in Udp!Ids(wire) : a < b => a \in Udp!Ids(wire)
  BY <1>1 DEF UdpOrder, Udp!DatagramsInOrder
<1>5. Udp!Ids(wire') = Udp!Ids(wire) \cup (IF h.size > 0 THEN {h.id} ELSE {})
  BY <1>1, <1>2, IdsAppended
<1>6. h.size > 0 =>
        /\ h.id \in Udp!Ids(written)
        /\ \A a \in Udp!Ids(written) : a < h.id => a \in Udp!Ids(wire)
  BY <1>1, <1>4, IdsOfBoth
<1>7. /\ Udp!Ids(wire') \subseteq Udp!Ids(written)
      /\ \A a \in Udp!Ids(written), b \in Udp!Ids(wire') : a < b => a \in Udp!Ids(wire')
  BY <1>4, <1>5, <1>6
<1> QED
  BY <1>1, <1>2, <1>3, <1>4, <1>7 DEF UdpOrder, Udp!DatagramsInOrder

\* The oldest of the queue is given up.
LEMMA CancelKeepsOrder ==
  ASSUME UdpOrder, Udp!SendFails \/ Udp!Cancelled
  PROVE  UdpOrder'
<1>1. /\ queue # <<>> /\ queue' = Tail(queue) /\ wire' = wire /\ written' = written
      /\ handle' = "closing"
  BY DEF Udp!SendFails, Udp!Cancelled, Udp!StartClose
<1>2. queue \in Seq(Udp!Datagram) /\ wire \in Seq(Udp!Datagram)
  BY DEF UdpOrder
<1>3. queue' \in Seq(Udp!Datagram) /\ Udp!Ascends(wire' \o queue')
  BY <1>1, <1>2, HeadTailProperties, HeadCancelled DEF UdpOrder, Udp!DatagramsInOrder
<1> QED
  BY <1>1, <1>3 DEF UdpOrder, Udp!DatagramsInOrder

\* The actions that move the queue
LEMMA UdpQueueMoved ==
  ASSUME UdpInv,
         \/ \E size \in DatagramSizes : Udp!Write(size)
         \/ Udp!Sent \/ Udp!SendFails \/ Udp!Cancelled
  PROVE  UdpInv'
<1>1. /\ References(Len(queue), useCount, owned, handle, deleted)
      /\ consuming \in BOOLEAN /\ receiving \in BOOLEAN /\ (receiving => handle = "open")
      /\ UdpOrder /\ queue \in Seq(Udp!Datagram)
  BY DEF UdpInv, UdpOrder
<1>2. queue # <<>> => Len(queue) > 0 /\ Len(Tail(queue)) = Len(queue) - 1
  BY <1>1, HeadTailProperties, EmptySeq, LenProperties
<1>3. CASE \E size \in DatagramSizes : Udp!Write(size)
  <2>1. PICK size \in DatagramSizes : Udp!Write(size)
    BY <1>3
  <2>2. /\ UNCHANGED <<handle, owned, deleted, consuming, receiving>> /\ handle = "open"
        /\ \/ queue' = queue /\ useCount' = useCount
           \/ \E d : queue' = Append(queue, d) /\ useCount' = useCount + 1
    BY <2>1 DEF Udp!Write, Udp!User
  <2>3. \A d : Len(Append(queue, d)) = Len(queue) + 1
    BY <1>1
  <2>4. References(Len(queue) + 1, useCount + 1, owned, handle, deleted)
    BY <1>1, <2>2, ReferencesMove
  <2>5. References(Len(queue'), useCount', owned', handle', deleted')
    BY <1>1, <2>2, <2>3, <2>4
  <2> QED
    BY <1>1, <2>1, <2>2, <2>5, WriteKeepsOrder DEF UdpInv
<1>4. CASE Udp!Sent
  <2>1. /\ Len(queue') = Len(queue) - 1 /\ Len(queue) > 0 /\ handle = "open"
        /\ owned' = owned /\ consuming' = consuming
    BY <1>2, <1>4 DEF Udp!Sent
  <2>2. CASE useCount = 1
    <3>1. /\ handle' = "closing" /\ receiving' = FALSE /\ useCount' = useCount
          /\ deleted' = deleted
      BY <1>4, <2>2 DEF Udp!Sent, Udp!StartClose
    <3>2. References(Len(queue) - 1, useCount, owned, "closing", deleted)
      BY <1>1, <2>1, ReferencesMove
    <3> QED
      BY <1>1, <1>4, <2>1, <3>1, <3>2, SentKeepsOrder DEF UdpInv
  <2>3. CASE useCount # 1
    <3>1. /\ handle' = handle /\ receiving' = receiving /\ useCount' = useCount - 1
          /\ deleted' = (useCount = 1)
      BY <1>4, <2>3 DEF Udp!Sent, Udp!Release
    <3>2. References(Len(queue) - 1, useCount - 1, owned, handle, useCount = 1)
      BY <1>1, <2>1, <2>3, ReferencesMove
    <3>3. References(Len(queue'), useCount', owned', handle', deleted')
      BY <2>1, <3>1, <3>2, Zenon
    <3> QED
      BY <1>1, <1>4, <2>1, <3>1, <3>3, SentKeepsOrder DEF UdpInv
  <2> QED
    BY <2>2, <2>3
<1>5. CASE Udp!SendFails
  <2>1. /\ Len(queue') = Len(queue) - 1 /\ Len(queue) > 0 /\ handle = "open"
        /\ owned' = owned /\ consuming' = consuming
        /\ handle' = "closing" /\ receiving' = FALSE /\ useCount' = useCount
        /\ deleted' = deleted
    BY <1>2, <1>5 DEF Udp!SendFails, Udp!StartClose
  <2>2. References(Len(queue) - 1, useCount, owned, "closing", deleted)
    BY <1>1, <2>1, ReferencesMove
  <2> QED
    BY <1>1, <1>5, <2>1, <2>2, CancelKeepsOrder DEF UdpInv
<1>6. CASE Udp!Cancelled
  <2>1. /\ Len(queue') = Len(queue) - 1 /\ Len(queue) > 0 /\ handle = "closing"
        /\ owned' = owned /\ consuming' = consuming
        /\ handle' = handle /\ receiving' = receiving /\ useCount' = useCount - 1
        /\ deleted' = (useCount = 1)
    BY <1>2, <1>6 DEF Udp!Cancelled, Udp!Release
  <2>2. References(Len(queue) - 1, useCount - 1, owned, handle, useCount = 1)
    BY <1>1, <2>1, ReferencesMove
  <2>3. References(Len(queue'), useCount', owned', handle', deleted')
    BY <2>1, <2>2, Zenon
  <2> QED
    BY <1>1, <1>6, <2>1, <2>3, CancelKeepsOrder DEF UdpInv
<1> QED
  BY <1>3, <1>4, <1>5, <1>6

LEMMA UdpInvariant == Udp!Spec => []UdpInv
<1>1. Udp!Init => UdpInv
  <2> SUFFICES ASSUME Udp!Init PROVE UdpInv
    OBVIOUS
  <2>1. /\ queue = <<>> /\ wire = <<>> /\ written = <<>> /\ Len(queue) = 0
        /\ <<>> \in Seq(Udp!Datagram) /\ wire \o queue = <<>> /\ DOMAIN <<>> = {}
    BY EmptySeq, ConcatEmptySeq DEF Udp!Init
  <2>2. UdpOrder
    BY <2>1 DEF UdpOrder, Udp!DatagramsInOrder, Udp!Ascends, Udp!Full, Udp!Ids
  <2>3. References(0, 1, TRUE, "open", FALSE)
    BY DEF References
  <2> QED
    BY <2>1, <2>2, <2>3 DEF Udp!Init, UdpInv
<1>2. UdpInv /\ [Udp!Next]_(Udp!vars) => UdpInv'
  <2> SUFFICES ASSUME UdpInv, [Udp!Next]_(Udp!vars) PROVE UdpInv'
    OBVIOUS
  <2>1. CASE UNCHANGED Udp!vars
    BY <2>1 DEF Udp!vars, UdpInv, UdpOrder, Udp!DatagramsInOrder
  <2> QED
    BY <2>1, UdpQueueKept, UdpQueueMoved DEF Udp!Next, Udp!Completion
<1> QED
  BY <1>1, <1>2, PTL DEF Udp!Spec

\* udp/socket.cc:113-194: every queued datagram, the close callback and the program
\* hold the socket once, and it is deleted after the last; datagrams that are not
\* empty leave once each and in the order of write(), whatever fails or is
\* cancelled in between.
THEOREM DatagramsAreSafe == Udp!Spec => []UdpSafe
BY UdpInvariant, UdpInvIsSafe, PTL

-----------------------------------------------------------------------------
(* The date of the HTTP servers *)

\* A difference of two times is taken modulo 2^64: a loop whose time is before
\* the last update looks very late.
LEMMA ElapsedIs ==
  ASSUME NEW t \in Threads, now[t] \in 0 .. MaxTime, NEW last \in 0 .. MaxTime
  PROVE  /\ now[t] >= last => Dates!Elapsed(t, last) = now[t] - last
         /\ now[t] < last => Dates!Elapsed(t, last) > Timeout
         /\ Dates!Elapsed(t, last) \in Nat
<1> DEFINE x == now[t]
           M == Modulus
<1>1. /\ x \in Nat /\ last \in Nat /\ M \in Nat /\ Timeout \in Nat /\ M > 0
      /\ last + Timeout < M /\ x < M
  BY ClockAssumption
<1>2. Dates!Elapsed(t, last) = (x + M - last) % M
  BY DEF Dates!Elapsed
<1> HIDE DEF x, M
<1>3. CASE x >= last
  <2>1. PICK k \in Nat : k = x - last /\ k < M
    BY <1>1, <1>3
  <2>2. (k + M) % M = k
    BY <1>1, <2>1
  <2>3. x + M - last = k + M
    BY <1>1, <2>1
  <2> QED
    BY <1>1, <1>2, <1>3, <2>1, <2>2, <2>3 DEF x
<1>4. CASE x < last
  <2>1. PICK k \in Nat : k = x + M - last /\ k < M /\ k > Timeout
    BY <1>1, <1>4
  <2>2. k % M = k
    BY <1>1, <2>1
  <2> QED
    BY <1>1, <1>2, <1>4, <2>1, <2>2 DEF x
<1> QED
  BY <1>1, <1>3, <1>4

\* No thread is between the compare-and-swap and the store.
Quiet == \A u \in Threads : ~Dates!Updating(u)

\* A header that shows d will do: it shows no earlier time than the last update,
\* than the loop of a thread that is about to lose the compare-and-swap, and, up
\* to the timeout, than the loop of one that is about to fetch it.
FreshFor(t, d) ==
  /\ pc[t] = "cas" /\ lastUpdate # seen[t] => now[t] <= d
  /\ pc[t] = "get" => now[t] <= d + Timeout

Good(d) == lastUpdate <= d /\ \A t \in Threads : FreshFor(t, d)

\* Without atomics nobody is seen between the steps of an update.
Locked == ~atomic => \A t \in Threads : pc[t] \in {"idle", "get"}

\* The header will do once the threads that update are done, unless two of them
\* overlapped; the one that updates alone will store such a header.
DatesInv ==
  /\ Dates!TypeOK
  /\ Locked
  /\ lastUpdate <= clock /\ buffer <= clock
  /\ \A t \in Threads : now[t] <= clock /\ date[t] <= clock
  /\ \A t \in Threads : pc[t] = "store" => now[t] <= date[t]
  /\ Quiet /\ clean => Good(buffer)
  /\ \A t \in alone :
        /\ \A u \in Threads : Dates!Updating(u) <=> u = t
        /\ pc[t] = "store" => Good(date[t]) /\ buffer <= date[t]

LEMMA DatesTypes ==
  ASSUME Dates!TypeOK
  PROVE  /\ MaxTime \in Nat /\ Timeout \in Nat
         /\ clock \in Nat /\ lastUpdate \in 0 .. MaxTime /\ buffer \in Nat
         /\ \A t \in Threads : now[t] \in 0 .. MaxTime /\ date[t] \in Nat
         /\ alone \subseteq Threads
BY ClockAssumption DEF Dates!TypeOK

LEMMA DatesStep ==
  ASSUME DatesInv, Dates!Next
  PROVE  DatesInv' /\ (clean' => buffer' >= buffer)
<1>0. /\ Dates!TypeOK
      /\ MaxTime \in Nat /\ Timeout \in Nat
      /\ clock \in Nat /\ lastUpdate \in 0 .. MaxTime /\ buffer \in Nat
      /\ \A t \in Threads : now[t] \in 0 .. MaxTime /\ date[t] \in Nat
      /\ alone \subseteq Threads
  BY DatesTypes DEF DatesInv
<1>1. CASE Dates!Tick
  <2>1. Dates!TypeOK'
    BY <1>0, <1>1 DEF Dates!Tick, Dates!TypeOK, Dates!history
  <2>2. /\ UNCHANGED <<atomic, now, lastUpdate, buffer, pc, seen, date, alone, clean>>
        /\ clock' = clock + 1
    BY <1>1 DEF Dates!Tick, Dates!history
  <2> QED
    BY <1>0, <2>1, <2>2 DEF DatesInv, Quiet, Dates!Updating, Good, FreshFor, Locked
<1>2. ASSUME NEW t \in Threads, Dates!UpdateTime(t)
      PROVE  DatesInv' /\ (clean' => buffer' >= buffer)
  <2>1. Dates!TypeOK'
    BY <1>0, <1>2 DEF Dates!UpdateTime, Dates!TypeOK, Dates!history
  <2>2. /\ pc[t] = "idle"
        /\ UNCHANGED <<atomic, clock, lastUpdate, buffer, pc, seen, date, alone, clean>>
        /\ \A u \in Threads : now'[u] = IF u = t THEN clock ELSE now[u]
    BY <1>0, <1>2 DEF Dates!UpdateTime, Dates!TypeOK, Dates!history
  <2>3. /\ Good(buffer) => Good(buffer)'
        /\ \A u \in Threads : Good(date[u]) => Good(date[u])'
    BY <1>0, <2>2 DEF Good, FreshFor
  <2> QED
    BY <1>0, <2>1, <2>2, <2>3 DEF DatesInv, Quiet, Dates!Updating, Locked
<1>3. ASSUME NEW t \in Threads, Dates!Load(t)
      PROVE  DatesInv' /\ (clean' => buffer' >= buffer)
  <2>1. Dates!TypeOK'
    BY <1>0, <1>3 DEF Dates!Load, Dates!TypeOK, Dates!history
  <2>2. /\ pc[t] = "idle" /\ atomic
        /\ UNCHANGED <<atomic, clock, now, lastUpdate, buffer, date, alone, clean>>
        /\ \A u \in Threads : seen'[u] = IF u = t THEN lastUpdate ELSE seen[u]
        /\ \A u \in Threads : u # t => pc'[u] = pc[u]
        /\ pc'[t] \in {"cas", "get"}
        /\ pc'[t] = "get" => ~(Dates!Elapsed(t, lastUpdate) > Timeout)
    BY <1>0, <1>3 DEF Dates!Load, Dates!TypeOK, Dates!history
  <2>3. pc'[t] = "get" => now[t] <= lastUpdate + Timeout
    BY <1>0, <2>2, ElapsedIs
  <2>4. \A u \in Threads : Dates!Updating(u)' <=> Dates!Updating(u)
    BY <2>2 DEF Dates!Updating
  <2>5. /\ Good(buffer) => Good(buffer)'
        /\ \A u \in Threads : Good(date[u]) => Good(date[u])'
    BY <1>0, <2>2, <2>3 DEF Good, FreshFor
  <2> QED
    BY <1>0, <2>1, <2>2, <2>4, <2>5 DEF DatesInv, Quiet, Locked
<1>4. ASSUME NEW t \in Threads, Dates!Cas(t)
      PROVE  DatesInv' /\ (clean' => buffer' >= buffer)
  <2>1. Dates!TypeOK'
    BY <1>0, <1>4 DEF Dates!Cas, Dates!TypeOK
  <2>2. /\ pc[t] = "cas" /\ UNCHANGED <<atomic, clock, now, buffer, seen, date, clean>>
        /\ \A u \in Threads : u # t => pc'[u] = pc[u]
        /\ \/ /\ lastUpdate' = now[t] /\ pc'[t] = "time"
              /\ alone' = IF \E u \in Threads : Dates!Updating(u) THEN {} ELSE {t}
           \/ /\ lastUpdate # seen[t] /\ lastUpdate' = lastUpdate /\ pc'[t] = "get"
              /\ alone' = alone
    BY <1>0, <1>4 DEF Dates!Cas, Dates!TypeOK
  <2>3. atomic
    BY <2>2 DEF DatesInv, Locked
  <2>4. CASE pc'[t] = "time"
    <3>1. /\ Dates!Updating(t)' /\ ~Dates!Updating(t)
          /\ \A u \in Threads : u # t => (Dates!Updating(u)' <=> Dates!Updating(u))
          /\ lastUpdate' = now[t]
          /\ alone' = IF \E u \in Threads : Dates!Updating(u) THEN {} ELSE {t}
      BY <2>2, <2>4 DEF Dates!Updating
    <3>2. ~Quiet'
      BY <3>1 DEF Quiet
    <3>3. \A u \in alone' : u = t /\ \A v \in Threads : Dates!Updating(v)' <=> v = u
      BY <3>1
    <3> QED
      BY <1>0, <2>1, <2>2, <2>3, <2>4, <3>1, <3>2, <3>3 DEF DatesInv, Locked
  <2>5. CASE pc'[t] = "get"
    <3>1. /\ \A u \in Threads : Dates!Updating(u)' <=> Dates!Updating(u)
          /\ lastUpdate # seen[t] /\ lastUpdate' = lastUpdate /\ alone' = alone
      BY <2>2, <2>5 DEF Dates!Updating
    <3>2. /\ Good(buffer) => Good(buffer)'
          /\ \A u \in Threads : Good(date[u]) => Good(date[u])'
      BY <1>0, <2>2, <2>5, <3>1 DEF Good, FreshFor
    <3> QED
      BY <1>0, <2>1, <2>2, <2>3, <2>5, <3>1, <3>2 DEF DatesInv, Quiet, Locked
  <2> QED
    BY <2>2, <2>4, <2>5
<1>5. ASSUME NEW t \in Threads, Dates!Time(t)
      PROVE  DatesInv' /\ (clean' => buffer' >= buffer)
  <2>1. Dates!TypeOK'
    BY <1>0, <1>5 DEF Dates!Time, Dates!TypeOK, Dates!history
  <2>2. /\ pc[t] = "time" /\ pc'[t] = "store" /\ date'[t] = clock
        /\ UNCHANGED <<atomic, clock, now, lastUpdate, buffer, seen, alone, clean>>
        /\ \A u \in Threads : u # t => pc'[u] = pc[u] /\ date'[u] = date[u]
    BY <1>0, <1>5 DEF Dates!Time, Dates!TypeOK, Dates!history
  <2>3. \A u \in Threads : Dates!Updating(u)' <=> Dates!Updating(u)
    BY <2>2 DEF Dates!Updating
  <2>4. Dates!Updating(t) /\ ~Quiet'
    BY <2>2, <2>3 DEF Quiet, Dates!Updating
  <2>5. Good(clock)' /\ buffer <= clock
    BY <1>0, <2>2 DEF DatesInv, Good, FreshFor
  <2>6. \A u \in alone' : u = t /\ Good(date[u])' /\ buffer' <= date'[u]
    BY <2>2, <2>4, <2>5 DEF DatesInv, Good, FreshFor
  <2> QED
    BY <1>0, <2>1, <2>2, <2>3, <2>4, <2>6 DEF DatesInv, Locked
<1>6. ASSUME NEW t \in Threads, Dates!Store(t)
      PROVE  DatesInv' /\ (clean' => buffer' >= buffer)
  <2>1. Dates!TypeOK'
    BY <1>0, <1>6 DEF Dates!Store, Dates!TypeOK
  <2>2. /\ pc[t] = "store" /\ pc'[t] = "get" /\ buffer' = date[t]
        /\ UNCHANGED <<atomic, clock, now, lastUpdate, seen, date>>
        /\ clean' = (t \in alone) /\ alone' = alone \ {t}
        /\ \A u \in Threads : u # t => pc'[u] = pc[u]
    BY <1>0, <1>6 DEF Dates!Store, Dates!TypeOK
  <2>3. Dates!Updating(t) /\ alone' = {}
    BY <2>2 DEF DatesInv, Dates!Updating
  <2>4. clean' => Good(date[t]) /\ buffer <= date[t]
    BY <2>2 DEF DatesInv
  <2>5. clean' => Good(buffer)'
    BY <1>0, <2>2, <2>4 DEF DatesInv, Good, FreshFor
  <2> QED
    BY <1>0, <2>1, <2>2, <2>3, <2>4, <2>5 DEF DatesInv, Locked
<1>7. ASSUME NEW t \in Threads, Dates!UpdateLocked(t)
      PROVE  DatesInv' /\ (clean' => buffer' >= buffer)
  <2>1. Dates!TypeOK'
    BY <1>0, <1>7 DEF Dates!UpdateLocked, Dates!TypeOK, Dates!history
  <2>2. /\ pc[t] = "idle" /\ ~atomic
        /\ UNCHANGED <<atomic, clock, now, lastUpdate, seen, date, alone, clean>>
        /\ \A u \in Threads : u # t => pc'[u] = pc[u]
        /\ pc'[t] = "get"
        /\ \/ buffer' = clock
           \/ buffer' = buffer /\ ~(Dates!Elapsed(t, lastUpdate) >= Timeout)
    BY <1>0, <1>7 DEF Dates!UpdateLocked, Dates!TypeOK, Dates!history
  <2>3. Quiet /\ Quiet' /\ alone' = {}
    BY <1>0, <2>2 DEF DatesInv, Locked, Quiet, Dates!Updating
  <2>4. ~(Dates!Elapsed(t, lastUpdate) >= Timeout) => now[t] <= lastUpdate + Timeout
    <3> DEFINE e == Dates!Elapsed(t, lastUpdate)
    <3>1. /\ now[t] >= lastUpdate => e = now[t] - lastUpdate
          /\ now[t] < lastUpdate => e > Timeout
          /\ e \in Nat
      BY <1>0, ElapsedIs
    <3> HIDE DEF e
    <3>2. ~(e >= Timeout) => now[t] <= lastUpdate + Timeout
      BY <1>0, <3>1
    <3> QED
      BY <3>2 DEF e
  <2>5. clean' => Good(buffer)'
    <3>1. CASE buffer' = clock
      BY <1>0, <2>2, <3>1 DEF DatesInv, Good, FreshFor
    <3>2. CASE buffer' = buffer /\ ~(Dates!Elapsed(t, lastUpdate) >= Timeout)
      BY <1>0, <2>2, <2>3, <2>4, <3>2 DEF DatesInv, Good, FreshFor
    <3> QED
      BY <2>2, <3>1, <3>2
  <2> QED
    BY <1>0, <2>1, <2>2, <2>3, <2>5 DEF DatesInv, Locked
<1>8. ASSUME NEW t \in Threads, Dates!GetBuffer(t)
      PROVE  DatesInv' /\ (clean' => buffer' >= buffer)
  <2>1. Dates!TypeOK'
    BY <1>0, <1>8 DEF Dates!GetBuffer, Dates!TypeOK, Dates!history
  <2>2. /\ pc[t] = "get" /\ pc'[t] = "idle"
        /\ UNCHANGED <<atomic, clock, now, lastUpdate, buffer, seen, date, alone, clean>>
        /\ \A u \in Threads : u # t => pc'[u] = pc[u]
    BY <1>0, <1>8 DEF Dates!GetBuffer, Dates!TypeOK, Dates!history
  <2>3. \A u \in Threads : Dates!Updating(u)' <=> Dates!Updating(u)
    BY <2>2 DEF Dates!Updating
  <2>4. /\ Good(buffer) => Good(buffer)'
        /\ \A u \in Threads : Good(date[u]) => Good(date[u])'
    BY <1>0, <2>2 DEF Good, FreshFor
  <2> QED
    BY <1>0, <2>1, <2>2, <2>3, <2>4 DEF DatesInv, Quiet, Locked
<1> QED
  BY <1>1, <1>2, <1>3, <1>4, <1>5, <1>6, <1>7, <1>8 DEF Dates!Next

\* _http_date_buffer.cc:39-64: for any number of threads, whose loops lag behind
\* the clock and each other, with either version of update() and a clock that
\* runs on at any point, a response gets a header that is not older than the
\* timeout, and the header does not go back.  The premise of both: the last
\* update was overlapped by no other one (OneUpdater does not hold).
THEOREM DatesAreSafe == Dates!Spec => DatesSafe
<1>1. Dates!Init => DatesInv
  BY ClockAssumption DEF Dates!Init, DatesInv, Dates!TypeOK, Quiet, Dates!Updating, Good,
                         FreshFor, Locked
<1>2. DatesInv /\ [Dates!Next]_(Dates!vars)
        => DatesInv' /\ [clean' => buffer' >= buffer]_(Dates!vars)
  <2> SUFFICES ASSUME DatesInv, [Dates!Next]_(Dates!vars)
               PROVE  DatesInv' /\ [clean' => buffer' >= buffer]_(Dates!vars)
    OBVIOUS
  <2>1. CASE UNCHANGED Dates!vars
    BY <2>1 DEF Dates!vars, Dates!history, DatesInv, Dates!TypeOK, Quiet, Dates!Updating,
                Good, FreshFor, Locked
  <2> QED
    BY <2>1, DatesStep
<1>3. DatesInv => Dates!TypeOK /\ Dates!DateIsFresh
  BY DEF DatesInv, Dates!DateIsFresh, Quiet, Good, FreshFor
<1> QED
  BY <1>1, <1>2, <1>3, PTL DEF Dates!Spec, DatesSafe, Dates!DatesSafe, Dates!DateNotBack

-----------------------------------------------------------------------------
(* shared_ptr and the objects that are members of others *)

Pairs == Owners \X Members

\* The shared_ptrs to an owner
Holding(o) == {p \in Pointers : ptr[p] = o}

LEMMA SameCardinality == \A S : Shared!Cardinality(S) = Cardinality(S)
BY DEF Shared!Cardinality, Cardinality

LEMMA PairsAre ==
  /\ \A o \in Owners, m \in Members : <<o, m>> \in Pairs /\ <<o, m>>[1] = o
  /\ \A x \in Pairs : /\ x[1] \in Owners /\ x \in Shared!Objects /\ x \notin Owners
                      /\ \A o \in Owners : x \in Shared!MembersOf(o) <=> x[1] = o
  /\ \A o \in Owners : o \in Shared!Objects /\ Shared!MembersOf(o) \subseteq Pairs
                       /\ o \notin Pairs /\ o # Null
  /\ Shared!Objects = Owners \cup Pairs
BY ObjectsAssumption DEF Pairs, Shared!MembersOf, Shared!Objects

LEMMA FiniteHolders ==
  ASSUME NEW o \in Owners
  PROVE  /\ IsFiniteSet(Holding(o)) /\ Cardinality(Holding(o)) \in Nat
         /\ IsFiniteSet(Holding(o)') /\ Cardinality(Holding(o)') \in Nat
         /\ IsFiniteSet(Shared!MembersOf(o))
         /\ Cardinality(Shared!MembersOf(o)) = Cardinality(Members)
         /\ Cardinality(Members) \in Nat
         /\ IsFiniteSet(Shared!MembersInUse(o))
         /\ Cardinality(Shared!MembersInUse(o)) \in Nat
         /\ IsFiniteSet(Shared!MembersInUse(o)')
         /\ Cardinality(Shared!MembersInUse(o)') \in Nat
<1>1. IsFiniteSet(Pointers) /\ IsFiniteSet(Members)
  BY ObjectsAssumption
<1>2. Holding(o) \in SUBSET Pointers /\ Holding(o)' \in SUBSET Pointers
  BY DEF Holding
<1>3. /\ IsFiniteSet(Shared!MembersOf(o))
      /\ Cardinality(Shared!MembersOf(o)) = Cardinality(Members)
      /\ Cardinality(Members) \in Nat
  <2>1. IsFiniteSet({o}) /\ Cardinality({o}) = 1
    BY FS_Singleton
  <2>2. /\ IsFiniteSet({o} \X Members)
        /\ Cardinality({o} \X Members) = 1 * Cardinality(Members)
    BY <1>1, <2>1, FS_Product
  <2>3. Cardinality(Members) \in Nat
    BY <1>1, FS_CardinalityType
  <2> QED
    BY <2>2, <2>3 DEF Shared!MembersOf
<1>4. /\ Shared!MembersInUse(o) \in SUBSET Shared!MembersOf(o)
      /\ Shared!MembersInUse(o)' \in SUBSET Shared!MembersOf(o)
  BY DEF Shared!MembersInUse, Shared!MembersOf
<1>5. IsFiniteSet(Holding(o)) /\ IsFiniteSet(Holding(o)')
  BY <1>1, <1>2, FS_Subset
<1>6. IsFiniteSet(Shared!MembersInUse(o)) /\ IsFiniteSet(Shared!MembersInUse(o)')
  BY <1>3, <1>4, FS_Subset
<1> QED
  BY <1>3, <1>5, <1>6, FS_CardinalityType

\* An owner is counted by its pointers, by those that were lost, and by each of
\* its members in use; a member by itself and by each of its requests.
OwnerCounted(o) ==
  /\ uses[o] = Cardinality(Holding(o)) + lost[o] + Cardinality(Shared!MembersInUse(o))
  /\ memory[o] = "live" <=> uses[o] > 0

MemberCounted(x) ==
  /\ uses[x] = (IF memory[x[1]] = "live" /\ ~ended[x] THEN 1 ELSE 0) + requests[x]
  /\ memory[x[1]] = "none" => ~ended[x]

PointersInv ==
  /\ Shared!TypeOK
  /\ \A o \in Owners : OwnerCounted(o)
  /\ \A x \in Pairs : MemberCounted(x)

LEMMA PointersTypes ==
  ASSUME Shared!TypeOK
  PROVE  /\ \A p \in Pointers : ptr[p] \in Owners \cup {Null}
         /\ \A o \in Owners : /\ memory[o] \in {"none", "live", "deleted"}
                              /\ lost[o] \in Nat /\ uses[o] \in Nat
                              /\ ended[o] \in BOOLEAN
         /\ \A x \in Pairs : /\ uses[x] \in Nat /\ requests[x] \in Nat
                             /\ ended[x] \in BOOLEAN
BY PairsAre DEF Shared!TypeOK, Pairs

\* What is not live is not referred to.
LEMMA NothingRefers ==
  ASSUME PointersInv, NEW o \in Owners, memory[o] # "live"
  PROVE  /\ uses[o] = 0 /\ lost[o] = 0 /\ Holding(o) = {} /\ Shared!MembersInUse(o) = {}
         /\ \A x \in Shared!MembersOf(o) : uses[x] = 0 /\ requests[x] = 0
<1>1. /\ uses[o] \in Nat /\ lost[o] \in Nat
      /\ uses[o] = Cardinality(Holding(o)) + lost[o] + Cardinality(Shared!MembersInUse(o))
      /\ ~(uses[o] > 0)
  BY PointersTypes DEF PointersInv, OwnerCounted
<1>2. /\ uses[o] = 0 /\ lost[o] = 0
      /\ Cardinality(Holding(o)) = 0 /\ Cardinality(Shared!MembersInUse(o)) = 0
  BY <1>1, FiniteHolders
<1>3. Holding(o) = {} /\ Shared!MembersInUse(o) = {}
  BY <1>2, FiniteHolders, FS_EmptySet
<1>4. ASSUME NEW x \in Shared!MembersOf(o) PROVE uses[x] = 0 /\ requests[x] = 0
  <2>1. x \in Pairs /\ x[1] = o
    BY PairsAre
  <2>2. uses[x] \in Nat /\ requests[x] \in Nat /\ MemberCounted(x)
    BY <2>1, PointersTypes DEF PointersInv
  <2>3. ~(uses[x] > 0)
    BY <1>3 DEF Shared!MembersInUse
  <2>4. uses[x] = 0 + requests[x]
    BY <2>1, <2>2 DEF MemberCounted
  <2> QED
    BY <2>2, <2>3, <2>4
<1> QED
  BY <1>2, <1>3, <1>4

LEMMA PointersInvIsSafe == PointersInv => PointersSafe
<1> SUFFICES ASSUME PointersInv PROVE PointersSafe
  OBVIOUS
<1>1. Shared!OwnerCountExact
  <2>1. \A o \in Owners :
          /\ uses[o] = Shared!Cardinality(Holding(o)) + lost[o]
                         + Shared!Cardinality(Shared!MembersInUse(o))
          /\ memory[o] = "live" <=> uses[o] > 0
    BY SameCardinality DEF PointersInv, OwnerCounted
  <2> QED
    BY <2>1, Zenon DEF Holding, Shared!OwnerCountExact
<1>2. Shared!NoDangling
  <2> SUFFICES ASSUME NEW o \in Owners, memory[o] # "live"
               PROVE  ~Shared!Reachable(o)
                      /\ \A x \in Shared!MembersOf(o) : ~(requests[x] > 0)
    BY DEF Shared!NoDangling
  <2> QED
    BY NothingRefers DEF Holding, Shared!Reachable
<1>3. Shared!UnusedOwnerIsDeleted
  <2> SUFFICES ASSUME NEW o \in Owners, memory[o] # "none", lost[o] = 0,
                      ~Shared!Reachable(o), memory[o] = "live",
                      \A x \in Shared!MembersOf(o) : ended[x] /\ requests[x] = 0
               PROVE  FALSE
    BY PointersTypes DEF Shared!UnusedOwnerIsDeleted, PointersInv
  <2>1. Holding(o) = {}
    BY DEF Holding, Shared!Reachable
  <2>2. \A x \in Shared!MembersOf(o) : uses[x] = 0
    BY PairsAre DEF PointersInv, MemberCounted
  <2>3. Shared!MembersInUse(o) = {}
    BY <2>2 DEF Shared!MembersInUse
  <2> QED
    BY <2>1, <2>3, FS_EmptySet DEF PointersInv, OwnerCounted
<1> QED
  BY <1>1, <1>2, <1>3 DEF PointersInv, PointersSafe, Shared!PointersSafe

-----------------------------------------------------------------------------
\* Assignments of pointers, of which members know nothing
LEMMA MembersKept ==
  ASSUME UNCHANGED <<memory, ended, requests>>,
         \A x \in Pairs : uses'[x] = uses[x]
  PROVE  /\ \A x \in Pairs : MemberCounted(x) => MemberCounted(x)'
         /\ \A o \in Owners : Shared!MembersInUse(o)' = Shared!MembersInUse(o)
BY PairsAre DEF MemberCounted, Shared!MembersInUse

LEMMA CopyCounts ==
  ASSUME PointersInv, NEW p \in Pointers, NEW q \in Pointers, Shared!Copy(p, q)
  PROVE  PointersInv'
<1> DEFINE a == ptr[p]
           b == ptr[q]
<1>1. /\ \A o \in Owners : lost'[o] = IF o = a THEN lost[o] + 1 ELSE lost[o]
      /\ \A o \in Owners : uses'[o] = IF o = b THEN uses[o] + 1 ELSE uses[o]
      /\ \A x \in Pairs : uses'[x] = uses[x]
      /\ UNCHANGED <<memory, ended, requests>>
  <2>1. b \in Owners \cup {Null} /\ uses \in [Shared!Objects -> Nat]
    BY PointersTypes DEF PointersInv, Shared!TypeOK
  <2> QED
    BY <2>1, PairsAre DEF Shared!Copy, Shared!Overwritten, Shared!Retained
<1>2. \A r \in Pointers : ptr'[r] = IF r = p THEN b ELSE ptr[r]
  BY DEF Shared!Copy, PointersInv, Shared!TypeOK
<1>3. Shared!TypeOK'
  <2>1. b \in Owners \cup {Null} /\ Shared!TypeOK
    BY PointersTypes DEF PointersInv
  <2>2. ptr' \in [Pointers -> Owners \cup {Null}]
    BY <2>1 DEF Shared!Copy, Shared!TypeOK
  <2>3. uses' \in [Shared!Objects -> Nat]
    BY <2>1, PairsAre DEF Shared!Copy, Shared!TypeOK, Shared!Retained
  <2>4. lost' \in [Owners -> Nat]
    BY <2>1 DEF Shared!Copy, Shared!TypeOK, Shared!Overwritten
  <2> QED
    BY <2>1, <2>2, <2>3, <2>4 DEF Shared!Copy, Shared!TypeOK
<1>4. ASSUME NEW o \in Owners PROVE OwnerCounted(o)'
  <2>1. /\ OwnerCounted(o) /\ uses[o] \in Nat /\ lost[o] \in Nat
        /\ (a = o => p \in Holding(o)) /\ (p \in Holding(o) => a = o)
    BY PointersTypes DEF PointersInv, Holding
  <2>2. Cardinality(Shared!MembersInUse(o)') = Cardinality(Shared!MembersInUse(o))
    BY <1>1, MembersKept
  <2>3. CASE o = b
    <3>1. Holding(o)' = Holding(o) \cup {p}
      BY <1>2, <2>3 DEF Holding
    <3>2. Cardinality(Holding(o)') = IF p \in Holding(o) THEN Cardinality(Holding(o))
                                     ELSE Cardinality(Holding(o)) + 1
      <4>1. IsFiniteSet(Holding(o))
        BY FiniteHolders
      <4> QED
        BY <3>1, <4>1, FS_AddElement
    <3>3. /\ uses'[o] = uses[o] + 1 /\ memory' = memory
          /\ lost'[o] = IF p \in Holding(o) THEN lost[o] + 1 ELSE lost[o]
      BY <1>1, <2>1, <2>3
    <3>4. /\ Cardinality(Holding(o)) \in Nat /\ Cardinality(Shared!MembersInUse(o)) \in Nat
      BY FiniteHolders
    <3>5. memory[o] = "live"
      BY <2>3, NothingRefers DEF Holding
    <3> QED
      BY <2>1, <2>2, <3>2, <3>3, <3>4, <3>5 DEF OwnerCounted
  <2>4. CASE o # b
    <3>1. Holding(o)' = Holding(o) \ {p}
      BY <1>2, <2>4 DEF Holding
    <3>2. /\ IsFiniteSet(Holding(o))
          /\ Cardinality(Holding(o)') = IF o = a THEN Cardinality(Holding(o)) - 1
                                        ELSE Cardinality(Holding(o))
      BY <2>1, <3>1, FiniteHolders, FS_RemoveElement
    <3> QED
      BY <1>1, <2>1, <2>2, <2>4, <3>2, FiniteHolders DEF OwnerCounted
  <2> QED
    BY <2>3, <2>4
<1> QED
  BY <1>1, <1>3, <1>4, MembersKept DEF PointersInv

LEMMA MoveCounts ==
  ASSUME PointersInv, NEW p \in Pointers, NEW q \in Pointers, Shared!Move(p, q)
  PROVE  PointersInv'
<1> DEFINE a == ptr[p]
           b == ptr[q]
<1>1. /\ \A o \in Owners : lost'[o] = IF o = a THEN lost[o] + 1 ELSE lost[o]
      /\ UNCHANGED <<memory, uses, ended, requests>>
  BY DEF Shared!Move, Shared!Overwritten
<1>2. \A r \in Pointers : ptr'[r] = IF r = q THEN Null ELSE IF r = p THEN b ELSE ptr[r]
  BY DEF Shared!Move
<1>3. Shared!TypeOK'
  BY PointersTypes
  DEF PointersInv, Shared!Move, Shared!Overwritten, Shared!TypeOK
<1>4. ASSUME NEW o \in Owners PROVE OwnerCounted(o)'
  <2> DEFINE H == Holding(o)
             n == Cardinality(H)
  <2>1. /\ OwnerCounted(o) /\ uses[o] \in Nat /\ lost[o] \in Nat /\ o # Null
        /\ (a = o <=> p \in H) /\ (b = o <=> q \in H)
        /\ IsFiniteSet(H) /\ IsFiniteSet(H \ {q}) /\ n \in Nat
    BY PointersTypes, PairsAre, FiniteHolders, FS_RemoveElement DEF PointersInv, Holding
  <2>2. Cardinality(Shared!MembersInUse(o)') = Cardinality(Shared!MembersInUse(o))
    BY <1>1, MembersKept
  <2>3. Cardinality(H') = IF o = a THEN n - 1 ELSE n
    <3>1. CASE p = q
      <4>1. H' = H \ {p}
        BY <1>2, <2>1, <3>1 DEF Holding
      <4> QED
        BY <2>1, <4>1, FS_RemoveElement
    <3>2. CASE p # q /\ b = o
      <4>1. H' = (H \ {q}) \cup {p} /\ Cardinality(H \ {q}) = n - 1
        BY <1>2, <2>1, <3>2, FS_RemoveElement DEF Holding
      <4>2. Cardinality((H \ {q}) \cup {p}) = IF p \in H \ {q} THEN n - 1 ELSE n - 1 + 1
        BY <2>1, <4>1, FS_AddElement
      <4> QED
        BY <2>1, <3>2, <4>1, <4>2
    <3>3. CASE p # q /\ b # o
      <4>1. H' = H \ {p}
        BY <1>2, <2>1, <3>3 DEF Holding
      <4> QED
        BY <2>1, <4>1, FS_RemoveElement
    <3> QED
      BY <3>1, <3>2, <3>3
  <2>4. o = a => n > 0
    BY <2>1, FS_EmptySet
  <2> QED
    BY <1>1, <2>1, <2>2, <2>3, <2>4, FiniteHolders DEF OwnerCounted
<1> QED
  BY <1>1, <1>3, <1>4, MembersKept DEF PointersInv


\* make_shared(): all members are in use and retain the new owner.
LEMMA MakeCounts ==
  ASSUME PointersInv, NEW p \in Pointers, NEW o \in Owners, Shared!Make(p, o)
  PROVE  PointersInv'
<1>1. /\ uses'[o] = 1 + Cardinality(Members)
      /\ \A u \in Owners : u # o => uses'[u] = uses[u] /\ memory'[u] = memory[u]
      /\ \A x \in Pairs : uses'[x] = IF x[1] = o THEN 1 ELSE uses[x]
      /\ memory'[o] = "live"
      /\ UNCHANGED <<ended, requests, lost>>
      /\ memory[o] = "none" /\ ptr[p] = Null
  <2>1. /\ uses' = [x \in Shared!Objects |-> IF x = o THEN 1 + Cardinality(Members)
                                 ELSE IF x \in Shared!MembersOf(o) THEN 1 ELSE uses[x]]
        /\ memory' = [memory EXCEPT ![o] = "live"]
        /\ UNCHANGED <<ended, requests, lost>>
        /\ memory[o] = "none" /\ ptr[p] = Null
    BY SameCardinality DEF Shared!Make
  <2>2. \A u \in Owners : memory'[u] = IF u = o THEN "live" ELSE memory[u]
    BY <2>1 DEF PointersInv, Shared!TypeOK
  <2>3. /\ \A x \in Pairs : x \in Shared!Objects /\ x # o
                            /\ (x \in Shared!MembersOf(o) <=> x[1] = o)
        /\ \A u \in Owners : u \in Shared!Objects /\ u \notin Shared!MembersOf(o)
    BY PairsAre
  <2>4. \A x \in Pairs : uses'[x] = IF x[1] = o THEN 1 ELSE uses[x]
    BY <2>1, <2>3
  <2>5. \A u \in Owners : uses'[u] = IF u = o THEN 1 + Cardinality(Members) ELSE uses[u]
    BY <2>1, <2>3
  <2> QED
    BY <2>1, <2>2, <2>4, <2>5
<1>2. \A r \in Pointers : ptr'[r] = IF r = p THEN o ELSE ptr[r]
  BY DEF Shared!Make, PointersInv, Shared!TypeOK
<1>3. Shared!TypeOK'
  <2>0. Cardinality(Members) \in Nat
    BY FiniteHolders
  <2>1. Shared!TypeOK /\ 1 + Cardinality(Members) \in Nat
    BY <2>0 DEF PointersInv
  <2>2. uses' \in [Shared!Objects -> Nat]
    BY <2>1, SameCardinality DEF Shared!Make, Shared!TypeOK
  <2> QED
    BY <2>1, <2>2 DEF Shared!Make, Shared!TypeOK
<1>4. ASSUME NEW u \in Owners PROVE OwnerCounted(u)'
  <2>1. CASE u = o
    <3>1. /\ lost[o] = 0 /\ Holding(o) = {}
      BY <1>1, NothingRefers
    <3>2. Holding(o)' = {p} /\ Shared!MembersInUse(o)' = Shared!MembersOf(o)
      BY <1>1, <1>2, <3>1, PairsAre DEF Holding, Shared!MembersInUse
    <3>3. Cardinality(Holding(o)') = 1
      BY <3>2, FS_Singleton
    <3>4. /\ Cardinality(Shared!MembersInUse(o)') = Cardinality(Members)
          /\ Cardinality(Members) \in Nat
      BY <3>2, FiniteHolders
    <3> QED
      BY <1>1, <2>1, <3>1, <3>3, <3>4 DEF OwnerCounted
  <2>2. CASE u # o
    <3>1. Holding(u)' = Holding(u)
      BY <1>1, <1>2, <2>2, PairsAre DEF Holding
    <3>2. Shared!MembersInUse(u)' = Shared!MembersInUse(u)
      BY <1>1, <2>2, PairsAre DEF Shared!MembersInUse
    <3>3. OwnerCounted(u)
      BY DEF PointersInv
    <3> QED
      BY <1>1, <2>2, <3>1, <3>2, <3>3 DEF OwnerCounted
  <2> QED
    BY <2>1, <2>2
<1>5. ASSUME NEW x \in Pairs PROVE MemberCounted(x)'
  <2>1. x[1] \in Owners /\ MemberCounted(x) /\ requests[x] \in Nat
    BY PairsAre, PointersTypes DEF PointersInv
  <2>2. CASE x[1] = o
    <3>1. requests[x] = 0 /\ ~ended[x]
      BY <1>1, <2>1, <2>2, NothingRefers, PairsAre DEF MemberCounted
    <3> QED
      BY <1>1, <2>2, <3>1 DEF MemberCounted
  <2>3. CASE x[1] # o
    BY <1>1, <2>1, <2>3 DEF MemberCounted
  <2> QED
    BY <2>2, <2>3
<1> QED
  BY <1>3, <1>4, <1>5 DEF PointersInv

\* reset(): the last of all that count the owner deletes it.
LEMMA ResetCounts ==
  ASSUME PointersInv, NEW p \in Pointers, Shared!Reset(p)
  PROVE  PointersInv'
<1>0. PICK o \in Owners : o = ptr[p]
  BY PointersTypes DEF PointersInv, Shared!Reset
<1>1. /\ p \in Holding(o) /\ Shared!TypeOK
  BY <1>0 DEF PointersInv, Holding
<1>2. memory[o] = "live" /\ uses[o] > 0 /\ uses[o] \in Nat
  BY <1>1, NothingRefers, PointersTypes DEF PointersInv, OwnerCounted
<1>3. Shared!Releasing(o) = {o} /\ (Shared!Unused(o) = IF uses[o] = 1 THEN {o} ELSE {})
  BY <1>1 DEF Shared!Releasing, Shared!Unused
<1>4. /\ \A r \in Pointers : ptr'[r] = IF r = p THEN Null ELSE ptr[r]
      /\ ptr' \in [Pointers -> Owners \cup {Null}]
      /\ UNCHANGED <<requests, lost>>
      /\ uses' = [y \in Shared!Objects |-> IF y = o THEN uses[y] - 1 ELSE uses[y]]
      /\ memory' = [u \in Owners |-> IF u = o /\ uses[o] = 1 THEN "deleted" ELSE memory[u]]
      /\ ended' = [y \in Shared!Objects |-> ended[y] \/ (y = o /\ uses[o] = 1)]
  <2>1. /\ ptr' = [ptr EXCEPT ![p] = Null] /\ UNCHANGED <<requests, lost>>
        /\ Shared!Release(o) /\ Shared!Ended(Shared!Unused(o))
    BY <1>0 DEF Shared!Reset
  <2>2. /\ uses' = [y \in Shared!Objects |-> IF y = o THEN uses[y] - 1 ELSE uses[y]]
        /\ memory' = [u \in Owners |-> IF u = o /\ uses[o] = 1 THEN "deleted"
                                        ELSE memory[u]]
    BY <1>3, <2>1 DEF Shared!Release
  <2>3. ended' = [y \in Shared!Objects |-> ended[y] \/ (y = o /\ uses[o] = 1)]
    BY <1>3, <2>1 DEF Shared!Ended
  <2> QED
    BY <1>1, <2>1, <2>2, <2>3 DEF Shared!TypeOK
<1>5. Shared!TypeOK'
  <2>1. uses' \in [Shared!Objects -> Nat]
    BY <1>1, <1>2, <1>4 DEF Shared!TypeOK
  <2>2. memory' \in [Owners -> {"none", "live", "deleted"}]
    BY <1>1, <1>4 DEF Shared!TypeOK
  <2>3. ended' \in [Shared!Objects -> BOOLEAN]
    BY <1>1, <1>4 DEF Shared!TypeOK
  <2> QED
    BY <1>1, <1>4, <2>1, <2>2, <2>3 DEF Shared!TypeOK
<1>6. /\ \A u \in Owners : /\ uses'[u] = IF u = o THEN uses[u] - 1 ELSE uses[u]
                           /\ memory'[u] = IF u = o /\ uses[o] = 1 THEN "deleted"
                                           ELSE memory[u]
      /\ \A x \in Pairs : uses'[x] = uses[x] /\ (ended'[x] <=> ended[x])
  BY <1>1, <1>4, PairsAre DEF Shared!TypeOK
<1>7. ASSUME NEW u \in Owners PROVE OwnerCounted(u)'
  <2>1. OwnerCounted(u) /\ lost[u] \in Nat /\ uses[u] \in Nat
    BY PointersTypes DEF PointersInv
  <2>2. Shared!MembersInUse(u)' = Shared!MembersInUse(u)
    BY <1>6, PairsAre DEF Shared!MembersInUse
  <2>3. CASE u = o
    <3>1. Holding(o)' = Holding(o) \ {p}
      <4>1. o # Null
        BY <1>1, PairsAre
      <4>2. \A r \in Pointers : ptr'[r] = o <=> ptr[r] = o /\ r # p
        BY <1>4, <4>1
      <4> QED
        BY <4>2 DEF Holding
    <3>2. /\ Cardinality(Holding(o)') = Cardinality(Holding(o)) - 1
          /\ Cardinality(Holding(o)) \in Nat
          /\ Cardinality(Shared!MembersInUse(o)) \in Nat
      BY <1>1, <3>1, FiniteHolders, FS_RemoveElement
    <3>3. uses'[o] = uses[o] - 1 /\ lost' = lost /\ lost[o] \in Nat
      BY <1>1, <1>4, <1>6, <2>1, <2>3
    <3>4. memory'[o] = "live" <=> uses'[o] > 0
      BY <1>1, <1>2, <1>6, <3>3
    <3>5. /\ uses[o] = Cardinality(Holding(o)) + lost[o]
                         + Cardinality(Shared!MembersInUse(o))
      BY <2>1, <2>3 DEF OwnerCounted
    <3> QED
      BY <1>2, <2>2, <2>3, <3>2, <3>3, <3>4, <3>5 DEF OwnerCounted
  <2>4. CASE u # o
    <3>1. Holding(u)' = Holding(u)
      BY <1>1, <1>4, <2>4, PairsAre DEF Holding
    <3> QED
      BY <1>4, <1>6, <2>1, <2>2, <2>4, <3>1 DEF OwnerCounted
  <2> QED
    BY <2>3, <2>4
<1>8. ASSUME NEW x \in Pairs PROVE MemberCounted(x)'
  <2>1. x[1] \in Owners /\ MemberCounted(x) /\ uses[x] \in Nat /\ requests[x] \in Nat
    BY PairsAre, PointersTypes DEF PointersInv
  <2>2. CASE x[1] = o /\ uses[o] = 1
    <3>1. Cardinality(Holding(o)) > 0 /\ Cardinality(Holding(o)) \in Nat
      BY <1>1, FiniteHolders, FS_EmptySet
    <3>2. /\ uses[o] = Cardinality(Holding(o)) + lost[o]
                         + Cardinality(Shared!MembersInUse(o))
          /\ lost[o] \in Nat /\ Cardinality(Shared!MembersInUse(o)) \in Nat
      BY <1>1, FiniteHolders, PointersTypes DEF PointersInv, OwnerCounted
    <3>3. Cardinality(Shared!MembersInUse(o)) = 0
      BY <2>2, <3>1, <3>2
    <3>4. Shared!MembersInUse(o) = {}
      BY <1>1, <3>3, FiniteHolders, FS_EmptySet
    <3>5. uses[x] = 0
      BY <1>1, <2>1, <2>2, <3>4, PairsAre DEF Shared!MembersInUse
    <3>6. requests[x] = 0
      BY <2>1, <3>5 DEF MemberCounted
    <3>7. memory'[x[1]] = "deleted"
      BY <1>6, <2>1, <2>2
    <3> QED
      BY <1>4, <1>6, <3>5, <3>6, <3>7 DEF MemberCounted
  <2>3. CASE ~(x[1] = o /\ uses[o] = 1)
    <3>1. memory'[x[1]] = memory[x[1]]
      BY <1>6, <2>1, <2>3
    <3> QED
      BY <1>4, <1>6, <2>1, <3>1 DEF MemberCounted
  <2> QED
    BY <2>2, <2>3
<1> QED
  BY <1>5, <1>7, <1>8 DEF PointersInv


\* destroy() of an owner only marks it.
LEMMA DestroyOwnerCounts ==
  ASSUME PointersInv, NEW o \in Owners, Shared!DestroyOwner(o)
  PROVE  PointersInv'
<1>1. /\ UNCHANGED <<ptr, memory, uses, requests, lost>>
      /\ ended' = [y \in Shared!Objects |-> ended[y] \/ y \in {o}]
  BY DEF Shared!DestroyOwner, Shared!Ended
<1>2. Shared!TypeOK'
  BY <1>1 DEF PointersInv, Shared!TypeOK
<1>3. ASSUME NEW x \in Pairs PROVE ended'[x] <=> ended[x]
  <2>1. x \in Shared!Objects /\ x # o
    BY PairsAre
  <2>2. ended'[x] = (ended[x] \/ x \in {o})
    BY <1>1, <2>1
  <2> QED
    BY <2>1, <2>2
<1>4. ASSUME NEW u \in Owners PROVE OwnerCounted(u)'
  BY <1>1 DEF PointersInv, OwnerCounted, Holding, Shared!MembersInUse
<1>5. ASSUME NEW x \in Pairs PROVE MemberCounted(x)'
  BY <1>1, <1>3 DEF PointersInv, MemberCounted
<1> QED
  BY <1>2, <1>4, <1>5 DEF PointersInv

\* A request retains its member, which is in use already.
LEMMA RequestCounts ==
  ASSUME PointersInv, NEW o \in Owners, NEW m \in Members, Shared!Request(o, m)
  PROVE  PointersInv'
<1>0. PICK x \in Pairs : x = <<o, m>> /\ x[1] = o
  BY PairsAre
<1>1. /\ UNCHANGED <<ptr, memory, ended, lost>>
      /\ uses' = [uses EXCEPT ![x] = @ + 1] /\ requests' = [requests EXCEPT ![x] = @ + 1]
      /\ ~ended[x] /\ Shared!Reachable(o) /\ Shared!TypeOK
  BY <1>0 DEF Shared!Request, Shared!Retained, PointersInv
<1>2. memory[o] = "live"
  BY <1>1, NothingRefers DEF Shared!Reachable, Holding
<1>3. Shared!TypeOK'
  BY <1>1, PairsAre DEF Shared!TypeOK, Pairs
<1>4. /\ \A u \in Owners : uses'[u] = uses[u]
      /\ \A y \in Pairs : /\ uses'[y] = IF y = x THEN uses[y] + 1 ELSE uses[y]
                          /\ requests'[y] = IF y = x THEN requests[y] + 1 ELSE requests[y]
  BY <1>1, PairsAre DEF Shared!TypeOK, Pairs
<1>5. uses[x] > 0 /\ uses[x] \in Nat
  BY <1>0, <1>1, <1>2, PointersTypes DEF PointersInv, MemberCounted
<1>6. ASSUME NEW u \in Owners PROVE OwnerCounted(u)'
  <2>1. Shared!MembersInUse(u)' = Shared!MembersInUse(u)
    <3>1. \A y \in Shared!MembersOf(u) : uses'[y] > 0 <=> uses[y] > 0
      BY <1>4, <1>5, PairsAre
    <3> QED
      BY <3>1 DEF Shared!MembersInUse
  <2>2. Holding(u)' = Holding(u)
    BY <1>1 DEF Holding
  <2> QED
    BY <1>1, <1>4, <2>1, <2>2 DEF PointersInv, OwnerCounted
<1>7. ASSUME NEW y \in Pairs PROVE MemberCounted(y)'
  BY <1>1, <1>4, PointersTypes DEF PointersInv, MemberCounted
<1> QED
  BY <1>3, <1>6, <1>7 DEF PointersInv

\* release() of a member in use, which takes a request or the member itself off
\* its count; the last one is passed on to the owner and may delete it.
LEMMA MemberReleased ==
  ASSUME PointersInv, NEW o \in Owners, NEW x \in Pairs, x[1] = o, uses[x] > 0,
         Shared!Release(x), UNCHANGED <<ptr, lost>>,
         requests' \in [Owners \X Members -> Nat],
         \A y \in Pairs : y # x => requests'[y] = requests[y],
         ended' \in [Shared!Objects -> BOOLEAN],
         \A y \in Pairs : y # x => (ended'[y] <=> ended[y]),
         IF uses[x] = 1 THEN ended'[x] /\ requests'[x] = 0
         ELSE uses[x] - 1 = (IF ~ended'[x] THEN 1 ELSE 0) + requests'[x]
  PROVE  PointersInv'
<1>1. x \in Shared!MembersOf(o) /\ x \notin Owners /\ Shared!TypeOK
  BY PairsAre DEF PointersInv
<1>2. x \in Shared!MembersInUse(o) /\ memory[o] = "live"
  BY <1>1, NothingRefers DEF Shared!MembersInUse
<1>3. /\ uses[o] \in Nat /\ lost[o] \in Nat /\ uses[o] > 0 /\ uses[x] \in Nat
      /\ uses[o] = Cardinality(Holding(o)) + lost[o] + Cardinality(Shared!MembersInUse(o))
      /\ Cardinality(Holding(o)) \in Nat /\ Cardinality(Shared!MembersInUse(o)) \in Nat
  BY <1>2, FiniteHolders, PointersTypes DEF PointersInv, OwnerCounted
<1>4. Shared!Releasing(x) = IF uses[x] > 1 THEN {x} ELSE {x, o}
  BY <1>1 DEF Shared!Releasing
<1>5. /\ \A u \in Owners : /\ u # o => uses'[u] = uses[u]
                           /\ uses[x] > 1 => uses'[u] = uses[u]
      /\ uses[x] = 1 => uses'[o] = uses[o] - 1
      /\ \A y \in Pairs : uses'[y] = IF y = x THEN uses[y] - 1 ELSE uses[y]
      /\ uses' \in [Shared!Objects -> Nat]
  <2>1. uses' = [y \in Shared!Objects |-> IF y \in Shared!Releasing(x) THEN uses[y] - 1
                                          ELSE uses[y]]
    BY DEF Shared!Release
  <2>2. \A y \in Shared!Releasing(x) : uses[y] \in Nat /\ uses[y] > 0
    BY <1>3, <1>4
  <2>3. \A y \in Shared!Objects : uses[y] \in Nat
    BY <1>1 DEF Shared!TypeOK
  <2>4. uses' \in [Shared!Objects -> Nat]
    BY <2>1, <2>2, <2>3
  <2>5. /\ \A u \in Owners : u \in Shared!Releasing(x) <=> u = o /\ ~(uses[x] > 1)
        /\ \A y \in Pairs : y \in Shared!Releasing(x) <=> y = x
    BY <1>1, <1>4, PairsAre
  <2> QED
    BY <1>3, <2>1, <2>4, <2>5, PairsAre
<1>6. \A u \in Owners :
        memory'[u] = IF u = o /\ uses[x] = 1 /\ uses[o] = 1 THEN "deleted" ELSE memory[u]
  <2>1. memory' = [u \in Owners |-> IF u \in Shared!Unused(x) THEN "deleted" ELSE memory[u]]
    BY DEF Shared!Release
  <2>2. \A u \in Owners : u \in Shared!Unused(x) <=> u = o /\ uses[x] = 1 /\ uses[o] = 1
    BY <1>1, <1>3, <1>4 DEF Shared!Unused
  <2> QED
    BY <2>1, <2>2
<1>7. Shared!TypeOK'
  <2>1. memory' \in [Owners -> {"none", "live", "deleted"}]
    BY <1>1 DEF Shared!Release, Shared!TypeOK
  <2> QED
    BY <1>1, <1>5, <2>1 DEF Shared!TypeOK
<1>8. ASSUME NEW u \in Owners PROVE OwnerCounted(u)'
  <2>1. Holding(u)' = Holding(u) /\ OwnerCounted(u)
    BY DEF Holding, PointersInv
  <2>2. CASE u = o /\ uses[x] = 1
    <3>1. Shared!MembersInUse(o)' = Shared!MembersInUse(o) \ {x}
      <4>1. \A y \in Shared!MembersOf(o) : uses'[y] > 0 <=> uses[y] > 0 /\ y # x
        BY <1>5, <2>2, PairsAre
      <4> QED
        BY <4>1 DEF Shared!MembersInUse
    <3>2. Cardinality(Shared!MembersInUse(o)') = Cardinality(Shared!MembersInUse(o)) - 1
      <4>1. IsFiniteSet(Shared!MembersInUse(o))
        BY FiniteHolders
      <4> QED
        BY <1>2, <3>1, <4>1, FS_RemoveElement
    <3>3. uses'[o] = uses[o] - 1 /\ (memory'[o] = "live" <=> uses'[o] > 0)
      BY <1>2, <1>3, <1>5, <1>6, <2>2
    <3> QED
      BY <1>3, <2>1, <2>2, <3>2, <3>3 DEF OwnerCounted
  <2>3. CASE ~(u = o /\ uses[x] = 1)
    <3>1. \A y \in Shared!MembersOf(u) : uses'[y] > 0 <=> uses[y] > 0
      BY <1>3, <1>5, <2>3, PairsAre
    <3>2. Shared!MembersInUse(u)' = Shared!MembersInUse(u)
      BY <3>1 DEF Shared!MembersInUse
    <3>3. uses'[u] = uses[u] /\ memory'[u] = memory[u]
      BY <1>3, <1>5, <1>6, <2>3
    <3> QED
      BY <2>1, <3>2, <3>3 DEF OwnerCounted
  <2> QED
    BY <2>2, <2>3
<1>9. ASSUME NEW y \in Pairs PROVE MemberCounted(y)'
  <2>1. /\ MemberCounted(y) /\ uses[y] \in Nat /\ requests[y] \in Nat /\ y[1] \in Owners
        /\ requests' \in [Owners \X Members -> Nat]
    BY PairsAre, PointersTypes DEF PointersInv
  <2>2. CASE y = x
    <3>1. uses'[x] = uses[x] - 1
      BY <1>5
    <3>2. memory'[o] = "live" \/ (memory'[o] = "deleted" /\ uses[x] = 1)
      BY <1>2, <1>6
    <3> QED
      BY <1>3, <2>2, <3>1, <3>2 DEF MemberCounted
  <2>3. CASE y # x /\ y[1] = o /\ uses[x] = 1 /\ uses[o] = 1
    <3>1. Cardinality(Shared!MembersInUse(o)) <= 1
      BY <1>3, <2>3
    <3>2. Shared!MembersInUse(o) = {x}
      <4>1. Cardinality(Shared!MembersInUse(o)) # 0
        BY <1>2, FiniteHolders, FS_EmptySet
      <4>2. Cardinality(Shared!MembersInUse(o)) = 1
        BY <1>3, <3>1, <4>1
      <4>3. \E z : Shared!MembersInUse(o) = {z}
        BY <4>2, FiniteHolders, FS_Singleton
      <4> QED
        BY <1>2, <4>3
    <3>3. uses[y] = 0
      BY <2>1, <2>3, <3>2, PairsAre DEF Shared!MembersInUse
    <3>4. requests[y] = 0
      BY <2>1, <3>3 DEF MemberCounted
    <3>5. uses'[y] = 0 /\ requests'[y] = 0 /\ memory'[y[1]] = "deleted"
      BY <1>5, <1>6, <2>3, <3>3, <3>4
    <3> QED
      BY <3>5 DEF MemberCounted
  <2>4. CASE y # x /\ ~(y[1] = o /\ uses[x] = 1 /\ uses[o] = 1)
    <3>1. /\ uses'[y] = uses[y] /\ requests'[y] = requests[y] /\ (ended'[y] <=> ended[y])
          /\ memory'[y[1]] = memory[y[1]]
      BY <1>5, <1>6, <2>1, <2>4
    <3> QED
      BY <2>1, <3>1 DEF MemberCounted
  <2> QED
    BY <2>2, <2>3, <2>4
<1> QED
  BY <1>7, <1>8, <1>9 DEF PointersInv

LEMMA MemberActsCount ==
  ASSUME PointersInv, NEW o \in Owners, NEW m \in Members,
         Shared!DestroyMember(o, m) \/ Shared!Complete(o, m)
  PROVE  PointersInv'
<1>0. PICK x \in Pairs : x = <<o, m>> /\ x[1] = o
  BY PairsAre
<1>1. /\ x \in Shared!MembersOf(o) /\ x \notin Owners /\ Shared!TypeOK
      /\ MemberCounted(x) /\ uses[x] \in Nat /\ requests[x] \in Nat
      /\ Pairs = Owners \X Members
  BY <1>0, PairsAre, PointersTypes DEF PointersInv, Pairs
<1>2. memory[o] = "live"
  <2>1. Shared!Reachable(o) \/ requests[x] > 0
    BY <1>0 DEF Shared!DestroyMember, Shared!Complete
  <2>2. Shared!Reachable(o) => memory[o] = "live"
    BY NothingRefers DEF Shared!Reachable, Holding
  <2>3. requests[x] > 0 => memory[o] = "live"
    BY <1>1, NothingRefers
  <2> QED
    BY <2>1, <2>2, <2>3
<1>3. uses[x] = (IF ~ended[x] THEN 1 ELSE 0) + requests[x]
  BY <1>0, <1>1, <1>2 DEF MemberCounted
<1>4. \A y \in Pairs : y \in Shared!Unused(x) <=> y = x /\ uses[x] = 1
  BY <1>0, <1>1, PairsAre DEF Shared!Unused, Shared!Releasing
<1>5. CASE Shared!DestroyMember(o, m)
  <2>1. /\ ~ended[x] /\ Shared!Release(x) /\ UNCHANGED <<ptr, requests, lost>>
        /\ ended' = [y \in Shared!Objects |-> ended[y] \/ y \in {x} \cup Shared!Unused(x)]
    BY <1>0, <1>5 DEF Shared!DestroyMember, Shared!Ended
  <2>2. /\ ended' \in [Shared!Objects -> BOOLEAN] /\ ended'[x]
        /\ \A y \in Pairs : y # x => (ended'[y] <=> ended[y])
    BY <1>1, <1>4, <2>1, PairsAre DEF Shared!TypeOK
  <2>3. uses[x] > 0 /\ uses[x] - 1 = requests'[x]
    BY <1>1, <1>3, <2>1
  <2>4. requests' \in [Owners \X Members -> Nat]
    BY <1>1, <2>1 DEF Shared!TypeOK
  <2>5. IF uses[x] = 1 THEN ended'[x] /\ requests'[x] = 0
        ELSE uses[x] - 1 = (IF ~ended'[x] THEN 1 ELSE 0) + requests'[x]
    BY <1>1, <2>1, <2>2, <2>3
  <2> QED
    BY <1>0, <2>1, <2>2, <2>3, <2>4, <2>5, MemberReleased
<1>6. CASE Shared!Complete(o, m)
  <2>1. /\ requests[x] > 0 /\ Shared!Release(x) /\ UNCHANGED <<ptr, lost>>
        /\ requests' = [requests EXCEPT ![x] = @ - 1]
        /\ ended' = [y \in Shared!Objects |-> ended[y] \/ y \in Shared!Unused(x)]
    BY <1>0, <1>6 DEF Shared!Complete, Shared!Ended
  <2>2. /\ ended' \in [Shared!Objects -> BOOLEAN]
        /\ ended'[x] <=> ended[x] \/ uses[x] = 1
        /\ \A y \in Pairs : y # x => (ended'[y] <=> ended[y])
    BY <1>1, <1>4, <2>1, PairsAre DEF Shared!TypeOK
  <2>3. /\ requests' \in [Owners \X Members -> Nat]
        /\ requests'[x] = requests[x] - 1
        /\ \A y \in Pairs : y # x => requests'[y] = requests[y]
    BY <1>1, <2>1 DEF Shared!TypeOK
  <2>4. uses[x] > 0
    BY <1>1, <1>3, <2>1
  <2>5. IF uses[x] = 1 THEN ended'[x] /\ requests'[x] = 0
        ELSE uses[x] - 1 = (IF ~ended'[x] THEN 1 ELSE 0) + requests'[x]
    BY <1>1, <1>3, <2>1, <2>2, <2>3
  <2> QED
    BY <1>0, <2>1, <2>2, <2>3, <2>4, <2>5, MemberReleased
<1> QED
  BY <1>5, <1>6

LEMMA PointersInvariant == Shared!Spec => []PointersInv
<1>1. Shared!Init => PointersInv
  <2> SUFFICES ASSUME Shared!Init PROVE PointersInv
    OBVIOUS
  <2>1. Shared!TypeOK
    BY DEF Shared!Init, Shared!TypeOK
  <2>2. ASSUME NEW o \in Owners PROVE OwnerCounted(o)
    <3>1. Holding(o) = {} /\ Shared!MembersInUse(o) = {}
      BY PairsAre DEF Shared!Init, Holding, Shared!MembersInUse
    <3>2. uses[o] = 0 /\ lost[o] = 0 /\ memory[o] = "none"
      BY PairsAre DEF Shared!Init
    <3> QED
      BY <3>1, <3>2, FS_EmptySet DEF OwnerCounted
  <2>3. ASSUME NEW x \in Pairs PROVE MemberCounted(x)
    BY PairsAre DEF Shared!Init, MemberCounted, Pairs
  <2> QED
    BY <2>1, <2>2, <2>3 DEF PointersInv
<1>2. PointersInv /\ [Shared!Next]_(Shared!pointerVars) => PointersInv'
  <2> SUFFICES ASSUME PointersInv, [Shared!Next]_(Shared!pointerVars) PROVE PointersInv'
    OBVIOUS
  <2>1. CASE UNCHANGED Shared!pointerVars
    BY <2>1 DEF Shared!pointerVars, PointersInv, Shared!TypeOK, OwnerCounted, MemberCounted,
                Holding, Shared!MembersInUse
  <2> QED
    BY <2>1, MakeCounts, CopyCounts, MoveCounts, ResetCounts, DestroyOwnerCounts,
       RequestCounts, MemberActsCount DEF Shared!Next
<1> QED
  BY <1>1, <1>2, PTL DEF Shared!Spec

\* object.h:79-205: for any objects and pointers, copies, moves and resets of
\* pointers, the ends of members and their requests delete an owner exactly after
\* its last use; what is counted too much are the pointers that were overwritten.
THEOREM PointersAreSafe == Shared!Spec => []PointersSafe
BY PointersInvariant, PointersInvIsSafe, PTL

-----------------------------------------------------------------------------
(* The components together *)

\* A behaviour that the run of MCNetwork explores is one of every component, so
\* that the theorems above hold of it with any constants, for a program that
\* follows the rule of the server.
THEOREM NetworkIsSafe ==
  MessagesKept /\ MCSpec => ConnectSafe /\ ServerSafe /\ []UdpSafe /\ DatesSafe /\ []PointersSafe
<1> DEFINE all == <<part, vars, serverVars, dateVars, udpVars, pointerVars>>
<1>1. MCInit => Init /\ Server!Init /\ Udp!Init /\ Dates!Init /\ Shared!Init
  BY DEF MCInit
<1>2. [MCNext]_all => /\ [Next]_vars
                      /\ [Server!Next]_(Server!vars)
                      /\ [Udp!Next]_(Udp!vars)
                      /\ [Dates!Next]_(Dates!vars)
                      /\ [Shared!Next]_(Shared!pointerVars)
  BY DEF MCNext, serverVars, dateVars, udpVars, pointerVars, Server!vars, Server!connVars,
         Udp!vars, Dates!vars, Dates!history, Shared!pointerVars
<1>3. MCSpec => Spec /\ Server!Spec /\ Udp!Spec /\ Dates!Spec /\ Shared!Spec
  BY <1>1, <1>2, PTL DEF MCSpec, Spec, Server!Spec, Udp!Spec, Dates!Spec, Shared!Spec
<1> QED
  BY <1>3, ConnectIsSafe, ServerIsSafe, DatagramsAreSafe, DatesAreSafe, PointersAreSafe, PTL

=============================================================================
