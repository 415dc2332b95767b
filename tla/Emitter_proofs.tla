--------------------------- MODULE Emitter_proofs ---------------------------
(***************************************************************************)
(* Theorems about Emitter and EmitterDelivery, for any handlers, symbols   *)
(* and depth of nested emit() loops.                                       *)
(*                                                                         *)
(* The pointers are hard to reason about one by one.  The invariant says   *)
(* that there is a family L of sequences, one per symbol, which head, tail *)
(* and next spell out (Listing); every operation of the emitter is then a  *)
(* change of one or several of the sequences.                              *)
(***************************************************************************)
EXTENDS EmitterDelivery, FiniteSetTheorems, SequenceTheorems,
        WellFoundedInduction, TLAPS

-----------------------------------------------------------------------------
(* The sequences behind the pointers *)

\* h is in no list.
Loose(L, h) == \A s \in Symbols : \A i \in 1 .. Len(L[s]) : L[s][i] # h

Ends(L) ==
    \A s \in Symbols :
        /\ head[s] = IF L[s] = <<>> THEN Null ELSE L[s][1]
        /\ tail[s] = IF L[s] = <<>> THEN Null ELSE L[s][Len(L[s])]
        /\ s \in roots <=> L[s] # <<>>

Chained(L) ==
    \A s \in Symbols : \A i \in 1 .. Len(L[s]) :
        next[L[s][i]] = IF i = Len(L[s]) THEN Null ELSE L[s][i + 1]

Distinct(L) ==
    \A s, t \in Symbols :
        \A i \in 1 .. Len(L[s]), j \in 1 .. Len(L[t]) :
            L[s][i] = L[t][j] => s = t /\ i = j

Alive(L) == \A s \in Symbols : \A i \in 1 .. Len(L[s]) : heap[L[s][i]] = "live"

LooseEnds(L) == \A h \in Handlers : Loose(L, h) => next[h] = Null

Listing(L) ==
    /\ L \in [Symbols -> Seq(Handlers)]
    /\ Ends(L) /\ Chained(L) /\ Distinct(L) /\ Alive(L) /\ LooseEnds(L)

InvokedAlive == \A i \in 1 .. Len(stack) : heap[stack[i]] = "live"

EmitterInv ==
    TypeOK /\ (\E L : Listing(L)) /\ RefCountExact /\ InvokedAlive

-----------------------------------------------------------------------------
(* Induction over an index *)

LEMMA NatMin ==
    ASSUME NEW T \in SUBSET Nat, T # {}
    PROVE  \E x \in T : \A y \in T : x <= y
<1> DEFINE R == {ss \in Nat \X Nat : ss[1] < ss[2]}
<1>1. IsWellFoundedOn(R, Nat)
  BY NatLessThanWellFounded DEF OpToRel
<1>2. \A x, y \in Nat : <<y, x>> \notin R => x <= y
  OBVIOUS
<1> HIDE DEF R
<1>3. PICK x \in T : \A y \in T : <<y, x>> \notin R
  BY <1>1, WFMin
<1> QED
  BY <1>2, <1>3

\* What holds of 1 and goes on from each number to the next holds up to n.
LEMMA UpTo ==
    ASSUME NEW n \in Nat, NEW T, n > 0 => 1 \in T,
           \A i \in 1 .. n - 1 : i \in T => i + 1 \in T
    PROVE  1 .. n \subseteq T
<1> SUFFICES ASSUME (1 .. n) \ T # {} PROVE FALSE
  OBVIOUS
<1> DEFINE U == (1 .. n) \ T
<1>4. U \in SUBSET Nat /\ U # {}
  OBVIOUS
<1> HIDE DEF U
<1>5. \E x \in U : \A y \in U : x <= y
  BY <1>4, NatMin
<1>1. PICK x \in (1 .. n) \ T : \A y \in (1 .. n) \ T : x <= y
  BY <1>5 DEF U
<1>2. x # 1 /\ x - 1 \in 1 .. n - 1
  BY <1>1
<1>3. x - 1 \in T
  BY <1>1, <1>2
<1> QED
  BY <1>1, <1>2, <1>3

\* The same from the last index down to the first.
LEMMA DownFrom ==
    ASSUME NEW n \in Nat, NEW T, n > 0 => n \in T,
           \A i \in 1 .. n - 1 : i + 1 \in T => i \in T
    PROVE  1 .. n \subseteq T
<1> DEFINE U == {i \in 1 .. n : n + 1 - i \in T}
<1>1. n > 0 => 1 \in U
  OBVIOUS
<1>2. \A i \in 1 .. n - 1 : i \in U => i + 1 \in U
  <2> TAKE i \in 1 .. n - 1
  <2> HAVE i \in U
  <2>1. n - i \in 1 .. n - 1 /\ (n - i) + 1 \in T
    OBVIOUS
  <2> QED
    BY <2>1
<1> HIDE DEF U
<1>3. 1 .. n \subseteq U
  BY <1>1, <1>2, UpTo
<1>4. ASSUME NEW i \in 1 .. n PROVE i \in T
  <2>1. n + 1 - i \in 1 .. n
    OBVIOUS
  <2>2. n + 1 - i \in U
    BY <1>3, <2>1
  <2>3. n + 1 - (n + 1 - i) = i
    OBVIOUS
  <2> QED
    BY <2>2, <2>3 DEF U
<1> QED
  BY <1>4

-----------------------------------------------------------------------------
(* How often a handler is on the stack *)

At(s, h) == {i \in DOMAIN s : s[i] = h}

LEMMA AtFinite ==
    ASSUME NEW s \in Seq(Handlers), NEW h
    PROVE  /\ IsFiniteSet(At(s, h))
           /\ Cardinality(At(s, h)) \in Nat
           /\ Cardinality(At(s, h)) <= Len(s)
           /\ Cardinality(At(s, h)) = 0 <=> \A i \in 1 .. Len(s) : s[i] # h
<1>1. At(s, h) \subseteq 1 .. Len(s) /\ Len(s) \in Nat
  BY DEF At
<1>2. IsFiniteSet(1 .. Len(s)) /\ Cardinality(1 .. Len(s)) = Len(s)
  <2>1. \A n \in Nat : (IF 1 <= n THEN n - 1 + 1 ELSE 0) = n
    OBVIOUS
  <2>2. /\ IsFiniteSet(1 .. Len(s))
        /\ Cardinality(1 .. Len(s)) = IF 1 <= Len(s) THEN Len(s) - 1 + 1 ELSE 0
    BY <1>1, FS_Interval
  <2> QED
    BY <1>1, <2>1, <2>2
<1>3. IsFiniteSet(At(s, h)) /\ Cardinality(At(s, h)) <= Cardinality(1 .. Len(s))
  BY <1>1, <1>2, FS_Subset
<1>4. Cardinality(At(s, h)) \in Nat
      /\ (Cardinality(At(s, h)) = 0 <=> At(s, h) = {})
  BY <1>3, FS_CardinalityType, FS_EmptySet
<1>5. At(s, h) = {} <=> \A i \in 1 .. Len(s) : s[i] # h
  BY DEF At
<1> QED
  BY <1>1, <1>2, <1>3, <1>4, <1>5

LEMMA AtAppend ==
    ASSUME NEW s \in Seq(Handlers), NEW k \in Handlers, NEW h
    PROVE  Cardinality(At(Append(s, k), h))
               = Cardinality(At(s, h)) + (IF k = h THEN 1 ELSE 0)
<1>1. At(Append(s, k), h) = IF k = h THEN At(s, h) \cup {Len(s) + 1} ELSE At(s, h)
  BY DEF At
<1>2. Len(s) + 1 \notin At(s, h)
  BY DEF At
<1>3. IsFiniteSet(At(s, h)) /\ Cardinality(At(s, h)) \in Nat
  BY AtFinite
<1>4. Cardinality(At(s, h) \cup {Len(s) + 1}) = Cardinality(At(s, h)) + 1
  BY <1>2, <1>3, FS_AddElement
<1> QED
  BY <1>1, <1>3, <1>4

LEMMA CallersProperties ==
    ASSUME NEW S, NEW s \in Seq(S), s # <<>>
    PROVE  LET c == SubSeq(s, 1, Len(s) - 1)
           IN  /\ c \in Seq(S) /\ Len(c) = Len(s) - 1
               /\ \A i \in 1 .. Len(s) - 1 : c[i] = s[i]
               /\ s[Len(s)] \in S /\ Len(s) \in Nat \ {0}
               /\ s = Append(c, s[Len(s)])
<1> DEFINE c == SubSeq(s, 1, Len(s) - 1)
<1>1. Len(s) \in Nat \ {0} /\ \A i \in 1 .. Len(s) : s[i] \in S
  BY LenProperties, ElementOfSeq
<1>2. c \in Seq(S) /\ Len(c) = Len(s) - 1 /\ \A i \in 1 .. Len(s) - 1 : c[i] = s[i]
  <2>1. /\ c \in Seq(S)
        /\ Len(c) = IF 1 <= Len(s) - 1 THEN Len(s) - 1 - 1 + 1 ELSE 0
        /\ \A i \in 1 .. Len(s) - 1 - 1 + 1 : c[i] = s[1 + i - 1]
    BY <1>1, SubSeqProperties
  <2>2. \A n \in Nat \ {0} : /\ (IF 1 <= n - 1 THEN n - 1 - 1 + 1 ELSE 0) = n - 1
                            /\ n - 1 - 1 + 1 = n - 1
                            /\ \A i \in 1 .. n - 1 : 1 + i - 1 = i
    OBVIOUS
  <2> HIDE DEF c
  <2> QED
    BY <1>1, <2>1, <2>2
<1>3. s = Append(c, s[Len(s)])
  <2> HIDE DEF c
  <2> DEFINE a == Append(c, s[Len(s)])
  <2>1. a \in Seq(S) /\ Len(a) = Len(s) /\ \A i \in 1 .. Len(s) : a[i] = s[i]
    BY <1>1, <1>2, AppendProperties
  <2> HIDE DEF a
  <2>2. a = s
    BY <2>1, SeqEqual
  <2> QED
    BY <2>2 DEF a
<1> QED
  BY <1>1, <1>2, <1>3

-----------------------------------------------------------------------------
(* What the sequences say of the pointers *)

LEMMA ListedFacts ==
    ASSUME NEW L, Listing(L), NEW s \in Symbols
    PROVE  /\ L[s] \in Seq(Handlers) /\ Len(L[s]) \in Nat
           /\ L[s] = <<>> <=> Len(L[s]) = 0
           /\ \A i \in 1 .. Len(L[s]) : L[s][i] \in Handlers /\ L[s][i] # Null
           /\ head[s] = IF Len(L[s]) = 0 THEN Null ELSE L[s][1]
           /\ tail[s] = IF Len(L[s]) = 0 THEN Null ELSE L[s][Len(L[s])]
           /\ s \in roots <=> Len(L[s]) # 0
<1>1. L[s] \in Seq(Handlers)
  BY DEF Listing
<1>2. /\ Len(L[s]) \in Nat /\ (L[s] = <<>> <=> Len(L[s]) = 0)
      /\ \A i \in 1 .. Len(L[s]) : L[s][i] \in Handlers /\ L[s][i] # Null
  BY <1>1, LenProperties, ElementOfSeq, EmptySeq, HandlersAssumption
<1> QED
  BY <1>1, <1>2 DEF Listing, Ends

\* The iterator of a symbol visits the members of its sequence (emitter.h:52).
LEMMA ListenersAreListed ==
    ASSUME NEW L, Listing(L), NEW s \in Symbols
    PROVE  Listeners(s) = {L[s][i] : i \in 1 .. Len(L[s])}
<1> DEFINE n == Len(L[s])
           R == {L[s][i] : i \in 1 .. n}
<1>1. /\ n \in Nat
      /\ \A i \in 1 .. n : L[s][i] \in Handlers /\ L[s][i] # Null
      /\ head[s] = IF n = 0 THEN Null ELSE L[s][1]
  BY ListedFacts
<1>2. \A i \in 1 .. n : next[L[s][i]] = IF i = n THEN Null ELSE L[s][i + 1]
  BY DEF Listing, Chained
<1> HIDE DEF n
<1>3. R \in SUBSET Handlers /\ Closed(R) /\ head[s] \in R \cup {Null}
  <2>1. \A i \in 1 .. n : i # n => i + 1 \in 1 .. n
    BY <1>1
  <2> QED
    BY <1>1, <1>2, <2>1 DEF Closed
<1>4. ASSUME NEW S \in SUBSET Handlers, Closed(S), head[s] \in S \cup {Null}
      PROVE  R \subseteq S
  <2> DEFINE T == {i \in 1 .. n : L[s][i] \in S}
  <2>1. n > 0 => 1 \in T
    BY <1>1, <1>4
  <2>2. \A i \in 1 .. n - 1 : i \in T => i + 1 \in T
    <3> TAKE i \in 1 .. n - 1
    <3> HAVE i \in T
    <3>1. i \in 1 .. n /\ i # n /\ i + 1 \in 1 .. n
      BY <1>1
    <3>2. next[L[s][i]] = L[s][i + 1] /\ L[s][i] \in S
      BY <1>2, <3>1
    <3>3. L[s][i + 1] \in S
      BY <1>1, <1>4, <3>1, <3>2 DEF Closed
    <3> QED
      BY <3>1, <3>3
  <2> HIDE DEF T
  <2>3. 1 .. n \subseteq T
    BY <1>1, <2>1, <2>2, UpTo
  <2> QED
    BY <2>3 DEF T
<1>5. \A h \in R : h \in Listeners(s)
  BY <1>3, <1>4 DEF Listeners
<1>6. \A h \in Listeners(s) : h \in R
  <2> HIDE DEF R
  <2> QED
    BY <1>3 DEF Listeners
<1> QED
  BY <1>5, <1>6 DEF n

LEMMA LinkedIsListed ==
    ASSUME NEW L, Listing(L), NEW h \in Handlers
    PROVE  h \in Linked <=> ~Loose(L, h)
BY ListenersAreListed DEF Linked, Loose

\* Only a handler in a list has a successor, which is in the same list.
LEMMA SuccessorIsListed ==
    ASSUME NEW L, Listing(L), NEW h \in Handlers, next[h] # Null
    PROVE  \E s \in Symbols : \E i \in 1 .. Len(L[s]) - 1 :
               h = L[s][i] /\ next[h] = L[s][i + 1]
<1>1. PICK s \in Symbols : \E i \in 1 .. Len(L[s]) : L[s][i] = h
  BY DEF Listing, LooseEnds, Loose
<1>3. PICK i \in 1 .. Len(L[s]) : L[s][i] = h
  BY <1>1
<1>2. i # Len(L[s]) /\ next[h] = L[s][i + 1] /\ Len(L[s]) \in Nat
  BY <1>3, ListedFacts DEF Listing, Chained
<1> QED
  BY <1>2, <1>3

LEMMA RemoveAtProperties ==
    ASSUME NEW S, NEW s \in Seq(S), NEW k \in 1 .. Len(s)
    PROVE  /\ Abstract!RemoveAt(s, k) \in Seq(S)
           /\ Len(Abstract!RemoveAt(s, k)) = Len(s) - 1
           /\ \A i \in 1 .. Len(s) - 1 :
                  Abstract!RemoveAt(s, k)[i] = IF i < k THEN s[i] ELSE s[i + 1]
<1> DEFINE a == SubSeq(s, 1, k - 1)
           b == SubSeq(s, k + 1, Len(s))
<1>1. Len(s) \in Nat /\ k \in Int /\ \A i \in 1 .. Len(s) : s[i] \in S
  BY LenProperties, ElementOfSeq
<1>2. /\ a \in Seq(S) /\ Len(a) = k - 1
      /\ \A i \in 1 .. k - 1 : a[i] = s[i]
  <2>1. \A i \in 1 .. k - 1 : s[i] \in S
    BY <1>1
  <2>2. /\ a \in Seq(S)
        /\ Len(a) = IF 1 <= k - 1 THEN k - 1 - 1 + 1 ELSE 0
        /\ \A i \in 1 .. k - 1 - 1 + 1 : a[i] = s[1 + i - 1]
    BY <1>1, <2>1, SubSeqProperties
  <2>3. /\ (IF 1 <= k - 1 THEN k - 1 - 1 + 1 ELSE 0) = k - 1
        /\ k - 1 - 1 + 1 = k - 1
        /\ \A i \in 1 .. k - 1 : 1 + i - 1 = i
    BY <1>1
  <2> HIDE DEF a
  <2> QED
    BY <2>2, <2>3
<1>3. /\ b \in Seq(S) /\ Len(b) = Len(s) - k
      /\ \A i \in 1 .. Len(s) - k : b[i] = s[k + i]
  <2>1. \A i \in k + 1 .. Len(s) : s[i] \in S
    BY <1>1
  <2>2. /\ b \in Seq(S)
        /\ Len(b) = IF k + 1 <= Len(s) THEN Len(s) - (k + 1) + 1 ELSE 0
        /\ \A i \in 1 .. Len(s) - (k + 1) + 1 : b[i] = s[(k + 1) + i - 1]
    BY <1>1, <2>1, SubSeqProperties
  <2>3. /\ (IF k + 1 <= Len(s) THEN Len(s) - (k + 1) + 1 ELSE 0) = Len(s) - k
        /\ Len(s) - (k + 1) + 1 = Len(s) - k
        /\ \A i \in 1 .. Len(s) - k : (k + 1) + i - 1 = k + i
    BY <1>1
  <2> HIDE DEF b
  <2> QED
    BY <2>2, <2>3
<1>4. Abstract!RemoveAt(s, k) = a \o b
  BY DEF Abstract!RemoveAt
<1> HIDE DEF a, b
<1>5. /\ a \o b \in Seq(S) /\ Len(a \o b) = Len(a) + Len(b)
      /\ \A i \in 1 .. Len(a) + Len(b) :
             (a \o b)[i] = IF i <= Len(a) THEN a[i] ELSE b[i - Len(a)]
  BY <1>2, <1>3, ConcatProperties
<1>6. Len(a) + Len(b) = Len(s) - 1
  BY <1>1, <1>2, <1>3
<1>7. ASSUME NEW i \in 1 .. Len(s) - 1
      PROVE  (a \o b)[i] = IF i < k THEN s[i] ELSE s[i + 1]
  <2>1. CASE i < k
    BY <1>1, <1>2, <1>5, <1>6, <2>1
  <2>2. CASE ~(i < k)
    <3>1. i - Len(a) \in 1 .. Len(s) - k /\ ~(i <= Len(a)) /\ k + (i - Len(a)) = i + 1
      BY <1>1, <1>2, <2>2
    <3> QED
      BY <1>3, <1>5, <1>6, <2>2, <3>1
  <2> QED
    BY <2>1, <2>2
<1> QED
  BY <1>4, <1>5, <1>6, <1>7

-----------------------------------------------------------------------------
(* What the operations do to the sequences *)

\* on() appends to the list of its symbol (emitter.cc:31-39).
LEMMA OnAppends ==
    ASSUME TypeOK, NEW L, Listing(L), NEW s \in Symbols, On(s)
    PROVE  \E h \in Handlers :
               /\ heap[h] = "fresh" /\ Loose(L, h)
               /\ heap' = [heap EXCEPT ![h] = "live"]
               /\ Listing([L EXCEPT ![s] = Append(@, h)])'
<1>1. PICK h \in Handlers :
          /\ heap[h] = "fresh"
          /\ heap' = [heap EXCEPT ![h] = "live"]
          /\ roots' = roots \cup {s}
          /\ tail' = [tail EXCEPT ![s] = h]
          /\ \/ /\ tail[s] # Null
                /\ next' = [next EXCEPT ![tail[s]] = h]
                /\ UNCHANGED head
             \/ /\ tail[s] = Null
                /\ head' = [head EXCEPT ![s] = h]
                /\ UNCHANGED next
  BY DEF On
<1> DEFINE M == [L EXCEPT ![s] = Append(@, h)]
           n == Len(L[s])
<1>2. Loose(L, h)
  BY <1>1 DEF Loose, Listing, Alive
<1>3. /\ L \in [Symbols -> Seq(Handlers)]
      /\ n \in Nat /\ (L[s] = <<>> <=> n = 0)
      /\ \A i \in 1 .. n : L[s][i] \in Handlers /\ L[s][i] # Null
      /\ head[s] = IF n = 0 THEN Null ELSE L[s][1]
      /\ tail[s] = IF n = 0 THEN Null ELSE L[s][n]
      /\ s \in roots <=> n # 0
  BY ListedFacts DEF Listing
<1>4. /\ M \in [Symbols -> Seq(Handlers)]
      /\ \A t \in Symbols : t # s => M[t] = L[t]
      /\ Len(M[s]) = n + 1 /\ M[s] # <<>>
      /\ \A i \in 1 .. n : M[s][i] = L[s][i]
      /\ M[s][n + 1] = h
  <2>1. /\ Append(L[s], h) \in Seq(Handlers)
        /\ Append(L[s], h) # <<>>
        /\ Len(Append(L[s], h)) = n + 1
        /\ \A i \in 1 .. n : Append(L[s], h)[i] = L[s][i]
        /\ Append(L[s], h)[n + 1] = h
    BY <1>3, AppendProperties
  <2>2. M[s] = Append(L[s], h)
    BY <1>3
  <2> QED
    BY <1>3, <2>1, <2>2
<1>5. \A t \in Symbols : \A i \in 1 .. Len(L[t]) : L[t][i] \in Handlers /\ L[t][i] # h
  BY <1>2, ListedFacts DEF Loose
<1>6. n # 0 => n \in 1 .. n
  BY <1>3
<1> HIDE DEF M, n
<1>7. Ends(M)'
  <2> SUFFICES ASSUME NEW t \in Symbols
               PROVE  /\ head'[t] = IF M[t] = <<>> THEN Null ELSE M[t][1]
                      /\ tail'[t] = IF M[t] = <<>> THEN Null ELSE M[t][Len(M[t])]
                      /\ t \in roots' <=> M[t] # <<>>
    BY DEF Ends
  <2>1. head \in [Symbols -> Pointers] /\ tail \in [Symbols -> Pointers]
    BY DEF TypeOK
  <2>2. CASE t = s
    <3>1. tail'[s] = h /\ s \in roots'
      BY <1>1, <2>1
    <3>2. n # 0 => head'[s] = L[s][1] /\ M[s][1] = L[s][1]
      BY <1>1, <1>3, <1>4, <1>6
    <3>3. n = 0 => head'[s] = h /\ M[s][1] = h
      BY <1>1, <1>3, <1>4, <2>1
    <3> QED
      BY <1>4, <2>2, <3>1, <3>2, <3>3
  <2>3. CASE t # s
    <3>1. head'[t] = head[t] /\ tail'[t] = tail[t] /\ (t \in roots' <=> t \in roots)
      BY <1>1, <2>1, <2>3
    <3> QED
      BY <1>4, <2>3, <3>1 DEF Listing, Ends
  <2> QED
    BY <2>2, <2>3
<1>8. Distinct(M)'
  <2> SUFFICES ASSUME NEW t \in Symbols, NEW u \in Symbols,
                      NEW i \in 1 .. Len(M[t]), NEW j \in 1 .. Len(M[u]),
                      M[t][i] = M[u][j]
               PROVE  t = u /\ i = j
    BY DEF Distinct
  <2>1. \A v \in Symbols : \A k \in 1 .. Len(M[v]) :
            \/ k \in 1 .. Len(L[v]) /\ M[v][k] = L[v][k] /\ M[v][k] # h
            \/ v = s /\ k = n + 1 /\ M[v][k] = h
    BY <1>3, <1>4, <1>5 DEF n
  <2>2. \/ i \in 1 .. Len(L[t]) /\ M[t][i] = L[t][i] /\ M[t][i] # h
        \/ t = s /\ i = n + 1 /\ M[t][i] = h
    BY <2>1
  <2>3. \/ j \in 1 .. Len(L[u]) /\ M[u][j] = L[u][j] /\ M[u][j] # h
        \/ u = s /\ j = n + 1 /\ M[u][j] = h
    BY <2>1
  <2>4. i \in 1 .. Len(L[t]) /\ j \in 1 .. Len(L[u]) /\ L[t][i] = L[u][j]
            => t = u /\ i = j
    BY DEF Listing, Distinct
  <2> QED
    BY <2>2, <2>3, <2>4
<1>9. Alive(M)'
  <2>1. \A v \in Symbols : \A k \in 1 .. Len(M[v]) :
            \/ k \in 1 .. Len(L[v]) /\ M[v][k] = L[v][k] /\ M[v][k] # h
            \/ v = s /\ k = n + 1 /\ M[v][k] = h
    BY <1>3, <1>4, <1>5 DEF n
  <2>2. \A k \in Handlers : heap'[k] = IF k = h THEN "live" ELSE heap[k]
    BY <1>1 DEF TypeOK
  <2>3. \A v \in Symbols : \A k \in 1 .. Len(L[v]) : heap'[L[v][k]] = "live"
    BY <1>5, <2>2 DEF Listing, Alive
  <2>4. \A v \in Symbols : \A k \in 1 .. Len(M[v]) : heap'[M[v][k]] = "live"
    BY <2>1, <2>2, <2>3
  <2> QED
    BY <2>4 DEF Alive
<1>10. Chained(M)'
  <2>1. \A k \in Handlers : next'[k] = IF n # 0 /\ k = L[s][n] THEN h ELSE next[k]
    BY <1>1, <1>3, <1>6 DEF TypeOK
  <2>2. next[h] = Null
    BY <1>2 DEF Listing, LooseEnds
  <2> SUFFICES ASSUME NEW t \in Symbols, NEW i \in 1 .. Len(M[t])
               PROVE  next'[M[t][i]] = IF i = Len(M[t]) THEN Null ELSE M[t][i + 1]
    BY DEF Chained
  <2>3. CASE t # s
    <3>1. M[t] = L[t] /\ i \in 1 .. Len(L[t])
      BY <1>4, <2>3
    <3>2. n # 0 => L[t][i] # L[s][n]
      BY <1>6, <2>3, <3>1 DEF Listing, Distinct, n
    <3>3. next[L[t][i]] = IF i = Len(L[t]) THEN Null ELSE L[t][i + 1]
      BY <3>1 DEF Listing, Chained
    <3> QED
      BY <1>5, <2>1, <3>1, <3>2, <3>3
  <2>4. CASE t = s /\ i = n + 1
    <3>1. n # 0 => L[s][n] # h
      BY <1>5, <1>6 DEF n
    <3> QED
      BY <1>4, <2>1, <2>2, <2>4, <3>1
  <2>5. CASE t = s /\ i \in 1 .. n
    <3>1. M[t][i] = L[s][i] /\ i # Len(M[t]) /\ L[s][i] \in Handlers
      BY <1>3, <1>4, <2>5
    <3>2. next[L[s][i]] = IF i = n THEN Null ELSE L[s][i + 1]
      BY <2>5 DEF Listing, Chained, n
    <3>3. CASE i = n
      BY <1>3, <1>4, <2>1, <2>5, <3>1, <3>3
    <3>4. CASE i # n
      <4>1. L[s][i] # L[s][n]
        BY <1>6, <2>5, <3>4 DEF Listing, Distinct, n
      <4>2. i + 1 \in 1 .. n
        BY <1>3, <2>5, <3>4
      <4> QED
        BY <1>4, <2>1, <2>5, <3>1, <3>2, <3>4, <4>1, <4>2
    <3> QED
      BY <3>3, <3>4
  <2> QED
    BY <1>3, <1>4, <2>3, <2>4, <2>5
<1>11. LooseEnds(M)'
  <2>1. \A k \in Handlers : Loose(M, k) => Loose(L, k)
    <3>1. \A t \in Symbols : \A i \in 1 .. Len(L[t]) :
              i \in 1 .. Len(M[t]) /\ M[t][i] = L[t][i]
      BY <1>3, <1>4 DEF n
    <3> QED
      BY <3>1 DEF Loose
  <2>2. \A k \in Handlers : Loose(L, k) => (n # 0 => k # L[s][n])
    BY <1>6 DEF Loose, n
  <2>3. \A k \in Handlers : next'[k] = IF n # 0 /\ k = L[s][n] THEN h ELSE next[k]
    BY <1>1, <1>3, <1>6 DEF TypeOK
  <2>4. \A k \in Handlers : Loose(M, k) => next'[k] = Null
    BY <2>1, <2>2, <2>3 DEF Listing, LooseEnds
  <2> QED
    BY <2>4 DEF LooseEnds, Loose
<1>12. Listing(M)'
  BY <1>4, <1>7, <1>8, <1>9, <1>10, <1>11 DEF Listing
<1> QED
  BY <1>1, <1>2, <1>12 DEF M

\* off() removes the handler from the list of its symbol and leaves the others
\* where they are (emitter.cc:41-93).
LEMMA OffRemoves ==
    ASSUME TypeOK, NEW L, Listing(L), NEW s \in Symbols, NEW h \in Handlers,
           Off(s, h)
    PROVE  \E k \in 1 .. Len(L[s]) :
               /\ L[s][k] = h
               /\ Listing([L EXCEPT ![s] = Abstract!RemoveAt(@, k)])'
<1> DEFINE n == Len(L[s])
<1>1. PICK k \in 1 .. n : L[s][k] = h
  BY ListenersAreListed DEF Off
<1> DEFINE M == [L EXCEPT ![s] = Abstract!RemoveAt(@, k)]
<1>2. Unlink({h}) /\ (roots' = IF head'[s] = Null THEN roots \ {s} ELSE roots)
  BY DEF Off, Erase
<1>3. /\ L \in [Symbols -> Seq(Handlers)]
      /\ n \in Nat /\ (L[s] = <<>> <=> n = 0)
      /\ \A i \in 1 .. n : L[s][i] \in Handlers /\ L[s][i] # Null
      /\ head[s] = IF n = 0 THEN Null ELSE L[s][1]
      /\ tail[s] = IF n = 0 THEN Null ELSE L[s][n]
      /\ s \in roots <=> n # 0
  BY ListedFacts DEF Listing
<1>4. /\ M \in [Symbols -> Seq(Handlers)]
      /\ \A t \in Symbols : t # s => M[t] = L[t]
      /\ Len(M[s]) = n - 1 /\ (M[s] = <<>> <=> n = 1)
      /\ \A i \in 1 .. n - 1 : M[s][i] = IF i < k THEN L[s][i] ELSE L[s][i + 1]
  <2>1. /\ Abstract!RemoveAt(L[s], k) \in Seq(Handlers)
        /\ Len(Abstract!RemoveAt(L[s], k)) = n - 1
        /\ \A i \in 1 .. n - 1 : Abstract!RemoveAt(L[s], k)[i]
                                    = IF i < k THEN L[s][i] ELSE L[s][i + 1]
    BY <1>3, RemoveAtProperties
  <2>2. M[s] = Abstract!RemoveAt(L[s], k)
    BY <1>3
  <2>3. M[s] = <<>> <=> n - 1 = 0
    BY <2>1, <2>2, EmptySeq, LenProperties
  <2> HIDE DEF M, n
  <2>4. n - 1 = 0 <=> n = 1
    BY <1>3
  <2>5. M \in [Symbols -> Seq(Handlers)] /\ \A t \in Symbols : t # s => M[t] = L[t]
    BY <1>3, <2>1 DEF M
  <2> QED
    BY <2>1, <2>2, <2>3, <2>4, <2>5
<1>5. n \in Nat \ {0} /\ k \in Nat /\ 1 <= k /\ k <= n
  BY <1>1, <1>3
<1>6. \A i, j \in 1 .. n : L[s][i] = L[s][j] => i = j
  BY DEF Listing, Distinct
<1>7. \A i \in 1 .. n : next[L[s][i]] = IF i = n THEN Null ELSE L[s][i + 1]
  BY DEF Listing, Chained
<1> HIDE DEF M, n
<1>8. \/ /\ k > 1
         /\ next' = [next EXCEPT ![L[s][k - 1]] = next[h], ![h] = Null]
         /\ tail' = [tail EXCEPT ![s] = IF k = n THEN L[s][k - 1] ELSE @]
         /\ UNCHANGED head
      \/ /\ k = 1
         /\ next' = [next EXCEPT ![h] = Null]
         /\ head' = [head EXCEPT ![s] = next[h]]
         /\ tail' = [tail EXCEPT ![s] = IF k = n THEN Null ELSE @]
  <2>1. next[h] = Null <=> k = n
    <3>1. k # n => k + 1 \in 1 .. n
      BY <1>5
    <3> QED
      BY <1>1, <1>3, <1>7, <3>1
  <2>2. CASE \E p \in Handlers :
                 /\ IsPrev(s, p, h)
                 /\ next' = [next EXCEPT ![p] = next[h], ![h] = Null]
                 /\ tail' = [tail EXCEPT ![s] = IF next[h] = Null THEN p ELSE @]
                 /\ UNCHANGED head
    <3>1. PICK p \in Handlers :
              /\ IsPrev(s, p, h)
              /\ next' = [next EXCEPT ![p] = next[h], ![h] = Null]
              /\ tail' = [tail EXCEPT ![s] = IF next[h] = Null THEN p ELSE @]
              /\ UNCHANGED head
      BY <2>2
    <3>2. PICK i \in 1 .. n : p = L[s][i]
      BY <3>1, ListenersAreListed DEF IsPrev, n
    <3>3. i # n /\ L[s][i + 1] = h
      BY <1>1, <1>3, <1>7, <3>1, <3>2 DEF IsPrev
    <3>4. i + 1 \in 1 .. n
      BY <1>5, <3>2, <3>3
    <3>5. i + 1 = k
      BY <1>1, <1>6, <3>3, <3>4
    <3>6. i = k - 1 /\ k > 1
      BY <1>5, <3>2, <3>5
    <3> QED
      BY <2>1, <3>1, <3>2, <3>6
  <2>3. CASE /\ h = head[s]
             /\ next' = [next EXCEPT ![h] = Null]
             /\ head' = [head EXCEPT ![s] = next[h]]
             /\ tail' = [tail EXCEPT ![s] = IF next[h] = Null THEN Null ELSE @]
    <3>1. 1 \in 1 .. n /\ h = L[s][1]
      BY <1>3, <1>5, <2>3
    <3>2. k = 1
      BY <1>1, <1>6, <3>1
    <3> QED
      BY <2>1, <2>3, <3>2
  <2> QED
    BY <2>2, <2>3 DEF Off, Erase
<1>9. \A t \in Symbols : \A i \in 1 .. Len(L[t]) :
          L[t][i] \in Handlers /\ (L[t][i] = h => t = s /\ i = k)
  BY <1>1, ListedFacts DEF Listing, Distinct, n
<1>10. \A t \in Symbols : \A i \in 1 .. Len(M[t]) :
           \/ t # s /\ i \in 1 .. Len(L[t]) /\ M[t][i] = L[t][i]
           \/ t = s /\ i < k /\ i \in 1 .. n /\ M[t][i] = L[s][i]
           \/ t = s /\ k <= i /\ i + 1 \in 1 .. n /\ M[t][i] = L[s][i + 1]
  BY <1>4, <1>5
<1>11. Ends(M)'
  <2> SUFFICES ASSUME NEW t \in Symbols
               PROVE  /\ head'[t] = IF M[t] = <<>> THEN Null ELSE M[t][1]
                      /\ tail'[t] = IF M[t] = <<>> THEN Null ELSE M[t][Len(M[t])]
                      /\ t \in roots' <=> M[t] # <<>>
    BY DEF Ends
  <2>1. head \in [Symbols -> Pointers] /\ tail \in [Symbols -> Pointers]
    BY DEF TypeOK
  <2>2. CASE t # s
    <3>1. head'[t] = head[t] /\ tail'[t] = tail[t] /\ (t \in roots' <=> t \in roots)
      BY <1>2, <1>8, <2>1, <2>2
    <3> QED
      BY <1>4, <2>2, <3>1 DEF Listing, Ends
  <2>3. CASE t = s
    <3>1. head'[s] = IF n = 1 THEN Null ELSE M[s][1]
      <4>1. CASE k > 1
        <5>1. head'[s] = L[s][1] /\ n # 1 /\ 1 \in 1 .. n - 1
          BY <1>3, <1>5, <1>8, <4>1
        <5> QED
          BY <1>4, <4>1, <5>1
      <4>2. CASE k = 1
        <5>1. head'[s] = next[h]
          BY <1>8, <2>1, <4>2
        <5>2. n # 1 => 1 \in 1 .. n - 1 /\ M[s][1] = L[s][1 + 1]
          BY <1>4, <1>5, <4>2
        <5> QED
          BY <1>1, <1>7, <4>2, <5>1, <5>2
      <4> QED
        BY <1>5, <4>1, <4>2
    <3>2. tail'[s] = IF n = 1 THEN Null ELSE M[s][n - 1]
      <4>1. CASE k = n
        <5>1. n # 1 => k > 1 /\ n - 1 \in 1 .. n - 1 /\ n - 1 < k
          BY <1>5, <4>1
        <5>2. n # 1 => tail'[s] = L[s][n - 1]
          BY <1>5, <1>8, <2>1, <4>1, <5>1
        <5>3. n = 1 => tail'[s] = Null
          BY <1>8, <2>1, <4>1
        <5> QED
          BY <1>4, <5>1, <5>2, <5>3
      <4>2. CASE k # n
        <5>1. n # 1 /\ n - 1 \in 1 .. n - 1 /\ ~(n - 1 < k) /\ (n - 1) + 1 = n
          BY <1>5, <4>2
        <5>2. tail'[s] = L[s][n]
          BY <1>3, <1>5, <1>8, <2>1, <4>2
        <5> QED
          BY <1>4, <5>1, <5>2
      <4> QED
        BY <4>1, <4>2
    <3>3. n # 1 => M[s][1] # Null
      <4>1. n # 1 => 1 \in 1 .. Len(M[s])
        BY <1>4, <1>5
      <4> QED
        BY <1>3, <1>10, <4>1
    <3>4. s \in roots' <=> n # 1
      BY <1>2, <1>3, <1>5, <3>1, <3>3
    <3> QED
      BY <1>4, <2>3, <3>1, <3>2, <3>4
  <2> QED
    BY <2>2, <2>3
<1>12. Distinct(M)'
  <2> SUFFICES ASSUME NEW t \in Symbols, NEW u \in Symbols,
                      NEW i \in 1 .. Len(M[t]), NEW j \in 1 .. Len(M[u]),
                      M[t][i] = M[u][j]
               PROVE  t = u /\ i = j
    BY DEF Distinct
  <2> DEFINE Was(v, a) == IF v = s /\ ~(a < k) THEN a + 1 ELSE a
  <2>1. Was(t, i) \in 1 .. Len(L[t]) /\ M[t][i] = L[t][Was(t, i)]
    BY <1>5, <1>10 DEF n
  <2>2. Was(u, j) \in 1 .. Len(L[u]) /\ M[u][j] = L[u][Was(u, j)]
    BY <1>5, <1>10 DEF n
  <2>3. i \in Nat /\ j \in Nat
    BY <1>3, <1>4, <1>10
  <2>4. t = u /\ Was(t, i) = Was(u, j)
    <3>1. \A a \in 1 .. Len(L[t]), b \in 1 .. Len(L[u]) :
              L[t][a] = L[u][b] => t = u /\ a = b
      BY DEF Listing, Distinct
    <3> HIDE DEF Was
    <3>2. L[t][Was(t, i)] = L[u][Was(u, j)]
      BY <2>1, <2>2
    <3> QED
      BY <2>1, <2>2, <3>1, <3>2
  <2> QED
    BY <1>5, <2>3, <2>4
<1>13. \A t \in Symbols : \A i \in 1 .. Len(M[t]) : M[t][i] \in Handlers /\ M[t][i] # h
  <2>1. \A i \in 1 .. n : i # k => L[s][i] # h
    BY <1>9 DEF n
  <2> TAKE t \in Symbols
  <2> TAKE i \in 1 .. Len(M[t])
  <2>2. CASE t # s
    BY <1>9, <1>10, <2>2
  <2>3. CASE t = s
    <3>1. \/ i < k /\ i \in 1 .. n /\ M[t][i] = L[s][i]
          \/ k <= i /\ i + 1 \in 1 .. n /\ M[t][i] = L[s][i + 1]
      BY <1>10, <2>3
    <3>2. (i < k => i # k) /\ (k <= i /\ i + 1 \in 1 .. n => i + 1 # k)
      BY <1>4, <1>5, <2>3
    <3> QED
      BY <1>3, <2>1, <2>3, <3>1, <3>2
  <2> QED
    BY <2>2, <2>3
<1>14. Alive(M)'
  <2>1. \A a \in Handlers : a # h => heap'[a] = heap[a]
    BY <1>2 DEF Unlink
  <2>2. \A t \in Symbols : \A i \in 1 .. Len(M[t]) : heap[M[t][i]] = "live"
    <3>1. \A t \in Symbols : \A i \in 1 .. Len(L[t]) : heap[L[t][i]] = "live"
      BY DEF Listing, Alive
    <3>2. \A t \in Symbols : \A i \in 1 .. Len(M[t]) :
              \E j \in 1 .. Len(L[t]) : M[t][i] = L[t][j]
      BY <1>10 DEF n
    <3> QED
      BY <3>1, <3>2
  <2>3. \A t \in Symbols : \A i \in 1 .. Len(M[t]) : heap'[M[t][i]] = "live"
    BY <1>13, <2>1, <2>2
  <2> QED
    BY <2>3 DEF Alive
<1>15. /\ next'[h] = Null
       /\ k > 1 => next'[L[s][k - 1]] = next[h]
       /\ \A a \in Handlers : a # h /\ (k > 1 => a # L[s][k - 1]) => next'[a] = next[a]
  <2>1. next \in [Handlers -> Pointers]
    BY DEF TypeOK
  <2>2. k > 1 => k - 1 \in 1 .. n /\ k - 1 # k
    BY <1>5
  <2>3. k > 1 => L[s][k - 1] \in Handlers /\ L[s][k - 1] # h
    BY <1>1, <1>3, <1>6, <2>2
  <2> QED
    BY <1>5, <1>8, <2>1, <2>3
<1>16. Chained(M)'
  <2> SUFFICES ASSUME NEW t \in Symbols, NEW i \in 1 .. Len(M[t])
               PROVE  next'[M[t][i]] = IF i = Len(M[t]) THEN Null ELSE M[t][i + 1]
    BY DEF Chained
  <2>1. CASE t # s
    <3>1. M[t] = L[t] /\ i \in 1 .. Len(L[t])
      BY <1>4, <2>1
    <3>2. k > 1 => k - 1 \in 1 .. n
      BY <1>5
    <3>3. k > 1 => L[t][i] # L[s][k - 1]
      BY <2>1, <3>1, <3>2 DEF Listing, Distinct, n
    <3>4. L[t][i] \in Handlers /\ L[t][i] # h
      BY <1>13, <3>1
    <3>5. next[L[t][i]] = IF i = Len(L[t]) THEN Null ELSE L[t][i + 1]
      BY <3>1 DEF Listing, Chained
    <3> QED
      BY <1>15, <3>1, <3>3, <3>4, <3>5
  <2>2. CASE t = s /\ i < k /\ i # k - 1
    <3>1. i \in 1 .. n /\ M[s][i] = L[s][i] /\ i # n - 1 /\ i + 1 < k /\ i + 1 \in 1 .. n - 1
          /\ i # n /\ k - 1 \in 1 .. n
      BY <1>4, <1>5, <2>2
    <3>2. L[s][i] # h /\ L[s][i] # L[s][k - 1] /\ L[s][i] \in Handlers
      BY <1>3, <1>6, <1>13, <2>2, <3>1
    <3>3. next'[M[s][i]] = L[s][i + 1]
      BY <1>7, <1>15, <3>1, <3>2
    <3> QED
      BY <1>4, <2>2, <3>1, <3>3
  <2>3. CASE t = s /\ i = k - 1
    <3>1. k > 1 /\ i < k /\ i \in 1 .. n - 1 /\ M[s][i] = L[s][k - 1]
      BY <1>4, <1>5, <2>3
    <3>2. next'[M[s][i]] = next[h]
      BY <1>15, <3>1
    <3>3. next[h] = IF k = n THEN Null ELSE L[s][k + 1]
      BY <1>1, <1>7
    <3>4. (k = n <=> i = n - 1) /\ i + 1 = k
          /\ (i # n - 1 => i + 1 \in 1 .. n - 1 /\ ~(i + 1 < k))
      BY <1>5, <2>3, <3>1
    <3> QED
      BY <1>4, <2>3, <3>2, <3>3, <3>4
  <2>4. CASE t = s /\ ~(i < k)
    <3>1. i + 1 \in 1 .. n /\ M[s][i] = L[s][i + 1] /\ i + 1 # k /\ i + 1 # k - 1
          /\ (i + 1 = n <=> i = n - 1)
          /\ (i # n - 1 => i + 1 \in 1 .. n - 1 /\ ~(i + 1 < k))
          /\ (k > 1 => k - 1 \in 1 .. n)
      BY <1>4, <1>5, <2>4
    <3>2. L[s][i + 1] # h /\ (k > 1 => L[s][i + 1] # L[s][k - 1]) /\ L[s][i + 1] \in Handlers
      BY <1>1, <1>3, <1>6, <3>1
    <3>3. next'[M[s][i]] = IF i + 1 = n THEN Null ELSE L[s][(i + 1) + 1]
      BY <1>7, <1>15, <3>1, <3>2
    <3> QED
      BY <1>4, <2>4, <3>1, <3>3
  <2> QED
    BY <2>1, <2>2, <2>3, <2>4
<1>17. LooseEnds(M)'
  <2>1. \A a \in Handlers : Loose(M, a) /\ a # h => Loose(L, a)
    <3> SUFFICES ASSUME NEW t \in Symbols, NEW i \in 1 .. Len(L[t]), L[t][i] # h
                 PROVE  \E j \in 1 .. Len(M[t]) : M[t][j] = L[t][i]
      BY DEF Loose
    <3>1. CASE t # s
      BY <1>4, <3>1
    <3>2. CASE t = s
      <4>1. i \in 1 .. n /\ i # k
        BY <1>1, <3>2 DEF n
      <4>2. CASE i < k
        <5>1. i \in 1 .. n - 1
          BY <1>5, <4>1, <4>2
        <5> QED
          BY <1>4, <3>2, <4>2, <5>1
      <4>3. CASE k < i
        <5>1. i - 1 \in 1 .. n - 1 /\ ~(i - 1 < k) /\ (i - 1) + 1 = i
          BY <1>5, <4>1, <4>3
        <5>2. M[s][i - 1] = L[s][i]
          BY <1>4, <5>1
        <5> QED
          BY <1>4, <3>2, <5>1, <5>2
      <4> QED
        BY <1>5, <4>1, <4>2, <4>3
    <3> QED
      BY <3>1, <3>2
  <2>2. \A a \in Handlers : Loose(L, a) /\ k > 1 => a # L[s][k - 1]
    <3>1. k > 1 => k - 1 \in 1 .. n
      BY <1>5
    <3> QED
      BY <3>1 DEF Loose, n
  <2>3. \A a \in Handlers : Loose(M, a) => next'[a] = Null
    BY <1>15, <2>1, <2>2 DEF Listing, LooseEnds
  <2> QED
    BY <2>3 DEF LooseEnds, Loose
<1>18. Listing(M)'
  BY <1>4, <1>11, <1>12, <1>14, <1>16, <1>17 DEF Listing
<1> QED
  BY <1>1, <1>18 DEF M, n

\* ~event_handler_root() empties the lists of its symbols (emitter.cc:11-29).
LEMMA ClearEmpties ==
    ASSUME TypeOK, NEW L, Listing(L), NEW S \in SUBSET Symbols, Clear(S)
    PROVE  Listing([s \in Symbols |-> IF s \in S THEN <<>> ELSE L[s]])'
<1> DEFINE M == [s \in Symbols |-> IF s \in S THEN <<>> ELSE L[s]]
           R == UNION {Listeners(s) : s \in S}
<1>1. /\ roots' = roots \ S
      /\ head' = [s \in Symbols |-> IF s \in S THEN Null ELSE head[s]]
      /\ tail' = [s \in Symbols |-> IF s \in S THEN Null ELSE tail[s]]
      /\ next' = [h \in Handlers |-> IF h \in R THEN Null ELSE next[h]]
      /\ Unlink(R)
  BY DEF Clear
<1>2. \A h : h \in R <=> \E s \in S : \E i \in 1 .. Len(L[s]) : h = L[s][i]
  BY ListenersAreListed
<1>3. /\ M \in [Symbols -> Seq(Handlers)]
      /\ \A s \in Symbols : s \in S => M[s] = <<>> /\ Len(M[s]) = 0
      /\ \A s \in Symbols : s \notin S => M[s] = L[s]
  BY EmptySeq DEF Listing
<1>4. \A s \in Symbols : \A i \in 1 .. Len(M[s]) :
          /\ s \notin S /\ i \in 1 .. Len(L[s]) /\ M[s][i] = L[s][i] /\ M[s] = L[s]
          /\ L[s][i] \in Handlers /\ L[s][i] \notin R
  <2> SUFFICES ASSUME NEW s \in Symbols, NEW i \in 1 .. Len(M[s])
               PROVE  /\ s \notin S /\ i \in 1 .. Len(L[s])
                      /\ M[s][i] = L[s][i] /\ M[s] = L[s]
                      /\ L[s][i] \in Handlers /\ L[s][i] \notin R
    OBVIOUS
  <2> HIDE DEF M, R
  <2>1. s \notin S
    BY <1>3
  <2>2. M[s] = L[s] /\ i \in 1 .. Len(L[s]) /\ L[s][i] \in Handlers
    BY <1>3, <2>1, ListedFacts
  <2>3. L[s][i] \notin R
    BY <1>2, <2>1, <2>2 DEF Listing, Distinct
  <2> QED
    BY <2>1, <2>2, <2>3
<1> HIDE DEF M, R
<1>5. Ends(M)'
  BY <1>1, <1>3 DEF Ends, Listing
<1>6. Chained(M)'
  <2>1. \A h \in Handlers : h \notin R => next'[h] = next[h]
    BY <1>1
  <2> QED
    BY <1>4, <2>1 DEF Chained, Listing
<1>7. Distinct(M)'
  BY <1>4 DEF Distinct, Listing
<1>8. Alive(M)'
  <2>1. \A h \in Handlers : h \notin R => heap'[h] = heap[h]
    BY <1>1 DEF Unlink
  <2> QED
    BY <1>4, <2>1 DEF Alive, Listing
<1>9. LooseEnds(M)'
  <2>1. \A h \in Handlers : Loose(M, h) => h \in R \/ Loose(L, h)
    BY <1>2, <1>3 DEF Loose
  <2>2. \A h \in Handlers : Loose(M, h) => next'[h] = Null
    BY <1>1, <2>1 DEF Listing, LooseEnds
  <2> QED
    BY <2>2 DEF LooseEnds, Loose
<1> QED
  BY <1>3, <1>5, <1>6, <1>7, <1>8, <1>9 DEF Listing, M

\* Nothing else touches the lists.
LEMMA ListingStays ==
    ASSUME NEW L, Listing(L), UNCHANGED <<roots, head, tail, next, heap>>
    PROVE  Listing(L)'
BY DEF Listing, Ends, Chained, Distinct, Alive, LooseEnds, Loose

-----------------------------------------------------------------------------
(* The invariant *)

LEMMA EmptyAtFirst ==
    ASSUME Init
    PROVE  Listing([s \in Symbols |-> <<>>])
<1> DEFINE L == [s \in Symbols |-> <<>>]
<1>1. L \in [Symbols -> Seq(Handlers)] /\ \A s \in Symbols : L[s] = <<>> /\ Len(L[s]) = 0
  BY EmptySeq
<1> HIDE DEF L
<1>2. Listing(L)
  BY <1>1 DEF Init, Listing, Ends, Chained, Distinct, Alive, LooseEnds
<1> QED
  BY <1>2 DEF L

LEMMA EmitterInvInit == Init => EmitterInv
<1> SUFFICES ASSUME Init PROVE EmitterInv
  OBVIOUS
<1>1. stack = <<>> /\ stack \in Seq(Handlers) /\ Len(stack) = 0
  BY EmptySeq DEF Init
<1>2. TypeOK
  BY <1>1, DepthAssumption DEF Init, TypeOK, Pointers
<1>3. Listing([s \in Symbols |-> <<>>])
  BY EmptyAtFirst
<1>4. RefCountExact
  <2>1. \A h \in Handlers : {i \in DOMAIN stack : stack[i] = h} = {}
    BY <1>1
  <2> QED
    BY <2>1, FS_EmptySet DEF RefCountExact, Init
<1>5. InvokedAlive
  BY <1>1 DEF InvokedAlive
<1> QED
  BY <1>2, <1>3, <1>4, <1>5 DEF EmitterInv

\* RefCountExact and what it says of a handler that runs
LEMMA GuardFacts ==
    ASSUME TypeOK, RefCountExact
    PROVE  \A h \in Handlers :
               /\ refs[h] = Cardinality(At(stack, h))
               /\ refs[h] \in Nat /\ refs[h] <= MaxDepth
               /\ refs[h] = 0 <=> \A i \in 1 .. Len(stack) : stack[i] # h
<1> TAKE h \in Handlers
<1>1. refs[h] = Cardinality(At(stack, h))
  BY DEF RefCountExact, At
<1>2. stack \in Seq(Handlers) /\ Len(stack) <= MaxDepth /\ Len(stack) \in Nat
  BY LenProperties DEF TypeOK
<1>3. /\ Cardinality(At(stack, h)) \in Nat
      /\ Cardinality(At(stack, h)) <= Len(stack)
      /\ Cardinality(At(stack, h)) = 0 <=> \A i \in 1 .. Len(stack) : stack[i] # h
  BY <1>2, AtFinite
<1> QED
  BY <1>1, <1>2, <1>3, DepthAssumption

\* An operation on the lists leaves what runs alone.
LEMMA RunningStays ==
    ASSUME EmitterInv, UNCHANGED <<refs, stack>>,
           \/ \E h \in Handlers : heap[h] = "fresh" /\ heap' = [heap EXCEPT ![h] = "live"]
           \/ \E R : Unlink(R)
    PROVE  /\ RefCountExact' /\ InvokedAlive'
           /\ heap' \in [Handlers -> {"fresh", "live", "deleted"}]
<1>1. RefCountExact'
  BY DEF EmitterInv, RefCountExact
<1>2. heap' \in [Handlers -> {"fresh", "live", "deleted"}]
  BY DEF EmitterInv, TypeOK, Unlink
<1>3. ASSUME NEW i \in 1 .. Len(stack) PROVE heap'[stack[i]] = "live"
  <2>1. stack[i] \in Handlers /\ heap[stack[i]] = "live"
    BY ElementOfSeq DEF EmitterInv, TypeOK, InvokedAlive
  <2>2. refs[stack[i]] # 0
    BY <2>1, GuardFacts DEF EmitterInv
  <2>3. CASE \E h \in Handlers : heap[h] = "fresh" /\ heap' = [heap EXCEPT ![h] = "live"]
    BY <2>1, <2>3 DEF EmitterInv, TypeOK
  <2>4. CASE \E R : Unlink(R)
    BY <2>1, <2>2, <2>4 DEF Unlink
  <2> QED
    BY <2>3, <2>4
<1> QED
  BY <1>1, <1>2, <1>3 DEF InvokedAlive

LEMMA OnKeeps ==
    ASSUME EmitterInv, NEW s \in Symbols, On(s)
    PROVE  EmitterInv'
<1>1. PICK L : Listing(L)
  BY DEF EmitterInv
<1>2. PICK h \in Handlers :
          /\ heap[h] = "fresh" /\ Loose(L, h)
          /\ heap' = [heap EXCEPT ![h] = "live"]
          /\ Listing([L EXCEPT ![s] = Append(@, h)])'
  BY <1>1, OnAppends DEF EmitterInv
<1>3. UNCHANGED <<refs, stack>>
  BY DEF On
<1>4. RefCountExact' /\ InvokedAlive' /\ heap' \in [Handlers -> {"fresh", "live", "deleted"}]
  BY <1>2, <1>3, RunningStays
<1>5. TypeOK'
  <2>1. TypeOK
    BY DEF EmitterInv
  <2>2. roots' \in SUBSET Symbols /\ tail' \in [Symbols -> Pointers]
    BY <2>1 DEF TypeOK, On, Pointers
  <2>3. head' \in [Symbols -> Pointers] /\ next' \in [Handlers -> Pointers]
    <3>1. PICK e \in Handlers :
              \/ next' = [next EXCEPT ![tail[s]] = e] /\ head' = head
              \/ head' = [head EXCEPT ![s] = e] /\ next' = next
      BY DEF On
    <3> DEFINE p == tail[s]
    <3>2. next' = [next EXCEPT ![p] = e] \/ next' = next
      BY <3>1
    <3> HIDE DEF p
    <3> QED
      BY <2>1, <3>1, <3>2 DEF TypeOK, Pointers
  <2> QED
    BY <1>3, <1>4, <2>1, <2>2, <2>3 DEF TypeOK
<1> QED
  BY <1>2, <1>4, <1>5 DEF EmitterInv

LEMMA OffKeeps ==
    ASSUME EmitterInv, NEW s \in Symbols, NEW h \in Handlers, Off(s, h)
    PROVE  EmitterInv'
<1>1. PICK L : Listing(L)
  BY DEF EmitterInv
<1>2. PICK k \in 1 .. Len(L[s]) : Listing([L EXCEPT ![s] = Abstract!RemoveAt(@, k)])'
  BY <1>1, OffRemoves DEF EmitterInv
<1>3. UNCHANGED <<refs, stack>> /\ Unlink({h})
  BY DEF Off, Erase
<1>4. RefCountExact' /\ InvokedAlive' /\ heap' \in [Handlers -> {"fresh", "live", "deleted"}]
  BY <1>3, RunningStays
<1>5. /\ roots' \in SUBSET Symbols
      /\ head' \in [Symbols -> Pointers]
      /\ tail' \in [Symbols -> Pointers]
      /\ next' \in [Handlers -> Pointers]
  BY DEF EmitterInv, TypeOK, Off, Erase, Pointers
<1>6. TypeOK'
  BY <1>3, <1>4, <1>5 DEF EmitterInv, TypeOK
<1> QED
  BY <1>2, <1>4, <1>6 DEF EmitterInv

LEMMA ClearKeeps ==
    ASSUME EmitterInv, NEW S \in SUBSET Symbols, Clear(S)
    PROVE  EmitterInv'
<1>1. PICK L : Listing(L)
  BY DEF EmitterInv
<1>2. Listing([s \in Symbols |-> IF s \in S THEN <<>> ELSE L[s]])'
  BY <1>1, ClearEmpties DEF EmitterInv
<1>3. UNCHANGED <<refs, stack>> /\ \E R : Unlink(R)
  BY DEF Clear
<1>4. RefCountExact' /\ InvokedAlive' /\ heap' \in [Handlers -> {"fresh", "live", "deleted"}]
  BY <1>3, RunningStays
<1>5. TypeOK'
  BY <1>3, <1>4 DEF EmitterInv, TypeOK, Clear, Pointers
<1> QED
  BY <1>2, <1>4, <1>5 DEF EmitterInv

\* Where emit() begins
LEMMA EmitFacts ==
    ASSUME EmitterInv, NEW s \in Symbols, Emit(s)
    PROVE  /\ head[s] \in Handlers /\ heap[head[s]] = "live"
           /\ Len(stack) < MaxDepth
           /\ stack' = Append(stack, head[s])
           /\ refs' = [refs EXCEPT ![head[s]] = @ + 1]
           /\ UNCHANGED <<roots, head, tail, next, heap>>
<1>1. PICK L : Listing(L)
  BY DEF EmitterInv
<1>2. head[s] = L[s][1] /\ 1 \in 1 .. Len(L[s])
  BY <1>1, ListedFacts DEF Emit
<1>3. head[s] \in Handlers /\ heap[head[s]] = "live"
  BY <1>1, <1>2, ListedFacts DEF Listing, Alive
<1> QED
  BY <1>3 DEF Emit

\* Where emit() goes on, or ends: the handler that runs is counted by its own
\* guard at least, and by no more than there are loops, which delete_flag is
\* larger than.
LEMMA ReturnFacts ==
    ASSUME EmitterInv, Return
    PROVE  /\ stack \in Seq(Handlers) /\ Len(stack) \in Nat \ {0}
           /\ Top \in Handlers /\ heap[Top] = "live"
           /\ refs[Top] \in Nat \ {0}
           /\ Callers \in Seq(Handlers) /\ Len(Callers) = Len(stack) - 1
           /\ \A i \in 1 .. Len(stack) - 1 : Callers[i] = stack[i]
           /\ stack = Append(Callers, Top)
           /\ next[Top] # Null => next[Top] \in Handlers /\ next[Top] # Top
                                  /\ heap[next[Top]] = "live"
           /\ IF next[Top] # Null
              THEN /\ stack' = Append(Callers, next[Top])
                   /\ refs' = [[refs EXCEPT ![Top] = @ - 1] EXCEPT ![next[Top]] = @ + 1]
              ELSE stack' = Callers /\ refs' = [refs EXCEPT ![Top] = @ - 1]
           /\ UNCHANGED <<roots, head, tail, next, heap>>
<1>1. stack # <<>> /\ stack \in Seq(Handlers) /\ refs \in [Handlers -> Nat]
  BY DEF Return, EmitterInv, TypeOK
<1>2. /\ Callers \in Seq(Handlers) /\ Len(Callers) = Len(stack) - 1
      /\ \A i \in 1 .. Len(stack) - 1 : Callers[i] = stack[i]
      /\ Top \in Handlers /\ Len(stack) \in Nat \ {0}
      /\ stack = Append(Callers, Top)
  BY <1>1, CallersProperties DEF Callers, Top
<1>3. Len(stack) \in 1 .. Len(stack)
  BY <1>2
<1>4. heap[Top] = "live"
  BY <1>3 DEF Top, EmitterInv, InvokedAlive
<1>5. refs[Top] \in Nat \ {0} /\ refs[Top] <= MaxDepth
  <2>1. refs[Top] # 0
    BY <1>2, <1>3, GuardFacts DEF EmitterInv, Top
  <2> QED
    BY <1>2, <2>1, GuardFacts DEF EmitterInv
<1>6. ASSUME next[Top] # Null
      PROVE  next[Top] \in Handlers /\ next[Top] # Top /\ heap[next[Top]] = "live"
  <2>1. PICK L : Listing(L)
    BY DEF EmitterInv
  <2>2. PICK s \in Symbols : \E i \in 1 .. Len(L[s]) - 1 :
            Top = L[s][i] /\ next[Top] = L[s][i + 1]
    BY <1>2, <1>6, <2>1, SuccessorIsListed
  <2>3. PICK i \in 1 .. Len(L[s]) - 1 : Top = L[s][i] /\ next[Top] = L[s][i + 1]
    BY <2>2
  <2>4. i \in 1 .. Len(L[s]) /\ i + 1 \in 1 .. Len(L[s]) /\ i # i + 1
    BY <2>1, ListedFacts
  <2>5. L[s][i] # L[s][i + 1]
    BY <2>1, <2>4 DEF Listing, Distinct
  <2> QED
    BY <2>1, <2>3, <2>4, <2>5, ListedFacts DEF Listing, Alive
<1>7. [refs EXCEPT ![Top] = @ - 1][Top] # DeleteFlag
  BY <1>1, <1>2, <1>5, DeleteFlagAssumption, DepthAssumption
<1>8. heap' = heap
  BY <1>7 DEF Return
<1>9. IF next[Top] # Null
      THEN /\ stack' = Append(Callers, next[Top])
           /\ refs' = [[refs EXCEPT ![Top] = @ - 1] EXCEPT ![next[Top]] = @ + 1]
      ELSE stack' = Callers /\ refs' = [refs EXCEPT ![Top] = @ - 1]
  BY DEF Return
<1>10. UNCHANGED <<roots, head, tail, next>>
  BY DEF Return
<1> QED
  BY <1>1, <1>2, <1>4, <1>5, <1>6, <1>8, <1>9, <1>10

LEMMA ReturnedStack ==
    ASSUME EmitterInv, Return
    PROVE  /\ \A i \in 1 .. Len(stack) - 1 : stack'[i] = stack[i]
           /\ next[Top] = Null => Len(stack') = Len(stack) - 1
           /\ next[Top] # Null => Len(stack') = Len(stack)
                                  /\ stack'[Len(stack)] = next[Top]
<1> DEFINE n == next[Top]
           a == Append(Callers, n)
<1>1. /\ Len(stack) \in Nat \ {0}
      /\ Callers \in Seq(Handlers) /\ Len(Callers) = Len(stack) - 1
      /\ \A i \in 1 .. Len(stack) - 1 : Callers[i] = stack[i]
      /\ n # Null => n \in Handlers /\ stack' = a
      /\ n = Null => stack' = Callers
  BY ReturnFacts
<1> HIDE DEF n, a
<1>2. CASE n = Null
  BY <1>1, <1>2 DEF n
<1>3. CASE n # Null
  <2>1. Len(a) = Len(Callers) + 1 /\ (\A i \in 1 .. Len(Callers) : a[i] = Callers[i])
        /\ a[Len(Callers) + 1] = n
    BY <1>1, <1>3, AppendProperties DEF a
  <2>2. Len(Callers) + 1 = Len(stack)
    BY <1>1
  <2> QED
    BY <1>1, <1>3, <2>1, <2>2 DEF n
<1> QED
  BY <1>2, <1>3

LEMMA EmitKeeps ==
    ASSUME EmitterInv, NEW s \in Symbols, Emit(s)
    PROVE  EmitterInv'
<1> DEFINE h == head[s]
<1>1. /\ h \in Handlers /\ heap[h] = "live"
      /\ Len(stack) < MaxDepth
      /\ stack' = Append(stack, h)
      /\ refs' = [refs EXCEPT ![h] = @ + 1]
      /\ UNCHANGED <<roots, head, tail, next, heap>>
  BY EmitFacts
<1>2. TypeOK /\ stack \in Seq(Handlers) /\ refs \in [Handlers -> Nat]
  BY DEF EmitterInv, TypeOK
<1>3. \E L : Listing(L)'
  BY <1>1, ListingStays DEF EmitterInv
<1> HIDE DEF h
<1>4. /\ stack' \in Seq(Handlers) /\ Len(stack') = Len(stack) + 1 /\ Len(stack) \in Nat
      /\ \A i \in 1 .. Len(stack) : stack'[i] = stack[i]
      /\ stack'[Len(stack) + 1] = h
  BY <1>1, <1>2, AppendProperties
<1>5. RefCountExact'
  <2>1. ASSUME NEW k \in Handlers PROVE refs'[k] = Cardinality(At(stack', k))
    <3>1. Cardinality(At(stack', k)) = Cardinality(At(stack, k)) + (IF h = k THEN 1 ELSE 0)
      BY <1>1, <1>2, AtAppend
    <3>2. refs[k] = Cardinality(At(stack, k)) /\ refs[k] \in Nat
      BY <1>2, GuardFacts DEF EmitterInv
    <3>3. refs'[k] = IF h = k THEN refs[k] + 1 ELSE refs[k]
      BY <1>1, <1>2
    <3> QED
      BY <3>1, <3>2, <3>3
  <2> QED
    BY <2>1 DEF RefCountExact, At
<1>6. InvokedAlive'
  BY <1>1, <1>4 DEF InvokedAlive, EmitterInv
<1>7. TypeOK'
  <2>1. refs' \in [Handlers -> Nat]
    BY <1>1, <1>2
  <2>2. Len(stack') <= MaxDepth
    BY <1>1, <1>4, DepthAssumption
  <2> QED
    BY <1>1, <1>2, <1>4, <2>1, <2>2 DEF TypeOK
<1> QED
  BY <1>3, <1>5, <1>6, <1>7 DEF EmitterInv

LEMMA ReturnKeeps ==
    ASSUME EmitterInv, Return
    PROVE  EmitterInv'
<1> DEFINE n == next[Top]
<1>1. /\ stack \in Seq(Handlers) /\ Len(stack) \in Nat \ {0}
      /\ Top \in Handlers /\ refs[Top] \in Nat \ {0}
      /\ Callers \in Seq(Handlers) /\ Len(Callers) = Len(stack) - 1
      /\ \A i \in 1 .. Len(stack) - 1 : Callers[i] = stack[i]
      /\ stack = Append(Callers, Top)
      /\ UNCHANGED <<roots, head, tail, next, heap>>
  BY ReturnFacts
<1>2. n # Null => /\ n \in Handlers /\ n # Top /\ heap[n] = "live"
                  /\ stack' = Append(Callers, n)
                  /\ refs' = [[refs EXCEPT ![Top] = @ - 1] EXCEPT ![n] = @ + 1]
  BY ReturnFacts
<1>3. n = Null => stack' = Callers /\ refs' = [refs EXCEPT ![Top] = @ - 1]
  BY ReturnFacts
<1>4. TypeOK /\ refs \in [Handlers -> Nat] /\ Len(stack) <= MaxDepth
  BY DEF EmitterInv, TypeOK
<1>5. \E L : Listing(L)'
  BY <1>1, ListingStays DEF EmitterInv
<1> HIDE DEF n
<1>6. n # Null => /\ stack' \in Seq(Handlers) /\ Len(stack') = Len(stack)
                  /\ \A i \in 1 .. Len(stack) - 1 : stack'[i] = stack[i]
                  /\ stack'[Len(stack)] = n
  <2> SUFFICES ASSUME n # Null
               PROVE  /\ stack' \in Seq(Handlers) /\ Len(stack') = Len(stack)
                      /\ \A i \in 1 .. Len(stack) - 1 : stack'[i] = stack[i]
                      /\ stack'[Len(stack)] = n
    OBVIOUS
  <2>1. /\ Append(Callers, n) \in Seq(Handlers)
        /\ Len(Append(Callers, n)) = Len(Callers) + 1
        /\ \A i \in 1 .. Len(Callers) : Append(Callers, n)[i] = Callers[i]
        /\ Append(Callers, n)[Len(Callers) + 1] = n
    BY <1>1, <1>2, AppendProperties
  <2>2. Len(Callers) + 1 = Len(stack)
    BY <1>1
  <2>3. stack' = Append(Callers, n)
    BY <1>2
  <2> QED
    BY <1>1, <2>1, <2>2, <2>3
<1>7. RefCountExact'
  <2>1. ASSUME NEW k \in Handlers PROVE refs'[k] = Cardinality(At(stack', k))
    <3>1. Cardinality(At(stack, k))
              = Cardinality(At(Callers, k)) + (IF Top = k THEN 1 ELSE 0)
      BY <1>1, AtAppend
    <3>2. n # Null => Cardinality(At(stack', k))
              = Cardinality(At(Callers, k)) + (IF n = k THEN 1 ELSE 0)
      <4> HAVE n # Null
      <4>1. n \in Handlers /\ stack' = Append(Callers, n)
        BY <1>2
      <4> QED
        BY <1>1, <4>1, AtAppend
    <3>3. refs[k] = Cardinality(At(stack, k)) /\ refs[k] \in Nat
      BY <1>4, GuardFacts DEF EmitterInv
    <3>4. Cardinality(At(Callers, k)) \in Nat
      BY <1>1, AtFinite
    <3>5. n # Null => refs'[k] = IF k = Top THEN refs[k] - 1
                                 ELSE IF k = n THEN refs[k] + 1 ELSE refs[k]
      BY <1>1, <1>2, <1>4
    <3>6. n = Null => refs'[k] = IF k = Top THEN refs[k] - 1 ELSE refs[k]
      BY <1>1, <1>3, <1>4
    <3>7. CASE n = Null
      BY <1>3, <3>1, <3>3, <3>4, <3>6, <3>7
    <3>8. CASE n # Null
      BY <1>2, <3>1, <3>2, <3>3, <3>4, <3>5, <3>8
    <3> QED
      BY <3>7, <3>8
  <2> QED
    BY <2>1 DEF RefCountExact, At
<1>8. InvokedAlive'
  <2>1. \A i \in 1 .. Len(stack) - 1 : heap'[stack[i]] = "live"
    BY <1>1 DEF InvokedAlive, EmitterInv
  <2>2. CASE n = Null
    BY <1>1, <1>3, <2>1, <2>2 DEF InvokedAlive
  <2>3. CASE n # Null
    <3>1. \A i \in 1 .. Len(stack) : i \in 1 .. Len(stack) - 1 \/ i = Len(stack)
      BY <1>1
    <3> QED
      BY <1>1, <1>2, <1>6, <2>1, <2>3, <3>1 DEF InvokedAlive
  <2> QED
    BY <2>2, <2>3
<1>9. TypeOK'
  <2>1. refs' \in [Handlers -> Nat]
    <3> DEFINE released == [refs EXCEPT ![Top] = @ - 1]
    <3>1. released \in [Handlers -> Nat]
      BY <1>1, <1>4
    <3>2. refs' = IF n = Null THEN released ELSE [released EXCEPT ![n] = @ + 1]
      BY <1>2, <1>3
    <3>3. n # Null => n \in Handlers
      BY <1>2
    <3> HIDE DEF released
    <3>4. n \in Handlers => released[n] + 1 \in Nat
      BY <3>1
    <3>5. CASE n = Null
      BY <3>1, <3>2, <3>5
    <3>6. CASE n # Null
      BY <3>1, <3>2, <3>3, <3>4, <3>6
    <3> QED
      BY <3>5, <3>6
  <2>2. stack' \in Seq(Handlers) /\ Len(stack') <= MaxDepth
    BY <1>1, <1>3, <1>4, <1>6, DepthAssumption
  <2> QED
    BY <1>1, <1>4, <2>1, <2>2 DEF TypeOK
<1> QED
  BY <1>5, <1>7, <1>8, <1>9 DEF EmitterInv

LEMMA EmitterStep == EmitterInv /\ [Next]_vars => EmitterInv'
<1> SUFFICES ASSUME EmitterInv, [Next]_vars PROVE EmitterInv'
  OBVIOUS
<1>1. ASSUME NEW s \in Symbols, On(s) PROVE EmitterInv'
  BY <1>1, OnKeeps
<1>2. ASSUME NEW s \in Symbols, NEW h \in Handlers, Off(s, h) PROVE EmitterInv'
  BY <1>2, OffKeeps
<1>3. ASSUME NEW s \in Symbols, RemoveAllListenersOf(s) PROVE EmitterInv'
  BY <1>3, ClearKeeps DEF RemoveAllListenersOf
<1>4. ASSUME RemoveAllListeners PROVE EmitterInv'
  BY <1>4, ClearKeeps DEF RemoveAllListeners, EmitterInv, TypeOK
<1>5. ASSUME NEW s \in Symbols, Emit(s) PROVE EmitterInv'
  BY <1>5, EmitKeeps
<1>6. ASSUME Return PROVE EmitterInv'
  BY <1>6, ReturnKeeps
<1>7. ASSUME UNCHANGED vars PROVE EmitterInv'
  <2>1. UNCHANGED <<roots, head, tail, next, refs, heap, stack>>
    BY <1>7 DEF vars
  <2>2. \E L : Listing(L)'
    BY <2>1, ListingStays DEF EmitterInv
  <2>3. TypeOK' /\ RefCountExact' /\ InvokedAlive'
    BY <2>1 DEF EmitterInv, TypeOK, RefCountExact, InvokedAlive
  <2> QED
    BY <2>2, <2>3 DEF EmitterInv
<1> QED
  BY <1>1, <1>2, <1>3, <1>4, <1>5, <1>6, <1>7 DEF Next

\* In every state some family of sequences is what head, tail and next spell out,
\* and the handlers the running emit() loops hold are alive (emitter.cc:11-103).
THEOREM EmitterInvariant == Spec => []EmitterInv
BY EmitterInvInit, EmitterStep, PTL DEF Spec

-----------------------------------------------------------------------------
(* Safety of the pointers *)

\* In no state does a loop, a list or a successor lead to a deleted handler,
\* whatever handlers do to the lists while they run (emitter.h:134-166,
\* emitter.cc:11-65).
THEOREM NothingDangles == Spec => []NoUseAfterFree
<1>1. EmitterInv => NoUseAfterFree
  <2> SUFFICES ASSUME EmitterInv PROVE NoUseAfterFree
    OBVIOUS
  <2>1. PICK L : Listing(L)
    BY DEF EmitterInv
  <2>2. \A s \in Symbols : \A i \in 1 .. Len(L[s]) : heap[L[s][i]] = "live"
    BY <2>1 DEF Listing, Alive
  <2>3. \A h \in Invoked : heap[h] = "live"
    <3>1. stack \in Seq(Handlers)
      BY DEF EmitterInv, TypeOK
    <3>2. DOMAIN stack = 1 .. Len(stack)
      BY <3>1, LenProperties
    <3> QED
      BY <3>2 DEF EmitterInv, InvokedAlive, Invoked
  <2>4. ASSUME NEW h \in Handlers, next[h] # Null
        PROVE  heap[next[h]] = "live"
    <3>1. PICK s \in Symbols : \E i \in 1 .. Len(L[s]) - 1 :
              h = L[s][i] /\ next[h] = L[s][i + 1]
      BY <2>1, <2>4, SuccessorIsListed
    <3>2. PICK i \in 1 .. Len(L[s]) - 1 : next[h] = L[s][i + 1]
      BY <3>1
    <3>3. i + 1 \in 1 .. Len(L[s])
      BY <2>1, ListedFacts
    <3> QED
      BY <2>2, <3>2, <3>3
  <2>5. ASSUME NEW s \in Symbols
        PROVE  /\ head[s] # Null => heap[head[s]] = "live"
               /\ tail[s] # Null => heap[tail[s]] = "live"
    <3>1. /\ Len(L[s]) \in Nat
          /\ head[s] = IF Len(L[s]) = 0 THEN Null ELSE L[s][1]
          /\ tail[s] = IF Len(L[s]) = 0 THEN Null ELSE L[s][Len(L[s])]
      BY <2>1, ListedFacts
    <3>2. Len(L[s]) # 0 => 1 \in 1 .. Len(L[s]) /\ Len(L[s]) \in 1 .. Len(L[s])
      BY <3>1
    <3> QED
      BY <2>2, <3>1, <3>2
  <2> QED
    BY <2>3, <2>4, <2>5 DEF NoUseAfterFree
<1> QED
  BY <1>1, EmitterInvariant, PTL

\* The guard of a handler is the number of the emit() loops that run it
\* (emitter.h:146-157).
THEOREM GuardsAreExact == Spec => []RefCountExact
<1>1. EmitterInv => RefCountExact
  BY DEF EmitterInv
<1> QED
  BY <1>1, EmitterInvariant, PTL

\* The map has an entry exactly for the symbols with listeners, tail is the end
\* of its list and no handler is in two lists (emitter.cc:31-93).
THEOREM ListsAreWellFormed == Spec => []WellFormed
<1>1. EmitterInv => WellFormed
  <2> SUFFICES ASSUME EmitterInv PROVE WellFormed
    OBVIOUS
  <2>1. PICK L : Listing(L)
    BY DEF EmitterInv
  <2>2. \A s \in Symbols : Listeners(s) = {L[s][i] : i \in 1 .. Len(L[s])}
    BY <2>1, ListenersAreListed
  <2>3. HasListenerExact
    <3> SUFFICES ASSUME NEW s \in Symbols
                 PROVE  s \in roots <=> Listeners(s) # {}
      BY DEF HasListenerExact
    <3>1. Len(L[s]) \in Nat /\ (s \in roots <=> Len(L[s]) # 0)
      BY <2>1, ListedFacts
    <3>2. Len(L[s]) # 0 => 1 \in 1 .. Len(L[s])
      BY <3>1
    <3>3. Len(L[s]) = 0 => \A i \in 1 .. Len(L[s]) : FALSE
      BY <3>1
    <3>4. Listeners(s) = {L[s][i] : i \in 1 .. Len(L[s])}
      BY <2>2
    <3>5. Len(L[s]) # 0 => L[s][1] \in Listeners(s)
      BY <3>2, <3>4
    <3>6. Len(L[s]) = 0 => Listeners(s) = {}
      BY <3>3, <3>4
    <3> QED
      BY <3>1, <3>5, <3>6
  <2>4. ASSUME NEW s \in Symbols
        PROVE  {h \in Listeners(s) : next[h] = Null} = {tail[s]} \ {Null}
    <3>1. /\ Len(L[s]) \in Nat
          /\ \A i \in 1 .. Len(L[s]) : L[s][i] # Null
          /\ tail[s] = IF Len(L[s]) = 0 THEN Null ELSE L[s][Len(L[s])]
      BY <2>1, ListedFacts
    <3>2. \A i \in 1 .. Len(L[s]) : next[L[s][i]] = Null <=> i = Len(L[s])
      <4>1. \A i \in 1 .. Len(L[s]) : i # Len(L[s]) => i + 1 \in 1 .. Len(L[s])
        BY <3>1
      <4> QED
        BY <2>1, <3>1, <4>1 DEF Listing, Chained
    <3>3. Len(L[s]) # 0 => Len(L[s]) \in 1 .. Len(L[s])
      BY <3>1
    <3> QED
      BY <2>2, <3>1, <3>2, <3>3
  <2>5. \A s, t \in Symbols : s # t => Listeners(s) \cap Listeners(t) = {}
    BY <2>1, <2>2 DEF Listing, Distinct
  <2> QED
    BY <2>3, <2>4, <2>5 DEF WellFormed, ListsWellFormed, EmitterInv
<1> QED
  BY <1>1, EmitterInvariant, PTL

\* emit() only ever calls a handler that is in a list at that moment: one that
\* off() removed is not called again, not even by a loop that was on its way
\* to it (emitter.cc:55-64).
THEOREM RemovedStaysRemoved == Spec => RemovedIsNotInvoked
<1>1. ASSUME EmitterInv, [Next]_vars, NEW h \in Handlers, refs'[h] > refs[h]
      PROVE  h \in Linked
  <2>1. PICK L : Listing(L)
    BY <1>1 DEF EmitterInv
  <2>2. refs[h] \in Nat /\ refs \in [Handlers -> Nat]
    BY <1>1 DEF EmitterInv, TypeOK
  <2>3. refs' # refs
    BY <1>1, <2>2
  <2>4. CASE \E s \in Symbols : Emit(s)
    <3>1. PICK s \in Symbols : Emit(s)
      BY <2>4
    <3>2. head[s] \in Handlers /\ refs' = [refs EXCEPT ![head[s]] = @ + 1] /\ head[s] # Null
      BY <1>1, <3>1, EmitFacts DEF Emit
    <3>3. h = head[s]
      BY <1>1, <2>2, <3>2
    <3>4. Len(L[s]) \in Nat /\ head[s] = IF Len(L[s]) = 0 THEN Null ELSE L[s][1]
      BY <2>1, ListedFacts
    <3>5. 1 \in 1 .. Len(L[s]) /\ L[s][1] = h
      BY <3>2, <3>3, <3>4
    <3> QED
      BY <2>1, <3>5, LinkedIsListed DEF Loose
  <2>5. CASE Return
    <3> DEFINE n == next[Top]
               released == [refs EXCEPT ![Top] = @ - 1]
    <3>1. Top \in Handlers /\ refs[Top] \in Nat
      BY <1>1, <2>5, ReturnFacts
    <3>2. /\ n # Null => n \in Handlers /\ refs' = [released EXCEPT ![n] = @ + 1]
          /\ n = Null => refs' = released
      BY <1>1, <2>5, ReturnFacts
    <3>3. released[h] <= refs[h] /\ released \in [Handlers -> Int]
      BY <2>2, <3>1
    <3> HIDE DEF n, released
    <3>4. n # Null /\ h = n
      BY <1>1, <2>2, <3>2, <3>3
    <3>5. \E s \in Symbols : \E i \in 1 .. Len(L[s]) - 1 : Top = L[s][i] /\ h = L[s][i + 1]
      BY <2>1, <3>1, <3>4, SuccessorIsListed DEF n
    <3>6. \A s \in Symbols : \A i \in 1 .. Len(L[s]) - 1 : i + 1 \in 1 .. Len(L[s])
      BY <2>1, ListedFacts
    <3>7. ~Loose(L, h)
      BY <3>5, <3>6 DEF Loose
    <3> QED
      BY <2>1, <3>7, LinkedIsListed
  <2> QED
    BY <1>1, <2>3, <2>4, <2>5 DEF Next, vars, On, Off, RemoveAllListenersOf,
                                  RemoveAllListeners, Clear
<1>2. EmitterInv /\ [Next]_vars => [\A h \in Handlers : refs'[h] > refs[h] => h \in Linked]_vars
  BY <1>1
<1> QED
  BY <1>2, EmitterInvariant, PTL DEF Spec, RemovedIsNotInvoked

-----------------------------------------------------------------------------
(* Nothing is missed, nothing is invoked twice *)

\* What the history says of a loop that stands at the handler i of a list: it
\* owes handlers behind i only, and has called none of those behind i.
DueIsAhead(L) ==
    \A d \in 1 .. Len(stack) : \A s \in Symbols : \A i \in 1 .. Len(L[s]) :
        stack[d] = L[s][i] =>
            /\ \A h \in due[d] : \E j \in i + 1 .. Len(L[s]) : h = L[s][j]
            /\ \A j \in i + 1 .. Len(L[s]) : L[s][j] \notin called[d]

CalledExist ==
    \A d \in 1 .. Len(stack) : \A h \in called[d] : heap[h] # "fresh"

HistoryTypeOK ==
    /\ due \in Seq(SUBSET Handlers) /\ Len(due) = Len(stack)
    /\ called \in Seq(SUBSET Handlers) /\ Len(called) = Len(stack)

DeliveryInv ==
    /\ EmitterInv
    /\ HistoryTypeOK
    /\ CalledExist
    /\ \E L : Listing(L) /\ DueIsAhead(L)

LEMMA DeliveryImplementsEmitter == DeliverySpec => Spec
<1>1. DeliveryInit => Init
  BY DEF DeliveryInit
<1>2. [DeliveryNext]_deliveryVars => [Next]_vars
  BY DEF DeliveryNext, deliveryVars, Begin, Proceed, Change, Next, vars
<1> QED
  BY <1>1, <1>2, PTL DEF DeliverySpec, Spec

\* The same fact about the state after a step
LEMMA LinkedIsListedAlways ==
    \A L : Listing(L) => \A h \in Handlers : h \in Linked <=> ~Loose(L, h)
BY LinkedIsListed

LEMMA LinkedIsListedNext ==
    (\A L : Listing(L) => \A h \in Handlers : h \in Linked <=> ~Loose(L, h))'
BY LinkedIsListedAlways, PTL

\* M is L without some of its handlers, in the same order.
Thinned(L, M) ==
    \A s \in Symbols :
        /\ \A i \in 1 .. Len(M[s]) : \E a \in 1 .. Len(L[s]) : M[s][i] = L[s][a]
        /\ \A i, j \in 1 .. Len(M[s]) : \A a, b \in 1 .. Len(L[s]) :
               M[s][i] = L[s][a] /\ M[s][j] = L[s][b] /\ a < b => i < j

LEMMA HistoryStays ==
    ASSUME HistoryTypeOK, UNCHANGED <<stack, called>>,
           due' = [d \in DOMAIN due |-> due[d] \cap Linked']
    PROVE  /\ HistoryTypeOK'
           /\ \A d \in 1 .. Len(stack) : due'[d] = due[d] \cap Linked'
<1> DEFINE f == [d \in DOMAIN due |-> due[d] \cap Linked']
           n == Len(stack)
<1>1. DOMAIN due = 1 .. n /\ \A d \in 1 .. n : due[d] \in SUBSET Handlers
  BY LenProperties, ElementOfSeq DEF HistoryTypeOK
<1>2. n \in Nat
  BY LenProperties DEF HistoryTypeOK
<1> HIDE DEF n
<1>3. f = [d \in 1 .. n |-> due[d] \cap Linked']
      /\ \A d \in 1 .. n : due[d] \cap Linked' \in SUBSET Handlers
  BY <1>1
<1>4. f \in Seq(SUBSET Handlers) /\ Len(f) = n
  <2>1. f \in [1 .. n -> SUBSET Handlers]
    BY <1>3
  <2> HIDE DEF f
  <2>2. f \in Seq(SUBSET Handlers)
    BY <1>2, <2>1, IsASeq
  <2>3. DOMAIN f = 1 .. n
    BY <2>1
  <2> QED
    BY <1>2, <2>2, <2>3, LenProperties
<1> QED
  BY <1>1, <1>3, <1>4 DEF HistoryTypeOK, n

LEMMA DueStaysAhead ==
    ASSUME UNCHANGED <<stack, called>>, NEW M,
           \A d \in 1 .. Len(stack) : \A s \in Symbols : \A i \in 1 .. Len(M[s]) :
               stack[d] = M[s][i] =>
                   /\ \A h \in due'[d] : \E j \in i + 1 .. Len(M[s]) : h = M[s][j]
                   /\ \A j \in i + 1 .. Len(M[s]) : M[s][j] \notin called[d]
    PROVE  DueIsAhead(M)'
<1>1. stack' = stack /\ called' = called
  OBVIOUS
<1>2. DueIsAhead(M)' <=>
          \A d \in 1 .. Len(stack') : \A s \in Symbols : \A i \in 1 .. Len(M[s]) :
              stack'[d] = M[s][i] =>
                  /\ \A h \in due'[d] : \E j \in i + 1 .. Len(M[s]) : h = M[s][j]
                  /\ \A j \in i + 1 .. Len(M[s]) : M[s][j] \notin called'[d]
  BY Zenon DEF DueIsAhead
<1> QED
  BY <1>1, <1>2

LEMMA ThinningKeepsDue ==
    ASSUME EmitterInv, HistoryTypeOK, UNCHANGED <<stack, called>>,
           due' = [d \in DOMAIN due |-> due[d] \cap Linked'],
           NEW L, Listing(L), DueIsAhead(L), NEW M, Listing(M)', Thinned(L, M)
    PROVE  DueIsAhead(M)'
<1> SUFFICES ASSUME NEW d \in 1 .. Len(stack), NEW s \in Symbols,
                    NEW i \in 1 .. Len(M[s]), stack[d] = M[s][i]
             PROVE  /\ \A h \in due'[d] : \E j \in i + 1 .. Len(M[s]) : h = M[s][j]
                    /\ \A j \in i + 1 .. Len(M[s]) : M[s][j] \notin called[d]
  BY DueStaysAhead
<1>1. L \in [Symbols -> Seq(Handlers)] /\ M \in [Symbols -> Seq(Handlers)]
  BY DEF Listing
<1>2. \A t \in Symbols : Len(L[t]) \in Nat /\ Len(M[t]) \in Nat
  BY <1>1, LenProperties
<1>3. PICK a \in 1 .. Len(L[s]) : M[s][i] = L[s][a]
  BY DEF Thinned
<1>4. /\ \A h \in due[d] : \E j \in a + 1 .. Len(L[s]) : h = L[s][j]
      /\ \A j \in a + 1 .. Len(L[s]) : L[s][j] \notin called[d]
  BY <1>3 DEF DueIsAhead
<1>5. ASSUME NEW h \in due'[d] PROVE \E j \in i + 1 .. Len(M[s]) : h = M[s][j]
  <2>1. h \in due[d] /\ h \in Linked'
    BY HistoryStays
  <2>2. PICK b \in a + 1 .. Len(L[s]) : h = L[s][b]
    BY <1>4, <2>1
  <2>3. b \in 1 .. Len(L[s]) /\ a < b
    BY <1>2, <1>3, <2>2
  <2>4. h \in Handlers
    BY <2>1, <2>2, <2>3, ListedFacts
  <2>5. \E t \in Symbols : \E j \in 1 .. Len(M[t]) : h = M[t][j]
    BY <2>1, <2>4, LinkedIsListedNext DEF Loose
  <2>6. PICK t \in Symbols : \E j \in 1 .. Len(M[t]) : h = M[t][j]
    BY <2>5
  <2>7. PICK j \in 1 .. Len(M[t]) : h = M[t][j]
    BY <2>6
  <2>8. t = s
    <3>1. PICK c \in 1 .. Len(L[t]) : M[t][j] = L[t][c]
      BY DEF Thinned
    <3> QED
      BY <2>2, <2>3, <2>7, <3>1 DEF Listing, Distinct
  <2>9. i < j
    <3>1. M[s][j] = L[s][b] /\ j \in 1 .. Len(M[s])
      BY <2>2, <2>7, <2>8
    <3> QED
      BY <1>3, <2>3, <3>1 DEF Thinned
  <2> QED
    BY <1>2, <2>7, <2>8, <2>9
<1>6. ASSUME NEW j \in i + 1 .. Len(M[s]) PROVE M[s][j] \notin called[d]
  <2>1. j \in 1 .. Len(M[s]) /\ i < j
    BY <1>2
  <2>2. PICK b \in 1 .. Len(L[s]) : M[s][j] = L[s][b]
    BY <2>1 DEF Thinned
  <2>3. a # b
    BY <1>3, <2>1, <2>2 DEF Listing, Distinct
  <2>4. ~(b < a)
    <3> SUFFICES ASSUME b < a PROVE FALSE
      OBVIOUS
    <3>1. j < i
      BY <1>3, <2>1, <2>2 DEF Thinned
    <3> QED
      BY <1>2, <2>1, <3>1
  <2>5. b \in a + 1 .. Len(L[s])
    BY <1>2, <1>3, <2>2, <2>3, <2>4
  <2> QED
    BY <1>4, <2>2, <2>5
<1> QED
  BY <1>5, <1>6

LEMMA AddingKeepsDue ==
    ASSUME EmitterInv, HistoryTypeOK, CalledExist, UNCHANGED <<stack, called>>,
           due' = [d \in DOMAIN due |-> due[d] \cap Linked'],
           NEW L, Listing(L), DueIsAhead(L),
           NEW s \in Symbols, NEW h \in Handlers, heap[h] = "fresh", Loose(L, h)
    PROVE  DueIsAhead([L EXCEPT ![s] = Append(@, h)])'
<1> DEFINE M == [L EXCEPT ![s] = Append(@, h)]
<1>1. L \in [Symbols -> Seq(Handlers)] /\ \A t \in Symbols : Len(L[t]) \in Nat
  BY LenProperties DEF Listing
<1>2. \A t \in Symbols :
          /\ Len(M[t]) \in Nat /\ Len(M[t]) >= Len(L[t])
          /\ \A i \in 1 .. Len(L[t]) : M[t][i] = L[t][i]
          /\ \A i \in Len(L[t]) + 1 .. Len(M[t]) : M[t][i] = h
  <2> TAKE t \in Symbols
  <2>1. CASE t = s
    <3>1. M[t] = Append(L[s], h)
      BY <1>1, <2>1
    <3>2. /\ Len(Append(L[s], h)) = Len(L[s]) + 1
          /\ \A i \in 1 .. Len(L[s]) : Append(L[s], h)[i] = L[s][i]
          /\ Append(L[s], h)[Len(L[s]) + 1] = h
      BY <1>1, AppendProperties
    <3> HIDE DEF M
    <3>3. \A i \in Len(L[s]) + 1 .. Len(L[s]) + 1 : i = Len(L[s]) + 1
      BY <1>1
    <3> QED
      BY <1>1, <2>1, <3>1, <3>2, <3>3
  <2>2. CASE t # s
    <3>1. M[t] = L[t]
      BY <1>1, <2>2
    <3>2. \A i \in Len(L[t]) + 1 .. Len(L[t]) : FALSE
      BY <1>1
    <3> QED
      BY <1>1, <3>1, <3>2
  <2> QED
    BY <2>1, <2>2
<1> HIDE DEF M
<1> SUFFICES ASSUME NEW d \in 1 .. Len(stack), NEW t \in Symbols,
                    NEW i \in 1 .. Len(M[t]), stack[d] = M[t][i]
             PROVE  /\ \A k \in due'[d] : \E j \in i + 1 .. Len(M[t]) : k = M[t][j]
                    /\ \A j \in i + 1 .. Len(M[t]) : M[t][j] \notin called[d]
  BY DEF DueIsAhead, M
<1>3. stack[d] # h /\ h \notin called[d]
  BY DEF EmitterInv, InvokedAlive, CalledExist
<1>4. i \in 1 .. Len(L[t]) /\ M[t][i] = L[t][i]
  BY <1>1, <1>2, <1>3
<1>5. /\ \A k \in due[d] : \E j \in i + 1 .. Len(L[t]) : k = L[t][j]
      /\ \A j \in i + 1 .. Len(L[t]) : L[t][j] \notin called[d]
  BY <1>4 DEF DueIsAhead
<1>6. due'[d] \subseteq due[d]
  BY HistoryStays
<1>7. \A j \in i + 1 .. Len(L[t]) : j \in i + 1 .. Len(M[t]) /\ M[t][j] = L[t][j]
  BY <1>1, <1>2, <1>4
<1>8. \A j \in i + 1 .. Len(M[t]) : j \in i + 1 .. Len(L[t]) \/ M[t][j] = h
  BY <1>1, <1>2, <1>4
<1>9. ASSUME NEW k \in due'[d] PROVE \E j \in i + 1 .. Len(M[t]) : k = M[t][j]
  <2>1. PICK j \in i + 1 .. Len(L[t]) : k = L[t][j]
    BY <1>5, <1>6
  <2> QED
    BY <1>7, <2>1
<1>10. ASSUME NEW j \in i + 1 .. Len(M[t]) PROVE M[t][j] \notin called[d]
  <2>1. CASE M[t][j] = h
    BY <1>3, <2>1
  <2>2. CASE j \in i + 1 .. Len(L[t])
    BY <1>5, <1>7, <2>2
  <2> QED
    BY <1>8, <2>1, <2>2
<1> QED
  BY <1>9, <1>10

LEMMA RemovingThins ==
    ASSUME NEW L, Listing(L), NEW s \in Symbols, NEW k \in 1 .. Len(L[s])
    PROVE  Thinned(L, [L EXCEPT ![s] = Abstract!RemoveAt(@, k)])
<1> DEFINE M == [L EXCEPT ![s] = Abstract!RemoveAt(@, k)]
           n == Len(L[s])
<1>1. L \in [Symbols -> Seq(Handlers)] /\ \A t \in Symbols : Len(L[t]) \in Nat
  BY LenProperties DEF Listing
<1>2. /\ M[s] = Abstract!RemoveAt(L[s], k)
      /\ \A t \in Symbols : t # s => M[t] = L[t]
  BY <1>1
<1>3. /\ Len(M[s]) = n - 1
      /\ \A i \in 1 .. n - 1 : M[s][i] = IF i < k THEN L[s][i] ELSE L[s][i + 1]
  BY <1>1, <1>2, RemoveAtProperties
<1> HIDE DEF M
<1> SUFFICES ASSUME NEW t \in Symbols
             PROVE  /\ \A i \in 1 .. Len(M[t]) : \E a \in 1 .. Len(L[t]) : M[t][i] = L[t][a]
                    /\ \A i, j \in 1 .. Len(M[t]) : \A a, b \in 1 .. Len(L[t]) :
                           M[t][i] = L[t][a] /\ M[t][j] = L[t][b] /\ a < b => i < j
  BY DEF Thinned, M
<1>4. CASE t # s
  <2>1. M[t] = L[t]
    BY <1>2, <1>4
  <2>2. \A i, j \in 1 .. Len(L[t]) : L[t][i] = L[t][j] => i = j
    BY DEF Listing, Distinct
  <2> QED
    BY <2>1, <2>2
<1>5. CASE t = s
  <2> DEFINE old(i) == IF i < k THEN i ELSE i + 1
  <2>1. \A i \in 1 .. n - 1 : old(i) \in 1 .. n /\ M[s][i] = L[s][old(i)]
    BY <1>1, <1>3
  <2>2. \A i, j \in 1 .. n - 1 : old(i) < old(j) => i < j
    BY <1>1
  <2> HIDE DEF old
  <2>3. \A i \in 1 .. n - 1 : \A a \in 1 .. n : M[s][i] = L[s][a] => a = old(i)
    BY <2>1 DEF Listing, Distinct
  <2>4. \A i \in 1 .. n - 1 : \E a \in 1 .. n : M[s][i] = L[s][a]
    BY <2>1
  <2>5. \A i, j \in 1 .. n - 1 : \A a, b \in 1 .. n :
            M[s][i] = L[s][a] /\ M[s][j] = L[s][b] /\ a < b => i < j
    BY <2>2, <2>3
  <2>6. 1 .. Len(M[s]) = 1 .. n - 1
    BY <1>3
  <2> HIDE DEF n
  <2>7. /\ \A i \in 1 .. Len(M[s]) : \E a \in 1 .. n : M[s][i] = L[s][a]
        /\ \A i, j \in 1 .. Len(M[s]) : \A a, b \in 1 .. n :
               M[s][i] = L[s][a] /\ M[s][j] = L[s][b] /\ a < b => i < j
    BY <2>4, <2>5, <2>6
  <2> QED
    BY <1>5, <2>7 DEF n
<1> QED
  BY <1>4, <1>5

LEMMA ClearingThins ==
    ASSUME NEW L, Listing(L), NEW S \in SUBSET Symbols
    PROVE  Thinned(L, [s \in Symbols |-> IF s \in S THEN <<>> ELSE L[s]])
<1> DEFINE M == [s \in Symbols |-> IF s \in S THEN <<>> ELSE L[s]]
<1>1. \A t \in Symbols : IF t \in S THEN M[t] = <<>> ELSE M[t] = L[t]
  OBVIOUS
<1> HIDE DEF M
<1>2. Len(<<>>) = 0
  BY EmptySeq
<1>3. \A t \in Symbols : \A i, j \in 1 .. Len(L[t]) : L[t][i] = L[t][j] => i = j
  BY DEF Listing, Distinct
<1>4. ASSUME NEW t \in Symbols
      PROVE  /\ \A i \in 1 .. Len(M[t]) : \E a \in 1 .. Len(L[t]) : M[t][i] = L[t][a]
             /\ \A i, j \in 1 .. Len(M[t]) : \A a, b \in 1 .. Len(L[t]) :
                    M[t][i] = L[t][a] /\ M[t][j] = L[t][b] /\ a < b => i < j
  <2>1. CASE t \in S
    <3>1. Len(M[t]) = 0
      BY <1>1, <1>2, <2>1
    <3> QED
      BY <3>1
  <2>2. CASE t \notin S
    BY <1>1, <1>3, <2>2
  <2> QED
    BY <2>1, <2>2
<1> QED
  BY <1>4 DEF Thinned, M

\* A change of the lists leaves what the loops owe in order.
LEMMA ChangeKeeps ==
    ASSUME DeliveryInv, Change
    PROVE  DeliveryInv'
<1>1. EmitterInv /\ HistoryTypeOK /\ CalledExist
  BY DEF DeliveryInv
<1>2. PICK L : Listing(L) /\ DueIsAhead(L)
  BY DEF DeliveryInv
<1>3. /\ UNCHANGED <<stack, called>>
      /\ due' = [d \in DOMAIN due |-> due[d] \cap Linked']
  BY DEF Change, On, Off, RemoveAllListenersOf, RemoveAllListeners, Clear
<1>4. EmitterInv'
  BY <1>1, EmitterStep DEF Change, Next
<1>5. HistoryTypeOK'
  BY <1>1, <1>3, HistoryStays
<1>6. ASSUME NEW s \in Symbols, On(s)
      PROVE  CalledExist' /\ \E M : Listing(M)' /\ DueIsAhead(M)'
  <2>1. PICK h \in Handlers :
            /\ heap[h] = "fresh" /\ Loose(L, h)
            /\ heap' = [heap EXCEPT ![h] = "live"]
            /\ Listing([L EXCEPT ![s] = Append(@, h)])'
    BY <1>1, <1>2, <1>6, OnAppends DEF EmitterInv
  <2>2. DueIsAhead([L EXCEPT ![s] = Append(@, h)])'
    BY <1>1, <1>2, <1>3, <2>1, AddingKeepsDue
  <2>3. CalledExist'
    BY <1>1, <1>3, <2>1 DEF CalledExist, EmitterInv, TypeOK
  <2> QED
    BY <2>1, <2>2, <2>3
<1>7. ASSUME NEW R, Unlink(R) PROVE CalledExist'
  <2>1. \A d \in 1 .. Len(stack) : called[d] \subseteq Handlers
    BY <1>1, LenProperties, ElementOfSeq DEF HistoryTypeOK
  <2> QED
    BY <1>1, <1>3, <1>7, <2>1 DEF CalledExist, Unlink
<1>8. ASSUME NEW s \in Symbols, NEW h \in Handlers, Off(s, h)
      PROVE  CalledExist' /\ \E M : Listing(M)' /\ DueIsAhead(M)'
  <2>1. PICK k \in 1 .. Len(L[s]) : Listing([L EXCEPT ![s] = Abstract!RemoveAt(@, k)])'
    BY <1>1, <1>2, <1>8, OffRemoves DEF EmitterInv
  <2>2. Thinned(L, [L EXCEPT ![s] = Abstract!RemoveAt(@, k)])
    BY <1>2, RemovingThins
  <2>3. DueIsAhead([L EXCEPT ![s] = Abstract!RemoveAt(@, k)])'
    BY <1>1, <1>2, <1>3, <2>1, <2>2, ThinningKeepsDue
  <2> QED
    BY <1>7, <1>8, <2>1, <2>3 DEF Off, Erase
<1>9. ASSUME NEW S \in SUBSET Symbols, Clear(S)
      PROVE  CalledExist' /\ \E M : Listing(M)' /\ DueIsAhead(M)'
  <2> DEFINE M == [s \in Symbols |-> IF s \in S THEN <<>> ELSE L[s]]
  <2>1. Listing(M)'
    BY <1>1, <1>2, <1>9, ClearEmpties DEF EmitterInv
  <2>2. Thinned(L, M)
    BY <1>2, ClearingThins
  <2> HIDE DEF M
  <2>3. DueIsAhead(M)'
    BY <1>1, <1>2, <1>3, <2>1, <2>2, ThinningKeepsDue
  <2>4. CalledExist'
    BY <1>7, <1>9 DEF Clear
  <2> QED
    BY <2>1, <2>3, <2>4
<1>10. CalledExist' /\ \E M : Listing(M)' /\ DueIsAhead(M)'
  <2>1. roots \in SUBSET Symbols
    BY <1>1 DEF EmitterInv, TypeOK
  <2> QED
    BY <1>6, <1>8, <1>9, <2>1 DEF Change, RemoveAllListenersOf, RemoveAllListeners
<1> QED
  BY <1>4, <1>5, <1>10 DEF DeliveryInv

LEMMA BeginKeeps ==
    ASSUME DeliveryInv, NEW s \in Symbols, Begin(s)
    PROVE  DeliveryInv'
<1> DEFINE n == Len(stack)
           h == head[s]
           owed == Listeners(s) \ {h}
<1>1. EmitterInv /\ HistoryTypeOK /\ CalledExist
  BY DEF DeliveryInv
<1>2. PICK L : Listing(L) /\ DueIsAhead(L)
  BY DEF DeliveryInv
<1>3. /\ h \in Handlers /\ heap[h] = "live"
      /\ stack' = Append(stack, h)
      /\ UNCHANGED <<roots, head, tail, next, heap>>
  BY <1>1, EmitFacts DEF Begin
<1>4. due' = Append(due, owed) /\ called' = Append(called, {h})
      /\ owed \in SUBSET Handlers /\ {h} \in SUBSET Handlers
  BY <1>3 DEF Begin, Listeners
<1>5. h = L[s][1] /\ 1 \in 1 .. Len(L[s]) /\ Len(L[s]) \in Nat
  BY <1>2, ListedFacts DEF Begin, Emit
<1>6. \A k \in owed : \E j \in 2 .. Len(L[s]) : k = L[s][j]
  <2>1. Listeners(s) = {L[s][i] : i \in 1 .. Len(L[s])}
    BY <1>2, ListenersAreListed
  <2> QED
    BY <1>5, <2>1
<1> HIDE DEF h, owed
<1>7. EmitterInv' /\ Listing(L)'
  <2>1. [Next]_vars
    BY DEF Begin, Next
  <2> QED
    BY <1>1, <1>2, <1>3, <2>1, EmitterStep, ListingStays
<1>8. /\ Len(stack') = n + 1 /\ n \in Nat
      /\ \A d \in 1 .. n : stack'[d] = stack[d]
      /\ stack'[n + 1] = h
  <2>1. stack \in Seq(Handlers)
    BY <1>1 DEF EmitterInv, TypeOK
  <2> QED
    BY <1>3, <2>1, AppendProperties, LenProperties
<1>9. /\ due' \in Seq(SUBSET Handlers) /\ Len(due') = n + 1
      /\ \A d \in 1 .. n : due'[d] = due[d]
      /\ due'[n + 1] = owed
  BY <1>1, <1>4, AppendProperties DEF HistoryTypeOK
<1>10. /\ called' \in Seq(SUBSET Handlers) /\ Len(called') = n + 1
       /\ \A d \in 1 .. n : called'[d] = called[d]
       /\ called'[n + 1] = {h}
  BY <1>1, <1>4, AppendProperties DEF HistoryTypeOK
<1>11. \A d \in 1 .. Len(stack') : d \in 1 .. n \/ d = n + 1
  BY <1>8
<1>12. HistoryTypeOK'
  BY <1>8, <1>9, <1>10 DEF HistoryTypeOK
<1>13. CalledExist'
  BY <1>1, <1>3, <1>10, <1>11 DEF CalledExist
<1>14. ASSUME NEW d \in 1 .. Len(stack'), NEW t \in Symbols, NEW i \in 1 .. Len(L[t]),
              stack'[d] = L[t][i]
       PROVE  /\ \A k \in due'[d] : \E j \in i + 1 .. Len(L[t]) : k = L[t][j]
              /\ \A j \in i + 1 .. Len(L[t]) : L[t][j] \notin called'[d]
  <2>1. CASE d \in 1 .. n
    <3>1. /\ stack[d] = L[t][i] /\ due'[d] = due[d] /\ called'[d] = called[d]
          /\ d \in 1 .. Len(stack)
      BY <1>8, <1>9, <1>10, <1>14, <2>1
    <3>2. /\ \A k \in due[d] : \E j \in i + 1 .. Len(L[t]) : k = L[t][j]
          /\ \A j \in i + 1 .. Len(L[t]) : L[t][j] \notin called[d]
      BY <1>2, <3>1, Zenon DEF DueIsAhead
    <3> QED
      BY <3>1, <3>2
  <2>2. CASE d = n + 1
    <3>1. t = s /\ i = 1
      BY <1>2, <1>5, <1>8, <1>14, <2>2 DEF Listing, Distinct
    <3>2. \A j \in 2 .. Len(L[s]) : j \in 1 .. Len(L[s]) /\ j # 1
      BY <1>5
    <3>3. \A j \in 2 .. Len(L[s]) : L[s][j] # h
      BY <1>2, <1>5, <3>2 DEF Listing, Distinct
    <3>4. i + 1 = 2
      BY <3>1
    <3> QED
      BY <1>6, <1>9, <1>10, <2>2, <3>1, <3>3, <3>4
  <2> QED
    BY <1>11, <2>1, <2>2
<1>15. DueIsAhead(L)'
  BY <1>14, Zenon DEF DueIsAhead
<1> QED
  BY <1>7, <1>12, <1>13, <1>15 DEF DeliveryInv

\* Where a loop that goes on stands
LEMMA ReturnedPlace ==
    ASSUME NEW L, Listing(L), EmitterInv, Return, next[Top] # Null
    PROVE  \E s \in Symbols : \E i \in 1 .. Len(L[s]) :
               /\ i + 1 \in 1 .. Len(L[s])
               /\ stack[Len(stack)] = L[s][i] /\ stack'[Len(stack)] = L[s][i + 1]
<1>1. Top \in Handlers /\ stack'[Len(stack)] = next[Top]
  BY ReturnFacts, ReturnedStack
<1>2. PICK s \in Symbols : \E i \in 1 .. Len(L[s]) - 1 :
          Top = L[s][i] /\ next[Top] = L[s][i + 1]
  BY <1>1, SuccessorIsListed
<1>3. PICK i \in 1 .. Len(L[s]) - 1 : Top = L[s][i] /\ next[Top] = L[s][i + 1]
  BY <1>2
<1>4. i \in 1 .. Len(L[s]) /\ i + 1 \in 1 .. Len(L[s])
  BY ListedFacts
<1> QED
  BY <1>1, <1>3, <1>4 DEF Top

LEMMA ProceedKeeps ==
    ASSUME DeliveryInv, Proceed
    PROVE  DeliveryInv'
<1> DEFINE n == Len(stack)
           k == stack'[n]
<1>1. EmitterInv /\ HistoryTypeOK /\ CalledExist /\ Return
  BY DEF DeliveryInv, Proceed
<1>2. PICK L : Listing(L) /\ DueIsAhead(L)
  BY DEF DeliveryInv
<1>3. /\ n \in Nat \ {0}
      /\ UNCHANGED <<roots, head, tail, next, heap>>
      /\ \A i \in 1 .. n - 1 : stack'[i] = stack[i]
      /\ next[Top] = Null => Len(stack') = n - 1
      /\ next[Top] # Null => Len(stack') = n /\ k = next[Top] /\ k \in Handlers
                             /\ heap[k] = "live"
  BY <1>1, ReturnFacts, ReturnedStack
<1>4. EmitterInv' /\ Listing(L)'
  <2>1. [Next]_vars
    BY <1>1 DEF Next
  <2> QED
    BY <1>1, <1>2, <1>3, <2>1, EmitterStep, ListingStays
<1>5. /\ due \in Seq(SUBSET Handlers) /\ Len(due) = n
      /\ called \in Seq(SUBSET Handlers) /\ Len(called) = n
      /\ due[n] \in SUBSET Handlers /\ called[n] \in SUBSET Handlers
  BY <1>1, <1>3, ElementOfSeq DEF HistoryTypeOK
<1>6. \A d \in 1 .. n - 1 : d \in 1 .. n
  BY <1>3
<1>7. CASE next[Top] = Null
  <2>1. due' = SubSeq(due, 1, n - 1) /\ called' = SubSeq(called, 1, n - 1)
    BY <1>3, <1>7 DEF Proceed
  <2>2. Len(stack') = n - 1
    BY <1>3, <1>7
  <2>3. due # <<>> /\ called # <<>>
    BY <1>3, <1>5, EmptySeq
  <2>4. /\ due' \in Seq(SUBSET Handlers) /\ Len(due') = n - 1
        /\ \A d \in 1 .. n - 1 : due'[d] = due[d]
    BY <1>5, <2>1, <2>3, CallersProperties
  <2>5. /\ called' \in Seq(SUBSET Handlers) /\ Len(called') = n - 1
        /\ \A d \in 1 .. n - 1 : called'[d] = called[d]
    BY <1>5, <2>1, <2>3, CallersProperties
  <2>6. HistoryTypeOK'
    BY <2>2, <2>4, <2>5 DEF HistoryTypeOK
  <2>7. CalledExist'
    BY <1>1, <1>3, <1>6, <2>2, <2>5 DEF CalledExist
  <2>8. ASSUME NEW d \in 1 .. Len(stack'), NEW t \in Symbols, NEW i \in 1 .. Len(L[t]),
               stack'[d] = L[t][i]
        PROVE  /\ \A h \in due'[d] : \E j \in i + 1 .. Len(L[t]) : h = L[t][j]
               /\ \A j \in i + 1 .. Len(L[t]) : L[t][j] \notin called'[d]
    <3>1. d \in 1 .. n - 1 /\ d \in 1 .. n
      BY <1>6, <2>2
    <3>2. due'[d] = due[d] /\ called'[d] = called[d] /\ stack[d] = L[t][i]
      BY <1>3, <2>4, <2>5, <2>8, <3>1
    <3> QED
      BY <1>2, <3>1, <3>2 DEF DueIsAhead
  <2>9. DueIsAhead(L)'
    BY <2>8, Zenon DEF DueIsAhead
  <2> QED
    BY <1>4, <2>6, <2>7, <2>9 DEF DeliveryInv
<1>8. CASE next[Top] # Null
  <2> DEFINE owed == due[n] \ {k}
             done == called[n] \cup {k}
  <2>1. due' = [due EXCEPT ![n] = owed] /\ called' = [called EXCEPT ![n] = done]
    BY <1>3, <1>8 DEF Proceed
  <2>2. Len(stack') = n /\ n \in 1 .. n
    BY <1>3, <1>8
  <2>3. owed \in SUBSET Handlers /\ done \in SUBSET Handlers
    BY <1>3, <1>5, <1>8
  <2>4. PICK s \in Symbols : \E i \in 1 .. Len(L[s]) :
            i + 1 \in 1 .. Len(L[s]) /\ stack[n] = L[s][i] /\ k = L[s][i + 1]
    BY <1>1, <1>2, <1>8, ReturnedPlace
  <2>5. PICK a \in 1 .. Len(L[s]) :
            a + 1 \in 1 .. Len(L[s]) /\ stack[n] = L[s][a] /\ k = L[s][a + 1]
    BY <2>4
  <2> HIDE DEF owed, done, k
  <2>6. /\ due' \in Seq(SUBSET Handlers) /\ Len(due') = n
        /\ \A d \in 1 .. n : due'[d] = IF d = n THEN owed ELSE due[d]
    BY <1>5, <2>1, <2>2, <2>3, ExceptSeq
  <2>7. /\ called' \in Seq(SUBSET Handlers) /\ Len(called') = n
        /\ \A d \in 1 .. n : called'[d] = IF d = n THEN done ELSE called[d]
    BY <1>5, <2>1, <2>2, <2>3, ExceptSeq
  <2>8. HistoryTypeOK'
    BY <2>2, <2>6, <2>7 DEF HistoryTypeOK
  <2>9. CalledExist'
    BY <1>1, <1>3, <1>8, <2>2, <2>7 DEF CalledExist, done
  <2>10. ASSUME NEW d \in 1 .. Len(stack'), NEW t \in Symbols, NEW i \in 1 .. Len(L[t]),
                stack'[d] = L[t][i]
         PROVE  /\ \A h \in due'[d] : \E j \in i + 1 .. Len(L[t]) : h = L[t][j]
                /\ \A j \in i + 1 .. Len(L[t]) : L[t][j] \notin called'[d]
    <3>1. CASE d # n
      <4>1. d \in 1 .. n - 1
        BY <1>3, <2>2, <3>1
      <4>2. due'[d] = due[d] /\ called'[d] = called[d] /\ stack[d] = L[t][i]
        BY <1>3, <1>6, <2>6, <2>7, <2>10, <3>1, <4>1
      <4> QED
        BY <1>2, <1>6, <4>1, <4>2 DEF DueIsAhead
    <3>2. CASE d = n
      <4>1. t = s /\ i = a + 1
        BY <1>2, <2>5, <2>10, <3>2 DEF Listing, Distinct, k
      <4>2. /\ \A h \in due[n] : \E j \in a + 1 .. Len(L[s]) : h = L[s][j]
            /\ \A j \in a + 1 .. Len(L[s]) : L[s][j] \notin called[n]
        BY <1>2, <2>2, <2>5 DEF DueIsAhead
      <4>3. Len(L[s]) \in Nat
        BY <1>2, ListedFacts
      <4>4. ASSUME NEW h \in owed PROVE \E j \in i + 1 .. Len(L[s]) : h = L[s][j]
        <5>1. PICK j \in a + 1 .. Len(L[s]) : h = L[s][j]
          BY <4>2 DEF owed
        <5>2. j # a + 1
          BY <2>5, <5>1 DEF owed
        <5> QED
          BY <4>1, <4>3, <5>1, <5>2
      <4>5. ASSUME NEW j \in i + 1 .. Len(L[s]) PROVE L[s][j] \notin done
        <5>1. j \in a + 1 .. Len(L[s]) /\ j # a + 1 /\ j \in 1 .. Len(L[s])
          BY <4>1, <4>3
        <5>2. L[s][j] # k
          BY <1>2, <2>5, <5>1 DEF Listing, Distinct
        <5> QED
          BY <4>2, <5>1, <5>2 DEF done
      <4> QED
        BY <2>2, <2>6, <2>7, <3>2, <4>1, <4>4, <4>5
    <3> QED
      BY <3>1, <3>2
  <2>11. DueIsAhead(L)'
    BY <2>10, Zenon DEF DueIsAhead
  <2> QED
    BY <1>4, <2>8, <2>9, <2>11 DEF DeliveryInv
<1> QED
  BY <1>7, <1>8

LEMMA DeliveryInvInit == DeliveryInit => DeliveryInv
<1> SUFFICES ASSUME DeliveryInit PROVE DeliveryInv
  OBVIOUS
<1>1. EmitterInv
  BY EmitterInvInit DEF DeliveryInit
<1>2. stack = <<>> /\ due = <<>> /\ called = <<>>
  BY DEF DeliveryInit, Init
<1>3. Len(stack) = 0 /\ \A d \in 1 .. 0 : FALSE
  BY <1>2, EmptySeq
<1>4. HistoryTypeOK
  BY <1>2, EmptySeq DEF HistoryTypeOK
<1>5. CalledExist /\ \A L : DueIsAhead(L)
  BY <1>3 DEF CalledExist, DueIsAhead
<1> QED
  BY <1>1, <1>4, <1>5 DEF DeliveryInv, EmitterInv

LEMMA DeliveryStep == DeliveryInv /\ [DeliveryNext]_deliveryVars => DeliveryInv'
<1> SUFFICES ASSUME DeliveryInv, [DeliveryNext]_deliveryVars PROVE DeliveryInv'
  OBVIOUS
<1>1. ASSUME NEW s \in Symbols, Begin(s) PROVE DeliveryInv'
  BY <1>1, BeginKeeps
<1>2. CASE Proceed
  BY <1>2, ProceedKeeps
<1>3. CASE Change
  BY <1>3, ChangeKeeps
<1>4. CASE UNCHANGED deliveryVars
  <2>1. UNCHANGED <<roots, head, tail, next, heap>> /\ UNCHANGED <<stack, due, called>>
        /\ UNCHANGED vars
    BY <1>4 DEF deliveryVars, vars
  <2>2. EmitterInv'
    BY <2>1, EmitterStep DEF DeliveryInv
  <2>3. PICK L : Listing(L) /\ DueIsAhead(L)
    BY DEF DeliveryInv
  <2>4. Listing(L)' /\ DueIsAhead(L)'
    BY <2>1, <2>3, ListingStays DEF DueIsAhead
  <2>5. HistoryTypeOK' /\ CalledExist'
    BY <2>1 DEF DeliveryInv, HistoryTypeOK, CalledExist
  <2> QED
    BY <2>2, <2>4, <2>5 DEF DeliveryInv
<1> QED
  BY <1>1, <1>2, <1>3, <1>4 DEF DeliveryNext

LEMMA DeliveryInvariant == DeliverySpec => []DeliveryInv
BY DeliveryInvInit, DeliveryStep, PTL DEF DeliverySpec

\* Whatever handlers do to the lists while they run: no loop leaves out
\* a listener that was there when it began and still is, unless the handler it
\* ended with was removed; none invokes a listener twice, or one that was
\* removed (emitter.h:137-166).
THEOREM ListenersAreDelivered == DeliverySpec => Delivery
<1>1. ASSUME DeliveryInv, Proceed, next[Top] = Null, Top \in Linked
      PROVE  due[Len(stack)] = {}
  <2>1. PICK L : Listing(L) /\ DueIsAhead(L)
    BY <1>1 DEF DeliveryInv
  <2>2. Top \in Handlers /\ Len(stack) \in Nat \ {0}
    BY <1>1, ReturnFacts DEF DeliveryInv, Proceed
  <2>3. PICK s \in Symbols : \E i \in 1 .. Len(L[s]) : L[s][i] = Top
    BY <1>1, <2>1, <2>2, LinkedIsListed DEF Loose
  <2>4. PICK i \in 1 .. Len(L[s]) : L[s][i] = Top
    BY <2>3
  <2>5. \A j \in 1 .. Len(L[s]) - 1 : j \in 1 .. Len(L[s]) /\ j + 1 \in 1 .. Len(L[s])
    BY <2>1, ListedFacts
  <2>6. i \notin 1 .. Len(L[s]) - 1
    <3> SUFFICES ASSUME i \in 1 .. Len(L[s]) - 1 PROVE FALSE
      OBVIOUS
    <3>2. i # Len(L[s]) /\ L[s][i + 1] # Null
      BY <2>1, <2>5, ListedFacts
    <3>1. next[L[s][i]] = L[s][i + 1] /\ L[s][i + 1] # Null
      BY <2>1, <3>2 DEF Listing, Chained
    <3> QED
      BY <1>1, <2>4, <3>1
  <2>7. \A j \in i + 1 .. Len(L[s]) : FALSE
    BY <2>1, <2>6, ListedFacts
  <2>8. Len(stack) \in 1 .. Len(stack) /\ stack[Len(stack)] = L[s][i]
    BY <2>2, <2>4 DEF Top
  <2> QED
    BY <2>1, <2>7, <2>8 DEF DueIsAhead
<1>2. ASSUME DeliveryInv, Proceed, next[Top] # Null
      PROVE  stack'[Len(stack)] \notin called[Len(stack)]
  <2>1. PICK L : Listing(L) /\ DueIsAhead(L)
    BY <1>2 DEF DeliveryInv
  <2>2. PICK s \in Symbols : \E i \in 1 .. Len(L[s]) :
            /\ i + 1 \in 1 .. Len(L[s])
            /\ stack[Len(stack)] = L[s][i] /\ stack'[Len(stack)] = L[s][i + 1]
    BY <1>2, <2>1, ReturnedPlace DEF DeliveryInv, Proceed
  <2>3. PICK i \in 1 .. Len(L[s]) :
            /\ i + 1 \in 1 .. Len(L[s])
            /\ stack[Len(stack)] = L[s][i] /\ stack'[Len(stack)] = L[s][i + 1]
    BY <2>2
  <2>4. Len(stack) \in 1 .. Len(stack) /\ i + 1 \in i + 1 .. Len(L[s])
    <3>1. Len(stack) \in Nat \ {0}
      BY <1>2, ReturnFacts DEF DeliveryInv, Proceed
    <3> QED
      BY <2>1, <2>3, <3>1, ListedFacts
  <2> QED
    BY <2>1, <2>3, <2>4 DEF DueIsAhead
<1>3. ASSUME DeliveryInv, Proceed
      PROVE  /\ Len(stack) \in Nat \ {0}
             /\ next[Top] = Null => Len(stack') = Len(stack) - 1
             /\ next[Top] # Null => Len(stack') = Len(stack)
  BY <1>3, ReturnFacts, ReturnedStack DEF DeliveryInv, Proceed
<1>4. ASSUME DeliveryInv, NEW s \in Symbols, Begin(s)
      PROVE  Len(stack) \in Nat /\ Len(stack') = Len(stack) + 1
  <2>1. stack \in Seq(Handlers) /\ head[s] \in Handlers /\ stack' = Append(stack, head[s])
    BY <1>4, EmitFacts DEF Begin, DeliveryInv, EmitterInv, TypeOK
  <2> QED
    BY <2>1, AppendProperties, LenProperties
<1>5. Change \/ UNCHANGED deliveryVars => stack' = stack
  BY DEF Change, On, Off, RemoveAllListenersOf, RemoveAllListeners, Clear,
         deliveryVars, vars
<1>6. DeliveryInv => Len(stack) \in Nat
  BY LenProperties DEF DeliveryInv, EmitterInv, TypeOK
<1>7. DeliveryInv /\ [DeliveryNext]_deliveryVars =>
          /\ Len(stack') < Len(stack) /\ Top \in Linked => due[Len(stack)] = {}
          /\ Len(stack') = Len(stack) /\ stack' # stack
             => stack'[Len(stack)] \notin called[Len(stack)]
  <2> SUFFICES ASSUME DeliveryInv, [DeliveryNext]_deliveryVars
               PROVE  /\ Len(stack') < Len(stack) /\ Top \in Linked => due[Len(stack)] = {}
                      /\ Len(stack') = Len(stack) /\ stack' # stack
                         => stack'[Len(stack)] \notin called[Len(stack)]
    OBVIOUS
  <2>1. ASSUME NEW s \in Symbols, Begin(s)
        PROVE  ~(Len(stack') < Len(stack)) /\ Len(stack') # Len(stack)
    BY <1>4, <2>1
  <2>2. ASSUME Change \/ UNCHANGED deliveryVars
        PROVE  ~(Len(stack') < Len(stack)) /\ stack' = stack
    BY <1>5, <1>6, <2>2
  <2>3. ASSUME Proceed
        PROVE  /\ Len(stack') < Len(stack) /\ Top \in Linked => due[Len(stack)] = {}
               /\ Len(stack') = Len(stack) => stack'[Len(stack)] \notin called[Len(stack)]
    BY <1>1, <1>2, <1>3, <2>3
  <2> QED
    BY <2>1, <2>2, <2>3 DEF DeliveryNext
<1>8. DeliverySpec => NothingMissed /\ NothingTwice
  BY <1>7, DeliveryInvariant, PTL DEF DeliverySpec, NothingMissed, NothingTwice
<1> QED
  BY <1>8, RemovedStaysRemoved, DeliveryImplementsEmitter DEF Delivery

-----------------------------------------------------------------------------
(* The emitter implements the sequences of EventList *)

\* q holds the handlers from p to the end of its list.
Rest(L, p, q) ==
    \/ p = Null /\ q = <<>>
    \/ \E s \in Symbols : \E i \in 1 .. Len(L[s]) :
           p = L[s][i] /\ q = SubSeq(L[s], i, Len(L[s]))
    \/ p \in Handlers /\ Loose(L, p) /\ q = <<p>>

LEMMA RestIsUnique ==
    ASSUME NEW L, Listing(L), NEW p \in Pointers
    PROVE  /\ \E q : Rest(L, p, q)
           /\ \A q, r : Rest(L, p, q) /\ Rest(L, p, r) => q = r
<1>1. \A s \in Symbols : \A i \in 1 .. Len(L[s]) : L[s][i] \in Handlers /\ L[s][i] # Null
  BY ListedFacts
<1>2. \A s, t \in Symbols : \A i \in 1 .. Len(L[s]), j \in 1 .. Len(L[t]) :
          L[s][i] = L[t][j] => s = t /\ i = j
  BY DEF Listing, Distinct
<1>3. Null \notin Handlers
  BY HandlersAssumption
<1>4. CASE p = Null
  BY <1>1, <1>3, <1>4 DEF Rest
<1>5. CASE p \in Handlers /\ Loose(L, p)
  BY <1>3, <1>5 DEF Rest, Loose
<1>6. CASE p \in Handlers /\ ~Loose(L, p)
  <2>1. PICK s \in Symbols : \E i \in 1 .. Len(L[s]) : p = L[s][i]
    BY <1>6 DEF Loose
  <2>2. PICK i \in 1 .. Len(L[s]) : p = L[s][i]
    BY <2>1
  <2>3. Rest(L, p, SubSeq(L[s], i, Len(L[s])))
    BY <2>2 DEF Rest
  <2>4. \A q : Rest(L, p, q) => q = SubSeq(L[s], i, Len(L[s]))
    BY <1>2, <1>3, <1>6, <2>2 DEF Rest
  <2> QED
    BY <2>3, <2>4
<1> QED
  BY <1>4, <1>5, <1>6 DEF Pointers

LEMMA RestGoesOn ==
    ASSUME TypeOK, NEW L, Listing(L), NEW p \in Handlers, NEW q, Rest(L, p, q)
    PROVE  /\ next[p] \in Pointers
           /\ \A r : Rest(L, next[p], r) => q = <<p>> \o r
<1>1. next[p] \in Pointers
  BY DEF TypeOK
<1>2. Rest(L, Null, <<>>) /\ Null \in Pointers
  BY DEF Rest, Pointers
<1>3. CASE Loose(L, p)
  <2>1. q = <<p>>
    BY <1>3, HandlersAssumption DEF Rest, Loose
  <2>2. next[p] = Null
    BY <1>3 DEF Listing, LooseEnds
  <2>3. <<p>> = <<p>> \o <<>>
    <3>1. <<p>> \in Seq(Handlers)
      OBVIOUS
    <3> QED
      BY <3>1, ConcatEmptySeq
  <2> QED
    BY <1>2, <2>1, <2>2, <2>3, RestIsUnique
<1>4. CASE ~Loose(L, p)
  <2>1. PICK s \in Symbols : \E i \in 1 .. Len(L[s]) : p = L[s][i] /\ q = SubSeq(L[s], i, Len(L[s]))
    BY <1>4, HandlersAssumption DEF Rest
  <2>2. PICK i \in 1 .. Len(L[s]) : p = L[s][i] /\ q = SubSeq(L[s], i, Len(L[s]))
    BY <2>1
  <2>3. L[s] \in Seq(Handlers) /\ Len(L[s]) \in Nat
    BY ListedFacts
  <2>4. q = <<p>> \o SubSeq(L[s], i + 1, Len(L[s]))
    <3>1. Len(L[s]) \in i .. Len(L[s])
      BY <2>3
    <3> QED
      BY <2>2, <2>3, <3>1, SubSeqRecursiveFirst
  <2>5. Rest(L, next[p], SubSeq(L[s], i + 1, Len(L[s])))
    <3>1. CASE i = Len(L[s])
      <4>1. next[p] = Null
        BY <2>2, <3>1 DEF Listing, Chained
      <4>2. SubSeq(L[s], i + 1, Len(L[s])) = <<>>
        BY <2>3, <3>1, SubSeqEmpty
      <4> QED
        BY <4>1, <4>2 DEF Rest
    <3>2. CASE i # Len(L[s])
      <4>1. next[p] = L[s][i + 1] /\ i + 1 \in 1 .. Len(L[s])
        BY <2>2, <2>3, <3>2 DEF Listing, Chained
      <4> QED
        BY <4>1 DEF Rest
    <3> QED
      BY <3>1, <3>2
  <2> QED
    BY <1>1, <2>4, <2>5, RestIsUnique
<1> QED
  BY <1>1, <1>3, <1>4

\* What From computes: a finite walk, since the sequences end.
LEMMA FromIsRest ==
    ASSUME TypeOK, NEW L, Listing(L)
    PROVE  From = [p \in Pointers |-> IF p = Null THEN <<>> ELSE <<p>> \o From[next[p]]]
<1> DEFINE g == [p \in Pointers |-> CHOOSE q : Rest(L, p, q)]
<1>1. \A p \in Pointers : Rest(L, p, g[p])
  BY RestIsUnique
<1>2. g[Null] = <<>>
  BY <1>1, RestIsUnique DEF Rest, Pointers
<1>3. \A p \in Handlers : g[p] = <<p>> \o g[next[p]]
  BY <1>1, RestGoesOn DEF Pointers
<1>4. g = [p \in Pointers |-> g[p]]
  OBVIOUS
<1> HIDE DEF g
<1>5. \A p \in Pointers : g[p] = IF p = Null THEN <<>> ELSE <<p>> \o g[next[p]]
  BY <1>2, <1>3 DEF Pointers
<1>6. g = [p \in Pointers |-> IF p = Null THEN <<>> ELSE <<p>> \o g[next[p]]]
  BY <1>4, <1>5
<1> QED
  BY <1>6, Zenon DEF From

LEMMA ListsAreListed ==
    \A L : TypeOK /\ Listing(L) => Lists = L
<1> SUFFICES ASSUME TypeOK, NEW L, Listing(L)
             PROVE  Lists = L
  OBVIOUS
<1> DEFINE F(p) == IF p = Null THEN <<>> ELSE <<p>> \o From[next[p]]
<1>1. From = [p \in Pointers |-> IF p = Null THEN <<>> ELSE <<p>> \o From[next[p]]]
  BY FromIsRest
<1>2. /\ From[Null] = <<>>
      /\ \A p \in Handlers : From[p] = <<p>> \o From[next[p]]
  <2>1. \A p \in Pointers : From[p] = F(p)
    BY <1>1
  <2> QED
    BY <2>1, HandlersAssumption DEF Pointers
<1>3. ASSUME NEW s \in Symbols
      PROVE  From[head[s]] = L[s]
  <2> DEFINE n == Len(L[s])
             T == {i \in 1 .. n : From[L[s][i]] = SubSeq(L[s], i, n)}
  <2>1. /\ L[s] \in Seq(Handlers) /\ n \in Nat /\ (L[s] = <<>> <=> n = 0)
        /\ \A i \in 1 .. n : L[s][i] \in Handlers
        /\ head[s] = IF n = 0 THEN Null ELSE L[s][1]
    BY <1>3, ListedFacts
  <2>2. \A i \in 1 .. n : SubSeq(L[s], i, n) = <<L[s][i]>> \o SubSeq(L[s], i + 1, n)
    <3> TAKE i \in 1 .. n
    <3>1. n \in i .. n
      BY <2>1
    <3> QED
      BY <2>1, <3>1, SubSeqRecursiveFirst
  <2>3. SubSeq(L[s], n + 1, n) = <<>>
    BY <2>1, SubSeqEmpty
  <2>4. \A i \in 1 .. n : next[L[s][i]] = IF i = n THEN Null ELSE L[s][i + 1]
    BY <1>3 DEF Listing, Chained
  <2> HIDE DEF n
  <2>5. n > 0 => n \in T
    <3> HAVE n > 0
    <3>1. n \in 1 .. n
      BY <2>1
    <3>2. From[L[s][n]] = <<L[s][n]>> \o From[Null]
      BY <1>2, <2>1, <2>4, <3>1
    <3> QED
      BY <1>2, <2>2, <2>3, <3>1, <3>2
  <2>6. \A i \in 1 .. n - 1 : i + 1 \in T => i \in T
    <3> TAKE i \in 1 .. n - 1
    <3> HAVE i + 1 \in T
    <3>1. i \in 1 .. n /\ i # n
      BY <2>1
    <3>2. From[L[s][i]] = <<L[s][i]>> \o From[L[s][i + 1]]
      BY <1>2, <2>1, <2>4, <3>1
    <3> QED
      BY <2>2, <3>1, <3>2
  <2> HIDE DEF T
  <2>7. 1 .. n \subseteq T
    BY <2>1, <2>5, <2>6, DownFrom
  <2>8. CASE n = 0
    BY <1>2, <2>1, <2>8
  <2>9. CASE n # 0
    <3>1. 1 \in T /\ head[s] = L[s][1]
      BY <2>1, <2>7, <2>9
    <3>2. SubSeq(L[s], 1, n) = L[s]
      BY <2>1, SubSeqFull DEF n
    <3> QED
      BY <3>1, <3>2 DEF T
  <2> QED
    BY <2>8, <2>9
<1>4. L = [s \in Symbols |-> L[s]]
  BY DEF Listing
<1> QED
  BY <1>3, <1>4 DEF Lists

LEMMA ListsAreListedNext == (\A L : TypeOK /\ Listing(L) => Lists = L)'
BY ListsAreListed, PTL

\* The sequences before and after a step, without the pointers
LEMMA AbstractInit == Init => Abstract!Init
<1> SUFFICES ASSUME Init PROVE Abstract!Init
  OBVIOUS
<1>1. Lists = [s \in Symbols |-> <<>>]
  BY EmptyAtFirst, EmitterInvInit, ListsAreListed DEF EmitterInv
<1> QED
  BY <1>1 DEF Abstract!Init, Init

LEMMA AbstractOn ==
    ASSUME EmitterInv, EmitterInv', NEW s \in Symbols, On(s)
    PROVE  Abstract!Add(s)
<1>1. PICK L : Listing(L)
  BY DEF EmitterInv
<1>2. PICK h \in Handlers :
          /\ heap[h] = "fresh"
          /\ heap' = [heap EXCEPT ![h] = "live"]
          /\ Listing([L EXCEPT ![s] = Append(@, h)])'
  BY <1>1, OnAppends DEF EmitterInv
<1>3. Lists = L /\ Lists' = [L EXCEPT ![s] = Append(@, h)]
  BY <1>1, <1>2, ListsAreListed, ListsAreListedNext DEF EmitterInv
<1>4. /\ h \in {k \in Handlers : heap[k] = "fresh"}
      /\ {k \in Handlers : heap'[k] = "fresh"} = {k \in Handlers : heap[k] = "fresh"} \ {h}
  BY <1>2 DEF EmitterInv, TypeOK
<1>5. UNCHANGED stack
  BY DEF On
<1> QED
  BY <1>3, <1>4, <1>5 DEF Abstract!Add

\* No removed handler was never added.
LEMMA UnusedStays ==
    ASSUME EmitterInv, NEW R, Unlink(R), \A h \in Handlers \cap R : heap[h] # "fresh"
    PROVE  {k \in Handlers : heap'[k] = "fresh"} = {k \in Handlers : heap[k] = "fresh"}
BY DEF EmitterInv, TypeOK, Unlink

LEMMA AbstractOff ==
    ASSUME EmitterInv, EmitterInv', NEW s \in Symbols, NEW h \in Handlers, Off(s, h)
    PROVE  Abstract!Withdraw(s, h)
<1>1. PICK L : Listing(L)
  BY DEF EmitterInv
<1>2. PICK k \in 1 .. Len(L[s]) :
          L[s][k] = h /\ Listing([L EXCEPT ![s] = Abstract!RemoveAt(@, k)])'
  BY <1>1, OffRemoves DEF EmitterInv
<1>3. Lists = L /\ Lists' = [L EXCEPT ![s] = Abstract!RemoveAt(@, k)]
  BY <1>1, <1>2, ListsAreListed, ListsAreListedNext DEF EmitterInv
<1>4. heap[h] = "live" /\ Unlink({h}) /\ UNCHANGED stack
  BY <1>1, <1>2 DEF Off, Erase, Listing, Alive
<1>5. {j \in Handlers : heap'[j] = "fresh"} = {j \in Handlers : heap[j] = "fresh"}
  BY <1>4, UnusedStays
<1>6. k \in DOMAIN L[s]
  BY <1>1, <1>2, ListedFacts, LenProperties
<1> QED
  BY <1>2, <1>3, <1>4, <1>5, <1>6 DEF Abstract!Withdraw

LEMMA AbstractClear ==
    ASSUME EmitterInv, EmitterInv', NEW S \in SUBSET Symbols, Clear(S)
    PROVE  Abstract!RemoveAll(S)
<1>1. PICK L : Listing(L)
  BY DEF EmitterInv
<1>2. Listing([s \in Symbols |-> IF s \in S THEN <<>> ELSE L[s]])'
  BY <1>1, ClearEmpties DEF EmitterInv
<1>3. Lists = L /\ Lists' = [s \in Symbols |-> IF s \in S THEN <<>> ELSE L[s]]
  BY <1>1, <1>2, ListsAreListed, ListsAreListedNext DEF EmitterInv
<1> DEFINE R == UNION {Listeners(s) : s \in S}
<1>4. Unlink(R) /\ UNCHANGED stack
  BY DEF Clear
<1>5. \A h \in Handlers \cap R : heap[h] # "fresh"
  BY <1>1, ListenersAreListed DEF Listing, Alive
<1> HIDE DEF R
<1>6. {j \in Handlers : heap'[j] = "fresh"} = {j \in Handlers : heap[j] = "fresh"}
  BY <1>4, <1>5, UnusedStays
<1> QED
  BY <1>3, <1>4, <1>6 DEF Abstract!RemoveAll

\* emit() changes no list.
LEMMA ListsStay ==
    ASSUME EmitterInv, EmitterInv', UNCHANGED <<roots, head, tail, next, heap>>
    PROVE  /\ Lists' = Lists
           /\ {j \in Handlers : heap'[j] = "fresh"} = {j \in Handlers : heap[j] = "fresh"}
<1>1. PICK L : Listing(L)
  BY DEF EmitterInv
<1>2. Listing(L)'
  BY <1>1, ListingStays
<1> QED
  BY <1>1, <1>2, ListsAreListed, ListsAreListedNext DEF EmitterInv

LEMMA AbstractEmit ==
    ASSUME EmitterInv, EmitterInv', NEW s \in Symbols, Emit(s)
    PROVE  Abstract!Call(s)
<1>1. PICK L : Listing(L)
  BY DEF EmitterInv
<1>2. stack' = Append(stack, head[s]) /\ UNCHANGED <<roots, head, tail, next, heap>>
  BY EmitFacts
<1>3. L[s] # <<>> /\ head[s] = L[s][1] /\ L[s] \in Seq(Handlers)
  BY <1>1, ListedFacts DEF Emit
<1>4. Head(L[s]) = L[s][1]
  BY <1>3
<1>5. Lists = L
  BY <1>1, ListsAreListed DEF EmitterInv
<1> QED
  BY <1>2, <1>3, <1>4, <1>5, ListsStay DEF Abstract!Call

LEMMA AbstractReturn ==
    ASSUME EmitterInv, EmitterInv', Return
    PROVE  Abstract!Done
<1>1. PICK L : Listing(L)
  BY DEF EmitterInv
<1>2. /\ UNCHANGED <<roots, head, tail, next, heap>> /\ Top \in Handlers
      /\ stack # <<>>
      /\ IF next[Top] # Null THEN stack' = Append(Callers, next[Top])
                             ELSE stack' = Callers
  BY ReturnFacts DEF Return
<1>3. Lists = L
  BY <1>1, ListsAreListed DEF EmitterInv
<1>4. \A h : h \in Abstract!Successors(Top) <=>
          \E s \in Symbols : \E i \in 1 .. Len(L[s]) - 1 : L[s][i] = Top /\ h = L[s][i + 1]
  BY <1>3 DEF Abstract!Successors
<1>5. \A s \in Symbols : \A i \in 1 .. Len(L[s]) - 1 :
          L[s][i] = Top => next[Top] = L[s][i + 1] /\ L[s][i + 1] # Null
  <2> TAKE s \in Symbols
  <2> TAKE i \in 1 .. Len(L[s]) - 1
  <2>1. i \in 1 .. Len(L[s]) /\ i # Len(L[s]) /\ i + 1 \in 1 .. Len(L[s])
    BY <1>1, ListedFacts
  <2> QED
    BY <1>1, <2>1, ListedFacts DEF Listing, Chained
<1>6. next[Top] # Null => next[Top] \in Abstract!Successors(Top)
  BY <1>1, <1>2, <1>4, SuccessorIsListed
<1>7. next[Top] = Null => Abstract!Successors(Top) = {}
  BY <1>4, <1>5
<1> HIDE DEF Abstract!Successors
<1>8. \/ \E h \in Abstract!Successors(stack[Len(stack)]) :
            stack' = Append(SubSeq(stack, 1, Len(stack) - 1), h)
      \/ /\ Abstract!Successors(stack[Len(stack)]) = {}
         /\ stack' = SubSeq(stack, 1, Len(stack) - 1)
  BY <1>2, <1>6, <1>7 DEF Top, Callers
<1> QED
  BY <1>2, <1>8, ListsStay DEF Abstract!Done

\* The pointers, the guards and the heap implement what the users of an
\* emitter see: a sequence of handlers per symbol, which emit() walks while
\* they change it (emitter.h:92-243, emitter.cc:11-103).
THEOREM EmitterRefinesLists == Spec => AbstractSpec
<1>1. Init => Abstract!Init
  BY AbstractInit
<1>2. EmitterInv /\ EmitterInv' /\ [Next]_vars => [Abstract!Next]_(Abstract!vars)
  <2> SUFFICES ASSUME EmitterInv, EmitterInv', [Next]_vars
               PROVE  [Abstract!Next]_(Abstract!vars)
    OBVIOUS
  <2>1. ASSUME NEW s \in Symbols, On(s) PROVE Abstract!Next
    BY <2>1, AbstractOn DEF Abstract!Next
  <2>2. ASSUME NEW s \in Symbols, NEW h \in Handlers, Off(s, h) PROVE Abstract!Next
    BY <2>2, AbstractOff DEF Abstract!Next
  <2>3. ASSUME NEW S \in SUBSET Symbols, Clear(S) PROVE Abstract!Next
    BY <2>3, AbstractClear DEF Abstract!Next
  <2>4. ASSUME NEW s \in Symbols, Emit(s) PROVE Abstract!Next
    BY <2>4, AbstractEmit DEF Abstract!Next
  <2>5. CASE Return
    BY <2>5, AbstractReturn DEF Abstract!Next
  <2>6. CASE UNCHANGED vars
    <3>1. UNCHANGED <<roots, head, tail, next, heap>> /\ stack' = stack
      BY <2>6 DEF vars
    <3> QED
      BY <3>1, ListsStay DEF Abstract!vars
  <2>7. roots \in SUBSET Symbols
    BY DEF EmitterInv, TypeOK
  <2> QED
    BY <2>1, <2>2, <2>3, <2>4, <2>5, <2>6, <2>7
       DEF Next, RemoveAllListenersOf, RemoveAllListeners
<1> QED
  BY <1>1, <1>2, EmitterInvariant, PTL DEF Spec, AbstractSpec, Abstract!Spec

=============================================================================
