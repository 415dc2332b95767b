---------------------------- MODULE Data_proofs ----------------------------
(* Theorems about the messages of HTTP and the encodings and digests.        *)
(* HttpOutgoing, for messages of any length: what is on the wire, and what a *)
(* peer reads from it.  They assume ~BareEnd: with it the terminating chunk  *)
(* can be written without a head.                                            *)
(* HttpIncoming, for any pieces and any number of messages: what the program *)
(* reads is what the peer sent.                                              *)
(* Encodings, for any bytes at any address: what the functions return.       *)
EXTENDS
    HttpOutgoing, HttpIncoming, Encodings,
    FiniteSetTheorems, SequenceTheorems, NaturalsInduction, WellFoundedInduction, TLAPS

\* What can follow the head
BodyToken == [t : {"size", "data"}, n : Sizes] \union [t : {"crlf", "last"}]

Terminator == <<[t |-> "last"]>>

-----------------------------------------------------------------------------
(* The framing of a sequence of chunks *)

LEMMA ChunkIndex ==
    /\ \A n \in Nat : \A k \in 1 .. 3 * n : (k + 2) \div 3 \in 1 .. n
    /\ \A n, k \in Nat : k - 3 * n > 0 =>
          /\ (k - 3 * n + 2) \div 3 = (k + 2) \div 3 - n
          /\ (k - 3 * n) % 3 = k % 3
  OBVIOUS

LEMMA PlainSeq ==
    ASSUME NEW s \in Seq(Sizes)
    PROVE  /\ Plain(s) \in Seq(BodyToken)
           /\ Len(Plain(s)) = Len(s)
           /\ \A i \in 1 .. Len(s) : Plain(s)[i] = [t |-> "data", n |-> s[i]]
  BY DEF Plain, BodyToken

LEMMA ChunksSeq ==
    ASSUME NEW s \in Seq(Sizes)
    PROVE  /\ Chunks(s) \in Seq(BodyToken)
           /\ Len(Chunks(s)) = 3 * Len(s)
           /\ \A k \in 1 .. 3 * Len(s) :
                 Chunks(s)[k] =
                     IF k % 3 = 1 THEN [t |-> "size", n |-> s[(k + 2) \div 3]]
                     ELSE IF k % 3 = 2 THEN [t |-> "data", n |-> s[(k + 2) \div 3]]
                     ELSE [t |-> "crlf"]
<1>1. Len(s) \in Nat /\ \A i \in 1 .. Len(s) : s[i] \in Sizes
  OBVIOUS
<1>2. \A k \in 1 .. 3 * Len(s) : s[(k + 2) \div 3] \in Sizes
  BY <1>1, ChunkIndex
<1>3. \A n \in Sizes : /\ [t |-> "size", n |-> n] \in BodyToken
                       /\ [t |-> "data", n |-> n] \in BodyToken
  BY DEF BodyToken
<1>4. [t |-> "crlf"] \in BodyToken
  BY DEF BodyToken
<1>5. \A k \in 1 .. 3 * Len(s) :
          /\ k \in DOMAIN Chunks(s)
          /\ Chunks(s)[k] =
                 IF k % 3 = 1 THEN [t |-> "size", n |-> s[(k + 2) \div 3]]
                 ELSE IF k % 3 = 2 THEN [t |-> "data", n |-> s[(k + 2) \div 3]]
                 ELSE [t |-> "crlf"]
  BY DEF Chunks
<1>6. \A k \in 1 .. 3 * Len(s) : Chunks(s)[k] \in BodyToken
  BY <1>2, <1>3, <1>4, <1>5
<1>7. Chunks(s) \in [1 .. 3 * Len(s) -> BodyToken]
  BY <1>6 DEF Chunks
<1>8. 3 * Len(s) \in Nat
  BY <1>1
<1>9. Chunks(s) \in Seq(BodyToken) /\ Len(Chunks(s)) = 3 * Len(s)
  BY <1>7, <1>8
<1> QED
  BY <1>5, <1>9

LEMMA TokenConcat ==
    /\ \A a, b, c \in Seq(BodyToken) : (a \o b) \o c = a \o (b \o c)
    /\ \A a, b \in Seq(BodyToken) : a \o b \in Seq(BodyToken)
    /\ \A a \in Seq(BodyToken) : a \o <<>> = a /\ <<>> \o a = a
  OBVIOUS

LEMMA TerminatorSeq == Terminator \in Seq(BodyToken) /\ <<>> \in Seq(BodyToken)
<1>1. [t |-> "last"] \in BodyToken
  BY DEF BodyToken
<1> QED
  BY <1>1 DEF Terminator

LEMMA PlainConcat ==
    ASSUME NEW s \in Seq(Sizes), NEW t \in Seq(Sizes)
    PROVE  Plain(s \o t) = Plain(s) \o Plain(t)
<1>1. s \o t \in Seq(Sizes) /\ Len(s \o t) = Len(s) + Len(t)
  BY ConcatProperties
<1>2. /\ Plain(s \o t) \in Seq(BodyToken)
      /\ Plain(s) \in Seq(BodyToken) /\ Len(Plain(s)) = Len(s)
      /\ Plain(t) \in Seq(BodyToken) /\ Len(Plain(t)) = Len(t)
      /\ Len(Plain(s \o t)) = Len(s) + Len(t)
  BY <1>1, PlainSeq
<1>4. /\ Plain(s) \o Plain(t) \in Seq(BodyToken)
      /\ Len(Plain(s) \o Plain(t)) = Len(Plain(s)) + Len(Plain(t))
  BY <1>2, ConcatProperties, Zenon
<1>3. ASSUME NEW i \in 1 .. Len(s) + Len(t)
      PROVE  Plain(s \o t)[i] = (Plain(s) \o Plain(t))[i]
  <2>1. Plain(s \o t)[i] = [t |-> "data", n |-> (s \o t)[i]]
    BY <1>1, PlainSeq
  <2>2. (Plain(s) \o Plain(t))[i] =
            IF i <= Len(s) THEN Plain(s)[i] ELSE Plain(t)[i - Len(s)]
    BY PlainSeq, ConcatProperties
  <2>3. (s \o t)[i] = IF i <= Len(s) THEN s[i] ELSE t[i - Len(s)]
    BY ConcatProperties
  <2>4. Len(s) \in Nat /\ Len(t) \in Nat
    OBVIOUS
  <2>5. CASE i <= Len(s)
    BY <2>1, <2>2, <2>3, <2>4, <2>5, PlainSeq
  <2>6. CASE ~(i <= Len(s))
    <3>1. i - Len(s) \in 1 .. Len(t)
      BY <2>4, <2>6
    <3> QED
      BY <2>1, <2>2, <2>3, <2>6, <3>1, PlainSeq
  <2> QED
    BY <2>5, <2>6
<1> QED
  BY <1>2, <1>3, <1>4, SeqEqual

LEMMA ChunksConcat ==
    ASSUME NEW s \in Seq(Sizes), NEW t \in Seq(Sizes)
    PROVE  Chunks(s \o t) = Chunks(s) \o Chunks(t)
<1>1. /\ s \o t \in Seq(Sizes) /\ Len(s \o t) = Len(s) + Len(t)
      /\ Len(s) \in Nat /\ Len(t) \in Nat
  BY ConcatProperties
<1>2. /\ Chunks(s \o t) \in Seq(BodyToken)
      /\ Chunks(s) \in Seq(BodyToken) /\ Len(Chunks(s)) = 3 * Len(s)
      /\ Chunks(t) \in Seq(BodyToken) /\ Len(Chunks(t)) = 3 * Len(t)
      /\ Len(Chunks(s \o t)) = 3 * (Len(s) + Len(t))
  BY <1>1, ChunksSeq
<1>3. /\ Chunks(s) \o Chunks(t) \in Seq(BodyToken)
      /\ Len(Chunks(s) \o Chunks(t)) = Len(Chunks(s)) + Len(Chunks(t))
  BY <1>2, ConcatProperties, Zenon
<1>4. ASSUME NEW k \in 1 .. 3 * (Len(s) + Len(t))
      PROVE  Chunks(s \o t)[k] = (Chunks(s) \o Chunks(t))[k]
  <2>1. (k + 2) \div 3 \in 1 .. Len(s) + Len(t)
    BY <1>1, ChunkIndex
  <2>2. (Chunks(s) \o Chunks(t))[k] =
            IF k <= 3 * Len(s) THEN Chunks(s)[k] ELSE Chunks(t)[k - 3 * Len(s)]
    BY <1>1, <1>2, ConcatProperties
  <2>3. (s \o t)[(k + 2) \div 3] =
            IF (k + 2) \div 3 <= Len(s) THEN s[(k + 2) \div 3]
            ELSE t[(k + 2) \div 3 - Len(s)]
    BY <2>1, ConcatProperties
  <2>4. Chunks(s \o t)[k] =
            IF k % 3 = 1 THEN [t |-> "size", n |-> (s \o t)[(k + 2) \div 3]]
            ELSE IF k % 3 = 2 THEN [t |-> "data", n |-> (s \o t)[(k + 2) \div 3]]
            ELSE [t |-> "crlf"]
    BY <1>1, ChunksSeq
  <2>5. CASE k <= 3 * Len(s)
    <3>1. k \in 1 .. 3 * Len(s) /\ (k + 2) \div 3 \in 1 .. Len(s)
      BY <1>1, <2>5, ChunkIndex
    <3>2. (s \o t)[(k + 2) \div 3] = s[(k + 2) \div 3]
      BY <2>3, <3>1
    <3> QED
      BY <2>2, <2>4, <2>5, <3>1, <3>2, ChunksSeq
  <2>6. CASE ~(k <= 3 * Len(s))
    <3> DEFINE j == k - 3 * Len(s)
    <3>1. /\ j \in 1 .. 3 * Len(t)
          /\ (j + 2) \div 3 = (k + 2) \div 3 - Len(s)
          /\ j % 3 = k % 3
      BY <1>1, <2>6, ChunkIndex
    <3>2. (j + 2) \div 3 \in 1 .. Len(t)
      BY <1>1, <3>1, ChunkIndex
    <3>3. (s \o t)[(k + 2) \div 3] = t[(j + 2) \div 3]
      BY <1>1, <2>1, <2>3, <3>1, <3>2
    <3>4. Chunks(t)[j] =
              IF j % 3 = 1 THEN [t |-> "size", n |-> t[(j + 2) \div 3]]
              ELSE IF j % 3 = 2 THEN [t |-> "data", n |-> t[(j + 2) \div 3]]
              ELSE [t |-> "crlf"]
      BY <3>1, ChunksSeq
    <3>5. (Chunks(s) \o Chunks(t))[k] = Chunks(t)[j]
      BY <2>2, <2>6
    <3> HIDE DEF j
    <3> QED
      BY <2>4, <3>1, <3>3, <3>4, <3>5
  <2> QED
    BY <2>5, <2>6
<1>5. Len(Chunks(s) \o Chunks(t)) = Len(Chunks(s \o t))
  BY <1>1, <1>2, <1>3
<1> QED
  BY <1>1, <1>2, <1>3, <1>4, <1>5, SeqEqual

\* The terminating chunk, for a call that ends the message
Ending(end) == IF end THEN Terminator ELSE <<>>

LEMMA EndingSeq == \A end \in BOOLEAN : Ending(end) \in Seq(BodyToken)
  BY TerminatorSeq DEF Ending

\* What a call writes behind the head
Frame(chunked, s, last) == IF chunked THEN Chunks(s) \o last ELSE Plain(s)

LEMMA FrameSeq ==
    ASSUME NEW s \in Seq(Sizes), NEW l \in Seq(BodyToken), NEW c
    PROVE  Frame(c, s, l) \in Seq(BodyToken)
<1>1. Chunks(s) \in Seq(BodyToken) /\ Plain(s) \in Seq(BodyToken)
  BY ChunksSeq, PlainSeq
<1> QED
  BY <1>1, TokenConcat DEF Frame

\* What is framed by several calls is what one call would have framed.
LEMMA FrameConcat ==
    ASSUME NEW s \in Seq(Sizes), NEW t \in Seq(Sizes), NEW l \in Seq(BodyToken), NEW c
    PROVE  Frame(c, s, <<>>) \o Frame(c, t, l) = Frame(c, s \o t, l)
<1>1. /\ Chunks(s) \in Seq(BodyToken) /\ Chunks(t) \in Seq(BodyToken)
      /\ Chunks(s \o t) = Chunks(s) \o Chunks(t)
      /\ Plain(s \o t) = Plain(s) \o Plain(t)
  BY ChunksSeq, ChunksConcat, PlainConcat
<1>2. Chunks(s) \o <<>> = Chunks(s)
  BY <1>1, TokenConcat
<1>3. (Chunks(s) \o Chunks(t)) \o l = Chunks(s) \o (Chunks(t) \o l)
  BY SMTT(60), <1>1, TokenConcat
<1>4. CASE c
  BY <1>1, <1>2, <1>3, <1>4 DEF Frame
<1>5. CASE ~c
  BY <1>1, <1>5 DEF Frame
<1> QED
  BY <1>4, <1>5

-----------------------------------------------------------------------------
(* A head in front of something *)

LEMMA HeadInFront ==
    ASSUME NEW h, NEW c \in Seq(BodyToken)
    PROVE  /\ <<h>> \o c # <<>>
           /\ (<<h>> \o c)[1] = h
           /\ DOMAIN (<<h>> \o c) = 1 .. 1 + Len(c)
           /\ \A i \in 2 .. 1 + Len(c) : (<<h>> \o c)[i] \in BodyToken
           /\ \A d \in Seq(BodyToken) : (<<h>> \o c) \o d = <<h>> \o (c \o d)
<1> DEFINE S == {h} \union BodyToken
<1>1. <<h>> \in Seq(S) /\ c \in Seq(S) /\ Seq(BodyToken) \subseteq Seq(S)
  OBVIOUS
<1>2. Len(<<h>>) = 1 /\ <<h>>[1] = h /\ Len(c) \in Nat
  OBVIOUS
<1>3. /\ <<h>> \o c \in Seq(S)
      /\ Len(<<h>> \o c) = 1 + Len(c)
      /\ \A i \in 1 .. 1 + Len(c) :
            (<<h>> \o c)[i] = IF i <= 1 THEN <<h>>[i] ELSE c[i - 1]
  <2> HIDE DEF S
  <2> QED
    BY <1>1, <1>2, ConcatProperties
<1>4. \A d \in Seq(BodyToken) : (<<h>> \o c) \o d = <<h>> \o (c \o d)
  <2> HIDE DEF S
  <2> QED
    BY <1>1, ConcatAssociative
<1>5. (<<h>> \o c)[1] = h
  BY <1>2, <1>3
<1>6. \A i \in 2 .. 1 + Len(c) : (<<h>> \o c)[i] \in BodyToken
  <2> TAKE i \in 2 .. 1 + Len(c)
  <2>1. i - 1 \in 1 .. Len(c) /\ i \in 1 .. 1 + Len(c) /\ ~(i <= 1)
    BY <1>2
  <2>2. c[i - 1] \in BodyToken
    BY <2>1
  <2> QED
    BY <1>3, <2>1, <2>2
<1>7. DOMAIN (<<h>> \o c) = 1 .. 1 + Len(c) /\ <<h>> \o c # <<>>
  <2> HIDE DEF S
  <2>1. DOMAIN (<<h>> \o c) = 1 .. 1 + Len(c)
    BY <1>3, LenProperties
  <2>2. Len(<<h>> \o c) # 0
    BY <1>2, <1>3
  <2> QED
    BY <2>1, <2>2, EmptySeq
<1> QED
  BY <1>4, <1>5, <1>6, <1>7

-----------------------------------------------------------------------------
(* The invariant *)

\* The wire holds nothing, or a head and what cannot be one.
Headed ==
    wire = <<>> \/ \E h, c : /\ h.t = "head" /\ c \in Seq(BodyToken)
                             /\ wire = <<h>> \o c

OutgoingInv ==
    body \in Seq(Sizes) /\ Headed /\ HeadersSentExact /\ WireExact

LEMMA FramedIsFrame ==
    /\ Framed = Frame(isChunked, body, Ending(~writable))
    /\ Framed' = Frame(isChunked', body', Ending(~writable'))
  BY DEF Framed, Frame, Ending, Terminator

LEMMA HeadedIsHeadFirst == Headed => HeadFirst
<1>1. ASSUME NEW h, NEW c \in Seq(BodyToken), h.t = "head", wire = <<h>> \o c
      PROVE  HeadFirst
  <2>1. /\ wire[1] = h /\ DOMAIN wire = 1 .. 1 + Len(c)
        /\ \A i \in 2 .. 1 + Len(c) : wire[i] \in BodyToken
    BY <1>1, HeadInFront
  <2>2. \A token \in BodyToken : token.t # "head"
    BY DEF BodyToken
  <2>3. Len(c) \in Nat
    OBVIOUS
  <2> QED
    BY <1>1, <2>1, <2>2, <2>3 DEF HeadFirst
<1>2. CASE wire = <<>>
  BY <1>2 DEF HeadFirst
<1> QED
  BY <1>1, <1>2 DEF Headed

\* What http_write() hands to the socket, by whether the head was written
LEMMA CompiledBehind ==
    ASSUME NEW bufs \in Seq(Sizes), NEW end \in BOOLEAN, headersSent
    PROVE  /\ Compiled(bufs, end) = Frame(isChunked, bufs, Ending(end))
           /\ Chunked(bufs, end) = isChunked
<1> DEFINE last == Ending(end)
<1>1. Chunked(bufs, end) = isChunked
  BY DEF Chunked
<1>2. last \in Seq(BodyToken)
  BY EndingSeq
<1>3. /\ <<>> \o Plain(bufs) = Plain(bufs)
      /\ <<>> \o Chunks(bufs) = Chunks(bufs)
      /\ <<>> \o last = last
  <2> HIDE DEF last
  <2> QED
    BY <1>2, PlainSeq, ChunksSeq, TokenConcat
<1>4. ASSUME bufs = <<>> PROVE Chunks(bufs) = <<>>
  <2>1. Len(bufs) = 0
    BY <1>4
  <2>2. Chunks(bufs) \in Seq(BodyToken) /\ Len(Chunks(bufs)) = 3 * Len(bufs)
    BY ChunksSeq
  <2>3. Len(Chunks(bufs)) = 0
    BY <2>1, <2>2
  <2> QED
    BY <2>2, <2>3, EmptySeq
<1>5. CASE ~isChunked
  BY <1>1, <1>3, <1>5 DEF Compiled, Frame
<1>6. CASE isChunked /\ bufs # <<>>
  BY <1>1, <1>3, <1>6 DEF Compiled, Frame, Ending, Terminator
<1>7. CASE isChunked /\ bufs = <<>>
  <2>1. Compiled(bufs, end) = last
    BY <1>1, <1>7 DEF Compiled, Ending, Terminator
  <2>2. Frame(isChunked, bufs, Ending(end)) = <<>> \o last
    BY <1>4, <1>7 DEF Frame
  <2> QED
    BY <1>1, <1>3, <2>1, <2>2
<1> QED
  BY <1>1, <1>5, <1>6, <1>7

LEMMA CompiledFirst ==
    ASSUME NEW bufs \in Seq(Sizes), NEW end \in BOOLEAN, ~headersSent,
           bufs # <<>> \/ ~Chunked(bufs, end)
    PROVE  Compiled(bufs, end) =
               <<Headers(bufs, end)>> \o Frame(Chunked(bufs, end), bufs, Ending(end))
<1> DEFINE h == Headers(bufs, end)
           chunked == Chunked(bufs, end)
           last == Ending(end)
<1>1. last \in Seq(BodyToken)
  BY EndingSeq
<1>2. CASE ~chunked
  BY <1>2 DEF Compiled, Frame
<1>3. CASE chunked /\ bufs # <<>>
  <2>1. Compiled(bufs, end) = (<<h>> \o Chunks(bufs)) \o last
    BY <1>3 DEF Compiled, Ending, Terminator
  <2>2. Frame(chunked, bufs, Ending(end)) = Chunks(bufs) \o last
    BY <1>3 DEF Frame
  <2> HIDE DEF h, chunked, last
  <2>3. (<<h>> \o Chunks(bufs)) \o last = <<h>> \o (Chunks(bufs) \o last)
    BY <1>1, ChunksSeq, HeadInFront
  <2> QED
    BY <2>1, <2>2, <2>3 DEF h, chunked
<1> QED
  BY <1>2, <1>3

LEMMA HeadersIsHead ==
    ASSUME NEW bufs, NEW end PROVE Headers(bufs, end).t = "head"
  BY DEF Headers

\* The step that write() and end() have in common
LEMMA WriteExact ==
    ASSUME OutgoingInv, writable, socket = "open",
           NEW bufs \in Seq(Sizes), NEW end \in BOOLEAN,
           bufs # <<>> \/ headersSent \/ ~Chunked(bufs, end),
           isChunked' = Chunked(bufs, end),
           wire' = wire \o Compiled(bufs, end),
           body' = body \o bufs,
           writable' = ~end
    PROVE  body' \in Seq(Sizes) /\ Headed' /\ wire' # <<>> /\ WireExact'
<1>1. body' \in Seq(Sizes)
  BY ConcatProperties DEF OutgoingInv
<1>2. \E h, c : /\ h.t = "head" /\ c \in Seq(BodyToken)
               /\ c = Frame(isChunked', body', Ending(end))
               /\ wire' = <<h>> \o c
  <2>1. CASE headersSent
    <3>1. wire # <<>> /\ wire = <<wire[1]>> \o Framed
      BY <2>1 DEF OutgoingInv, HeadersSentExact, WireExact
    <3>2. PICK h, c : h.t = "head" /\ c \in Seq(BodyToken) /\ wire = <<h>> \o c
      BY <3>1 DEF OutgoingInv, Headed
    <3>3. wire[1] = h
      BY <3>2, HeadInFront
    <3>4. Framed = Frame(isChunked, body, <<>>)
      BY FramedIsFrame DEF Ending
    <3>5. /\ Compiled(bufs, end) = Frame(isChunked, bufs, Ending(end))
          /\ isChunked' = isChunked
      BY <2>1, CompiledBehind
    <3>6. /\ Frame(isChunked, body, <<>>) \in Seq(BodyToken)
          /\ Frame(isChunked, bufs, Ending(end)) \in Seq(BodyToken)
          /\ Frame(isChunked, body', Ending(end)) \in Seq(BodyToken)
      BY <1>1, FrameSeq, EndingSeq, TerminatorSeq DEF OutgoingInv
    <3> DEFINE f == Frame(isChunked, body, <<>>)
               g == Frame(isChunked, bufs, Ending(end))
    <3>7. f \o g = Frame(isChunked, body \o bufs, Ending(end))
      BY EndingSeq, FrameConcat DEF OutgoingInv
    <3>8. wire' = (<<h>> \o f) \o g
      BY <3>1, <3>3, <3>4, <3>5
    <3>9. f \in Seq(BodyToken) /\ g \in Seq(BodyToken)
      BY <3>6
    <3> HIDE DEF f, g
    <3>11. (<<h>> \o f) \o g = <<h>> \o (f \o g)
      BY SMTT(60), <3>9, HeadInFront
    <3>10. wire' = <<h>> \o Frame(isChunked', body', Ending(end))
      BY <3>5, <3>7, <3>8, <3>11
    <3> QED
      BY <3>2, <3>5, <3>6, <3>10
  <2>2. CASE ~headersSent
    <3>1. wire = <<>> /\ body = <<>>
      BY <2>2 DEF OutgoingInv, HeadersSentExact, WireExact
    <3>2. body' = bufs
      BY <3>1, ConcatEmptySeq
    <3>3. Compiled(bufs, end) =
              <<Headers(bufs, end)>> \o Frame(isChunked', bufs, Ending(end))
      BY <2>2, CompiledFirst
    <3>4. Frame(isChunked', bufs, Ending(end)) \in Seq(BodyToken)
      BY FrameSeq, EndingSeq
    <3>5. wire' = <<Headers(bufs, end)>> \o Frame(isChunked', bufs, Ending(end))
      <4> DEFINE S == {Headers(bufs, end)} \union BodyToken
      <4>1. <<Headers(bufs, end)>> \o Frame(isChunked', bufs, Ending(end)) \in Seq(S)
        <5>1. /\ <<Headers(bufs, end)>> \in Seq(S)
              /\ Frame(isChunked', bufs, Ending(end)) \in Seq(S)
          BY <3>4
        <5> HIDE DEF S
        <5> QED
          BY <5>1, ConcatProperties
      <4> HIDE DEF S
      <4> QED
        BY <3>1, <3>3, <4>1, ConcatEmptySeq
    <3> QED
      BY <3>2, <3>4, <3>5, HeadersIsHead
  <2> QED
    BY <2>1, <2>2
<1>3. PICK h, c : /\ h.t = "head" /\ c \in Seq(BodyToken)
                  /\ c = Frame(isChunked', body', Ending(end))
                  /\ wire' = <<h>> \o c
  BY <1>2
<1>4. wire' # <<>> /\ wire'[1] = h
  BY <1>3, HeadInFront
<1>5. Headed'
  BY <1>3 DEF Headed
<1>6. Framed' = Frame(isChunked', body', Ending(end))
  BY FramedIsFrame
<1>7. WireExact'
  BY <1>3, <1>4, <1>6 DEF WireExact
<1> QED
  BY <1>1, <1>4, <1>5, <1>7

-----------------------------------------------------------------------------

LEMMA WriteKeeps ==
    ASSUME OutgoingInv, NEW bufs \in Seq(Sizes), Write(bufs) PROVE OutgoingInv'
<1>1. CASE Writes(bufs, FALSE)
  <2>1. bufs # <<>> \/ headersSent \/ ~Chunked(bufs, FALSE)
    BY <1>1 DEF Writes
  <2>2. body' \in Seq(Sizes) /\ Headed' /\ wire' # <<>> /\ WireExact'
    BY <1>1, <2>1, WriteExact DEF Write, Compile
  <2>3. headersSent'
    <3>1. CASE headersSent
      BY <3>1, Zenon DEF Write, Compile
    <3>2. CASE ~headersSent
      BY <1>1, <3>2, Zenon DEF Write, Compile
    <3> QED
      BY <3>1, <3>2
  <2> QED
    BY <2>2, <2>3 DEF OutgoingInv, HeadersSentExact
<1>2. CASE ~Writes(bufs, FALSE)
  <2>1. bufs = <<>> /\ (headersSent \/ Chunked(bufs, FALSE))
    BY <1>2 DEF Writes
  <2>2. wire' = wire /\ body' = body
    BY <1>2, <2>1, ConcatEmptySeq DEF Write, OutgoingInv
  <2>3. UNCHANGED <<headersSent, writable, socket>>
    BY <1>2 DEF Write, Compile
  <2>4. HeadersSentExact' /\ Headed'
    BY <2>2, <2>3 DEF OutgoingInv, HeadersSentExact, Headed
  <2>5. WireExact'
    <3>1. CASE headersSent
      <4>1. isChunked' = isChunked
        BY <3>1, CompiledBehind DEF Write, Compile
      <4> QED
        BY <2>2, <2>3, <4>1 DEF OutgoingInv, WireExact, Framed
    <3>2. CASE ~headersSent
      <4>1. wire = <<>>
        BY <3>2 DEF OutgoingInv, HeadersSentExact, Write
      <4> QED
        BY <2>2, <2>3, <4>1 DEF OutgoingInv, WireExact
    <3> QED
      BY <3>1, <3>2
  <2> QED
    BY <2>2, <2>4, <2>5 DEF OutgoingInv
<1> QED
  BY <1>1, <1>2

LEMMA EndKeeps ==
    ASSUME OutgoingInv, ~BareEnd, NEW bufs \in Seq(Sizes), End(bufs)
    PROVE  OutgoingInv'
<1>1. body' \in Seq(Sizes) /\ Headed' /\ wire' # <<>> /\ WireExact'
  BY WriteExact DEF End, Finish
<1>2. HeadersSentExact'
  BY DEF End, Finish, HeadersSentExact
<1> QED
  BY <1>1, <1>2 DEF OutgoingInv

\* Once the socket does not take anything, only the body can grow.
LEMMA NowhereKeeps ==
    ASSUME OutgoingInv, NEW bufs \in Seq(Sizes),
           \/ \E end \in BOOLEAN : Throw(bufs, end)
           \/ WriteNowhere(bufs)
           \/ EndNowhere(bufs)
    PROVE  OutgoingInv'
<1>1. body' \in Seq(Sizes)
  BY ConcatProperties DEF OutgoingInv, Throw, WriteNowhere, EndNowhere
<1>2. wire' = wire /\ socket' # "open"
  BY DEF Throw, WriteNowhere, EndNowhere
<1> QED
  BY <1>1, <1>2 DEF OutgoingInv, Headed, HeadersSentExact, WireExact

LEMMA UnchangedKeeps ==
    ASSUME OutgoingInv,
           UNCHANGED <<headersSent, isChunked, writable, socket, wire, body>>
    PROVE  OutgoingInv'
<1>1. Headed' /\ HeadersSentExact'
  BY DEF OutgoingInv, Headed, HeadersSentExact
<1>2. Framed' = Framed
  BY DEF Framed, Chunks, Plain
<1>3. WireExact'
  BY <1>2 DEF OutgoingInv, WireExact
<1> QED
  BY <1>1, <1>3 DEF OutgoingInv

LEMMA NextOutgoing ==
    ASSUME ~BareEnd, OutgoingInv, [OutgoingNext]_outgoingVars PROVE OutgoingInv'
<1>1. ASSUME NEW bufs \in BoundedSeq(Sizes, MaxBufs), Call(bufs)
      PROVE  OutgoingInv'
  <2>1. bufs \in Seq(Sizes)
    BY DEF BoundedSeq, SeqOf
  <2> QED
    BY <1>1, <2>1, WriteKeeps, EndKeeps, NowhereKeeps DEF Call
<1>2. CASE SetContentLength \/ \E e \in Encodings : SetEncoding(e)
  <2>1. UNCHANGED <<headersSent, isChunked, writable, socket, wire, body>>
    BY <1>2 DEF SetContentLength, SetEncoding
  <2> QED
    BY <2>1, UnchangedKeeps
<1>3. CASE SocketEnds \/ Destroy
  <2>1. wire' = wire /\ body' = body /\ socket' # "open"
    BY <1>3 DEF SocketEnds, Destroy
  <2> QED
    BY <2>1 DEF OutgoingInv, Headed, HeadersSentExact, WireExact
<1>4. CASE UNCHANGED outgoingVars
  BY <1>4, UnchangedKeeps DEF outgoingVars
<1> QED
  BY <1>1, <1>2, <1>3, <1>4 DEF OutgoingNext

LEMMA InitOutgoing == OutgoingInit => OutgoingInv
  BY EmptySeq DEF OutgoingInit, OutgoingInv, Headed, HeadersSentExact, WireExact

LEMMA InvOutgoing == ASSUME ~BareEnd PROVE OutgoingSpec => []OutgoingInv
  BY InitOutgoing, NextOutgoing, PTL DEF OutgoingSpec

\* The wire holds, behind the head, exactly what one call with the whole body
\* would have written, for any number of chunks in any number of calls.
THEOREM WireIsExact == ASSUME ~BareEnd PROVE OutgoingSpec => []WireExact
<1>1. OutgoingInv => WireExact
  BY DEF OutgoingInv
<1> QED
  BY InvOutgoing, <1>1, PTL

\* There is one head, and it comes first.
THEOREM HeadIsFirst == ASSUME ~BareEnd PROVE OutgoingSpec => []HeadFirst
<1>1. OutgoingInv => HeadFirst
  BY HeadedIsHeadFirst DEF OutgoingInv
<1> QED
  BY InvOutgoing, <1>1, PTL

\* headers_sent() is true exactly when the head is on the wire.
THEOREM HeadersSentIsExact == ASSUME ~BareEnd PROVE OutgoingSpec => []HeadersSentExact
<1>1. OutgoingInv => HeadersSentExact
  BY DEF OutgoingInv
<1> QED
  BY InvOutgoing, <1>1, PTL

\* No step changes the framing of a message whose head is written.
THEOREM FramingIsFixed == OutgoingSpec => FramingFixed
<1>1. ASSUME [OutgoingNext]_outgoingVars
      PROVE  [headersSent /\ headersSent' => isChunked' = isChunked]_outgoingVars
  <2>1. ASSUME NEW bufs, Call(bufs), headersSent PROVE isChunked' = isChunked
    BY <2>1 DEF Call, Write, End, Throw, WriteNowhere, EndNowhere, Compile, Chunked
  <2>2. CASE SetContentLength \/ (\E e \in Encodings : SetEncoding(e))
             \/ SocketEnds \/ Destroy
    BY <2>2 DEF SetContentLength, SetEncoding, SocketEnds, Destroy
  <2> QED
    BY <1>1, <2>1, <2>2 DEF OutgoingNext
<1> QED
  BY <1>1, PTL DEF OutgoingSpec, FramingFixed

\* The message on the wire is well framed, for any number of calls and chunks.
THEOREM OutgoingIsSafe == ASSUME ~BareEnd PROVE OutgoingSpec => OutgoingSafe
  BY WireIsExact, HeadIsFirst, HeadersSentIsExact, FramingIsFixed, PTL
     DEF OutgoingSafe

-----------------------------------------------------------------------------
(* What the folds of Receiver and Total do, by induction over the indices *)

\* A set of numbers has a least element.
LEMMA LeastOf ==
    ASSUME NEW T \in SUBSET Nat, T # {}
    PROVE  \E x \in T : \A y \in T : x <= y
<1> DEFINE R == {ss \in Nat \X Nat : ss[1] < ss[2]}
<1>1. IsWellFoundedOn(R, Nat)
  BY NatLessThanWellFounded DEF OpToRel
<1>2. \A x, y \in Nat : <<y, x>> \notin R => x <= y
  OBVIOUS
<1> HIDE DEF R
<1>3. PICK x \in T : \A y \in T : <<y, x>> \notin R
  BY <1>1, WFMin
<1> QED
  BY <1>2, <1>3

\* Induction up to n
LEMMA Upward ==
    ASSUME NEW n \in Nat, NEW T, 0 \in T,
           \A i \in 0 .. n - 1 : i \in T => i + 1 \in T
    PROVE  0 .. n \subseteq T
<1> SUFFICES ASSUME (0 .. n) \ T # {} PROVE FALSE
  OBVIOUS
<1> DEFINE U == (0 .. n) \ T
<1>1. U \in SUBSET Nat /\ U # {}
  OBVIOUS
<1> HIDE DEF U
<1>2. PICK x \in U : \A y \in U : x <= y
  BY <1>1, LeastOf
<1> USE DEF U
<1>3. x # 0 /\ x - 1 \in 0 .. n - 1
  BY <1>2
<1>4. x - 1 \in T
  BY <1>2, <1>3
<1> QED
  BY <1>2, <1>3, <1>4

\* One step of each fold of the models
Step(what, r, x) ==
    CASE what = "sum" -> r + x
      [] what = "read" -> Expect(r, x)
      [] what = "add" -> AddTo(r, LowerCase(x.name), x.value)
      [] what = "join" -> r \o x
      [] what = "sha" -> PushImpl(r, x)
      [] what = "bit" -> ShiftBit(r)
      [] what = "xor" -> Xor(r, x)
      [] what = "crc" -> PushByte(r, x)
      [] what = "words" -> PushWords(r, x)
      [] what = "times" -> r * x
      [] what = "uri" -> UriStep(r, x)
      [] what = "valid" -> IF x < Pad THEN Append(r, x) ELSE r
      [] what = "decode" -> DecodeGroup(r, x)

LEMMA StepSums == \A r, x : Step("sum", r, x) = r + x
  BY DEF Step
LEMMA StepReads == \A r, x : Step("read", r, x) = Expect(r, x)
  BY DEF Step
LEMMA StepAdds == \A r, x : Step("add", r, x) = AddTo(r, LowerCase(x.name), x.value)
  BY DEF Step
LEMMA StepJoins == \A r, x : Step("join", r, x) = r \o x
  BY DEF Step
LEMMA StepPads == \A r, x : Step("sha", r, x) = PushImpl(r, x)
  BY DEF Step
LEMMA StepShifts == \A r, x : Step("bit", r, x) = ShiftBit(r)
  BY DEF Step
LEMMA StepXors == \A r, x : Step("xor", r, x) = Xor(r, x)
  BY DEF Step
LEMMA StepBytes == \A r, x : Step("crc", r, x) = PushByte(r, x)
  BY DEF Step
LEMMA StepWords == \A r, x : Step("words", r, x) = PushWords(r, x)
  BY DEF Step
LEMMA StepMultiplies == \A r, x : Step("times", r, x) = r * x
  BY DEF Step
LEMMA StepUri == \A r, x : Step("uri", r, x) = UriStep(r, x)
  BY DEF Step
LEMMA StepValid == \A r, x : Step("valid", r, x) = IF x < Pad THEN Append(r, x) ELSE r
  BY DEF Step
LEMMA StepDecodes == \A r, x : Step("decode", r, x) = DecodeGroup(r, x)
  BY DEF Step

\* f folds the elements of s, from z on, over every set of indices in D.
Folds(what, f, z, s, D) ==
    f = [T \in SUBSET D |->
            IF T = {} THEN z
            ELSE LET x == Max(T) IN Step(what, f[T \ {x}], s[x])]

LEMMA LastIsMax ==
    ASSUME NEW k \in Nat, NEW T \in SUBSET (1 .. k + 1), k + 1 \in T
    PROVE  Max(T) = k + 1
<1>1. \A y \in T : k + 1 >= y
  OBVIOUS
<1>2. \A x \in T : (\A y \in T : x >= y) => x = k + 1
  <2> TAKE x \in T
  <2> HAVE \A y \in T : x >= y
  <2>1. x >= k + 1 /\ x \in 1 .. k + 1
    OBVIOUS
  <2> QED
    BY <2>1
<1> QED
  BY <1>1, <1>2 DEF Max

LEMMA FoldsOn ==
    ASSUME NEW what, NEW z, NEW s, NEW k \in Nat, NEW f, Folds(what, f, z, s, 1 .. k)
    PROVE  \E g : Folds(what, g, z, s, 1 .. k + 1)
<1> DEFINE g == [T \in SUBSET (1 .. k + 1) |->
                    IF k + 1 \in T THEN Step(what, f[T \ {k + 1}], s[k + 1])
                    ELSE f[T]]
<1>1. \A T \in SUBSET (1 .. k + 1) : k + 1 \notin T => T \in SUBSET (1 .. k)
  OBVIOUS
<1>2. \A T \in SUBSET (1 .. k) : T \in SUBSET (1 .. k + 1) /\ k + 1 \notin T
  OBVIOUS
<1>3. \A T \in SUBSET (1 .. k) :
          f[T] = IF T = {} THEN z ELSE Step(what, f[T \ {Max(T)}], s[Max(T)])
  BY DEF Folds
<1>4. \A T \in SUBSET (1 .. k) : g[T] = f[T]
  BY <1>2
<1>5. \A T \in SUBSET (1 .. k + 1) :
          k + 1 \in T => g[T] = Step(what, f[T \ {k + 1}], s[k + 1])
  OBVIOUS
<1>6. g = [T \in SUBSET (1 .. k + 1) |-> g[T]]
  OBVIOUS
<1> HIDE DEF g
<1>7. \A T \in SUBSET (1 .. k + 1) :
          g[T] = IF T = {} THEN z ELSE Step(what, g[T \ {Max(T)}], s[Max(T)])
  <2> TAKE T \in SUBSET (1 .. k + 1)
  <2>1. CASE k + 1 \in T
    <3>1. Max(T) = k + 1 /\ T # {}
      BY <2>1, LastIsMax
    <3>2. T \ {k + 1} \in SUBSET (1 .. k)
      BY <1>1
    <3> QED
      BY <1>4, <1>5, <2>1, <3>1, <3>2
  <2>2. CASE k + 1 \notin T
    <3>1. T \in SUBSET (1 .. k) /\ T \ {Max(T)} \in SUBSET (1 .. k)
      BY <1>1, <2>2
    <3> QED
      BY <1>3, <1>4, <3>1
  <2> QED
    BY <2>1, <2>2
<1>8. Folds(what, g, z, s, 1 .. k + 1)
  BY <1>6, <1>7, Zenon DEF Folds
<1> QED
  BY <1>8

LEMMA FoldsExist ==
    ASSUME NEW what, NEW z, NEW s, NEW n \in Nat
    PROVE  \E f : Folds(what, f, z, s, 1 .. n)
<1> DEFINE K == {k \in 0 .. n : \E f : Folds(what, f, z, s, 1 .. k)}
<1>1. Folds(what, [T \in SUBSET (1 .. 0) |-> z], z, s, 1 .. 0)
  <2>1. \A T \in SUBSET (1 .. 0) : T = {}
    OBVIOUS
  <2> QED
    BY <2>1 DEF Folds
<1>2. 0 \in K
  BY <1>1
<1>3. \A k \in 0 .. n - 1 : k \in K => k + 1 \in K
  BY FoldsOn
<1> HIDE DEF K
<1>4. 0 .. n \subseteq K
  BY <1>2, <1>3, Upward
<1> QED
  BY <1>4 DEF K

\* The fold over the first i elements, for every i
LEMMA FoldsStepwise ==
    ASSUME NEW what, NEW z, NEW s, NEW n \in Nat, NEW f, Folds(what, f, z, s, 1 .. n)
    PROVE  /\ f[1 .. 0] = z
           /\ \A i \in 0 .. n - 1 : f[1 .. i + 1] = Step(what, f[1 .. i], s[i + 1])
<1>1. \A T \in SUBSET (1 .. n) :
          f[T] = IF T = {} THEN z ELSE Step(what, f[T \ {Max(T)}], s[Max(T)])
  BY DEF Folds
<1>2. f[1 .. 0] = z
  <2>1. 1 .. 0 = {} /\ {} \in SUBSET (1 .. n)
    OBVIOUS
  <2>2. f[{}] = z
    BY <1>1, <2>1
  <2> QED
    BY <2>1, <2>2
<1>3. ASSUME NEW i \in 0 .. n - 1
      PROVE  f[1 .. i + 1] = Step(what, f[1 .. i], s[i + 1])
  <2>1. i \in Nat /\ 1 .. i + 1 \in SUBSET (1 .. i + 1) /\ i + 1 \in 1 .. i + 1
    OBVIOUS
  <2>2. Max(1 .. i + 1) = i + 1
    BY <2>1, LastIsMax
  <2>3. 1 .. i + 1 \in SUBSET (1 .. n) /\ 1 .. i + 1 # {}
    BY <2>1
  <2>4. (1 .. i + 1) \ {i + 1} = 1 .. i
    BY <2>1
  <2>5. f[1 .. i + 1] =
            Step(what, f[(1 .. i + 1) \ {Max(1 .. i + 1)}], s[Max(1 .. i + 1)])
    BY <1>1, <2>3, Zenon
  <2> QED
    BY <2>2, <2>4, <2>5, Zenon
<1> QED
  BY <1>2, <1>3

\* g holds what the fold made of the first i elements of s, for every i.
Unrolls(what, g, z, s) ==
    /\ g[0] = z
    /\ \A i \in 0 .. Len(s) - 1 : g[i + 1] = Step(what, g[i], s[i + 1])

LEMMA FoldsUnroll ==
    ASSUME NEW what, NEW z, NEW s, Len(s) \in Nat, NEW f,
           Folds(what, f, z, s, 1 .. Len(s))
    PROVE  Unrolls(what, [i \in 0 .. Len(s) |-> f[1 .. i]], z, s)
<1> DEFINE n == Len(s)
           g == [i \in 0 .. n |-> f[1 .. i]]
<1>3. n \in Nat /\ Folds(what, f, z, s, 1 .. n)
  OBVIOUS
<1> HIDE DEF n
<1>1. /\ f[1 .. 0] = z
      /\ \A i \in 0 .. n - 1 : f[1 .. i + 1] = Step(what, f[1 .. i], s[i + 1])
  BY <1>3, FoldsStepwise
<1>2. g[0] = f[1 .. 0] /\ \A i \in 0 .. n - 1 : g[i] = f[1 .. i] /\ g[i + 1] = f[1 .. i + 1]
  BY <1>3
<1> QED
  BY <1>1, <1>2, Zenon DEF Unrolls, n

\* A fold does with the first elements of a longer sequence what it does alone.
LEMMA UnrollsAgree ==
    ASSUME NEW what, NEW z, NEW s, NEW t, Len(s) \in Nat, Len(t) \in Nat,
           Len(s) <= Len(t), \A i \in 1 .. Len(s) : s[i] = t[i],
           NEW g, Unrolls(what, g, z, s), NEW h, Unrolls(what, h, z, t)
    PROVE  g[Len(s)] = h[Len(s)]
<1> DEFINE n == Len(s)
           K == {i \in 0 .. n : g[i] = h[i]}
<1>1. 0 \in K
  BY DEF Unrolls
<1>2. ASSUME NEW i \in 0 .. n - 1, i \in K PROVE i + 1 \in K
  <2>1. i \in 0 .. Len(s) - 1 /\ i \in 0 .. Len(t) - 1 /\ i + 1 \in 1 .. n
    OBVIOUS
  <2>2. /\ g[i + 1] = Step(what, g[i], s[i + 1])
        /\ h[i + 1] = Step(what, h[i], t[i + 1])
    BY <2>1 DEF Unrolls
  <2> QED
    BY <1>2, <2>1, <2>2
<1> HIDE DEF K
<1>3. 0 .. n \subseteq K
  BY <1>1, <1>2, Upward
<1> QED
  BY <1>3 DEF K

\* What a fold makes of a sequence
Fold(what, z, s) == CHOOSE v : \E g : Unrolls(what, g, z, s) /\ v = g[Len(s)]

LEMMA FoldOf ==
    ASSUME NEW what, NEW z, NEW s, Len(s) \in Nat, NEW g, Unrolls(what, g, z, s)
    PROVE  Fold(what, z, s) = g[Len(s)]
<1>1. PICK h : Unrolls(what, h, z, s) /\ Fold(what, z, s) = h[Len(s)]
  BY Zenon DEF Fold
<1>2. g[Len(s)] = h[Len(s)]
  <2>1. Len(s) <= Len(s) /\ \A i \in 1 .. Len(s) : s[i] = s[i]
    OBVIOUS
  <2> QED
    BY <1>1, <2>1, UnrollsAgree
<1> QED
  BY <1>1, <1>2

LEMMA FoldUnrolls ==
    ASSUME NEW what, NEW z, NEW s, Len(s) \in Nat
    PROVE  \E g : Unrolls(what, g, z, s) /\ Fold(what, z, s) = g[Len(s)]
<1>1. PICK f : Folds(what, f, z, s, 1 .. Len(s))
  BY FoldsExist
<1>2. Unrolls(what, [i \in 0 .. Len(s) |-> f[1 .. i]], z, s)
  BY <1>1, FoldsUnroll
<1> QED
  BY <1>2, FoldOf

\* Whatever F is that FoldLeft() finds
LEMMA FoldFound ==
    ASSUME NEW what, NEW z, NEW s, Len(s) \in Nat, DOMAIN s = 1 .. Len(s),
           NEW F, Folds(what, F, z, s, DOMAIN s)
    PROVE  F[DOMAIN s] = Fold(what, z, s)
<1> DEFINE g == [i \in 0 .. Len(s) |-> F[1 .. i]]
<1>1. Unrolls(what, g, z, s)
  BY FoldsUnroll
<1>2. g[Len(s)] = F[DOMAIN s]
  OBVIOUS
<1> HIDE DEF g
<1> QED
  BY <1>1, <1>2, FoldOf

LEMMA FoldEmpty ==
    ASSUME NEW what, NEW z PROVE Fold(what, z, <<>>) = z
<1>1. Len(<<>>) = 0
  OBVIOUS
<1>2. PICK g : Unrolls(what, g, z, <<>>) /\ Fold(what, z, <<>>) = g[Len(<<>>)]
  BY <1>1, FoldUnrolls
<1> QED
  BY <1>1, <1>2 DEF Unrolls

LEMMA FoldAppend ==
    ASSUME NEW what, NEW z, NEW S, NEW s \in Seq(S), NEW x \in S
    PROVE  Fold(what, z, Append(s, x)) = Step(what, Fold(what, z, s), x)
<1> DEFINE t == Append(s, x)
           n == Len(s)
<1>1. /\ n \in Nat /\ Len(t) = n + 1
      /\ t[n + 1] = x /\ \A i \in 1 .. n : s[i] = t[i]
  BY AppendProperties, LenProperties
<1>2. PICK g : Unrolls(what, g, z, s) /\ Fold(what, z, s) = g[Len(s)]
  BY <1>1, FoldUnrolls
<1> HIDE DEF t
<1>3. Len(t) \in Nat
  BY <1>1
<1>4. PICK h : Unrolls(what, h, z, t) /\ Fold(what, z, t) = h[Len(t)]
  BY <1>3, FoldUnrolls
<1>5. g[n] = h[n]
  <2>1. /\ Len(s) \in Nat /\ Len(t) \in Nat /\ Len(s) <= Len(t)
        /\ \A i \in 1 .. Len(s) : s[i] = t[i]
    BY <1>1
  <2>2. Unrolls(what, g, z, s) /\ Unrolls(what, h, z, t)
    BY <1>2, <1>4
  <2>3. g[Len(s)] = h[Len(s)]
    BY <2>1, <2>2, UnrollsAgree
  <2> QED
    BY <2>3
<1>6. n \in 0 .. Len(t) - 1
  BY <1>1
<1>7. h[n + 1] = Step(what, h[n], t[n + 1])
  BY <1>4, <1>6, Zenon DEF Unrolls
<1> QED
  BY <1>1, <1>2, <1>4, <1>5, <1>7 DEF t

\* A fold over two sequences is one over the second that goes on where the
\* first has ended.
LEMMA FoldConcat ==
    ASSUME NEW what, NEW z, NEW S, NEW s \in Seq(S), NEW t \in Seq(S)
    PROVE  Fold(what, z, s \o t) = Fold(what, Fold(what, z, s), t)
<1> DEFINE u == s \o t
           m == Len(s)
           n == Len(t)
           y == Fold(what, z, s)
<1>1. /\ m \in Nat /\ n \in Nat /\ Len(u) = m + n
      /\ \A i \in 1 .. m : s[i] = u[i]
      /\ \A i \in 1 .. n : u[m + i] = t[i]
  BY ConcatProperties, LenProperties
<1>2. PICK g : Unrolls(what, g, z, s) /\ y = g[Len(s)]
  BY <1>1, FoldUnrolls
<1> HIDE DEF u, y
<1>3. Len(u) \in Nat
  BY <1>1
<1>4. PICK h : Unrolls(what, h, z, u) /\ Fold(what, z, u) = h[Len(u)]
  BY <1>3, FoldUnrolls
<1>5. PICK k : Unrolls(what, k, y, t) /\ Fold(what, y, t) = k[Len(t)]
  BY <1>1, FoldUnrolls
<1>6. h[m] = y
  <2>1. /\ Len(s) \in Nat /\ Len(u) \in Nat /\ Len(s) <= Len(u)
        /\ \A i \in 1 .. Len(s) : s[i] = u[i]
    BY <1>1
  <2>2. g[m] = y
    BY <1>2
  <2>3. Unrolls(what, g, z, s) /\ Unrolls(what, h, z, u)
    BY <1>2, <1>4
  <2>4. g[Len(s)] = h[Len(s)]
    BY <2>1, <2>3, UnrollsAgree
  <2> QED
    BY <2>2, <2>4
<1> DEFINE K == {i \in 0 .. n : h[m + i] = k[i]}
<1>7. 0 \in K
  <2>1. m + 0 = m /\ k[0] = y
    BY <1>1, <1>5 DEF Unrolls
  <2> QED
    BY <1>1, <1>6, <2>1
<1>8. ASSUME NEW i \in 0 .. n - 1, i \in K PROVE i + 1 \in K
  <2>1. m + i \in 0 .. Len(u) - 1 /\ i + 1 \in 1 .. n /\ i \in 0 .. Len(t) - 1
    BY <1>1
  <2>2. h[(m + i) + 1] = Step(what, h[m + i], u[(m + i) + 1])
    BY <1>4, <2>1, Zenon DEF Unrolls
  <2>3. k[i + 1] = Step(what, k[i], t[i + 1])
    BY <1>5, <2>1, Zenon DEF Unrolls
  <2>4. (m + i) + 1 = m + (i + 1)
    BY <1>1
  <2>5. u[m + (i + 1)] = t[i + 1]
    BY <1>1, <2>1
  <2>6. h[m + i] = k[i]
    BY <1>8
  <2>7. h[m + (i + 1)] = k[i + 1]
    BY <2>2, <2>3, <2>4, <2>5, <2>6
  <2>8. i + 1 \in 0 .. n
    BY <2>1
  <2> QED
    BY <2>7, <2>8
<1> HIDE DEF K
<1>9. 0 .. n \subseteq K
  <2> HIDE DEF n
  <2>1. n \in Nat
    BY <1>1
  <2> QED
    BY <1>7, <1>8, <2>1, Upward
<1>10. n \in K
  BY <1>1, <1>9
<1>11. h[m + n] = k[n]
  BY <1>10 DEF K
<1> QED
  BY <1>1, <1>4, <1>5, <1>11 DEF u, y

\* What the steps keep, the fold has.
LEMMA FoldKeeps ==
    ASSUME NEW what, NEW P, NEW z \in P, NEW s, Len(s) \in Nat,
           \A r \in P : \A i \in 1 .. Len(s) : Step(what, r, s[i]) \in P
    PROVE  Fold(what, z, s) \in P
<1>1. PICK g : Unrolls(what, g, z, s) /\ Fold(what, z, s) = g[Len(s)]
  BY FoldUnrolls
<1> DEFINE n == Len(s)
           K == {i \in 0 .. n : g[i] \in P}
<1>2. 0 \in K
  BY <1>1 DEF Unrolls
<1>3. ASSUME NEW i \in 0 .. n - 1, i \in K PROVE i + 1 \in K
  <2>1. g[i + 1] = Step(what, g[i], s[i + 1])
    BY <1>1 DEF Unrolls
  <2>2. i + 1 \in 1 .. Len(s) /\ i + 1 \in 0 .. n /\ g[i] \in P
    BY <1>3
  <2>3. Step(what, g[i], s[i + 1]) \in P
    BY <2>2
  <2> QED
    BY <2>1, <2>2, <2>3
<1> HIDE DEF K
<1>4. 0 .. n \subseteq K
  BY <1>2, <1>3, Upward
<1> QED
  BY <1>1, <1>4 DEF K

\* Total() adds up the sizes.
LEMMA TotalUnrolls ==
    ASSUME NEW s \in Seq(Nat)
    PROVE  \E g : Unrolls("sum", g, 0, s) /\ Total(s) = g[Len(s)]
<1> DEFINE Adds(f, D) ==
               f = [T \in SUBSET D |->
                       IF T = {} THEN 0 ELSE LET x == Max(T) IN f[T \ {x}] + s[x]]
           F == CHOOSE f : Adds(f, DOMAIN s)
<1>1. Total(s) = F[DOMAIN s]
  BY Zenon DEF Total, FoldLeft, MapThenFoldSet
<1>2. \A f, D : Folds("sum", f, 0, s, D) <=> Adds(f, D)
  BY StepSums, Zenon DEF Folds
<1>3. DOMAIN s = 1 .. Len(s) /\ Len(s) \in Nat
  BY LenProperties
<1>4. Adds(F, DOMAIN s)
  <2>1. PICK h : Folds("sum", h, 0, s, 1 .. Len(s))
    BY <1>3, FoldsExist
  <2>2. Adds(h, DOMAIN s)
    <3> HIDE DEF Adds
    <3> QED
      BY <1>2, <1>3, <2>1
  <2> QED
    BY <2>2, Zenon
<1> HIDE DEF Adds, F
<1>6. Folds("sum", F, 0, s, 1 .. Len(s))
  BY <1>2, <1>3, <1>4
<1> DEFINE g == [i \in 0 .. Len(s) |-> F[1 .. i]]
<1>7. Unrolls("sum", g, 0, s)
  BY <1>3, <1>6, FoldsUnroll
<1>8. g[Len(s)] = F[DOMAIN s]
  BY <1>3
<1> QED
  BY <1>1, <1>7, <1>8

LEMMA TotalIsNat == ASSUME NEW s \in Seq(Nat) PROVE Total(s) \in Nat
<1>1. PICK g : Unrolls("sum", g, 0, s) /\ Total(s) = g[Len(s)]
  BY TotalUnrolls
<1> DEFINE n == Len(s)
           K == {i \in 0 .. n : g[i] \in Nat}
<1>2. n \in Nat /\ \A i \in 0 .. n - 1 : s[i + 1] \in Nat
  BY LenProperties, ElementOfSeq
<1>3. g[0] = 0 /\ \A i \in 0 .. n - 1 : g[i + 1] = g[i] + s[i + 1]
  BY <1>1, StepSums DEF Unrolls
<1> HIDE DEF n
<1>4. 0 \in K /\ \A i \in 0 .. n - 1 : i \in K => i + 1 \in K
  BY <1>2, <1>3
<1> HIDE DEF K
<1>5. 0 .. n \subseteq K
  BY <1>2, <1>4, Upward
<1>6. n \in K
  BY <1>2, <1>5
<1> QED
  BY <1>1, <1>6 DEF K, n

\* What the peer is before it read anything
Fresh == [phase |-> "head", length |-> "none", sum |-> 0, size |-> 0, body |-> <<>>]

\* The peer reads the wire token by token.
LEMMA ReceiverUnrolls ==
    ASSUME Len(wire) \in Nat, DOMAIN wire = 1 .. Len(wire)
    PROVE  \E g : Unrolls("read", g, Fresh, wire) /\ Receiver = g[Len(wire)]
<1> DEFINE Reads(f, D) ==
               f = [T \in SUBSET D |->
                       IF T = {} THEN Fresh
                       ELSE LET x == Max(T) IN Expect(f[T \ {x}], wire[x])]
           F == CHOOSE f : Reads(f, DOMAIN wire)
<1>1. Receiver = F[DOMAIN wire]
  BY Zenon DEF Receiver, FoldLeft, MapThenFoldSet, Fresh
<1>2. \A f, D : Folds("read", f, Fresh, wire, D) <=> Reads(f, D)
  <2>1. \A r, x : Step("read", r, x) = Expect(r, x)
    BY StepReads
  <2> QED
    BY <2>1, Zenon DEF Folds
<1>4. Reads(F, DOMAIN wire)
  <2>1. PICK h : Folds("read", h, Fresh, wire, 1 .. Len(wire))
    BY FoldsExist
  <2>2. Reads(h, DOMAIN wire)
    <3> HIDE DEF Reads
    <3> QED
      BY <1>2, <2>1
  <2> QED
    BY <2>2, Zenon
<1> HIDE DEF Reads, F
<1>6. Folds("read", F, Fresh, wire, 1 .. Len(wire))
  BY <1>2, <1>4
<1> DEFINE g == [i \in 0 .. Len(wire) |-> F[1 .. i]]
<1>7. Unrolls("read", g, Fresh, wire)
  BY <1>6, FoldsUnroll
<1>8. g[Len(wire)] = F[DOMAIN wire]
  OBVIOUS
<1> QED
  BY <1>1, <1>7, <1>8

-----------------------------------------------------------------------------
(* What the peer makes of a framed body *)

\* The peer in some phase, behind the head h
Reading(p, h, k, s) ==
    [phase |-> p, length |-> h.length, sum |-> h.sum, size |-> k, body |-> s]

\* The head says that chunks follow.
Announces(h) == h.encoding # "none"

LEMMA ReadsHead ==
    ASSUME NEW h, h.t = "head"
    PROVE  Expect(Fresh, h) =
               Reading(IF Announces(h) THEN "size" ELSE "plain", h, 0, <<>>)
  BY DEF Expect, Fresh, Reading, Announces

LEMMA ReadsPlain ==
    ASSUME NEW h, NEW k, NEW s, NEW x
    PROVE  Expect(Reading("plain", h, k, s), [t |-> "data", n |-> x]) =
               Reading("plain", h, k, Append(s, x))
  BY DEF Expect, Reading

LEMMA ReadsSize ==
    ASSUME NEW h, NEW k, NEW s, NEW x, x > 0
    PROVE  Expect(Reading("size", h, k, s), [t |-> "size", n |-> x]) =
               Reading("data", h, x, s)
  BY DEF Expect, Reading

LEMMA ReadsData ==
    ASSUME NEW h, NEW s, NEW x
    PROVE  Expect(Reading("data", h, x, s), [t |-> "data", n |-> x]) =
               Reading("crlf", h, x, Append(s, x))
  BY DEF Expect, Reading

LEMMA ReadsCrlf ==
    ASSUME NEW h, NEW k, NEW s
    PROVE  Expect(Reading("crlf", h, k, s), [t |-> "crlf"]) = Reading("size", h, k, s)
  BY DEF Expect, Reading

LEMMA ReadsLast ==
    ASSUME NEW h, NEW k, NEW s
    PROVE  Expect(Reading("size", h, k, s), [t |-> "last"]) = Reading("done", h, k, s)
  BY DEF Expect, Reading

LEMMA Grows ==
    ASSUME NEW s \in Seq(Sizes), NEW i \in 0 .. Len(s) - 1
    PROVE  Append(SubSeq(s, 1, i), s[i + 1]) = SubSeq(s, 1, i + 1)
<1>1. i + 1 \in 1 .. Len(s) /\ 1 \in 1 .. Len(s) /\ (i + 1) - 1 = i
  BY LenProperties
<1>2. SubSeq(s, 1, i + 1) = SubSeq(s, 1, (i + 1) - 1) \o <<s[i + 1]>>
  BY <1>1, SubSeqRecursiveSecond
<1>3. SubSeq(s, 1, i) \in Seq(Sizes) /\ s[i + 1] \in Sizes
  BY <1>1, ElementOfSeq, SubSeqProperties
<1>4. Append(SubSeq(s, 1, i), s[i + 1]) = SubSeq(s, 1, i) \o <<s[i + 1]>>
  BY <1>3
<1> QED
  BY <1>1, <1>2, <1>4

\* What stands where behind the head
LEMMA HeadAndRest ==
    ASSUME NEW h, NEW c \in Seq(BodyToken)
    PROVE  /\ Len(<<h>> \o c) = 1 + Len(c)
           /\ (<<h>> \o c)[1] = h
           /\ \A i \in 1 .. Len(c) : (<<h>> \o c)[i + 1] = c[i]
<1> DEFINE S == {h} \union BodyToken
<1>1. <<h>> \in Seq(S) /\ c \in Seq(S) /\ Len(<<h>>) = 1 /\ <<h>>[1] = h
  OBVIOUS
<1> HIDE DEF S
<1>2. /\ Len(<<h>> \o c) = 1 + Len(c)
      /\ \A i \in 1 .. 1 + Len(c) :
            (<<h>> \o c)[i] = IF i <= 1 THEN <<h>>[i] ELSE c[i - 1]
  BY <1>1, ConcatProperties
<1>3. Len(c) \in Nat
  OBVIOUS
<1> QED
  BY <1>1, <1>2, <1>3

LEMMA ReadsUnroll ==
    ASSUME NEW s, NEW g, Unrolls("read", g, Fresh, s)
    PROVE  /\ g[0] = Fresh
           /\ \A i \in 0 .. Len(s) - 1 : g[i + 1] = Expect(g[i], s[i + 1])
<1>1. /\ g[0] = Fresh
      /\ \A i \in 0 .. Len(s) - 1 : g[i + 1] = Step("read", g[i], s[i + 1])
  BY Zenon DEF Unrolls
<1> QED
  BY <1>1, StepReads, Zenon

\* A body without chunks
LEMMA ReadsPlainBody ==
    ASSUME NEW h, h.t = "head", ~Announces(h), NEW b \in Seq(Sizes),
           wire = <<h>> \o Plain(b), NEW g, Unrolls("read", g, Fresh, wire)
    PROVE  g[Len(wire)] = Reading("plain", h, 0, b)
<1> DEFINE n == Len(b)
           K == {i \in 0 .. n : g[i + 1] = Reading("plain", h, 0, SubSeq(b, 1, i))}
<1>1. /\ n \in Nat /\ Len(wire) = 1 + n /\ wire[1] = h
      /\ \A i \in 0 .. n - 1 : wire[i + 2] = [t |-> "data", n |-> b[i + 1]]
  <2>1. /\ Plain(b) \in Seq(BodyToken) /\ Len(Plain(b)) = n /\ n \in Nat
        /\ \A i \in 1 .. n : Plain(b)[i] = [t |-> "data", n |-> b[i]]
    BY PlainSeq, LenProperties
  <2>2. /\ Len(wire) = 1 + Len(Plain(b)) /\ wire[1] = h
        /\ \A i \in 1 .. Len(Plain(b)) : wire[i + 1] = Plain(b)[i]
    BY <2>1, HeadAndRest
  <2>3. \A i \in 0 .. n - 1 : i + 1 \in 1 .. n /\ (i + 1) + 1 = i + 2
    BY <2>1
  <2> QED
    BY <2>1, <2>2, <2>3
<1>2. /\ g[0] = Fresh
      /\ \A i \in 0 .. Len(wire) - 1 : g[i + 1] = Expect(g[i], wire[i + 1])
  BY ReadsUnroll
<1>3. g[1] = Reading("plain", h, 0, SubSeq(b, 1, 0))
  <2>1. g[0 + 1] = Expect(Fresh, wire[0 + 1])
    <3>1. 0 \in 0 .. Len(wire) - 1
      BY <1>1
    <3> HIDE DEF n, K
    <3> QED
      BY <1>2, <3>1, Zenon
  <2>2. SubSeq(b, 1, 0) = <<>>
    BY SubSeqEmpty
  <2>3. Expect(Fresh, h) = Reading("plain", h, 0, <<>>)
    BY ReadsHead
  <2>4. 0 + 1 = 1
    OBVIOUS
  <2> QED
    BY <1>1, <2>1, <2>2, <2>3, <2>4
<1> HIDE DEF n, K
<1>4. 0 \in K
  <2>1. 0 \in 0 .. n /\ 0 + 1 = 1
    BY <1>1
  <2> QED
    BY <1>3, <2>1 DEF K
<1>5. ASSUME NEW i \in 0 .. n - 1, i \in K PROVE i + 1 \in K
  <2>6. i + 1 \in 0 .. Len(wire) - 1 /\ i + 1 \in 0 .. n /\ (i + 1) + 1 = i + 2
    BY <1>1
  <2>1. g[(i + 1) + 1] = Expect(g[i + 1], wire[(i + 1) + 1])
    BY <1>2, <2>6
  <2>2. wire[(i + 1) + 1] = [t |-> "data", n |-> b[i + 1]]
    BY <1>1, <2>6
  <2>3. g[i + 1] = Reading("plain", h, 0, SubSeq(b, 1, i))
    BY <1>5 DEF K
  <2>4. g[(i + 1) + 1] = Reading("plain", h, 0, Append(SubSeq(b, 1, i), b[i + 1]))
    <3>1. Expect(Reading("plain", h, 0, SubSeq(b, 1, i)), [t |-> "data", n |-> b[i + 1]])
             = Reading("plain", h, 0, Append(SubSeq(b, 1, i), b[i + 1]))
      BY ReadsPlain
    <3> QED
      BY <2>1, <2>2, <2>3, <3>1, Zenon
  <2>5. Append(SubSeq(b, 1, i), b[i + 1]) = SubSeq(b, 1, i + 1)
    BY Grows DEF n
  <2> QED
    BY <2>4, <2>5, <2>6, Zenon DEF K
<1>6. 0 .. n \subseteq K
  BY <1>1, <1>4, <1>5, Upward
<1>7. g[n + 1] = Reading("plain", h, 0, SubSeq(b, 1, n))
  BY <1>1, <1>6 DEF K
<1>8. SubSeq(b, 1, n) = b
  BY SubSeqFull DEF n
<1>9. Len(wire) = n + 1
  BY <1>1
<1> QED
  BY <1>7, <1>8, <1>9, Zenon

\* One chunk: its size, its data and the end of the line behind it
LEMMA ReadsChunk ==
    ASSUME NEW h, NEW k, NEW s, NEW x, x > 0,
           NEW r1, r1 = Expect(Reading("size", h, k, s), [t |-> "size", n |-> x]),
           NEW r2, r2 = Expect(r1, [t |-> "data", n |-> x]),
           NEW r3, r3 = Expect(r2, [t |-> "crlf"])
    PROVE  r3 = Reading("size", h, x, Append(s, x))
<1>1. r1 = Reading("data", h, x, s)
  BY ReadsSize
<1>2. r2 = Reading("crlf", h, x, Append(s, x))
  <2>1. Expect(Reading("data", h, x, s), [t |-> "data", n |-> x]) =
            Reading("crlf", h, x, Append(s, x))
    BY ReadsData
  <2> QED
    BY <1>1, <2>1, Zenon
<1> QED
  <2>1. Expect(Reading("crlf", h, x, Append(s, x)), [t |-> "crlf"]) =
            Reading("size", h, x, Append(s, x))
    BY ReadsCrlf
  <2> QED
    BY <1>2, <2>1, Zenon

\* The size of the last of i chunks
LastOf(b, i) == IF i = 0 THEN 0 ELSE b[i]

\* A body in chunks, and the chunk that ends it
LEMMA ReadsChunkedBody ==
    ASSUME NEW h, h.t = "head", Announces(h), NEW b \in Seq(Sizes),
           \A i \in 1 .. Len(b) : b[i] > 0, NEW end \in BOOLEAN,
           wire = <<h>> \o (Chunks(b) \o Ending(end)),
           NEW g, Unrolls("read", g, Fresh, wire)
    PROVE  \E k : g[Len(wire)] = Reading(IF end THEN "done" ELSE "size", h, k, b)
<1> DEFINE n == Len(b)
           At(i) == g[3 * i + 1] = Reading("size", h, LastOf(b, i), SubSeq(b, 1, i))
           K == {i \in 0 .. n : At(i)}
<1>1. n \in Nat /\ Len(Chunks(b)) = 3 * n /\ Chunks(b) \in Seq(BodyToken)
  BY ChunksSeq, LenProperties
<1>2. /\ Len(wire) = 1 + 3 * n + Len(Ending(end)) /\ wire[1] = h
      /\ \A j \in 1 .. 3 * n : wire[j + 1] = Chunks(b)[j]
      /\ end => wire[3 * n + 2] = [t |-> "last"]
      /\ Len(Ending(end)) = IF end THEN 1 ELSE 0
  <2> DEFINE e == Ending(end)
             c == Chunks(b) \o e
  <2>1. e \in Seq(BodyToken) /\ Len(e) \in Nat
    BY EndingSeq
  <2>2. Len(e) = IF end THEN 1 ELSE 0
    BY DEF Ending, Terminator
  <2>3. end => e[1] = [t |-> "last"]
    BY DEF Ending, Terminator
  <2> HIDE DEF e
  <2>4. /\ c \in Seq(BodyToken) /\ Len(c) = Len(Chunks(b)) + Len(e)
        /\ \A j \in 1 .. Len(Chunks(b)) + Len(e) :
              c[j] = IF j <= Len(Chunks(b)) THEN Chunks(b)[j]
                     ELSE e[j - Len(Chunks(b))]
    BY <1>1, <2>1, ConcatProperties
  <2>5. wire = <<h>> \o c
    BY DEF e
  <2> HIDE DEF c, n
  <2>6. /\ Len(wire) = 1 + Len(c) /\ wire[1] = h
        /\ \A j \in 1 .. Len(c) : wire[j + 1] = c[j]
    BY <2>4, <2>5, HeadAndRest
  <2>7. Len(c) = 3 * n + Len(e)
    BY <1>1, <2>4
  <2>8. \A j \in 1 .. 3 * n : wire[j + 1] = Chunks(b)[j]
    <3> TAKE j \in 1 .. 3 * n
    <3>1. j \in 1 .. Len(c) /\ j <= Len(Chunks(b)) /\ j \in 1 .. Len(Chunks(b)) + Len(e)
      BY <1>1, <2>1, <2>7
    <3> QED
      BY <2>4, <2>6, <3>1
  <2>9. ASSUME end PROVE wire[3 * n + 2] = [t |-> "last"]
    <3>1. 3 * n + 1 \in 1 .. Len(c) /\ (3 * n + 1) + 1 = 3 * n + 2
      BY <1>1, <2>2, <2>7, <2>9
    <3>2. /\ ~(3 * n + 1 <= Len(Chunks(b))) /\ (3 * n + 1) - Len(Chunks(b)) = 1
          /\ 3 * n + 1 \in 1 .. Len(Chunks(b)) + Len(e)
      BY <1>1, <2>2, <2>9
    <3>3. c[3 * n + 1] = e[(3 * n + 1) - Len(Chunks(b))]
      BY <2>4, <3>2
    <3>4. wire[(3 * n + 1) + 1] = c[3 * n + 1]
      BY <2>6, <3>1
    <3> QED
      BY <2>3, <2>9, <3>1, <3>2, <3>3, <3>4
  <2>10. Len(wire) = 1 + 3 * n + Len(e)
    BY <1>1, <2>1, <2>6, <2>7
  <2> QED
    BY <2>2, <2>6, <2>8, <2>9, <2>10 DEF e
<1>3. /\ g[0] = Fresh
      /\ \A i \in 0 .. Len(wire) - 1 : g[i + 1] = Expect(g[i], wire[i + 1])
  BY ReadsUnroll
<1>4. \A i \in 0 .. 3 * n : i \in 0 .. Len(wire) - 1
  BY <1>1, <1>2
<1>5. \A i \in 0 .. n - 1 :
          /\ wire[3 * i + 2] = [t |-> "size", n |-> b[i + 1]]
          /\ wire[3 * i + 3] = [t |-> "data", n |-> b[i + 1]]
          /\ wire[3 * i + 4] = [t |-> "crlf"]
          /\ b[i + 1] > 0
  <2> TAKE i \in 0 .. n - 1
  <2> HIDE DEF n
  <2>1. /\ 3 * i + 1 \in 1 .. 3 * n /\ (3 * i + 1) % 3 = 1 /\ (3 * i + 1 + 2) \div 3 = i + 1
        /\ 3 * i + 2 \in 1 .. 3 * n /\ (3 * i + 2) % 3 = 2 /\ (3 * i + 2 + 2) \div 3 = i + 1
        /\ 3 * i + 3 \in 1 .. 3 * n /\ (3 * i + 3) % 3 = 0
        /\ (3 * i + 1) + 1 = 3 * i + 2
        /\ (3 * i + 2) + 1 = 3 * i + 3
        /\ (3 * i + 3) + 1 = 3 * i + 4
        /\ i + 1 \in 1 .. n
    BY <1>1
  <2>2. \A j \in 1 .. 3 * n :
            wire[j + 1] =
                IF j % 3 = 1 THEN [t |-> "size", n |-> b[(j + 2) \div 3]]
                ELSE IF j % 3 = 2 THEN [t |-> "data", n |-> b[(j + 2) \div 3]]
                ELSE [t |-> "crlf"]
    BY <1>2, ChunksSeq DEF n
  <2>7. \A j \in 1 .. 3 * n :
            j % 3 = 1 /\ (j + 2) \div 3 = i + 1
                => wire[j + 1] = [t |-> "size", n |-> b[i + 1]]
    BY <2>2
  <2>8. \A j \in 1 .. 3 * n :
            j % 3 = 2 /\ (j + 2) \div 3 = i + 1
                => wire[j + 1] = [t |-> "data", n |-> b[i + 1]]
    <3> SUFFICES ASSUME NEW j \in 1 .. 3 * n, j % 3 = 2, (j + 2) \div 3 = i + 1
                 PROVE  wire[j + 1] = [t |-> "data", n |-> b[i + 1]]
      BY Zenon
    <3>1. wire[j + 1] =
              IF j % 3 = 1 THEN [t |-> "size", n |-> b[(j + 2) \div 3]]
              ELSE IF j % 3 = 2 THEN [t |-> "data", n |-> b[(j + 2) \div 3]]
              ELSE [t |-> "crlf"]
      BY <2>2, Zenon
    <3>2. j % 3 # 1
      OBVIOUS
    <3> QED
      BY <3>1, <3>2, Zenon
  <2>9. \A j \in 1 .. 3 * n : j % 3 = 0 => wire[j + 1] = [t |-> "crlf"]
    <3> SUFFICES ASSUME NEW j \in 1 .. 3 * n, j % 3 = 0
                 PROVE  wire[j + 1] = [t |-> "crlf"]
      BY Zenon
    <3>1. wire[j + 1] =
              IF j % 3 = 1 THEN [t |-> "size", n |-> b[(j + 2) \div 3]]
              ELSE IF j % 3 = 2 THEN [t |-> "data", n |-> b[(j + 2) \div 3]]
              ELSE [t |-> "crlf"]
      BY <2>2, Zenon
    <3>2. j % 3 # 1 /\ j % 3 # 2
      OBVIOUS
    <3> QED
      BY <3>1, <3>2, Zenon
  <2>3. wire[(3 * i + 1) + 1] = [t |-> "size", n |-> b[i + 1]]
    BY <2>1, <2>7, Zenon
  <2>4. wire[(3 * i + 2) + 1] = [t |-> "data", n |-> b[i + 1]]
    BY <2>1, <2>8, Zenon
  <2>5. wire[(3 * i + 3) + 1] = [t |-> "crlf"]
    BY <2>1, <2>9, Zenon
  <2>6. b[i + 1] > 0
    BY <2>1 DEF n
  <2> QED
    BY <2>1, <2>3, <2>4, <2>5, <2>6
<1> HIDE DEF n, K
<1>6. g[1] = Reading("size", h, 0, <<>>)
  <2>1. 0 \in 0 .. Len(wire) - 1 /\ 0 + 1 = 1
    BY <1>1, <1>4
  <2>2. g[0 + 1] = Expect(g[0], wire[0 + 1])
    BY <1>3, <2>1
  <2>3. Expect(Fresh, h) = Reading("size", h, 0, <<>>)
    BY ReadsHead
  <2> QED
    BY <1>2, <1>3, <2>1, <2>2, <2>3
<1>7. 0 \in K
  <2>1. 0 \in 0 .. n /\ 3 * 0 + 1 = 1 /\ LastOf(b, 0) = 0
    BY <1>1 DEF LastOf
  <2>2. SubSeq(b, 1, 0) = <<>>
    BY SubSeqEmpty
  <2> QED
    BY <1>6, <2>1, <2>2 DEF K
<1>8. ASSUME NEW i \in 0 .. n - 1, i \in K PROVE i + 1 \in K
  <2>1. /\ 3 * i + 1 \in 0 .. 3 * n /\ 3 * i + 2 \in 0 .. 3 * n /\ 3 * i + 3 \in 0 .. 3 * n
        /\ (3 * i + 1) + 1 = 3 * i + 2
        /\ (3 * i + 2) + 1 = 3 * i + 3
        /\ (3 * i + 3) + 1 = 3 * i + 4
        /\ 3 * (i + 1) + 1 = 3 * i + 4
        /\ i + 1 \in 0 .. n /\ i + 1 # 0
    BY <1>1
  <2>2. g[3 * i + 1] = Reading("size", h, LastOf(b, i), SubSeq(b, 1, i))
    BY <1>8 DEF K
  <2>3. g[(3 * i + 1) + 1] = Expect(g[3 * i + 1], wire[(3 * i + 1) + 1])
    BY <1>3, <1>4, <2>1
  <2>4. g[(3 * i + 2) + 1] = Expect(g[3 * i + 2], wire[(3 * i + 2) + 1])
    BY <1>3, <1>4, <2>1
  <2>5. g[(3 * i + 3) + 1] = Expect(g[3 * i + 3], wire[(3 * i + 3) + 1])
    BY <1>3, <1>4, <2>1
  <2>6. g[3 * i + 4] = Reading("size", h, b[i + 1], Append(SubSeq(b, 1, i), b[i + 1]))
    <3>1. /\ g[3 * i + 2] = Expect(Reading("size", h, LastOf(b, i), SubSeq(b, 1, i)),
                                   [t |-> "size", n |-> b[i + 1]])
          /\ g[3 * i + 3] = Expect(g[3 * i + 2], [t |-> "data", n |-> b[i + 1]])
          /\ g[3 * i + 4] = Expect(g[3 * i + 3], [t |-> "crlf"])
      BY <1>5, <2>1, <2>2, <2>3, <2>4, <2>5
    <3>2. b[i + 1] > 0
      BY <1>5
    <3> QED
      BY <3>1, <3>2, ReadsChunk
  <2>7. Append(SubSeq(b, 1, i), b[i + 1]) = SubSeq(b, 1, i + 1)
    BY Grows DEF n
  <2>8. LastOf(b, i + 1) = b[i + 1]
    BY <2>1 DEF LastOf
  <2> QED
    BY <2>1, <2>6, <2>7, <2>8 DEF K
<1>9. n \in K
  <2>1. 0 .. n \subseteq K
    BY <1>1, <1>7, <1>8, Upward
  <2> QED
    BY <1>1, <2>1
<1>10. g[3 * n + 1] = Reading("size", h, LastOf(b, n), b)
  <2>1. SubSeq(b, 1, n) = b
    BY SubSeqFull DEF n
  <2> QED
    BY <1>9, <2>1 DEF K
<1>11. CASE ~end
  <2>1. Len(wire) = 3 * n + 1
    BY <1>1, <1>2, <1>11
  <2> QED
    BY <1>10, <1>11, <2>1
<1>12. CASE end
  <2>5. Len(Ending(end)) = 1 /\ Len(wire) = 1 + 3 * n + Len(Ending(end))
    BY <1>2, <1>12
  <2>1. /\ Len(wire) = 3 * n + 2 /\ 3 * n + 1 \in 0 .. Len(wire) - 1
        /\ (3 * n + 1) + 1 = 3 * n + 2
    BY <1>1, <2>5
  <2>2. g[(3 * n + 1) + 1] = Expect(g[3 * n + 1], wire[(3 * n + 1) + 1])
    BY <1>3, <2>1
  <2>3. Expect(Reading("size", h, LastOf(b, n), b), [t |-> "last"]) =
            Reading("done", h, LastOf(b, n), b)
    BY ReadsLast
  <2>4. g[Len(wire)] = Reading("done", h, LastOf(b, n), b)
    BY <1>2, <1>10, <1>12, <2>1, <2>2, <2>3
  <2> QED
    BY <1>12, <2>4
<1> QED
  BY <1>11, <1>12

-----------------------------------------------------------------------------
(* What the peer reads *)

\* The head h is true of the message (c: chunked, e: ended, b: the body) behind it.
Fits(h, c, e, b) ==
    /\ c <=> Announces(h)
    /\ h.length = "sum" => e /\ ~c /\ h.sum = Total(b)
    /\ c => \A i \in 1 .. Len(b) : b[i] > 0

\* The wire holds a message that the peer can read, which is the one the program
\* writes as long as the socket takes it.
Readable ==
    wire # <<>> =>
        \E h, c, e, b :
            /\ h.t = "head" /\ c \in BOOLEAN /\ e \in BOOLEAN /\ b \in Seq(Sizes)
            /\ wire = <<h>> \o Frame(c, b, Ending(e))
            /\ Fits(h, c, e, b)
            /\ socket = "open" => b = body /\ c = isChunked /\ e = ~writable

\* The program declared a length or an encoding, not both.
OneHeader == contentLength = "none" \/ encoding = "none"

ReadInv == OutgoingTypeOK /\ Readable /\ OneHeader

\* The peer's state at the end of the wire
LEMMA ReadsWire ==
    ASSUME NEW h, h.t = "head", NEW c \in BOOLEAN, NEW e \in BOOLEAN,
           NEW b \in Seq(Sizes), wire = <<h>> \o Frame(c, b, Ending(e)), Fits(h, c, e, b)
    PROVE  \E k : Receiver = Reading(IF ~c THEN "plain" ELSE IF e THEN "done" ELSE "size",
                                     h, k, b)
<1>1. Frame(c, b, Ending(e)) \in Seq(BodyToken)
  BY FrameSeq, EndingSeq
<1>2. Len(wire) \in Nat /\ DOMAIN wire = 1 .. Len(wire)
  <2>1. /\ Len(wire) = 1 + Len(Frame(c, b, Ending(e)))
        /\ DOMAIN wire = 1 .. 1 + Len(Frame(c, b, Ending(e)))
    BY <1>1, HeadAndRest, HeadInFront
  <2>2. Len(Frame(c, b, Ending(e))) \in Nat
    BY <1>1, LenProperties
  <2> QED
    BY <2>1, <2>2
<1>3. PICK g : Unrolls("read", g, Fresh, wire) /\ Receiver = g[Len(wire)]
  BY <1>2, ReceiverUnrolls
<1>4. CASE ~c
  <2>1. wire = <<h>> \o Plain(b) /\ ~Announces(h)
    BY <1>4 DEF Frame, Fits
  <2>2. g[Len(wire)] = Reading("plain", h, 0, b)
    BY <1>3, <2>1, ReadsPlainBody
  <2> QED
    BY <1>3, <1>4, <2>2
<1>5. CASE c
  <2>1. /\ wire = <<h>> \o (Chunks(b) \o Ending(e)) /\ Announces(h)
        /\ \A i \in 1 .. Len(b) : b[i] > 0
    BY <1>5 DEF Frame, Fits
  <2>2. \E k : g[Len(wire)] = Reading(IF e THEN "done" ELSE "size", h, k, b)
    BY <1>3, <2>1, ReadsChunkedBody
  <2> QED
    BY <1>3, <1>5, <2>2
<1> QED
  BY <1>4, <1>5

\* A peer that read nothing
LEMMA ReadsNothing == ASSUME wire = <<>> PROVE Receiver = Fresh
<1>1. Len(wire) = 0 /\ DOMAIN wire = 1 .. Len(wire)
  OBVIOUS
<1>2. PICK g : Unrolls("read", g, Fresh, wire) /\ Receiver = g[Len(wire)]
  BY <1>1, ReceiverUnrolls
<1> QED
  BY <1>1, <1>2 DEF Unrolls

LEMMA ReadableIsRead ==
    ASSUME OutgoingInv, ReadInv PROVE BodyReadable
<1>1. CASE wire = <<>>
  <2>1. Receiver = Fresh
    BY <1>1, ReadsNothing
  <2>2. socket = "open" => body = <<>> /\ writable
    BY <1>1 DEF OutgoingInv, WireExact
  <2>3. BodyArrives /\ LengthIsTrue
    BY <2>1, <2>2 DEF BodyArrives, LengthIsTrue, Fresh
  <2> QED
    BY <2>3 DEF BodyReadable, ReadInv
<1>2. CASE wire # <<>>
  <2>1. PICK h, c, e, b :
            /\ h.t = "head" /\ c \in BOOLEAN /\ e \in BOOLEAN /\ b \in Seq(Sizes)
            /\ wire = <<h>> \o Frame(c, b, Ending(e))
            /\ Fits(h, c, e, b)
            /\ socket = "open" => b = body /\ c = isChunked /\ e = ~writable
    BY <1>2 DEF ReadInv, Readable
  <2>2. PICK k : Receiver = Reading(IF ~c THEN "plain" ELSE IF e THEN "done" ELSE "size",
                                    h, k, b)
    BY <2>1, ReadsWire
  <2>3. /\ Receiver.phase = IF ~c THEN "plain" ELSE IF e THEN "done" ELSE "size"
        /\ Receiver.length = h.length /\ Receiver.sum = h.sum /\ Receiver.body = b
    BY <2>2 DEF Reading
  <2>4. BodyArrives
    BY <2>1, <2>3 DEF BodyArrives
  <2>5. LengthIsTrue
    BY <2>1, <2>3 DEF LengthIsTrue, Fits
  <2> QED
    BY <2>4, <2>5 DEF BodyReadable, ReadInv
<1> QED
  BY <1>1, <1>2

\* What http_write() puts on the wire are tokens, and its head is true.
LEMMA HeadersFit ==
    ASSUME OutgoingTypeOK, Encodings \subseteq {"chunked"}, ~headersSent, OneHeader,
           NEW bufs \in Seq(Sizes), NEW end \in BOOLEAN, Printable(bufs, end)
    PROVE  /\ Headers(bufs, end) \in Token
           /\ Fits(Headers(bufs, end), Chunked(bufs, end), end, bufs)
<1> DEFINE h == Headers(bufs, end)
<1>1. contentLength \in {"none", "user"} /\ encoding \in {"none", "chunked"}
  BY DEF OutgoingTypeOK
<1>2. Total(bufs) \in Nat
  <2>1. bufs \in Seq(Nat)
    BY LengthsAssumption, SeqMonotonic
  <2> QED
    BY <2>1, TotalIsNat
<1>3. /\ h.t = "head"
      /\ h.length = IF AutoLength(bufs, end) THEN "sum" ELSE contentLength
      /\ h.sum = IF AutoLength(bufs, end) THEN Total(bufs) ELSE 0
      /\ h.encoding = IF encoding = "none" /\ Chunked(bufs, end)
                      THEN "chunked" ELSE encoding
      /\ h = [t |-> h.t, length |-> h.length, sum |-> h.sum, encoding |-> h.encoding]
  BY DEF Headers
<1>4. AutoLength(bufs, end) => contentLength = "none" /\ encoding = "none" /\ end
  BY DEF AutoLength
<1>5. Chunked(bufs, end) <=>
          /\ contentLength = "none"
          /\ encoding = "chunked" \/ (encoding = "none" /\ ~AutoLength(bufs, end))
  BY DEF Chunked
<1> HIDE DEF h
<1>6. h \in Token
  <2>1. /\ h.length \in {"none", "user", "sum"} /\ h.sum \in Nat
        /\ h.encoding \in {"none"} \union Encodings \union {"chunked"}
    BY <1>1, <1>2, <1>3
  <2> QED
    BY <1>3, <2>1 DEF Token
<1>7. Chunked(bufs, end) <=> Announces(h)
  BY <1>1, <1>3, <1>4, <1>5 DEF Announces, OneHeader
<1>8. h.length = "sum" => end /\ ~Chunked(bufs, end) /\ h.sum = Total(bufs)
  BY <1>1, <1>3, <1>4, <1>5
<1>9. Chunked(bufs, end) => \A i \in 1 .. Len(bufs) : bufs[i] > 0
  BY DEF Printable
<1> QED
  BY <1>6, <1>7, <1>8, <1>9 DEF Fits, h

LEMMA BodyIsToken == BodyToken \subseteq Token
  BY LengthsAssumption DEF BodyToken, Token

LEMMA HeadedTokens ==
    ASSUME NEW h \in Token, NEW c \in Seq(BodyToken)
    PROVE  <<h>> \o c \in Seq(Token)
<1>1. <<h>> \in Seq(Token) /\ c \in Seq(Token)
  BY BodyIsToken, SeqMonotonic
<1> QED
  BY <1>1, ConcatProperties

\* The step that write() and end() have in common
LEMMA WriteReads ==
    ASSUME OutgoingInv, ReadInv, Encodings \subseteq {"chunked"},
           writable, socket = "open", socket' = socket,
           NEW bufs \in Seq(Sizes), NEW end \in BOOLEAN, Printable(bufs, end),
           bufs # <<>> \/ headersSent \/ ~Chunked(bufs, end),
           isChunked' = Chunked(bufs, end),
           wire' = wire \o Compiled(bufs, end),
           body' = body \o bufs,
           writable' = ~end
    PROVE  Readable' /\ wire' \in Seq(Token)
<1>1. body' \in Seq(Sizes) /\ isChunked' \in BOOLEAN
  <2>1. body' \in Seq(Sizes)
    BY ConcatProperties DEF OutgoingInv
  <2>2. isChunked' \in BOOLEAN
    BY DEF Chunked, ReadInv, OutgoingTypeOK
  <2> QED
    BY <2>1, <2>2
<1>2. Frame(isChunked', body', Ending(end)) \in Seq(BodyToken)
  BY <1>1, FrameSeq, EndingSeq
<1>3. \E h : /\ h \in Token /\ h.t = "head"
             /\ wire' = <<h>> \o Frame(isChunked', body', Ending(end))
             /\ Fits(h, isChunked', end, body')
  <2>0. body' \in Seq(Sizes) /\ Headed' /\ wire' # <<>> /\ WireExact'
    BY WriteExact
  <2>1. wire' = <<wire'[1]>> \o Frame(isChunked', body', Ending(end))
    <3>1. Framed' = Frame(isChunked', body', Ending(~writable'))
      BY FramedIsFrame
    <3>2. Framed' = Frame(isChunked', body', Ending(end))
      BY <3>1
    <3>3. wire' = <<wire'[1]>> \o Framed'
      BY <2>0 DEF WireExact
    <3> QED
      BY <3>2, <3>3, Zenon
  <2>2. CASE headersSent
    <3>1. wire # <<>>
      BY <2>2 DEF OutgoingInv, HeadersSentExact
    <3>2. PICK h, c, e, b :
              /\ h.t = "head" /\ c \in BOOLEAN /\ e \in BOOLEAN /\ b \in Seq(Sizes)
              /\ wire = <<h>> \o Frame(c, b, Ending(e))
              /\ Fits(h, c, e, b)
              /\ socket = "open" => b = body /\ c = isChunked /\ e = ~writable
      BY <3>1 DEF ReadInv, Readable
    <3>3. /\ Compiled(bufs, end) = Frame(isChunked, bufs, Ending(end))
          /\ isChunked' = isChunked
      BY <2>2, CompiledBehind
    <3> DEFINE f == Frame(c, b, Ending(e))
               k == Compiled(bufs, end)
    <3>4. f \in Seq(BodyToken) /\ k \in Seq(BodyToken)
      BY <3>2, <3>3, FrameSeq, EndingSeq
    <3>5. wire = <<h>> \o f /\ wire' = wire \o k
      BY <3>2
    <3> HIDE DEF f, k
    <3>6. wire' = <<h>> \o (f \o k) /\ f \o k \in Seq(BodyToken)
      BY <3>4, <3>5, HeadInFront, ConcatProperties
    <3>7. wire'[1] = h /\ wire[1] = h
      BY <3>4, <3>5, <3>6, HeadInFront
    <3>8. h \in Token
      <4>1. wire \in Seq(Token)
        BY DEF ReadInv, OutgoingTypeOK
      <4>2. Len(wire) \in Nat \ {0}
        BY <3>1, <4>1, EmptySeq
      <4>3. 1 \in 1 .. Len(wire)
        BY <4>2
      <4> QED
        BY <3>7, <4>1, <4>3, ElementOfSeq
    <3>9. b = body /\ c = isChunked /\ ~e
      BY <3>2
    <3>10. (isChunked <=> Announces(h)) /\ h.length # "sum"
      BY <3>2, <3>9 DEF Fits
    <3>11. ASSUME isChunked PROVE \A i \in 1 .. Len(body') : body'[i] > 0
      <4>1. (\A i \in 1 .. Len(body) : body[i] > 0) /\ \A i \in 1 .. Len(bufs) : bufs[i] > 0
        BY <3>2, <3>3, <3>9, <3>11 DEF Fits, Printable
      <4>2. /\ Len(body') = Len(body) + Len(bufs)
            /\ \A i \in 1 .. Len(body) + Len(bufs) :
                  body'[i] = IF i <= Len(body) THEN body[i] ELSE bufs[i - Len(body)]
            /\ Len(body) \in Nat /\ Len(bufs) \in Nat
        BY ConcatProperties, LenProperties DEF OutgoingInv
      <4> QED
        BY <4>1, <4>2
    <3>12. Fits(h, isChunked', end, body')
      BY <3>3, <3>10, <3>11 DEF Fits
    <3> QED
      BY <2>1, <3>2, <3>7, <3>8, <3>12
  <2>3. CASE ~headersSent
    <3> DEFINE h == Headers(bufs, end)
               f == Frame(isChunked', bufs, Ending(end))
    <3>1. wire = <<>> /\ body = <<>>
      BY <2>3 DEF OutgoingInv, HeadersSentExact, WireExact
    <3>2. body' = bufs
      BY <3>1, ConcatEmptySeq
    <3>3. Compiled(bufs, end) = <<h>> \o f
      BY <2>3, CompiledFirst
    <3>4. h \in Token /\ Fits(h, isChunked', end, bufs)
      BY <2>3, HeadersFit DEF ReadInv
    <3>5. f \in Seq(BodyToken)
      BY FrameSeq, EndingSeq
    <3>6. h.t = "head"
      BY HeadersIsHead
    <3> HIDE DEF h, f
    <3>7. wire' = <<h>> \o f
      <4>1. <<h>> \o f \in Seq(Token)
        BY <3>4, <3>5, HeadedTokens
      <4> QED
        BY <3>1, <3>3, <4>1, ConcatEmptySeq
    <3> QED
      BY <3>2, <3>4, <3>6, <3>7, Zenon DEF f
  <2> QED
    BY <2>2, <2>3
<1>4. PICK h : /\ h \in Token /\ h.t = "head"
               /\ wire' = <<h>> \o Frame(isChunked', body', Ending(end))
               /\ Fits(h, isChunked', end, body')
  BY <1>3
<1>5. wire' \in Seq(Token)
  BY <1>2, <1>4, HeadedTokens
<1>6. Readable'
  <2>1. end = ~writable'
    OBVIOUS
  <2> QED
    BY <1>1, <1>4, <2>1 DEF Readable
<1> QED
  BY <1>5, <1>6

\* The fields of the message stay within their types.
LEMMA TypesKept ==
    ASSUME OutgoingTypeOK, OutgoingInv', wire' \in Seq(Token), [OutgoingNext]_outgoingVars
    PROVE  OutgoingTypeOK'
<1>1. body' \in Seq(Nat)
  <2>1. body' \in Seq(Sizes)
    BY DEF OutgoingInv
  <2> QED
    BY <2>1, LengthsAssumption, SeqMonotonic
<1> DEFINE Fields == /\ contentLength' \in {"none", "user"}
                     /\ encoding' \in {"none", "chunked"} \union Encodings
                     /\ headersSent' \in BOOLEAN
                     /\ isChunked' \in BOOLEAN
                     /\ writable' \in BOOLEAN
                     /\ socket' \in {"open", "ended", "gone"}
<1>2. \A bufs, end : Chunked(bufs, end) \in BOOLEAN
  BY DEF Chunked, OutgoingTypeOK
<1>3. \A bufs, end : Headers(bufs, end).encoding \in {"none", "chunked"} \union Encodings
  BY DEF Headers, OutgoingTypeOK
<1>4. ASSUME NEW bufs, NEW end, Compile(bufs, end), UNCHANGED <<writable, socket>>
      PROVE  Fields
  <2>1. isChunked' \in BOOLEAN
    BY <1>2, <1>4 DEF Compile
  <2>2. CASE Writes(bufs, end) /\ ~headersSent
    BY <1>4, <2>1, <2>2 DEF Compile, OutgoingTypeOK
  <2>3. CASE ~(Writes(bufs, end) /\ ~headersSent)
    BY <1>3, <1>4, <2>1, <2>3 DEF Compile, OutgoingTypeOK
  <2> QED
    BY <2>2, <2>3
<1>5. ASSUME NEW bufs, Call(bufs) PROVE Fields
  <2>1. CASE Write(bufs) \/ \E end \in BOOLEAN : Throw(bufs, end)
    <3>1. \E end : Compile(bufs, end) /\ UNCHANGED <<writable, socket>>
      BY <2>1 DEF Write, Throw
    <3> QED
      BY <1>4, <3>1
  <2>2. CASE End(bufs)
    BY <1>2, <2>2 DEF End, Finish, OutgoingTypeOK
  <2>3. CASE WriteNowhere(bufs) \/ EndNowhere(bufs)
    BY <2>3 DEF WriteNowhere, EndNowhere, OutgoingTypeOK
  <2> QED
    BY <1>5, <2>1, <2>2, <2>3 DEF Call
<1>6. ASSUME SetContentLength \/ \E e \in Encodings : SetEncoding(e)
      PROVE  Fields
  BY <1>6 DEF SetContentLength, SetEncoding, OutgoingTypeOK
<1>7. ASSUME SocketEnds \/ Destroy \/ UNCHANGED outgoingVars
      PROVE  Fields
  BY <1>7 DEF SocketEnds, Destroy, outgoingVars, OutgoingTypeOK
<1> HIDE DEF Fields
<1>8. Fields
  BY <1>5, <1>6, <1>7 DEF OutgoingNext
<1> QED
  BY <1>1, <1>8 DEF OutgoingTypeOK, Fields

\* A step that leaves the wire alone, and either the message or the socket's refusal
LEMMA ReadableKept ==
    ASSUME Readable, wire' = wire,
           UNCHANGED <<isChunked, writable, socket, body>> \/ socket' # "open"
    PROVE  Readable'
<1>1. CASE wire = <<>>
  BY <1>1 DEF Readable
<1>2. CASE wire # <<>>
  <2>1. PICK h, c, e, b :
            /\ h.t = "head" /\ c \in BOOLEAN /\ e \in BOOLEAN /\ b \in Seq(Sizes)
            /\ wire = <<h>> \o Frame(c, b, Ending(e))
            /\ Fits(h, c, e, b)
            /\ socket = "open" => b = body /\ c = isChunked /\ e = ~writable
    BY <1>2 DEF Readable
  <2>2. wire' = <<h>> \o Frame(c, b, Ending(e))
    BY <2>1
  <2>3. socket' = "open" => b = body' /\ c = isChunked' /\ e = ~writable'
    BY <2>1
  <2> QED
    BY <2>1, <2>2, <2>3, Zenon DEF Readable
<1> QED
  BY <1>1, <1>2

LEMMA WriteReadable ==
    ASSUME OutgoingInv, ReadInv, Encodings \subseteq {"chunked"},
           NEW bufs \in Seq(Sizes), Write(bufs)
    PROVE  Readable' /\ wire' \in Seq(Token)
<1>1. CASE Writes(bufs, FALSE)
  <2>1. bufs # <<>> \/ headersSent \/ ~Chunked(bufs, FALSE)
    BY <1>1 DEF Writes
  <2> QED
    BY <1>1, <2>1, WriteReads DEF Write, Compile
<1>2. CASE ~Writes(bufs, FALSE)
  <2>1. bufs = <<>> /\ (headersSent \/ Chunked(bufs, FALSE))
    BY <1>2 DEF Writes
  <2>2. wire' = wire /\ body' = body /\ UNCHANGED <<writable, socket>>
    BY <1>2, <2>1, ConcatEmptySeq DEF Write, OutgoingInv
  <2>3. wire' \in Seq(Token)
    BY <2>2 DEF ReadInv, OutgoingTypeOK
  <2>4. CASE headersSent
    <3>1. isChunked' = isChunked
      BY <2>4, CompiledBehind DEF Write, Compile
    <3> QED
      BY <2>2, <2>3, <3>1, ReadableKept DEF ReadInv
  <2>5. CASE ~headersSent
    <3>1. wire = <<>>
      BY <2>5 DEF OutgoingInv, HeadersSentExact, Write
    <3> QED
      BY <2>2, <2>3, <3>1 DEF Readable
  <2> QED
    BY <2>4, <2>5
<1> QED
  BY <1>1, <1>2

\* http_write() declares chunks itself only when there is no content-length.
LEMMA OneHeaderKept ==
    ASSUME ~BothHeaders, OneHeader, [OutgoingNext]_outgoingVars PROVE OneHeader'
<1>1. ASSUME NEW bufs, NEW end, Compile(bufs, end) PROVE OneHeader'
  <2>1. CASE Writes(bufs, end) /\ ~headersSent
    BY <1>1, <2>1 DEF Compile, OneHeader
  <2>2. CASE ~(Writes(bufs, end) /\ ~headersSent) /\ headersSent
    BY <1>1, <2>2 DEF Compile, OneHeader
  <2>3. CASE ~(Writes(bufs, end) /\ ~headersSent) /\ ~headersSent
    <3>1. /\ encoding' = Headers(bufs, end).encoding
          /\ contentLength' = contentLength
      BY <1>1, <2>3 DEF Compile
    <3>2. encoding' = encoding \/ Chunked(bufs, end)
      BY <3>1 DEF Headers
    <3>3. Chunked(bufs, end) => contentLength = "none"
      BY <2>3 DEF Chunked
    <3> QED
      BY <3>1, <3>2, <3>3 DEF OneHeader
  <2> QED
    BY <2>1, <2>2, <2>3
<1>2. ASSUME NEW bufs, Call(bufs) PROVE OneHeader'
  <2>1. CASE Write(bufs)
    BY <1>1, <2>1 DEF Write
  <2>2. CASE \E end \in BOOLEAN : Throw(bufs, end)
    BY <1>1, <2>2 DEF Throw
  <2>3. CASE End(bufs) \/ WriteNowhere(bufs) \/ EndNowhere(bufs)
    BY <2>3 DEF End, Finish, WriteNowhere, EndNowhere, OneHeader
  <2> QED
    BY <1>2, <2>1, <2>2, <2>3 DEF Call
<1>3. CASE SetContentLength \/ \E e \in Encodings : SetEncoding(e)
  BY <1>3 DEF SetContentLength, SetEncoding, OneHeader
<1>4. CASE SocketEnds \/ Destroy \/ UNCHANGED outgoingVars
  BY <1>4 DEF SocketEnds, Destroy, outgoingVars, OneHeader
<1> QED
  BY <1>2, <1>3, <1>4 DEF OutgoingNext

LEMMA NextReadable ==
    ASSUME ~BareEnd, ~BothHeaders, Encodings \subseteq {"chunked"}, OutgoingInv, ReadInv,
           [OutgoingNext]_outgoingVars
    PROVE  ReadInv'
<1>1. Readable' /\ wire' \in Seq(Token)
  <2>0. Readable /\ wire \in Seq(Token)
    BY DEF ReadInv, OutgoingTypeOK
  <2>1. ASSUME NEW bufs \in BoundedSeq(Sizes, MaxBufs), Call(bufs)
        PROVE  Readable' /\ wire' \in Seq(Token)
    <3>1. bufs \in Seq(Sizes)
      BY DEF BoundedSeq, SeqOf
    <3>2. CASE Write(bufs)
      BY <3>1, <3>2, WriteReadable
    <3>3. CASE End(bufs)
      BY <3>1, <3>3, WriteReads DEF End, Finish
    <3>4. CASE (\E end \in BOOLEAN : Throw(bufs, end)) \/ WriteNowhere(bufs)
               \/ EndNowhere(bufs)
      <4>1. wire' = wire /\ socket' # "open"
        BY <3>4 DEF Throw, WriteNowhere, EndNowhere
      <4> QED
        BY <2>0, <4>1, ReadableKept
    <3> QED
      BY <2>1, <3>2, <3>3, <3>4 DEF Call
  <2>2. CASE SetContentLength \/ \E e \in Encodings : SetEncoding(e)
    <3>1. UNCHANGED <<isChunked, writable, socket, wire, body>>
      BY <2>2 DEF SetContentLength, SetEncoding
    <3> QED
      BY <2>0, <3>1, ReadableKept
  <2>3. CASE SocketEnds \/ Destroy
    <3>1. wire' = wire /\ socket' # "open"
      BY <2>3 DEF SocketEnds, Destroy
    <3> QED
      BY <2>0, <3>1, ReadableKept
  <2>4. CASE UNCHANGED outgoingVars
    BY <2>0, <2>4, ReadableKept DEF outgoingVars
  <2> QED
    BY <2>1, <2>2, <2>3, <2>4 DEF OutgoingNext
<1>2. OutgoingInv'
  BY NextOutgoing
<1> QED
  BY <1>1, <1>2, TypesKept, OneHeaderKept DEF ReadInv

LEMMA InitReadable == OutgoingInit => ReadInv
<1> SUFFICES ASSUME OutgoingInit PROVE ReadInv
  OBVIOUS
<1>1. wire \in Seq(Token) /\ body \in Seq(Nat)
  BY EmptySeq DEF OutgoingInit
<1> QED
  BY <1>1 DEF OutgoingInit, ReadInv, OutgoingTypeOK, Readable, OneHeader

\* A peer that follows the head reads the body the program wrote and nothing else,
\* of the length the head announces, for any number of calls, chunks and sizes (in
\* chunks, other than zero: Printable).  The program keeps three rules: end() has a
\* chunk unless something was written, the head declares a length or an encoding
\* but not both, and the encoding is "chunked" itself, no list (DeclaredEncoding).
THEOREM BodyIsReadable ==
    ASSUME ~BareEnd, ~BothHeaders, Encodings \subseteq {"chunked"}
    PROVE  OutgoingSpec => []BodyReadable
<1>1. OutgoingInit => OutgoingInv /\ ReadInv
  BY InitOutgoing, InitReadable
<1>2. OutgoingInv /\ ReadInv /\ [OutgoingNext]_outgoingVars
      => OutgoingInv' /\ ReadInv'
  BY NextOutgoing, NextReadable
<1>3. OutgoingInv /\ ReadInv => BodyReadable
  BY ReadableIsRead
<1> QED
  BY <1>1, <1>2, <1>3, PTL DEF OutgoingSpec

-----------------------------------------------------------------------------
(* Incoming messages: the headers as a fold *)

\* The values of headers without the empty piece
Texts == Values \ {""}

\* What the peer sent for one header
Line == [name : Seq(Pieces), value : Seq(Texts)]

LEMMA AddedTo ==
    \A h, name, v :
        /\ DOMAIN AddTo(h, name, v) = {name} \union DOMAIN h
        /\ AddTo(h, name, v)[name] =
               (IF name \in DOMAIN h THEN h[name] ELSE <<>>) \o <<v>>
        /\ \A other \in DOMAIN h \ {name} : AddTo(h, name, v)[other] = h[other]
  BY DEF AddTo

\* The headers that some lines make
HeadersOf(s) ==
    FoldLeft(LAMBDA h, l : AddTo(h, LowerCase(l.name), l.value), <<>>, s)

LEMMA HeadersOfFolds == ASSUME NEW s \in Seq(Line) PROVE HeadersOf(s) = Fold("add", <<>>, s)
<1> DEFINE Adds(f, D) ==
               f = [T \in SUBSET D |->
                       IF T = {} THEN <<>>
                       ELSE LET x == Max(T)
                            IN  AddTo(f[T \ {x}], LowerCase(s[x].name), s[x].value)]
           F == CHOOSE f : Adds(f, DOMAIN s)
<1>1. HeadersOf(s) = F[DOMAIN s]
  BY Zenon DEF HeadersOf, FoldLeft, MapThenFoldSet
<1>2. \A f, D : Folds("add", f, <<>>, s, D) <=> Adds(f, D)
  BY StepAdds, ZenonT(60) DEF Folds
<1>3. Len(s) \in Nat /\ DOMAIN s = 1 .. Len(s)
  BY LenProperties
<1>4. PICK h : Folds("add", h, <<>>, s, DOMAIN s)
  BY <1>3, FoldsExist
<1> HIDE DEF Adds
<1>5. Adds(F, DOMAIN s)
  BY <1>2, <1>4, Zenon
<1> HIDE DEF F
<1> QED
  BY <1>1, <1>2, <1>3, <1>5, FoldFound

LEMMA HeadersOfNothing == HeadersOf(<<>>) = <<>>
<1>1. <<>> \in Seq(Line)
  BY EmptySeq
<1> QED
  BY <1>1, HeadersOfFolds, FoldEmpty

LEMMA HeadersOfOneMore ==
    ASSUME NEW s \in Seq(Line), NEW l \in Line
    PROVE  HeadersOf(Append(s, l)) =
               AddTo(HeadersOf(s), LowerCase(l.name), l.value)
<1>1. Append(s, l) \in Seq(Line)
  BY AppendProperties
<1>2. Fold("add", <<>>, Append(s, l)) = Step("add", Fold("add", <<>>, s), l)
  BY FoldAppend
<1> QED
  BY <1>1, <1>2, HeadersOfFolds, StepAdds

LEMMA CombinedIs == Combined = HeadersOf(sent)
  BY Zenon DEF Combined, HeadersOf

-----------------------------------------------------------------------------
(* Types *)

IncomingTypes ==
    /\ IncomingTypeOK
    /\ sent \in Seq(Line)
    /\ phase \in {"field", "value", "trailerField", "trailerValue"} => sent # <<>>

LEMMA NonEmptyText == \A v \in Values : NonEmpty(v) \in Seq(Texts)
<1> TAKE v \in Values
<1>1. CASE v = ""
  <2>1. NonEmpty(v) = <<>>
    BY <1>1 DEF NonEmpty
  <2> QED
    BY <2>1, EmptySeq
<1>2. CASE v # ""
  <2>1. NonEmpty(v) = <<v>> /\ v \in Texts
    BY <1>2 DEF NonEmpty, Texts
  <2> QED
    BY <2>1
<1> QED
  BY <1>1, <1>2

LEMMA AddToTyped ==
    ASSUME NEW h, NEW name, NEW v \in Seq(Texts),
           \A n \in DOMAIN h : h[n] \in Seq(Seq(Texts))
    PROVE  \A n \in DOMAIN AddTo(h, name, v) : AddTo(h, name, v)[n] \in Seq(Seq(Texts))
<1>1. <<v>> \in Seq(Seq(Texts)) /\ <<>> \in Seq(Seq(Texts))
  OBVIOUS
<1>2. (IF name \in DOMAIN h THEN h[name] ELSE <<>>) \in Seq(Seq(Texts))
  BY <1>1
<1>3. (IF name \in DOMAIN h THEN h[name] ELSE <<>>) \o <<v>> \in Seq(Seq(Texts))
  BY <1>1, <1>2, ConcatProperties
<1> QED
  BY <1>3, AddedTo DEF AddTo

\* What the callbacks do to the partial header and to the headers
LEMMA PartialsTyped ==
    ASSUME IncomingTypeOK, NEW f \in Seq(Pieces), NEW v \in Seq(Texts), AddHeaderPartials(f, v)
    PROVE  /\ field' \in Seq(Pieces) /\ value' \in Seq(Texts)
           /\ \A name \in DOMAIN headers' : headers'[name] \in Seq(Seq(Texts))
<1>1. /\ field \in Seq(Pieces) /\ value \in Seq(Texts)
      /\ \A name \in DOMAIN headers : headers[name] \in Seq(Seq(Texts))
  BY DEF IncomingTypeOK, Texts
<1>2. CASE LineComplete
  <2>1. headers' = AddTo(headers, LowerCase(field), value) /\ field' = f /\ value' = v
    BY <1>2 DEF AddHeaderPartials
  <2> QED
    BY <1>1, <2>1, AddToTyped, Zenon
<1>3. CASE ~LineComplete
  <2>1. headers' = headers /\ field' = field \o f /\ value' = value \o v
    BY <1>3 DEF AddHeaderPartials
  <2> QED
    BY <1>1, <2>1, ConcatProperties
<1> QED
  BY <1>2, <1>3

\* Another piece of the last header's name, or of its value
LEMMA LastLine ==
    ASSUME NEW s \in Seq(Line), s # <<>>, NEW l \in Line
    PROVE  /\ [s EXCEPT ![Len(s)] = l] \in Seq(Line)
           /\ [s EXCEPT ![Len(s)] = l] # <<>>
<1>1. Len(s) \in 1 .. Len(s) /\ Len(s) # 0
  BY EmptySeq
<1>2. [s EXCEPT ![Len(s)] = l] \in Seq(Line) /\ Len([s EXCEPT ![Len(s)] = l]) = Len(s)
  BY <1>1, ExceptSeq
<1> QED
  BY <1>1, <1>2, EmptySeq

LEMMA FieldTyped ==
    ASSUME IncomingTypes, NEW p \in Pieces, OnHeaderField(p) PROVE IncomingTypes'
<1>1. <<p>> \in Seq(Pieces) /\ <<>> \in Seq(Texts)
  OBVIOUS
<1>2. /\ field' \in Seq(Pieces) /\ value' \in Seq(Texts)
      /\ \A name \in DOMAIN headers' : headers'[name] \in Seq(Seq(Texts))
  BY <1>1, PartialsTyped DEF OnHeaderField, IncomingTypes
<1>3. IncomingTypeOK'
  BY <1>2 DEF OnHeaderField, IncomingTypes, IncomingTypeOK, Texts, urlVars
<1>4. sent' \in Seq(Line) /\ sent' # <<>>
  <2>1. CASE phase = phase'
    <3>1. sent # <<>> /\ sent \in Seq(Line)
      BY <2>1 DEF OnHeaderField, IncomingTypes
    <3>2. sent[Len(sent)] \in Line
      BY <3>1, EmptySeq, ElementOfSeq
    <3> DEFINE l == [sent[Len(sent)] EXCEPT !.name = Append(@, p)]
    <3>3. l \in Line
      <4>1. Append(sent[Len(sent)].name, p) \in Seq(Pieces)
        BY <3>2, AppendProperties DEF Line
      <4> QED
        BY <3>2, <4>1 DEF Line
    <3>4. sent' = [sent EXCEPT ![Len(sent)] = l]
      BY <2>1 DEF OnHeaderField
    <3> HIDE DEF l
    <3> QED
      BY <3>1, <3>3, <3>4, LastLine
  <2>2. CASE phase # phase'
    <3> DEFINE l == [name |-> <<p>>, value |-> <<>>]
    <3>1. l \in Line
      BY <1>1 DEF Line
    <3>2. sent' = Append(sent, l) /\ sent \in Seq(Line)
      BY <2>2 DEF OnHeaderField, IncomingTypes
    <3> HIDE DEF l
    <3>3. Len(sent') = Len(sent) + 1 /\ sent' \in Seq(Line) /\ Len(sent) \in Nat
      BY <3>1, <3>2, AppendProperties, LenProperties
    <3> QED
      BY <3>3, EmptySeq
  <2> QED
    BY <2>1, <2>2
<1> QED
  BY <1>3, <1>4 DEF IncomingTypes

LEMMA ValueTyped ==
    ASSUME IncomingTypes, NEW v \in Values, OnHeaderValue(v) PROVE IncomingTypes'
<1>1. <<>> \in Seq(Pieces) /\ NonEmpty(v) \in Seq(Texts)
  BY NonEmptyText
<1>2. /\ field' \in Seq(Pieces) /\ value' \in Seq(Texts)
      /\ \A name \in DOMAIN headers' : headers'[name] \in Seq(Seq(Texts))
  BY <1>1, PartialsTyped DEF OnHeaderValue, IncomingTypes
<1>3. IncomingTypeOK'
  BY <1>2 DEF OnHeaderValue, IncomingTypes, IncomingTypeOK, Texts, urlVars
<1>4. sent' \in Seq(Line) /\ sent' # <<>>
  <2>1. sent # <<>> /\ sent \in Seq(Line)
    BY DEF OnHeaderValue, IncomingTypes
  <2>2. sent[Len(sent)] \in Line
    BY <2>1, EmptySeq, ElementOfSeq
  <2> DEFINE l == [sent[Len(sent)] EXCEPT !.value = @ \o NonEmpty(v)]
  <2>3. l \in Line
    <3>1. sent[Len(sent)].value \o NonEmpty(v) \in Seq(Texts)
      BY <1>1, <2>2, ConcatProperties DEF Line
    <3> QED
      BY <2>2, <3>1 DEF Line
  <2>4. sent' = [sent EXCEPT ![Len(sent)] = l]
    BY DEF OnHeaderValue
  <2> HIDE DEF l
  <2> QED
    BY <2>1, <2>3, <2>4, LastLine
<1> QED
  BY <1>3, <1>4 DEF IncomingTypes

LEMMA IncomingTyped ==
    ASSUME IncomingTypes, [IncomingNext]_incomingVars PROVE IncomingTypes'
<1> USE DEF IncomingTypes
<1>1. ASSUME NEW p \in Pieces, OnUrl(p) PROVE IncomingTypes'
  <2>1. Append(generic, p) \in Seq(Pieces \union {"method"})
    <3>1. generic \in Seq(Pieces \union {"method"}) /\ p \in Pieces \union {"method"}
      BY DEF IncomingTypeOK
    <3> QED
      BY <3>1, AppendProperties
  <2> QED
    BY <1>1, <2>1 DEF OnUrl, IncomingTypeOK, urlVars
<1>2. ASSUME NEW up \in BOOLEAN, OnHeadersComplete(up) PROVE IncomingTypes'
  <2>1. /\ field' \in Seq(Pieces) /\ value' \in Seq(Texts)
        /\ \A name \in DOMAIN headers' : headers'[name] \in Seq(Seq(Texts))
    BY <1>2, EmptySeq, PartialsTyped DEF OnHeadersComplete
  <2>2. <<"method">> \in Seq(Pieces \union {"method"})
    OBVIOUS
  <2> QED
    BY <1>2, <2>1, <2>2 DEF OnHeadersComplete, SetUrl, IncomingTypeOK, Texts, history
<1>3. CASE OnMessageComplete
  <2>1. <<>> \in Seq(Line)
    BY EmptySeq
  <2> QED
    BY <1>3, <2>1 DEF OnMessageComplete, IncomingTypeOK, lines, urlVars
<1>6. CASE MessageEnded
  <2>1. <<>> \in Seq(Line) /\ <<>> \in Seq(Pieces \union {"method"})
    BY EmptySeq
  <2>2. generic' = <<>> /\ headers' = <<>> /\ urlState' = "uninitialized"
    BY <1>6 DEF MessageEnded, SetUrl
  <2>3. DOMAIN headers' = {}
    BY <2>2
  <2> QED
    BY <1>6, <2>1, <2>2, <2>3 DEF MessageEnded, IncomingTypeOK
<1>4. CASE OnError \/ UNCHANGED incomingVars
  BY <1>4 DEF OnError, incomingVars, lines, urlVars, history, IncomingTypeOK
<1>5. CASE IsWebsocketRequest \/ Get \/ Params \/ ParamsOfNothing
  BY <1>5 DEF IsWebsocketRequest, Get, Params, ParamsOfNothing, ParseUrl, lines, urlVars,
              history, IncomingTypeOK
<1> QED
  BY <1>1, <1>2, <1>3, <1>4, <1>5, <1>6, FieldTyped, ValueTyped DEF IncomingNext

-----------------------------------------------------------------------------
(* The invariant *)

\* The lines whose value is complete are in headers, the last one is on its way.
PartialLine ==
    \E s \in Seq(Line) :
        /\ sent = Append(s, [name |-> field, value |-> value])
        /\ headers = HeadersOf(s)

LinesInOrder ==
    whole /\ ~taken =>
        /\ phase \in {"start", "url"} =>
               headers = <<>> /\ field = <<>> /\ value = <<>> /\ sent = <<>>
        /\ phase = "field" => field # <<>> /\ value = <<>> /\ PartialLine
        /\ phase = "value" => field # <<>> /\ value # <<>> /\ PartialLine
        /\ phase \in {"body", "ending"} =>
               field = <<>> /\ value = <<>> /\ headers = HeadersOf(sent)
        /\ phase \notin {"trailerField", "trailerValue"}

UrlInOrder ==
    ~taken =>
        /\ phase = "start" => generic = <<>> /\ sentUrl = <<>>
        /\ phase \in {"url", "field", "value"} => generic = sentUrl
        /\ phase \in {"body", "trailerField", "trailerValue", "ending"} =>
               url = sentUrl /\ generic = <<"method">>

\* No end_event for what was known to be a websocket request
LateKnown == phase = "ending" /\ isWebsocket = "yes" => late

IncomingInv ==
    /\ IncomingTypes /\ LinesInOrder /\ UrlInOrder /\ UrlCacheFresh
    /\ LateKnown /\ WebsocketKeepsHeaders

LEMMA IncomingBegins == IncomingInit => IncomingInv
<1> SUFFICES ASSUME IncomingInit PROVE IncomingInv
  OBVIOUS
<1>1. IncomingTypes
  <2>1. DOMAIN headers = {} /\ sent \in Seq(Line)
    BY EmptySeq DEF IncomingInit
  <2>2. generic \in Seq(Pieces \union {"method"}) /\ field \in Seq(Pieces)
        /\ value \in Seq(Values \ {""})
    BY EmptySeq DEF IncomingInit
  <2> QED
    BY <2>1, <2>2 DEF IncomingInit, IncomingTypes, IncomingTypeOK
<1> QED
  BY <1>1 DEF IncomingInit, IncomingInv, LinesInOrder, UrlInOrder, UrlCacheFresh,
              LateKnown, WebsocketKeepsHeaders

LEMMA UrlKept ==
    ASSUME IncomingTypes, UrlInOrder, [IncomingNext]_incomingVars PROVE UrlInOrder'
<1> USE DEF UrlInOrder
<1>1. ASSUME NEW p \in Pieces, OnUrl(p) PROVE UrlInOrder'
  BY <1>1 DEF OnUrl
<1>2. ASSUME NEW p \in Pieces, OnHeaderField(p) PROVE UrlInOrder'
  <2>1. /\ \/ phase' = "field" /\ phase \in {"url", "field", "value"}
           \/ /\ phase' = "trailerField"
              /\ phase \notin {"start", "url", "field", "value", "ending", "dead"}
        /\ UNCHANGED <<generic, sentUrl, taken, url>>
    BY <1>2 DEF OnHeaderField, urlVars
  <2>2. phase' = "trailerField" => phase \in {"body", "trailerField", "trailerValue"}
    BY <2>1 DEF IncomingTypes, IncomingTypeOK
  <2> QED
    BY <2>1, <2>2
<1>3. ASSUME NEW v \in Values, OnHeaderValue(v) PROVE UrlInOrder'
  <2>1. /\ \/ phase' = "value" /\ phase \in {"field", "value"}
           \/ phase' = "trailerValue" /\ phase \in {"trailerField", "trailerValue"}
        /\ UNCHANGED <<generic, sentUrl, taken, url>>
    BY <1>3 DEF OnHeaderValue, urlVars
  <2> QED
    BY <2>1
<1>4. ASSUME NEW up \in BOOLEAN, OnHeadersComplete(up) PROVE UrlInOrder'
  BY <1>4 DEF OnHeadersComplete, SetUrl, history
<1>5. CASE OnMessageComplete \/ MessageEnded
  <2>1. CASE OnMessageComplete
    BY <2>1 DEF OnMessageComplete, lines, urlVars
  <2>2. CASE MessageEnded
    BY <2>2 DEF MessageEnded, SetUrl
  <2> QED
    BY <1>5, <2>1, <2>2
<1>6. CASE OnError
  BY <1>6 DEF OnError, history
<1>7. CASE IsWebsocketRequest \/ Get \/ Params \/ ParamsOfNothing \/ UNCHANGED incomingVars
  <2>1. UNCHANGED <<phase, generic, url, sentUrl, taken>>
    BY <1>7 DEF IsWebsocketRequest, Get, Params, ParamsOfNothing, incomingVars, lines, urlVars, history
  <2> QED
    BY <2>1
<1> QED
  BY <1>1, <1>2, <1>3, <1>4, <1>5, <1>6, <1>7 DEF IncomingNext

LEMMA UrlCacheKept ==
    ASSUME UrlCacheFresh, [IncomingNext]_incomingVars PROVE UrlCacheFresh'
BY DEF UrlCacheFresh, IncomingNext, incomingVars, lines, urlVars, history, OnUrl, OnHeaderField, OnHeaderValue,
       OnHeadersComplete, SetUrl, OnMessageComplete, MessageEnded, OnError, IsWebsocketRequest, Get, Params,
       ParamsOfNothing, ParseUrl

\* Appending never loses a header nor what it has.
LEMMA PartialsGrow ==
    ASSUME IncomingTypeOK, NEW f, NEW v, AddHeaderPartials(f, v)
    PROVE  \A name \in DOMAIN headers :
               /\ name \in DOMAIN headers'
               /\ IsPrefix(headers[name], headers'[name])
<1> TAKE name \in DOMAIN headers
<1>1. headers[name] \in Seq(Seq(Texts))
  BY DEF IncomingTypeOK, Texts
<1>2. IsPrefix(headers[name], headers[name])
  BY <1>1 DEF IsPrefix
<1>3. CASE LineComplete
  <2> DEFINE h == AddTo(headers, LowerCase(field), value)
  <2>1. name \in DOMAIN h
    BY DEF AddTo
  <2>2. CASE name = LowerCase(field)
    <3>1. h[name] = headers[name] \o <<value>>
      BY <2>2 DEF AddTo
    <3>2. <<value>> \in Seq(Seq(Texts))
      <4>1. value \in Seq(Texts)
        BY DEF IncomingTypeOK, Texts
      <4> QED
        BY <4>1
    <3>3. IsPrefix(headers[name], headers[name] \o <<value>>)
      BY <1>1, <3>2 DEF IsPrefix
    <3> QED
      BY <3>1, <3>3, <2>1, <1>3 DEF AddHeaderPartials
  <2>3. CASE name # LowerCase(field)
    <3>1. h[name] = headers[name]
      BY <2>3 DEF AddTo
    <3> QED
      BY <1>2, <3>1, <2>1, <1>3 DEF AddHeaderPartials
  <2> QED
    BY <2>2, <2>3
<1>4. CASE ~LineComplete
  BY <1>2, <1>4 DEF AddHeaderPartials
<1> QED
  BY <1>3, <1>4

LEMMA HeadersGrow ==
    ASSUME IncomingTypes, [IncomingNext]_incomingVars, phase' # "start"
    PROVE  \A name \in DOMAIN headers :
               /\ name \in DOMAIN headers'
               /\ IsPrefix(headers[name], headers'[name])
<1>1. ASSUME NEW f, NEW v, AddHeaderPartials(f, v)
      PROVE  \A name \in DOMAIN headers :
                 /\ name \in DOMAIN headers'
                 /\ IsPrefix(headers[name], headers'[name])
  BY <1>1, PartialsGrow DEF IncomingTypes
<1>2. ASSUME UNCHANGED headers
      PROVE  \A name \in DOMAIN headers :
                 /\ name \in DOMAIN headers'
                 /\ IsPrefix(headers[name], headers'[name])
  <2> TAKE name \in DOMAIN headers
  <2>1. headers[name] \in Seq(Seq(Texts))
    BY DEF IncomingTypes, IncomingTypeOK, Texts
  <2>2. IsPrefix(headers[name], headers[name])
    BY <2>1 DEF IsPrefix
  <2> QED
    BY <1>2, <2>2
<1>3. ASSUME NEW p \in Pieces, OnHeaderField(p) PROVE AddHeaderPartials(<<p>>, <<>>)
  BY <1>3 DEF OnHeaderField
<1>4. ASSUME NEW v \in Values, OnHeaderValue(v) PROVE AddHeaderPartials(<<>>, NonEmpty(v))
  BY <1>4 DEF OnHeaderValue
<1>5. ASSUME NEW up \in BOOLEAN, OnHeadersComplete(up) PROVE AddHeaderPartials(<<>>, <<>>)
  BY <1>5 DEF OnHeadersComplete
<1>6. ASSUME NEW p \in Pieces, OnUrl(p) PROVE UNCHANGED headers
  BY <1>6 DEF OnUrl
<1>7. CASE MessageEnded
  BY <1>7 DEF MessageEnded
<1>8. CASE OnMessageComplete \/ OnError \/ IsWebsocketRequest \/ Get \/ Params \/ ParamsOfNothing \/ UNCHANGED incomingVars
  <2>1. UNCHANGED headers
    BY <1>8 DEF OnMessageComplete, OnError, IsWebsocketRequest, Get, Params, ParamsOfNothing, incomingVars, lines
  <2> QED
    BY <2>1, <1>2
<1> QED
  BY <1>1, <1>2, <1>3, <1>4, <1>5, <1>6, <1>7, <1>8 DEF IncomingNext

LEMMA LateKept ==
    ASSUME LateKnown, [IncomingNext]_incomingVars PROVE LateKnown'
BY DEF LateKnown, IncomingNext, incomingVars, history, OnUrl, OnHeaderField, OnHeaderValue,
       OnHeadersComplete, OnMessageComplete, MessageEnded, OnError, IsWebsocketRequest, Get,
       Params, ParamsOfNothing

LEMMA WebsocketKept ==
    ASSUME IncomingTypes, LateKnown, WebsocketKeepsHeaders, [IncomingNext]_incomingVars
    PROVE  WebsocketKeepsHeaders'
<1>1. CASE MessageEnded
  BY <1>1 DEF MessageEnded, WebsocketKeepsHeaders, LateKnown
<1>2. CASE IsWebsocketRequest
  BY <1>2 DEF IsWebsocketRequest, WebsocketKeepsHeaders, lines
<1>3. CASE ~MessageEnded /\ ~IsWebsocketRequest
  <2>1. isWebsocket' = isWebsocket /\ late' = late
    BY <1>3 DEF IncomingNext, incomingVars, history, OnUrl, OnHeaderField, OnHeaderValue,
                OnHeadersComplete, OnMessageComplete, OnError, Get, Params, ParamsOfNothing
  <2>2. phase' # "start" \/ UNCHANGED headers
    BY <1>3 DEF IncomingNext, incomingVars, lines, OnUrl, OnHeaderField, OnHeaderValue,
                OnHeadersComplete, OnMessageComplete, OnError, Get, Params, ParamsOfNothing
  <2> QED
    BY <2>1, <2>2, HeadersGrow DEF WebsocketKeepsHeaders
<1> QED
  BY <1>1, <1>2, <1>3

\* The piece of the last header
LEMMA LastReplaced ==
    ASSUME NEW s \in Seq(Line), NEW l \in Line, NEW m \in Line
    PROVE  [Append(s, l) EXCEPT ![Len(Append(s, l))] = m] = Append(s, m)
<1> DEFINE t == Append(s, l)
           u == [t EXCEPT ![Len(t)] = m]
           w == Append(s, m)
<1>1. /\ t \in Seq(Line) /\ Len(t) = Len(s) + 1 /\ Len(s) \in Nat
      /\ \A i \in 1 .. Len(s) : t[i] = s[i]
      /\ w \in Seq(Line) /\ Len(w) = Len(s) + 1 /\ w[Len(s) + 1] = m
      /\ \A i \in 1 .. Len(s) : w[i] = s[i]
  BY AppendProperties, LenProperties
<1>2. u \in Seq(Line) /\ Len(u) = Len(t)
  BY <1>1, ExceptSeq
<1>3. ASSUME NEW i \in 1 .. Len(u) PROVE u[i] = w[i]
  <2>1. i \in DOMAIN t /\ Len(s) + 1 \in DOMAIN t /\ Len(t) = Len(s) + 1
    BY <1>1, <1>2, LenProperties
  <2>2. u[i] = IF i = Len(t) THEN m ELSE t[i]
    BY <2>1
  <2>3. i \in 1 .. Len(s) \/ i = Len(s) + 1
    BY <1>1, <1>2
  <2> HIDE DEF t, u, w
  <2> QED
    BY <1>1, <2>1, <2>2, <2>3
<1> QED
  BY <1>1, <1>2, <1>3, SeqEqual

LEMMA FieldInOrder ==
    ASSUME IncomingTypes, LinesInOrder, NEW p \in Pieces, OnHeaderField(p)
    PROVE  LinesInOrder'
<1> SUFFICES ASSUME whole', ~taken'
             PROVE  phase' = "field" /\ field' # <<>> /\ value' = <<>> /\ PartialLine'
  BY DEF LinesInOrder
<1>1. whole /\ ~taken /\ phase' = "field" /\ phase \in {"url", "field", "value"}
  BY DEF OnHeaderField
<1>2. /\ <<p>> \in Seq(Pieces) /\ <<p>> # <<>> /\ <<>> \in Seq(Texts)
      /\ field \in Seq(Pieces) /\ value \in Seq(Texts)
  <2>1. field \in Seq(Pieces) /\ value \in Seq(Texts)
    BY DEF IncomingTypes, IncomingTypeOK, Texts
  <2> QED
    BY <2>1
<1>3. CASE phase = "url"
  <2>1. field = <<>> /\ value = <<>> /\ headers = <<>> /\ sent = <<>>
    BY <1>1, <1>3 DEF LinesInOrder
  <2>2. field' = <<p>> /\ value' = <<>> /\ headers' = <<>>
    BY <2>1, <1>2 DEF OnHeaderField, AddHeaderPartials, LineComplete
  <2>3. sent' = Append(<<>>, [name |-> <<p>>, value |-> <<>>])
    BY <2>1, <1>1, <1>3 DEF OnHeaderField
  <2>4. <<>> \in Seq(Line)
    BY EmptySeq
  <2> QED
    BY <1>1, <1>2, <2>2, <2>3, <2>4, HeadersOfNothing DEF PartialLine
<1>4. CASE phase = "field"
  <2>1. field # <<>> /\ value = <<>> /\ PartialLine
    BY <1>1, <1>4 DEF LinesInOrder
  <2>2. PICK s \in Seq(Line) : /\ sent = Append(s, [name |-> field, value |-> <<>>])
                               /\ headers = HeadersOf(s)
    BY <2>1 DEF PartialLine
  <2>3. field' = Append(field, p) /\ value' = <<>> /\ headers' = headers
    <3>1. field \o <<p>> = Append(field, p)
      BY <1>2
    <3>2. <<>> \o <<>> = <<>>
      OBVIOUS
    <3> QED
      BY <2>1, <3>1, <3>2 DEF OnHeaderField, AddHeaderPartials, LineComplete
  <2> DEFINE l == [name |-> field, value |-> <<>>]
             m == [name |-> Append(field, p), value |-> <<>>]
  <2>4. l \in Line /\ m \in Line
    BY <1>2, AppendProperties DEF Line
  <2>5. sent[Len(sent)] = l
    BY <2>2, <2>4, AppendProperties
  <2>6. [sent[Len(sent)] EXCEPT !.name = Append(@, p)] = m
    BY <2>5
  <2>7. sent' = [sent EXCEPT ![Len(sent)] = m]
    <3>1. sent' = [sent EXCEPT ![Len(sent)] = [sent[Len(sent)] EXCEPT !.name = Append(@, p)]]
      BY <1>1, <1>4 DEF OnHeaderField
    <3> QED
      BY <3>1, <2>6
  <2>8. sent' = Append(s, m)
    BY <2>2, <2>4, <2>7, LastReplaced
  <2>9. field' # <<>>
    BY <2>3, <1>2, AppendProperties, EmptySeq
  <2> QED
    BY <1>1, <2>2, <2>3, <2>8, <2>9 DEF PartialLine
<1>5. CASE phase = "value"
  <2>1. field # <<>> /\ value # <<>> /\ PartialLine
    BY <1>1, <1>5 DEF LinesInOrder
  <2>2. PICK s \in Seq(Line) : /\ sent = Append(s, [name |-> field, value |-> value])
                               /\ headers = HeadersOf(s)
    BY <2>1 DEF PartialLine
  <2>3. field' = <<p>> /\ value' = <<>> /\ headers' = AddTo(headers, LowerCase(field), value)
    BY <2>1 DEF OnHeaderField, AddHeaderPartials, LineComplete
  <2>4. sent' = Append(sent, [name |-> <<p>>, value |-> <<>>])
    BY <1>1, <1>5 DEF OnHeaderField
  <2>5. headers' = HeadersOf(sent)
    <3> DEFINE l == [name |-> field, value |-> value]
    <3>1. l \in Line
      BY <1>2 DEF Line
    <3>2. HeadersOf(Append(s, l)) = AddTo(HeadersOf(s), LowerCase(l.name), l.value)
      BY <3>1, HeadersOfOneMore
    <3> QED
      BY <2>2, <2>3, <3>2
  <2>6. sent \in Seq(Line)
    BY DEF IncomingTypes
  <2> QED
    BY <1>1, <1>2, <2>3, <2>4, <2>5, <2>6 DEF PartialLine
<1> QED
  BY <1>1, <1>3, <1>4, <1>5

LEMMA ValueInOrder ==
    ASSUME IncomingTypes, LinesInOrder, NEW v \in Values, OnHeaderValue(v)
    PROVE  LinesInOrder'
<1> SUFFICES ASSUME whole', ~taken'
             PROVE  phase' = "value" /\ field' # <<>> /\ value' # <<>> /\ PartialLine'
  BY DEF LinesInOrder
<1>1. whole /\ ~taken /\ phase = "field" /\ phase' = "value" /\ v # ""
  BY DEF OnHeaderValue
<1>2. field # <<>> /\ value = <<>> /\ PartialLine /\ field \in Seq(Pieces)
  BY <1>1 DEF LinesInOrder, IncomingTypes, IncomingTypeOK
<1>3. PICK s \in Seq(Line) : /\ sent = Append(s, [name |-> field, value |-> <<>>])
                             /\ headers = HeadersOf(s)
  BY <1>2 DEF PartialLine
<1>4. NonEmpty(v) = <<v>> /\ v \in Texts
  BY <1>1 DEF NonEmpty, Texts
<1>5. <<>> \o <<v>> = <<v>> /\ field \o <<>> = field /\ <<v>> # <<>>
  BY <1>2
<1>6. field' = field /\ value' = <<v>> /\ headers' = headers
  BY <1>2, <1>4, <1>5 DEF OnHeaderValue, AddHeaderPartials, LineComplete
<1> DEFINE l == [name |-> field, value |-> <<>>]
           m == [name |-> field, value |-> <<v>>]
<1>7. l \in Line /\ m \in Line
  BY <1>2, <1>4, EmptySeq DEF Line
<1>8. sent[Len(sent)] = l
  BY <1>3, <1>7, AppendProperties
<1>9. [sent[Len(sent)] EXCEPT !.value = @ \o <<v>>] = m
  BY <1>5, <1>8
<1>10. sent' = [sent EXCEPT ![Len(sent)] = m]
  <2>1. sent' = [sent EXCEPT ![Len(sent)] = [sent[Len(sent)] EXCEPT !.value = @ \o <<v>>]]
    BY <1>4 DEF OnHeaderValue
  <2> QED
    BY <2>1, <1>9
<1>11. sent' = Append(s, m)
  BY <1>3, <1>7, <1>10, LastReplaced
<1> QED
  BY <1>1, <1>2, <1>3, <1>5, <1>6, <1>11 DEF PartialLine

LEMMA CompleteInOrder ==
    ASSUME IncomingTypes, LinesInOrder, NEW up \in BOOLEAN, OnHeadersComplete(up)
    PROVE  LinesInOrder'
<1> SUFFICES ASSUME whole', ~taken'
             PROVE  /\ phase' = "body"
                    /\ field' = <<>> /\ value' = <<>> /\ headers' = HeadersOf(sent')
  BY DEF LinesInOrder
<1>1. /\ whole /\ ~taken /\ phase' = "body" /\ sent' = sent
      /\ phase \in {"url", "value"} /\ AddHeaderPartials(<<>>, <<>>)
  BY DEF OnHeadersComplete, history
<1>2. CASE phase = "url"
  <2>1. field = <<>> /\ value = <<>> /\ headers = <<>> /\ sent = <<>>
    BY <1>1, <1>2 DEF LinesInOrder
  <2> QED
    BY <1>1, <2>1, HeadersOfNothing DEF AddHeaderPartials, LineComplete
<1>3. CASE phase = "value"
  <2>1. field # <<>> /\ value # <<>> /\ PartialLine
    BY <1>1, <1>3 DEF LinesInOrder
  <2>2. PICK s \in Seq(Line) : /\ sent = Append(s, [name |-> field, value |-> value])
                               /\ headers = HeadersOf(s)
    BY <2>1 DEF PartialLine
  <2>3. field' = <<>> /\ value' = <<>> /\ headers' = AddTo(headers, LowerCase(field), value)
    BY <1>1, <2>1 DEF AddHeaderPartials, LineComplete
  <2> DEFINE l == [name |-> field, value |-> value]
  <2>4. l \in Line
    BY DEF Line, IncomingTypes, IncomingTypeOK, Texts
  <2>5. HeadersOf(Append(s, l)) = AddTo(HeadersOf(s), LowerCase(l.name), l.value)
    BY <2>4, HeadersOfOneMore
  <2> QED
    BY <1>1, <2>2, <2>3, <2>5
<1> QED
  BY <1>1, <1>2, <1>3

LEMMA LinesKept ==
    ASSUME IncomingTypes, LinesInOrder, [IncomingNext]_incomingVars PROVE LinesInOrder'
<1>1. ASSUME NEW p \in Pieces, OnUrl(p) PROVE LinesInOrder'
  BY <1>1 DEF LinesInOrder, OnUrl
<1>2. CASE OnMessageComplete \/ MessageEnded
  <2>1. CASE OnMessageComplete
    <3> SUFFICES ASSUME whole', ~taken'
                 PROVE  /\ phase' = "ending" /\ field' = <<>> /\ value' = <<>>
                        /\ headers' = HeadersOf(sent')
      BY DEF LinesInOrder
    <3>1. /\ phase' = "ending" /\ whole /\ ~taken /\ phase = "body"
          /\ UNCHANGED <<field, value, headers, sent>>
      BY <2>1 DEF LinesInOrder, OnMessageComplete, lines
    <3> QED
      BY <3>1 DEF LinesInOrder
  <2>2. CASE MessageEnded
    <3> SUFFICES ASSUME whole', ~taken'
                 PROVE  /\ phase' = "start" /\ headers' = <<>> /\ sent' = <<>>
                        /\ field' = <<>> /\ value' = <<>>
      BY DEF LinesInOrder
    <3> QED
      BY <2>2 DEF LinesInOrder, MessageEnded
  <2> QED
    BY <1>2, <2>1, <2>2
<1>3. CASE OnError
  <2>1. phase' = "dead" /\ whole' = whole /\ taken' = taken
    BY <1>3 DEF OnError, history
  <2> QED
    BY <2>1 DEF LinesInOrder
<1>4. CASE IsWebsocketRequest \/ Get \/ Params \/ ParamsOfNothing \/ UNCHANGED incomingVars
  <2>1. UNCHANGED <<phase, headers, field, value, sent, whole, taken>>
    BY <1>4 DEF IsWebsocketRequest, Get, Params, ParamsOfNothing, incomingVars, lines, history
  <2> QED
    BY <2>1 DEF LinesInOrder, PartialLine
<1> QED
  BY <1>1, <1>2, <1>3, <1>4, FieldInOrder, ValueInOrder, CompleteInOrder DEF IncomingNext

LEMMA IncomingKept ==
    ASSUME IncomingInv, [IncomingNext]_incomingVars PROVE IncomingInv'
BY IncomingTyped, LinesKept, UrlKept, UrlCacheKept, LateKept, WebsocketKept DEF IncomingInv

LEMMA IncomingAlways == IncomingSpec => []IncomingInv
<1>1. IncomingInv /\ [IncomingNext]_incomingVars => IncomingInv'
  BY IncomingKept
<1> QED
  BY <1>1, IncomingBegins, PTL DEF IncomingSpec

\* The message the program reads is the one the peer sent, up to the last listener
\* of end_event: URL and the cache of its parts for every division into pieces and
\* every order of the accessors, the headers as long as no value came split or
\* empty on the connection (whole); complete headers only grow, and a websocket
\* request keeps them unless a listener of end_event is the first to ask (late;
\* incoming_message.cc:13-366).
THEOREM MessageIsExact == IncomingSpec => MessageExact
<1>1. IncomingInv => /\ IncomingTypeOK /\ HeadersExact /\ UrlExact
                     /\ UrlCacheFresh /\ WebsocketKeepsHeaders
  BY CombinedIs DEF IncomingInv, IncomingTypes, LinesInOrder, UrlInOrder, HeadersExact, UrlExact
<1>2. IncomingInv /\ [IncomingNext]_incomingVars =>
          [messages' = messages /\ phase' # "start" =>
               \A name \in DOMAIN headers :
                   /\ name \in DOMAIN headers'
                   /\ IsPrefix(headers[name], headers'[name])]_incomingVars
  BY HeadersGrow DEF IncomingInv
<1> QED
  BY <1>1, <1>2, IncomingAlways, PTL DEF IncomingSpec, MessageExact, HeadersOnlyGrow

LEMMA QuotientIs == ASSUME NEW b \in Nat, b > 0, NEW q \in Nat, NEW r \in 0 .. b - 1
  PROVE (b * q + r) \div b = q /\ (b * q + r) % b = r
  OBVIOUS

-----------------------------------------------------------------------------
(* The folds of the encodings and digests *)

LEMMA ZerosSeq ==
    ASSUME NEW n \in Nat
    PROVE  /\ Zeros(n) \in Seq({0})
           /\ Len(Zeros(n)) = n
           /\ DOMAIN Zeros(n) = 1 .. n
           /\ \A i \in 1 .. n : Zeros(n)[i] = 0
  BY DEF Zeros

LEMMA JoinedFolds ==
    ASSUME NEW S, NEW s \in Seq(S)
    PROVE  Joined(s) = Fold("join", <<>>, s)
<1> DEFINE Makes(f, D) ==
               f = [T \in SUBSET D |->
                       IF T = {} THEN <<>>
                       ELSE LET x == Max(T) IN f[T \ {x}] \o s[x]]
           F == CHOOSE f : Makes(f, DOMAIN s)
<1>1. Joined(s) = F[DOMAIN s]
  BY Zenon DEF Joined, FoldLeft, MapThenFoldSet
<1>2. \A f, D : Folds("join", f, <<>>, s, D) <=> Makes(f, D)
  BY StepJoins, Zenon DEF Folds
<1>3. Len(s) \in Nat /\ DOMAIN s = 1 .. Len(s)
  BY LenProperties
<1>4. PICK h : Folds("join", h, <<>>, s, DOMAIN s)
  BY <1>3, FoldsExist
<1> HIDE DEF Makes
<1>5. Makes(F, DOMAIN s)
  BY <1>2, <1>4, Zenon
<1> HIDE DEF F
<1> QED
  BY <1>1, <1>2, <1>3, <1>5, FoldFound

LEMMA PushAllFolds ==
    ASSUME NEW S, NEW s \in Seq(S), NEW z
    PROVE  PushAll(z, s) = Fold("sha", z, s)
<1> DEFINE Makes(f, D) ==
               f = [T \in SUBSET D |->
                       IF T = {} THEN z
                       ELSE LET x == Max(T) IN PushImpl(f[T \ {x}], s[x])]
           F == CHOOSE f : Makes(f, DOMAIN s)
<1>1. PushAll(z, s) = F[DOMAIN s]
  BY Zenon DEF PushAll, FoldLeft, MapThenFoldSet
<1>2. \A f, D : Folds("sha", f, z, s, D) <=> Makes(f, D)
  BY StepPads, Zenon DEF Folds
<1>3. Len(s) \in Nat /\ DOMAIN s = 1 .. Len(s)
  BY LenProperties
<1>4. PICK h : Folds("sha", h, z, s, DOMAIN s)
  BY <1>3, FoldsExist
<1> HIDE DEF Makes
<1>5. Makes(F, DOMAIN s)
  BY <1>2, <1>4, Zenon
<1> HIDE DEF F
<1> QED
  BY <1>1, <1>2, <1>3, <1>5, FoldFound

LEMMA XorsFold ==
    ASSUME NEW S, NEW s \in Seq(S), NEW z
    PROVE  FoldLeft(Xor, z, s) = Fold("xor", z, s)
<1> DEFINE Makes(f, D) ==
               f = [T \in SUBSET D |->
                       IF T = {} THEN z
                       ELSE LET x == Max(T) IN Xor(f[T \ {x}], s[x])]
           F == CHOOSE f : Makes(f, DOMAIN s)
<1>1. FoldLeft(Xor, z, s) = F[DOMAIN s]
  BY Zenon DEF FoldLeft, MapThenFoldSet
<1>2. \A f, D : Folds("xor", f, z, s, D) <=> Makes(f, D)
  BY StepXors, Zenon DEF Folds
<1>3. Len(s) \in Nat /\ DOMAIN s = 1 .. Len(s)
  BY LenProperties
<1>4. PICK h : Folds("xor", h, z, s, DOMAIN s)
  BY <1>3, FoldsExist
<1> HIDE DEF Makes
<1>5. Makes(F, DOMAIN s)
  BY <1>2, <1>4, Zenon
<1> HIDE DEF F
<1> QED
  BY <1>1, <1>2, <1>3, <1>5, FoldFound

LEMMA XorAllFolds ==
    ASSUME NEW S, NEW s \in Seq(S) PROVE XorAll(s) = Fold("xor", {}, s)
  BY XorsFold DEF XorAll

LEMMA ShiftByteFolds ==
    ASSUME NEW c
    PROVE  ShiftByte(c) = Fold("bit", c, Zeros(8))
<1> DEFINE Makes(f, D) ==
               f = [T \in SUBSET D |->
                       IF T = {} THEN c
                       ELSE LET x == Max(T) IN ShiftBit(f[T \ {x}])]
           F == CHOOSE f : Makes(f, DOMAIN Zeros(8))
<1>1. ShiftByte(c) = F[DOMAIN Zeros(8)]
  BY Zenon DEF ShiftByte, FoldLeft, MapThenFoldSet
<1>2. \A f, D : Folds("bit", f, c, Zeros(8), D) <=> Makes(f, D)
  BY StepShifts, Zenon DEF Folds
<1>3. Len(Zeros(8)) \in Nat /\ DOMAIN Zeros(8) = 1 .. Len(Zeros(8))
  BY ZerosSeq
<1>4. PICK h : Folds("bit", h, c, Zeros(8), DOMAIN Zeros(8))
  BY <1>3, FoldsExist
<1> HIDE DEF Makes
<1>5. Makes(F, DOMAIN Zeros(8))
  BY <1>2, <1>4, Zenon
<1> HIDE DEF F
<1> QED
  BY <1>1, <1>2, <1>3, <1>5, FoldFound

LEMMA BytewiseFolds ==
    ASSUME NEW S, NEW s \in Seq(S), NEW c
    PROVE  FoldLeft(PushByte, c, s) = Fold("crc", c, s)
<1> DEFINE Makes(f, D) ==
               f = [T \in SUBSET D |->
                       IF T = {} THEN c
                       ELSE LET x == Max(T) IN PushByte(f[T \ {x}], s[x])]
           F == CHOOSE f : Makes(f, DOMAIN s)
<1>1. FoldLeft(PushByte, c, s) = F[DOMAIN s]
  BY Zenon DEF FoldLeft, MapThenFoldSet
<1>2. \A f, D : Folds("crc", f, c, s, D) <=> Makes(f, D)
  BY StepBytes, Zenon DEF Folds
<1>3. Len(s) \in Nat /\ DOMAIN s = 1 .. Len(s)
  BY LenProperties
<1>4. PICK h : Folds("crc", h, c, s, DOMAIN s)
  BY <1>3, FoldsExist
<1> HIDE DEF Makes
<1>5. Makes(F, DOMAIN s)
  BY <1>2, <1>4, Zenon
<1> HIDE DEF F
<1> QED
  BY <1>1, <1>2, <1>3, <1>5, FoldFound

LEMMA WordwiseFolds ==
    ASSUME NEW S, NEW s \in Seq(S), NEW c
    PROVE  FoldLeft(PushWords, c, s) = Fold("words", c, s)
<1> DEFINE Makes(f, D) ==
               f = [T \in SUBSET D |->
                       IF T = {} THEN c
                       ELSE LET x == Max(T) IN PushWords(f[T \ {x}], s[x])]
           F == CHOOSE f : Makes(f, DOMAIN s)
<1>1. FoldLeft(PushWords, c, s) = F[DOMAIN s]
  BY Zenon DEF FoldLeft, MapThenFoldSet
<1>2. \A f, D : Folds("words", f, c, s, D) <=> Makes(f, D)
  BY StepWords, Zenon DEF Folds
<1>3. Len(s) \in Nat /\ DOMAIN s = 1 .. Len(s)
  BY LenProperties
<1>4. PICK h : Folds("words", h, c, s, DOMAIN s)
  BY <1>3, FoldsExist
<1> HIDE DEF Makes
<1>5. Makes(F, DOMAIN s)
  BY <1>2, <1>4, Zenon
<1> HIDE DEF F
<1> QED
  BY <1>1, <1>2, <1>3, <1>5, FoldFound

-----------------------------------------------------------------------------
(* SHA-1: the blocks are the message and its padding *)

LEMMA JoinedNothing == Joined(<<>>) = <<>>
<1>1. <<>> \in Seq({})
  BY EmptySeq
<1> QED
  BY <1>1, JoinedFolds, FoldEmpty

LEMMA JoinedOneMore ==
    ASSUME NEW S, NEW s \in Seq(S), NEW x \in S
    PROVE  Joined(Append(s, x)) = Joined(s) \o x
<1>1. Append(s, x) \in Seq(S)
  BY AppendProperties
<1>2. Fold("join", <<>>, Append(s, x)) = Step("join", Fold("join", <<>>, s), x)
  BY FoldAppend
<1> QED
  BY <1>1, <1>2, JoinedFolds, StepJoins

\* The message so far, of which the last bytes are no block yet
Holds(s, data) ==
    /\ s \in [block : Seq(Nat), blocks : Seq(Seq(Nat))]
    /\ Len(s.block) < BlockSize
    /\ Joined(s.blocks) \in Seq(Nat)
    /\ Len(Joined(s.blocks)) = BlockSize * Len(s.blocks)
    /\ Joined(s.blocks) \o s.block = data

LEMMA AppendBehind ==
    ASSUME NEW a \in Seq(Nat), NEW b \in Seq(Nat), NEW x \in Nat
    PROVE  Append(a \o b, x) = a \o Append(b, x)
<1>1. <<x>> \in Seq(Nat)
  OBVIOUS
<1>2. b \o <<x>> = Append(b, x)
  OBVIOUS
<1>3. a \o b \in Seq(Nat)
  BY ConcatProperties
<1>4. (a \o b) \o <<x>> = Append(a \o b, x)
  BY <1>3
<1>5. (a \o b) \o <<x>> = a \o (b \o <<x>>)
  BY <1>1, ConcatAssociative
<1> QED
  BY <1>2, <1>4, <1>5

LEMMA PushImplHolds ==
    ASSUME NEW data \in Seq(Nat), NEW s, Holds(s, data), NEW b \in Nat
    PROVE  Holds(PushImpl(s, b), Append(data, b))
<1> DEFINE j == Joined(s.blocks)
           u == Append(s.block, b)
<1>1. /\ s \in [block : Seq(Nat), blocks : Seq(Seq(Nat))]
      /\ s.block \in Seq(Nat) /\ s.blocks \in Seq(Seq(Nat))
      /\ Len(s.block) < BlockSize
      /\ j \in Seq(Nat) /\ Len(j) = BlockSize * Len(s.blocks) /\ j \o s.block = data
  BY DEF Holds
<1>2. BlockSize \in Nat
  BY InputAssumption
<1>3. /\ u \in Seq(Nat) /\ Len(u) = Len(s.block) + 1 /\ Len(s.block) \in Nat
      /\ Len(s.blocks) \in Nat
  BY <1>1, AppendProperties, LenProperties
<1>4. j \o u = Append(data, b)
  <2>1. s.block \in Seq(Nat) /\ j \in Seq(Nat)
    BY <1>1
  <2>2. j \o s.block = data
    BY <1>1
  <2> HIDE DEF j
  <2>3. Append(j \o s.block, b) = j \o Append(s.block, b)
    BY <2>1, AppendBehind
  <2> QED
    BY <2>2, <2>3
<1> HIDE DEF u
<1>5. CASE Len(s.block) + 1 = BlockSize
  <2>1. PushImpl(s, b) = [block |-> <<>>, blocks |-> Append(s.blocks, u)]
    BY <1>5 DEF PushImpl, u
  <2> DEFINE t == PushImpl(s, b)
  <2>2. t.block = <<>> /\ t.blocks = Append(s.blocks, u)
        /\ t \in [block : Seq(Nat), blocks : Seq(Seq(Nat))]
    <3>1. Append(s.blocks, u) \in Seq(Seq(Nat)) /\ <<>> \in Seq(Nat)
      BY <1>1, <1>3, AppendProperties, EmptySeq
    <3> QED
      BY <2>1, <3>1
  <2>3. Joined(t.blocks) = j \o u
    BY <1>1, <1>3, <2>2, JoinedOneMore
  <2>4. Len(t.blocks) = Len(s.blocks) + 1
    BY <1>1, <1>3, <2>2, AppendProperties
  <2>5. j \o u \in Seq(Nat) /\ Len(j \o u) = Len(j) + BlockSize
    <3>1. j \in Seq(Nat) /\ u \in Seq(Nat) /\ Len(u) = BlockSize
      BY <1>1, <1>3, <1>5
    <3> HIDE DEF j
    <3>2. j \o u \in Seq(Nat) /\ Len(j \o u) = Len(j) + Len(u)
      BY <3>1, ConcatProperties
    <3> QED
      BY <3>1, <3>2
  <2>6. Len(j \o u) = BlockSize * (Len(s.blocks) + 1)
    BY <1>1, <1>2, <1>3, <2>5
  <2>7. (j \o u) \o <<>> = j \o u
    BY <2>5
  <2>8. Len(t.block) < BlockSize
    BY <2>2, InputAssumption
  <2> HIDE DEF t, j
  <2>9. Holds(t, Append(data, b))
    BY <1>4, <2>2, <2>3, <2>4, <2>5, <2>6, <2>7, <2>8 DEF Holds
  <2> QED
    BY <2>9 DEF t
<1>6. CASE Len(s.block) + 1 # BlockSize
  <2>1. PushImpl(s, b) = [s EXCEPT !.block = u]
    BY <1>6 DEF PushImpl, u
  <2> DEFINE t == PushImpl(s, b)
  <2>2. t.block = u /\ t.blocks = s.blocks
        /\ t \in [block : Seq(Nat), blocks : Seq(Seq(Nat))]
    BY <1>1, <1>3, <2>1
  <2>3. Len(u) < BlockSize
    BY <1>1, <1>2, <1>3, <1>6
  <2> HIDE DEF t
  <2>4. Holds(t, Append(data, b))
    BY <1>1, <1>4, <2>2, <2>3 DEF Holds
  <2> QED
    BY <2>4 DEF t
<1> QED
  BY <1>5, <1>6

LEMMA PushAllHolds ==
    ASSUME NEW data \in Seq(Nat), NEW s, Holds(s, data), NEW more \in Seq(Nat)
    PROVE  Holds(PushAll(s, more), data \o more)
<1> DEFINE n == Len(more)
           T == {i \in 0 .. n : Holds(Fold("sha", s, SubSeq(more, 1, i)),
                                      data \o SubSeq(more, 1, i))}
<1>1. n \in Nat
  BY LenProperties
<1>2. 0 \in T
  <2>1. SubSeq(more, 1, 0) = <<>>
    BY SubSeqEmpty
  <2>2. Fold("sha", s, <<>>) = s
    BY FoldEmpty
  <2>3. data \o <<>> = data
    OBVIOUS
  <2>4. Holds(Fold("sha", s, SubSeq(more, 1, 0)), data \o SubSeq(more, 1, 0))
    BY <2>1, <2>2, <2>3
  <2>5. 0 \in 0 .. n
    BY <1>1
  <2> QED
    BY <2>4, <2>5
<1>3. ASSUME NEW i \in 0 .. n - 1, i \in T PROVE i + 1 \in T
  <2> DEFINE a == SubSeq(more, 1, i)
             b == more[i + 1]
  <2>1. i + 1 \in 1 .. n /\ i + 1 \in 0 .. n /\ (i + 1) - 1 = i
    BY <1>1
  <2>2. /\ a \in Seq(Nat) /\ b \in Nat
    <3>1. \A k \in 1 .. i : more[k] \in Nat
      BY <2>1, ElementOfSeq
    <3>2. a \in Seq(Nat)
      BY <3>1, SubSeqProperties
    <3> QED
      BY <2>1, <3>2, ElementOfSeq
  <2>3. SubSeq(more, 1, i + 1) = Append(a, b)
    <3>1. 1 \in 1 .. Len(more) /\ i + 1 \in 1 .. Len(more)
      BY <2>1
    <3>2. SubSeq(more, 1, i + 1) = SubSeq(more, 1, (i + 1) - 1) \o <<more[i + 1]>>
      BY <3>1, SubSeqRecursiveSecond
    <3>3. a \o <<b>> = Append(a, b)
      BY <2>2
    <3> QED
      BY <2>1, <3>2, <3>3
  <2>4. Holds(Fold("sha", s, a), data \o a)
    BY <1>3
  <2> HIDE DEF a, b
  <2>5. Fold("sha", s, Append(a, b)) = PushImpl(Fold("sha", s, a), b)
    <3>1. Fold("sha", s, Append(a, b)) = Step("sha", Fold("sha", s, a), b)
      BY <2>2, FoldAppend
    <3> QED
      BY <3>1, StepPads
  <2>6. data \o a \in Seq(Nat)
    BY <2>2, ConcatProperties
  <2>7. Holds(PushImpl(Fold("sha", s, a), b), Append(data \o a, b))
    BY <2>2, <2>4, <2>6, PushImplHolds
  <2>8. Append(data \o a, b) = data \o Append(a, b)
    BY <2>2, AppendBehind
  <2>9. Holds(Fold("sha", s, SubSeq(more, 1, i + 1)), data \o SubSeq(more, 1, i + 1))
    BY <2>3, <2>5, <2>7, <2>8
  <2> QED
    BY <2>1, <2>9
<1> HIDE DEF T
<1>4. 0 .. n \subseteq T
  BY <1>1, <1>2, <1>3, Upward
<1>5. Holds(Fold("sha", s, SubSeq(more, 1, n)), data \o SubSeq(more, 1, n))
  BY <1>1, <1>4 DEF T
<1>6. SubSeq(more, 1, n) = more
  BY SubSeqFull
<1> QED
  BY <1>5, <1>6, PushAllFolds

LEMMA HoldsLength ==
    ASSUME NEW data \in Seq(Nat), NEW s, Holds(s, data)
    PROVE  /\ Len(s.blocks) \in Nat /\ Len(s.block) \in 0 .. BlockSize - 1
           /\ Len(data) = BlockSize * Len(s.blocks) + Len(s.block)
<1> DEFINE j == Joined(s.blocks)
<1>1. /\ s.block \in Seq(Nat) /\ s.blocks \in Seq(Seq(Nat))
      /\ Len(s.block) < BlockSize
      /\ j \in Seq(Nat) /\ Len(j) = BlockSize * Len(s.blocks) /\ j \o s.block = data
  BY DEF Holds
<1> HIDE DEF j
<1>2. Len(s.blocks) \in Nat /\ Len(s.block) \in Nat
  BY <1>1, LenProperties
<1>3. Len(j \o s.block) = Len(j) + Len(s.block)
  BY <1>1, ConcatProperties
<1>4. BlockSize \in Nat
  BY InputAssumption
<1>5. Len(s.block) \in 0 .. BlockSize - 1
  BY <1>1, <1>2, <1>4
<1> QED
  BY <1>1, <1>2, <1>3, <1>5

LEMMA HoldsWhole ==
    ASSUME NEW data \in Seq(Nat), NEW s, Holds(s, data),
           NEW m \in Nat, Len(data) = BlockSize * m
    PROVE  s.block = <<>> /\ Joined(s.blocks) = data
<1> DEFINE k == Len(s.blocks)
           r == Len(s.block)
<1>1. k \in Nat /\ r \in 0 .. BlockSize - 1 /\ BlockSize * m = BlockSize * k + r
  BY HoldsLength
<1>2. BlockSize \in Nat /\ BlockSize > 0 /\ 0 \in 0 .. BlockSize - 1
  BY InputAssumption
<1>3. r = 0
  <2> HIDE DEF k, r
  <2>1. (BlockSize * k + r) % BlockSize = r
    BY <1>1, <1>2, QuotientIs
  <2>2. (BlockSize * m + 0) % BlockSize = 0
    BY <1>2, QuotientIs
  <2> HIDE <1>2
  <2>3. BlockSize * m + 0 = BlockSize * m
    BY InputAssumption
  <2> QED
    BY <1>1, <2>1, <2>2, <2>3
<1>4. /\ s.block \in Seq(Nat) /\ Joined(s.blocks) \in Seq(Nat)
      /\ Joined(s.blocks) \o s.block = data
  BY DEF Holds
<1>5. s.block = <<>>
  BY <1>3, <1>4, EmptySeq
<1>6. Joined(s.blocks) \o <<>> = Joined(s.blocks)
  BY <1>4
<1> QED
  BY <1>4, <1>5, <1>6

LEMMA ZerosConcat ==
    ASSUME NEW a \in Nat, NEW b \in Nat
    PROVE  Zeros(a) \o Zeros(b) = Zeros(a + b)
<1> DEFINE l == Zeros(a) \o Zeros(b)
           r == Zeros(a + b)
<1>1. /\ Zeros(a) \in Seq({0}) /\ Len(Zeros(a)) = a
      /\ Zeros(b) \in Seq({0}) /\ Len(Zeros(b)) = b
  BY ZerosSeq
<1>2. /\ l \in Seq({0}) /\ Len(l) = a + b
      /\ \A i \in 1 .. a + b : l[i] \in {0}
  <2>1. l \in Seq({0}) /\ Len(l) = a + b
    BY <1>1, ConcatProperties
  <2> HIDE DEF l
  <2> QED
    BY <2>1, ElementOfSeq
<1>3. a + b \in Nat
  OBVIOUS
<1>4. r \in Seq({0}) /\ Len(r) = a + b /\ \A i \in 1 .. a + b : r[i] = 0
  BY <1>3, ZerosSeq
<1> HIDE DEF l, r
<1>5. \A i \in 1 .. Len(l) : l[i] = r[i]
  BY <1>2, <1>4
<1>6. l = r
  BY <1>2, <1>4, <1>5, SeqEqual
<1> QED
  BY <1>6 DEF l, r

LEMMA ZerosNat == ASSUME NEW n \in Nat PROVE Zeros(n) \in Seq(Nat)
  BY DEF Zeros

\* What comes before the padding does not matter
LEMMA Padded ==
    ASSUME NEW data \in Seq(Nat), NEW a \in Nat, NEW b \in Nat, NEW end \in Seq(Nat)
    PROVE  data \o ((Zeros(a) \o Zeros(b)) \o end) = (data \o Zeros(a + b)) \o end
<1>1. a + b \in Nat
  OBVIOUS
<1>2. Zeros(a + b) \in Seq(Nat)
  BY <1>1, ZerosNat
<1>3. (data \o Zeros(a + b)) \o end = data \o (Zeros(a + b) \o end)
  BY <1>2, ConcatAssociative
<1> QED
  BY <1>3, ZerosConcat

LEMMA PaddedTwice ==
    ASSUME NEW data \in Seq(Nat), NEW a \in Nat, NEW b \in Nat
    PROVE  (data \o Zeros(a)) \o Zeros(b) = data \o Zeros(a + b)
<1>1. Zeros(a) \in Seq(Nat) /\ Zeros(b) \in Seq(Nat)
  BY ZerosNat
<1>2. (data \o Zeros(a)) \o Zeros(b) = data \o (Zeros(a) \o Zeros(b))
  BY <1>1, ConcatAssociative
<1> QED
  BY <1>2, ZerosConcat

LEMMA NothingHolds == Holds([block |-> <<>>, blocks |-> <<>>], <<>>)
<1> DEFINE s == [block |-> <<>>, blocks |-> <<>>]
<1>1. <<>> \in Seq(Nat) /\ <<>> \in Seq(Seq(Nat)) /\ Len(<<>>) = 0 /\ <<>> \o <<>> = <<>>
  BY EmptySeq
<1>2. /\ s.block = <<>> /\ s.blocks = <<>>
      /\ s \in [block : Seq(Nat), blocks : Seq(Seq(Nat))]
  BY <1>1
<1>3. BlockSize \in Nat /\ 0 < BlockSize /\ 0 = BlockSize * 0
  BY InputAssumption
<1> HIDE DEF s
<1>4. Holds(s, <<>>)
  BY <1>1, <1>2, <1>3, JoinedNothing DEF Holds
<1> QED
  BY <1>4 DEF s

LEMMA PaddingHolds == ASSUME bytes \in Seq(Nat) PROVE PaddingExact
<1> DEFINE L == Len(bytes)
           B == BlockSize
           room == B - 8
           d == Append(bytes, 128)
           s == PushImpl(PushAll([block |-> <<>>, blocks |-> <<>>], bytes), 128)
           k == Len(s.blocks)
           r == Len(s.block)
           t == IF r > room THEN PushAll(s, Zeros(B - r)) ELSE s
           bits == 8 * L
           end == <<bits \div 256, bits % 256>>
           more == (Zeros(room - Len(t.block)) \o Zeros(6)) \o end
           all == Joined(Digest.blocks)
<1>1. L \in Nat /\ B \in Nat /\ B > 8 /\ room \in Nat
  BY LenProperties, InputAssumption
<1>2. Digest = PushAll(t, more)
  BY DEF Digest
<1>3. Holds(s, d)
  <2>1. Holds(PushAll([block |-> <<>>, blocks |-> <<>>], bytes), <<>> \o bytes)
    <3> DEFINE nothing == [block |-> <<>>, blocks |-> <<>>]
    <3>1. <<>> \in Seq(Nat) /\ Holds(nothing, <<>>)
      BY NothingHolds, EmptySeq
    <3> HIDE DEF nothing
    <3>2. Holds(PushAll(nothing, bytes), <<>> \o bytes)
      BY <3>1, PushAllHolds
    <3> QED
      BY <3>2 DEF nothing
  <2>2. <<>> \o bytes = bytes
    OBVIOUS
  <2>3. 128 \in Nat
    OBVIOUS
  <2> QED
    BY <2>1, <2>2, <2>3, PushImplHolds
<1>4. d \in Seq(Nat) /\ Len(d) = L + 1 /\ d = bytes \o <<128>>
  BY AppendProperties
<1>5. k \in Nat /\ r \in 0 .. B - 1 /\ L + 1 = B * k + r
  BY <1>3, <1>4, HoldsLength
<1>6. end \in Seq(Nat) /\ Len(end) = 2
  <2>1. bits \in Nat
    BY <1>1
  <2> HIDE DEF bits
  <2>2. bits \div 256 \in Nat /\ bits % 256 \in Nat
    BY <2>1
  <2> QED
    BY <2>2
<1> HIDE DEF s, end, L, k, r, B, room
\* It is enough that the blocks hold q whole blocks, and that all is counted
<1>7. ASSUME NEW x \in Seq(Nat), Holds(t, x), NEW a \in Nat, NEW e \in Nat,
             room - Len(t.block) = a, x = d \o Zeros(e),
             NEW q \in Nat, L + 1 + e + a + 8 = B * q,
             NEW v \in 0 .. B - 1, L + 9 + B - 1 = B * q + v
      PROVE  PaddingExact
  <2>1. more = (Zeros(a) \o Zeros(6)) \o end
    BY <1>7
  <2> DEFINE y == x \o more
             z == (d \o Zeros(e + a + 6)) \o end
  <2>2. /\ Zeros(a) \in Seq(Nat) /\ Zeros(6) \in Seq(Nat) /\ Zeros(e) \in Seq(Nat)
        /\ 6 \in Nat /\ a + 6 \in Nat /\ e + a + 6 \in Nat /\ e + (a + 6) = e + a + 6
    <3>1. /\ a \in Nat /\ e \in Nat /\ 6 \in Nat /\ a + 6 \in Nat /\ e + a + 6 \in Nat
          /\ e + (a + 6) = e + a + 6
      BY <1>7
    <3> QED
      BY <3>1, ZerosNat
  <2>3. more \in Seq(Nat)
    BY <1>6, <2>1, <2>2, ConcatProperties
  <2>4. y = z
    <3>1. y = (x \o Zeros(a + 6)) \o end
      <4>1. x \in Seq(Nat) /\ a \in Nat /\ 6 \in Nat /\ end \in Seq(Nat)
        BY <1>6, <1>7
      <4>2. x \o ((Zeros(a) \o Zeros(6)) \o end) = (x \o Zeros(a + 6)) \o end
        BY <4>1, Padded, ZenonT(60)
      <4> HIDE DEF more
      <4> QED
        BY <2>1, <4>2
    <3>2. (d \o Zeros(e)) \o Zeros(a + 6) = d \o Zeros(e + (a + 6))
      BY <1>4, <2>2, PaddedTwice, ZenonT(60)
    <3> QED
      BY <1>7, <2>2, <3>1, <3>2, ZenonT(60)
  <2>5. z \in Seq(Nat) /\ Len(z) = B * q
    <3>1. Zeros(e + a + 6) \in Seq(Nat) /\ Len(Zeros(e + a + 6)) = e + a + 6
      BY <2>2, ZerosNat, ZerosSeq
    <3> DEFINE w == Zeros(e + a + 6)
    <3> HIDE DEF w, d
    <3>2. d \o w \in Seq(Nat) /\ Len(d \o w) = Len(d) + Len(w)
      BY <1>4, <3>1, ConcatProperties DEF w
    <3>3. (d \o w) \o end \in Seq(Nat) /\ Len((d \o w) \o end) = Len(d \o w) + Len(end)
      BY <1>6, <3>2, ConcatProperties
    <3>4. Len(d) + (e + a + 6) + 2 = B * q
      BY <1>1, <1>4, <1>7
    <3> QED
      BY <1>6, <3>1, <3>2, <3>3, <3>4 DEF w
  <2>6. Holds(Digest, z)
    <3> HIDE DEF more, t
    <3>1. Holds(PushAll(t, more), x \o more)
      BY <1>7, <2>3, PushAllHolds
    <3> QED
      BY <1>2, <2>4, <3>1 DEF y
  <2> HIDE DEF z
  <2>7. Digest.block = <<>> /\ Joined(Digest.blocks) = z
    BY <2>5, <2>6, <1>7, HoldsWhole DEF B
  <2>8. CeilDiv(L + 9, B) = q
    <3>1. (B * q + v) \div B = q
      <4>1. B \in Nat /\ B > 0 /\ q \in Nat /\ v \in 0 .. B - 1
        BY <1>1, <1>7
      <4> QED
        BY <4>1, QuotientIs
    <3> QED
      BY <1>7, <3>1 DEF CeilDiv
  <2>9. e + a + 6 = B * q - L - 3
    BY <1>1, <1>7
  <2>10. z = ((bytes \o <<128>>) \o Zeros(B * q - L - 3)) \o end
    BY <1>4, <2>9 DEF z
  <2> QED
    BY <2>5, <2>7, <2>8, <2>10 DEF PaddingExact, end, L, B
<1>8. CASE r <= room
  <2>1. t = s
    BY <1>1, <1>5, <1>8
  <2>2. d = d \o Zeros(0)
    <3>1. Zeros(0) = <<>>
      BY DEF Zeros
    <3> QED
      BY <1>4, <3>1
  <2>3. /\ room - r \in Nat /\ k + 1 \in Nat /\ r + 7 \in 0 .. B - 1
        /\ L + 1 + 0 + (room - r) + 8 = B * (k + 1)
        /\ L + 9 + B - 1 = B * (k + 1) + (r + 7)
    BY <1>1, <1>5, <1>8 DEF room
  <2> QED
    BY <1>3, <1>4, <1>7, <2>1, <2>2, <2>3 DEF r
<1>9. CASE r > room
  <2>1. t = PushAll(s, Zeros(B - r))
    BY <1>9
  <2>2. B - r \in Nat
    BY <1>1, <1>5
  <2>3. Zeros(B - r) \in Seq(Nat) /\ Len(Zeros(B - r)) = B - r
    BY <2>2, ZerosNat, ZerosSeq
  <2> DEFINE x == d \o Zeros(B - r)
  <2>4. x \in Seq(Nat) /\ Len(x) = L + 1 + (B - r)
    BY <1>4, <2>3, ConcatProperties
  <2>5. Holds(t, x)
    BY <1>3, <1>4, <2>1, <2>3, PushAllHolds
  <2>6. k + 1 \in Nat /\ Len(x) = B * (k + 1)
    BY <1>1, <1>5, <2>4
  <2> HIDE DEF x, t
  <2>7. t.block = <<>>
    BY <2>4, <2>5, <2>6, HoldsWhole DEF B
  <2>8. room - Len(t.block) = room
    BY <1>1, <2>7
  <2>9. /\ k + 2 \in Nat /\ r + 7 - B \in 0 .. B - 1
        /\ L + 1 + (B - r) + room + 8 = B * (k + 2)
        /\ L + 9 + B - 1 = B * (k + 2) + (r + 7 - B)
    BY <1>1, <1>5, <1>9 DEF room
  <2> QED
    BY <1>1, <1>7, <2>2, <2>4, <2>5, <2>8, <2>9 DEF x
<1> QED
  BY <1>1, <1>5, <1>8, <1>9

-----------------------------------------------------------------------------
(* CRC32C: a byte of zeros is linear, and its effect on the upper bits a shift *)

Words == SUBSET (0 .. 31)

LEMMA XorAssoc == \A a, b, c : Xor(Xor(a, b), c) = Xor(a, Xor(b, c))
  BY DEF Xor

LEMMA XorNothing == \A a : Xor({}, a) = a
  BY DEF Xor

LEMMA XorOf == \A a, b, x : x \in Xor(a, b) <=> (x \in a) # (x \in b)
  BY DEF Xor

LEMMA XorIn == \A S : \A a, b \in SUBSET S : Xor(a, b) \in SUBSET S
  BY DEF Xor

LEMMA ShrOf ==
    ASSUME NEW a \in SUBSET Nat, NEW n \in Nat
    PROVE  /\ Shr(a, n) \in SUBSET Nat
           /\ \A i \in Nat : i \in Shr(a, n) <=> i + n \in a
<1>1. \A i \in Nat : i \in Shr(a, n) => i + n \in a
  BY DEF Shr
<1>2. ASSUME NEW i \in Nat, i + n \in a PROVE i \in Shr(a, n)
  <2>1. i + n >= n /\ (i + n) - n = i
    OBVIOUS
  <2> QED
    BY <1>2, <2>1 DEF Shr
<1>3. Shr(a, n) \in SUBSET Nat
  BY DEF Shr
<1> QED
  BY <1>1, <1>2, <1>3

LEMMA ShrXor ==
    ASSUME NEW a \in SUBSET Nat, NEW b \in SUBSET Nat, NEW n \in Nat
    PROVE  Shr(Xor(a, b), n) = Xor(Shr(a, n), Shr(b, n))
<1>1. Xor(a, b) \in SUBSET Nat
  BY XorIn
<1>2. /\ Shr(Xor(a, b), n) \in SUBSET Nat /\ Shr(a, n) \in SUBSET Nat
      /\ Shr(b, n) \in SUBSET Nat
  BY <1>1, ShrOf
<1>3. Xor(Shr(a, n), Shr(b, n)) \in SUBSET Nat
  BY <1>2, XorIn
<1>4. ASSUME NEW i \in Nat
      PROVE  i \in Shr(Xor(a, b), n) <=> i \in Xor(Shr(a, n), Shr(b, n))
  <2>1. i \in Shr(Xor(a, b), n) <=> i + n \in Xor(a, b)
    BY <1>1, ShrOf
  <2>2. i \in Shr(a, n) <=> i + n \in a
    BY ShrOf
  <2>3. i \in Shr(b, n) <=> i + n \in b
    BY ShrOf
  <2> QED
    BY <2>1, <2>2, <2>3, XorOf
<1> QED
  BY <1>2, <1>3, <1>4

LEMMA ShrShr ==
    ASSUME NEW a \in SUBSET Nat, NEW m \in Nat, NEW n \in Nat
    PROVE  Shr(Shr(a, m), n) = Shr(a, m + n)
<1>1. Shr(a, m) \in SUBSET Nat /\ m + n \in Nat
  BY ShrOf
<1>2. Shr(Shr(a, m), n) \in SUBSET Nat /\ Shr(a, m + n) \in SUBSET Nat
  BY <1>1, ShrOf
<1>3. ASSUME NEW i \in Nat PROVE i \in Shr(Shr(a, m), n) <=> i \in Shr(a, m + n)
  <2>1. i \in Shr(Shr(a, m), n) <=> i + n \in Shr(a, m)
    BY <1>1, ShrOf
  <2>2. i + n \in Shr(a, m) <=> (i + n) + m \in a
    BY ShrOf
  <2>3. i \in Shr(a, m + n) <=> i + (m + n) \in a
    BY <1>1, ShrOf
  <2>4. (i + n) + m = i + (m + n)
    OBVIOUS
  <2> QED
    BY <2>1, <2>2, <2>3, <2>4
<1> QED
  BY <1>2, <1>3

LEMMA ShrNothing == \A n \in Nat : Shr({}, n) = {}
  BY DEF Shr

LEMMA ShrWord ==
    ASSUME NEW a \in Words, NEW n \in Nat
    PROVE  Shr(a, n) \in Words /\ (n > 31 => Shr(a, n) = {})
<1>1. a \in SUBSET Nat /\ \A i \in a : i \in 0 .. 31
  BY DEF Words
<1>2. ASSUME NEW i \in Shr(a, n) PROVE i \in Nat /\ i + n \in 0 .. 31
  <2>1. i \in Nat
    BY <1>1, <1>2, ShrOf
  <2>2. i + n \in a
    BY <1>1, <1>2, <2>1, ShrOf
  <2> QED
    BY <1>1, <2>1, <2>2
<1>3. \A i \in Shr(a, n) : i \in 0 .. 31 /\ n <= 31
  BY <1>2
<1> QED
  BY <1>3 DEF Words

LEMMA PolynomialWord == Polynomial \in Words
  BY DEF Polynomial, Words

LEMMA ShiftBitWord == ASSUME NEW c \in Words PROVE ShiftBit(c) \in Words
<1>1. Shr(c, 1) \in Words
  BY ShrWord
<1>2. Xor(Shr(c, 1), Polynomial) \in Words
  <2>1. \A a, b \in Words : Xor(a, b) \in Words
    BY XorIn, Zenon DEF Words
  <2> QED
    BY <1>1, <2>1, PolynomialWord
<1> QED
  BY <1>1, <1>2 DEF ShiftBit

LEMMA XorPolynomial ==
    ASSUME NEW a, NEW b, NEW p
    PROVE  /\ Xor(Xor(a, p), Xor(b, p)) = Xor(a, b)
           /\ Xor(Xor(a, p), b) = Xor(Xor(a, b), p)
           /\ Xor(a, Xor(b, p)) = Xor(Xor(a, b), p)
  BY DEF Xor

LEMMA ShiftBitLinear ==
    ASSUME NEW a \in Words, NEW b \in Words
    PROVE  ShiftBit(Xor(a, b)) = Xor(ShiftBit(a), ShiftBit(b))
<1>1. Shr(Xor(a, b), 1) = Xor(Shr(a, 1), Shr(b, 1))
  BY ShrXor DEF Words
<1>2. 0 \in Xor(a, b) <=> (0 \in a) # (0 \in b)
  BY XorOf
<1>3. CASE 0 \in a /\ 0 \in b
  <2>1. /\ ShiftBit(a) = Xor(Shr(a, 1), Polynomial)
        /\ ShiftBit(b) = Xor(Shr(b, 1), Polynomial)
        /\ ShiftBit(Xor(a, b)) = Shr(Xor(a, b), 1)
    BY <1>2, <1>3 DEF ShiftBit
  <2> QED
    BY <1>1, <2>1, XorPolynomial
<1>4. CASE 0 \in a /\ 0 \notin b
  <2>1. /\ ShiftBit(a) = Xor(Shr(a, 1), Polynomial)
        /\ ShiftBit(b) = Shr(b, 1)
        /\ ShiftBit(Xor(a, b)) = Xor(Shr(Xor(a, b), 1), Polynomial)
    BY <1>2, <1>4 DEF ShiftBit
  <2>2. Xor(Xor(Shr(a, 1), Polynomial), Shr(b, 1)) = Xor(Xor(Shr(a, 1), Shr(b, 1)), Polynomial)
    <3>1. \A x, y : Xor(Xor(x, Polynomial), y) = Xor(Xor(x, y), Polynomial)
      BY XorPolynomial
    <3> QED
      BY <3>1
  <2> QED
    BY <1>1, <2>1, <2>2
<1>5. CASE 0 \notin a /\ 0 \in b
  <2>1. /\ ShiftBit(a) = Shr(a, 1)
        /\ ShiftBit(b) = Xor(Shr(b, 1), Polynomial)
        /\ ShiftBit(Xor(a, b)) = Xor(Shr(Xor(a, b), 1), Polynomial)
    BY <1>2, <1>5 DEF ShiftBit
  <2> QED
    BY <1>1, <2>1, XorPolynomial
<1>6. CASE 0 \notin a /\ 0 \notin b
  <2>1. /\ ShiftBit(a) = Shr(a, 1)
        /\ ShiftBit(b) = Shr(b, 1)
        /\ ShiftBit(Xor(a, b)) = Shr(Xor(a, b), 1)
    BY <1>2, <1>6 DEF ShiftBit
  <2> QED
    BY <1>1, <2>1
<1> QED
  BY <1>3, <1>4, <1>5, <1>6

LEMMA ShiftByteUnrolls ==
    ASSUME NEW c
    PROVE  \E g : /\ g[0] = c /\ g[8] = ShiftByte(c)
                  /\ \A i \in 0 .. 7 : g[i + 1] = ShiftBit(g[i])
<1>1. Len(Zeros(8)) = 8
  BY ZerosSeq
<1>2. PICK g : Unrolls("bit", g, c, Zeros(8)) /\ Fold("bit", c, Zeros(8)) = g[Len(Zeros(8))]
  BY <1>1, FoldUnrolls
<1>3. /\ g[0] = c
      /\ \A i \in 0 .. 7 : g[i + 1] = Step("bit", g[i], Zeros(8)[i + 1])
  BY <1>1, <1>2 DEF Unrolls
<1>4. \A i \in 0 .. 7 : g[i + 1] = ShiftBit(g[i])
  BY <1>3, StepShifts, Zenon
<1>5. g[8] = ShiftByte(c)
  BY <1>1, <1>2, ShiftByteFolds
<1> QED
  BY <1>3, <1>4, <1>5

LEMMA ShiftByteWord == ASSUME NEW c \in Words PROVE ShiftByte(c) \in Words
<1>1. PICK g : /\ g[0] = c /\ g[8] = ShiftByte(c)
               /\ \A i \in 0 .. 7 : g[i + 1] = ShiftBit(g[i])
  BY ShiftByteUnrolls
<1> DEFINE K == {i \in 0 .. 8 : g[i] \in Words}
<1>2. 0 \in K
  BY <1>1
<1>3. \A i \in 0 .. 7 : i \in K => i + 1 \in K
  BY <1>1, ShiftBitWord
<1> HIDE DEF K
<1>4. 0 .. 8 \subseteq K
  <2>1. 8 \in Nat /\ 8 - 1 = 7
    OBVIOUS
  <2> QED
    BY <1>2, <1>3, <2>1, Upward
<1> QED
  BY <1>1, <1>4 DEF K

LEMMA ShiftByteLinear ==
    ASSUME NEW a \in Words, NEW b \in Words
    PROVE  ShiftByte(Xor(a, b)) = Xor(ShiftByte(a), ShiftByte(b))
<1> DEFINE c == Xor(a, b)
<1>1. PICK f : /\ f[0] = a /\ f[8] = ShiftByte(a)
               /\ \A i \in 0 .. 7 : f[i + 1] = ShiftBit(f[i])
  BY ShiftByteUnrolls
<1>2. PICK g : /\ g[0] = b /\ g[8] = ShiftByte(b)
               /\ \A i \in 0 .. 7 : g[i + 1] = ShiftBit(g[i])
  BY ShiftByteUnrolls
<1>3. PICK h : /\ h[0] = c /\ h[8] = ShiftByte(c)
               /\ \A i \in 0 .. 7 : h[i + 1] = ShiftBit(h[i])
  BY ShiftByteUnrolls
<1> DEFINE K == {i \in 0 .. 8 : f[i] \in Words /\ g[i] \in Words /\ h[i] = Xor(f[i], g[i])}
<1>4. 0 \in K
  BY <1>1, <1>2, <1>3
<1>5. ASSUME NEW i \in 0 .. 7, i \in K PROVE i + 1 \in K
  <2>1. f[i] \in Words /\ g[i] \in Words /\ h[i] = Xor(f[i], g[i])
    BY <1>5
  <2>2. ShiftBit(f[i]) \in Words /\ ShiftBit(g[i]) \in Words
        /\ ShiftBit(h[i]) = Xor(ShiftBit(f[i]), ShiftBit(g[i]))
    BY <2>1, ShiftBitWord, ShiftBitLinear
  <2>3. i + 1 \in 0 .. 8
    OBVIOUS
  <2> QED
    BY <1>1, <1>2, <1>3, <2>2, <2>3
<1> HIDE DEF K, c
<1>6. 0 .. 8 \subseteq K
  <2>1. 8 \in Nat /\ 8 - 1 = 7
    OBVIOUS
  <2> QED
    BY <1>4, <1>5, <2>1, Upward
<1>7. h[8] = Xor(f[8], g[8])
  BY <1>6 DEF K
<1> QED
  BY <1>1, <1>2, <1>3, <1>7 DEF c

\* A byte of zeros in the lower bits is shifted out.
LEMMA ShiftByteShifts ==
    ASSUME NEW c \in Words, c \intersect 0 .. 7 = {}
    PROVE  ShiftByte(c) = Shr(c, 8)
<1>1. PICK g : /\ g[0] = c /\ g[8] = ShiftByte(c)
               /\ \A i \in 0 .. 7 : g[i + 1] = ShiftBit(g[i])
  BY ShiftByteUnrolls
<1>2. c \in SUBSET Nat
  BY DEF Words
<1> DEFINE K == {i \in 0 .. 8 : g[i] = Shr(c, i)}
<1>3. 0 \in K
  <2>1. Shr(c, 0) \in SUBSET Nat /\ \A i \in Nat : i \in Shr(c, 0) <=> i \in c
    <3>1. 0 \in Nat /\ \A i \in Nat : i + 0 = i
      OBVIOUS
    <3>2. Shr(c, 0) \in SUBSET Nat /\ \A i \in Nat : i \in Shr(c, 0) <=> i + 0 \in c
      BY <1>2, <3>1, ShrOf, Zenon
    <3> QED
      BY <3>1, <3>2
  <2>2. Shr(c, 0) = c
    BY <1>2, <2>1
  <2> QED
    BY <1>1, <2>2
<1>4. ASSUME NEW i \in 0 .. 7, i \in K PROVE i + 1 \in K
  <2>1. g[i] = Shr(c, i) /\ i \in Nat
    BY <1>4
  <2>2. 0 \notin Shr(c, i)
    <3>1. 0 \in Nat /\ 0 + i \in 0 .. 7
      OBVIOUS
    <3>2. 0 \in Shr(c, i) <=> 0 + i \in c
      BY <1>2, <2>1, <3>1, ShrOf, Zenon
    <3> QED
      BY <3>1, <3>2
  <2>3. ShiftBit(g[i]) = Shr(Shr(c, i), 1)
    BY <2>1, <2>2 DEF ShiftBit
  <2>4. Shr(Shr(c, i), 1) = Shr(c, i + 1)
    BY <1>2, <2>1, ShrShr
  <2>5. i + 1 \in 0 .. 8
    OBVIOUS
  <2> QED
    BY <1>1, <2>3, <2>4, <2>5
<1> HIDE DEF K
<1>5. 0 .. 8 \subseteq K
  <2>1. 8 \in Nat /\ 8 - 1 = 7
    OBVIOUS
  <2> QED
    BY <1>3, <1>4, <2>1, Upward
<1> QED
  BY <1>1, <1>5 DEF K

LEMMA ShiftByteSplits ==
    ASSUME NEW c \in Words
    PROVE  ShiftByte(c) = Xor(ShiftByte(Low(c)), Shr(c, 8))
<1> DEFINE d == c \ (0 .. 7)
<1>1. Low(c) \in Words /\ d \in Words /\ c = Xor(Low(c), d)
  BY DEF Low, Words, Xor
<1>2. ShiftByte(d) = Shr(d, 8)
  BY <1>1, ShiftByteShifts
<1>3. Shr(d, 8) = Shr(c, 8)
  <2>1. d \in SUBSET Nat /\ c \in SUBSET Nat
    BY DEF Words
  <2>2. Shr(d, 8) \in SUBSET Nat /\ Shr(c, 8) \in SUBSET Nat
    BY <2>1, ShrOf
  <2>3. \A i \in Nat : i \in Shr(d, 8) <=> i + 8 \in d
    BY <2>1, ShrOf
  <2>4. \A i \in Nat : i \in Shr(c, 8) <=> i + 8 \in c
    BY <2>1, ShrOf
  <2>5. \A i \in Nat : i + 8 \in d <=> i + 8 \in c
    OBVIOUS
  <2> QED
    BY <2>2, <2>3, <2>4, <2>5
<1>4. ShiftByte(Xor(Low(c), d)) = Xor(ShiftByte(Low(c)), ShiftByte(d))
  BY <1>1, ShiftByteLinear
<1> QED
  BY <1>1, <1>2, <1>3, <1>4

-----------------------------------------------------------------------------
(* CRC32C: eight bytes at once are eight bytes one by one *)

LEMMA BitsLow == \A n : Bits(n) \in SUBSET (0 .. 7)
  BY DEF Bits

LEMMA LowLow == \A a : Low(a) \in SUBSET (0 .. 7)
  BY DEF Low

LEMMA WordXor == \A a, b \in Words : Xor(a, b) \in Words
  BY XorIn, Zenon DEF Words

LEMMA LowWord == \A s \in SUBSET (0 .. 7) : s \in Words
  BY DEF Words

LEMMA LowXor == \A a, b : b \in SUBSET (0 .. 7) => Low(Xor(a, b)) = Xor(Low(a), b)
  BY DEF Low, Xor

LEMMA ShrOverLow ==
    ASSUME NEW a \in Words, NEW b \in SUBSET (0 .. 7)
    PROVE  Shr(Xor(a, b), 8) = Shr(a, 8)
<1>1. a \in SUBSET Nat /\ b \in SUBSET Nat
  BY DEF Words
<1>2. Shr(Xor(a, b), 8) = Xor(Shr(a, 8), Shr(b, 8))
  BY <1>1, ShrXor
<1>3. Shr(b, 8) = {}
  BY DEF Shr
<1>4. Xor(Shr(a, 8), {}) = Shr(a, 8)
  BY DEF Xor
<1> QED
  BY <1>2, <1>3, <1>4

\* A byte that is pushed is one of zeros after the byte met the register.
LEMMA PushByteIs ==
    ASSUME NEW a \in Words, NEW n
    PROVE  /\ PushByte(a, n) = ShiftByte(Xor(a, Bits(n)))
           /\ PushByte(a, n) \in Words
<1> DEFINE c == Xor(a, Bits(n))
<1>1. Bits(n) \in SUBSET (0 .. 7) /\ Bits(n) \in Words
  BY BitsLow, LowWord
<1>2. c \in Words
  BY <1>1, WordXor
<1>3. Shr(c, 8) = Shr(a, 8)
  BY <1>1, ShrOverLow
<1>4. o32[Low(c)] = ShiftByte(Low(c))
  BY LowLow DEF o32
<1>5. PushByte(a, n) = Xor(o32[Low(c)], Shr(a, 8))
  BY DEF PushByte
<1> HIDE DEF c
<1>6. PushByte(a, n) = ShiftByte(c)
  BY <1>2, <1>3, <1>4, <1>5, ShiftByteSplits
<1> QED
  BY <1>2, <1>6, ShiftByteWord DEF c

\* When some of the register is known to come from bytes before
LEMMA PushByteOver ==
    ASSUME NEW a \in Words, NEW s \in Words, NEW n
    PROVE  PushByte(Xor(a, s), n) =
               Xor(Xor(ShiftByte(a), ShiftByte(Xor(Low(s), Bits(n)))), Shr(s, 8))
<1> DEFINE b == Bits(n)
           c == Xor(s, b)
<1>1. b \in SUBSET (0 .. 7) /\ b \in Words
  BY BitsLow, LowWord
<1> HIDE DEF b
<1>2. c \in Words /\ Xor(a, s) \in Words
  BY <1>1, WordXor
<1>3. PushByte(Xor(a, s), n) = ShiftByte(Xor(a, c))
  <2>1. PushByte(Xor(a, s), n) = ShiftByte(Xor(Xor(a, s), b))
    BY <1>2, PushByteIs DEF b
  <2> QED
    BY <2>1, XorAssoc
<1>4. ShiftByte(Xor(a, c)) = Xor(ShiftByte(a), ShiftByte(c))
  BY <1>2, ShiftByteLinear
<1>5. Low(c) = Xor(Low(s), b) /\ Shr(c, 8) = Shr(s, 8)
  BY <1>1, LowXor, ShrOverLow
<1>6. ShiftByte(c) = Xor(ShiftByte(Xor(Low(s), b)), Shr(s, 8))
  BY <1>2, <1>5, ShiftByteSplits
<1>7. Xor(ShiftByte(a), Xor(ShiftByte(Xor(Low(s), b)), Shr(s, 8))) =
          Xor(Xor(ShiftByte(a), ShiftByte(Xor(Low(s), b))), Shr(s, 8))
  BY XorAssoc
<1> QED
  BY <1>3, <1>4, <1>6, <1>7 DEF b

\* The tables are those of a byte with one, two, ... bytes of zeros behind it.
LEMMA Tables ==
    ASSUME NEW s \in SUBSET (0 .. 7)
    PROVE  /\ o32[s] = ShiftByte(s) /\ o40[s] = ShiftByte(o32[s])
           /\ o48[s] = ShiftByte(o40[s]) /\ o56[s] = ShiftByte(o48[s])
           /\ o64[s] = ShiftByte(o56[s]) /\ o72[s] = ShiftByte(o64[s])
           /\ o80[s] = ShiftByte(o72[s]) /\ o88[s] = ShiftByte(o80[s])
           /\ o32[s] \in Words /\ o40[s] \in Words /\ o48[s] \in Words /\ o56[s] \in Words
           /\ o64[s] \in Words /\ o72[s] \in Words /\ o80[s] \in Words /\ o88[s] \in Words
<1>1. o32[s] = ShiftByte(s)
  BY DEF o32
<1>2. o40[s] = ShiftByte(o32[s])
  BY DEF o40
<1>3. o48[s] = ShiftByte(o40[s])
  BY DEF o48
<1>4. o56[s] = ShiftByte(o48[s])
  BY DEF o56
<1>5. o64[s] = ShiftByte(o56[s])
  BY DEF o64
<1>6. o72[s] = ShiftByte(o64[s])
  BY DEF o72
<1>7. o80[s] = ShiftByte(o72[s])
  BY DEF o80
<1>8. o88[s] = ShiftByte(o80[s])
  BY DEF o88
<1>9. s \in Words
  BY LowWord
<1>10. o32[s] \in Words
  BY <1>1, <1>9, ShiftByteWord
<1>11. o40[s] \in Words
  BY <1>2, <1>10, ShiftByteWord
<1>12. o48[s] \in Words
  BY <1>3, <1>11, ShiftByteWord
<1>13. o56[s] \in Words
  BY <1>4, <1>12, ShiftByteWord
<1>14. o64[s] \in Words
  BY <1>5, <1>13, ShiftByteWord
<1>15. o72[s] \in Words
  BY <1>6, <1>14, ShiftByteWord
<1>16. o80[s] \in Words
  BY <1>7, <1>15, ShiftByteWord
<1>17. o88[s] \in Words
  BY <1>8, <1>16, ShiftByteWord
<1> QED
  BY <1>1, <1>2, <1>3, <1>4, <1>5, <1>6, <1>7, <1>8, <1>10, <1>11, <1>12, <1>13, <1>14,
     <1>15, <1>16, <1>17

-----------------------------------------------------------------------------
(* CRC32C: the words, and the eight bytes they stand for *)

LEMMA AppendIs ==
    ASSUME NEW W, NEW t \in Seq(W), NEW y \in W, NEW u \in Seq(W), Len(u) = Len(t) + 1,
           u[Len(u)] = y, \A i \in 1 .. Len(t) : u[i] = t[i]
    PROVE  Append(t, y) = u
<1>1. /\ Append(t, y) \in Seq(W) /\ Len(Append(t, y)) = Len(u) /\ Len(t) \in Nat
      /\ Append(t, y)[Len(u)] = y
      /\ \A i \in 1 .. Len(t) : Append(t, y)[i] = t[i]
  BY AppendProperties, LenProperties
<1>2. \A i \in 1 .. Len(u) : Append(t, y)[i] = u[i]
  BY <1>1
<1> QED
  BY <1>1, <1>2, SeqEqual

LEMMA TablesIn ==
    /\ \A s \in SUBSET (0 .. 7) : o32[s] \in Words /\ o40[s] \in Words /\ o48[s] \in Words
    /\ \A s \in SUBSET (0 .. 7) : o56[s] \in Words /\ o64[s] \in Words /\ o72[s] \in Words
    /\ \A s \in SUBSET (0 .. 7) : o80[s] \in Words /\ o88[s] \in Words
  BY Tables

\* A sum of words, and one with a byte of zeros behind each of them
Sum(w) == Fold("xor", {}, w)
Shifted(w) == [i \in 1 .. Len(w) |-> ShiftByte(w[i])]

LEMMA ShiftedWords ==
    ASSUME NEW w \in Seq(Words)
    PROVE  Shifted(w) \in Seq(Words) /\ Len(Shifted(w)) = Len(w)
<1>1. \A i \in 1 .. Len(w) : ShiftByte(w[i]) \in Words
  BY ElementOfSeq, ShiftByteWord
<1> QED
  BY <1>1, LenProperties DEF Shifted

LEMMA SumWord == ASSUME NEW w \in Seq(Words) PROVE Sum(w) \in Words
<1>1. {} \in Words
  BY DEF Words
<1>2. \A r \in Words : \A i \in 1 .. Len(w) : Step("xor", r, w[i]) \in Words
  BY StepXors, WordXor, ElementOfSeq
<1>3. Len(w) \in Nat
  BY LenProperties
<1> QED
  BY <1>1, <1>2, <1>3, FoldKeeps DEF Sum

LEMMA SumShifted ==
    ASSUME NEW w \in Seq(Words) PROVE ShiftByte(Sum(w)) = Sum(Shifted(w))
<1> DEFINE v == Shifted(w)
           n == Len(w)
<1>1. /\ v \in Seq(Words) /\ Len(v) = n /\ n \in Nat
      /\ \A i \in 1 .. n : w[i] \in Words /\ v[i] = ShiftByte(w[i])
  BY ShiftedWords, LenProperties, ElementOfSeq DEF Shifted
<1> HIDE DEF v
<1>2. PICK g : Unrolls("xor", g, {}, w) /\ Sum(w) = g[Len(w)]
  BY <1>1, FoldUnrolls DEF Sum
<1>3. PICK h : Unrolls("xor", h, {}, v) /\ Sum(v) = h[Len(v)]
  BY <1>1, FoldUnrolls DEF Sum
<1> DEFINE K == {i \in 0 .. n : g[i] \in Words /\ h[i] = ShiftByte(g[i])}
<1>4. 0 \in K
  <2>1. g[0] = {} /\ h[0] = {} /\ {} \in Words
    BY <1>2, <1>3 DEF Unrolls, Words
  <2>2. ShiftByte({}) = {}
    <3>1. ShiftByte({}) = Shr({}, 8)
      BY <2>1, ShiftByteShifts
    <3> QED
      BY <3>1, ShrNothing
  <2>3. 0 \in 0 .. n /\ h[0] = ShiftByte(g[0])
    BY <1>1, <2>1, <2>2
  <2> QED
    BY <2>1, <2>3
<1>5. ASSUME NEW i \in 0 .. n - 1, i \in K PROVE i + 1 \in K
  <2>1. g[i] \in Words /\ h[i] = ShiftByte(g[i]) /\ i + 1 \in 1 .. n /\ i + 1 \in 0 .. n
    BY <1>5
  <2>2. g[i + 1] = Xor(g[i], w[i + 1]) /\ h[i + 1] = Xor(h[i], v[i + 1])
    <3>1. i \in 0 .. Len(w) - 1 /\ i \in 0 .. Len(v) - 1
      BY <1>1
    <3>2. g[i + 1] = Step("xor", g[i], w[i + 1])
      BY <1>2, <3>1, Zenon DEF Unrolls
    <3>3. h[i + 1] = Step("xor", h[i], v[i + 1])
      BY <1>3, <3>1, Zenon DEF Unrolls
    <3> QED
      BY <3>2, <3>3, StepXors
  <2>3. w[i + 1] \in Words /\ v[i + 1] = ShiftByte(w[i + 1])
    BY <1>1, <2>1
  <2>4. g[i + 1] \in Words
    BY <2>1, <2>2, <2>3, WordXor
  <2>5. h[i + 1] = ShiftByte(g[i + 1])
    BY <2>1, <2>2, <2>3, ShiftByteLinear
  <2> QED
    BY <2>1, <2>4, <2>5
<1> HIDE DEF K
<1>6. 0 .. n \subseteq K
  BY <1>1, <1>4, <1>5, Upward
<1>7. h[n] = ShiftByte(g[n])
  BY <1>1, <1>6 DEF K
<1> QED
  BY <1>1, <1>2, <1>3, <1>7 DEF v

\* One byte more: w are the words of the bytes before, s is what is left of the
\* register from before them.
LEMMA OneByteMore ==
    ASSUME NEW w \in Seq(Words), NEW s \in Words, NEW n
    PROVE  PushByte(Xor(Sum(w), s), n) =
               Xor(Sum(Append(Shifted(w), o32[Xor(Low(s), Bits(n))])), Shr(s, 8))
<1> DEFINE c == Xor(Low(s), Bits(n))
<1>1. c \in SUBSET (0 .. 7)
  BY LowLow, BitsLow, XorIn
<1>2. o32[c] = ShiftByte(c) /\ o32[c] \in Words
  BY <1>1, Tables
<1>3. PushByte(Xor(Sum(w), s), n) = Xor(Xor(ShiftByte(Sum(w)), ShiftByte(c)), Shr(s, 8))
  BY SumWord, PushByteOver
<1> HIDE DEF c
<1>4. Sum(Append(Shifted(w), o32[c])) = Xor(Sum(Shifted(w)), o32[c])
  <2>1. Fold("xor", {}, Append(Shifted(w), o32[c])) =
            Step("xor", Fold("xor", {}, Shifted(w)), o32[c])
    BY <1>2, ShiftedWords, FoldAppend
  <2> QED
    BY <2>1, StepXors DEF Sum
<1> QED
  BY <1>2, <1>3, <1>4, SumShifted DEF c

\* Eight bytes at once
LEMMA PushWordsIs ==
    ASSUME NEW crc \in Words, NEW S, NEW b \in Seq(S), Len(b) = 8
    PROVE  /\ PushWords(crc, b) = Fold("crc", crc, b)
           /\ PushWords(crc, b) \in Words
<1> DEFINE s(i) == Shr(crc, 8 * i)
           c1 == Xor(Low(s(0)), Bits(b[1]))
           c2 == Xor(Low(s(1)), Bits(b[2]))
           c3 == Xor(Low(s(2)), Bits(b[3]))
           c4 == Xor(Low(s(3)), Bits(b[4]))
           c5 == Bits(b[5])
           c6 == Bits(b[6])
           c7 == Bits(b[7])
           c8 == Bits(b[8])
           all == <<o88[c1], o80[c2], o72[c3], o64[c4], o56[c5], o48[c6], o40[c7], o32[c8]>>
<1>1. \A i \in Nat : s(i) \in Words /\ Shr(s(i), 8) = s(i + 1)
  <2> TAKE i \in Nat
  <2>1. 8 * i \in Nat /\ 8 * i + 8 = 8 * (i + 1) /\ crc \in SUBSET Nat /\ 8 \in Nat
    BY DEF Words
  <2>2. Shr(Shr(crc, 8 * i), 8) = Shr(crc, 8 * i + 8)
    BY <2>1, ShrShr
  <2> QED
    BY <2>1, <2>2, ShrWord
<1>2. s(0) = crc /\ s(4) = {} /\ s(5) = {} /\ s(6) = {} /\ s(7) = {} /\ s(8) = {}
  <2>1. s(0) = crc
    <3>1. crc \in SUBSET Nat /\ 8 * 0 = 0 /\ \A i \in Nat : i + 0 = i
      BY DEF Words
    <3>2. Shr(crc, 0) \in SUBSET Nat /\ \A i \in Nat : i \in Shr(crc, 0) <=> i + 0 \in crc
      BY <3>1, ShrOf
    <3>3. Shr(crc, 0) = crc
      BY <3>1, <3>2
    <3> QED
      BY <3>1, <3>3
  <2>2. \A n \in Nat : n > 31 => Shr(crc, n) = {}
    BY ShrWord
  <2> QED
    BY <2>1, <2>2
<1> HIDE DEF s
<1>3. /\ c1 \in SUBSET (0 .. 7) /\ c2 \in SUBSET (0 .. 7) /\ c3 \in SUBSET (0 .. 7)
      /\ c4 \in SUBSET (0 .. 7) /\ c5 \in SUBSET (0 .. 7) /\ c6 \in SUBSET (0 .. 7)
      /\ c7 \in SUBSET (0 .. 7) /\ c8 \in SUBSET (0 .. 7)
  <2>1. \A x, y : Xor(Low(x), Bits(y)) \in SUBSET (0 .. 7)
    BY LowLow, BitsLow, XorIn
  <2> QED
    BY <2>1, BitsLow
<1>4. PushWords(crc, b) = XorAll(all)
  BY DEF PushWords, s
<1>5. /\ c5 = Xor(Low(s(4)), Bits(b[5])) /\ c6 = Xor(Low(s(5)), Bits(b[6]))
      /\ c7 = Xor(Low(s(6)), Bits(b[7])) /\ c8 = Xor(Low(s(7)), Bits(b[8]))
  <2>1. Low({}) = {}
    BY DEF Low
  <2> QED
    BY <1>2, <2>1, XorNothing
<1>6. PICK g : Unrolls("crc", g, crc, b) /\ Fold("crc", crc, b) = g[Len(b)]
  BY FoldUnrolls, SMTT(40)
<1>7. g[0] = crc /\ \A i \in 0 .. 7 : g[i + 1] = PushByte(g[i], b[i + 1])
  <2>1. g[0] = crc /\ \A i \in 0 .. 7 : g[i + 1] = Step("crc", g[i], b[i + 1])
    BY <1>6 DEF Unrolls
  <2> QED
    BY <2>1, StepBytes, Zenon
<1>8. g[0] = Xor(Sum(<<>>), s(0)) /\ <<>> \in Seq(Words)
  <2>1. Sum(<<>>) = {}
    BY FoldEmpty DEF Sum
  <2>2. <<>> \in Seq(Words)
    BY EmptySeq
  <2> QED
    BY <1>2, <1>7, <2>1, <2>2, XorNothing
<1> HIDE DEF c1, c2, c3, c4, c5, c6, c7, c8
<1>9. /\ g[1] = Xor(Sum(<<o32[c1]>>), s(1))
      /\ <<o32[c1]>> \in Seq(Words)
  <2> DEFINE v == <<>>
             t == <<>>
             u == <<o32[c1]>>
  <2>1. v \in Seq(Words) /\ g[0] = Xor(Sum(v), s(0))
    BY <1>8
  <2>2. Shifted(v) = t
    BY DEF Shifted
  <2>3. u \in Seq(Words)
    <3> HIDE DEF Words
    <3>1. /\ o32[c1] \in Words
      BY <1>3, TablesIn
    <3> QED
      BY <3>1
  <2>4. /\ Len(u) = 1 /\ Len(t) = 0 /\ u[1] = o32[c1]
        /\ \A i \in 1 .. 0 : u[i] = t[i]
    OBVIOUS
  <2> HIDE DEF v, t, u
  <2>5. o32[c1] \in Words /\ t \in Seq(Words)
    BY <1>3, <2>1, <2>2, TablesIn, ShiftedWords
  <2>6. Append(t, o32[c1]) = u
    <3>1. /\ Len(u) = Len(t) + 1 /\ u[Len(u)] = o32[c1]
          /\ \A i \in 1 .. Len(t) : u[i] = t[i]
      BY <2>4
    <3> QED
      BY <2>3, <2>5, <3>1, AppendIs
  <2>7. PushByte(g[0], b[1]) =
            Xor(Sum(Append(Shifted(v), o32[c1])), s(1))
    <3>1. s(0) \in Words /\ Shr(s(0), 8) = s(1)
      BY <1>1, SMTT(40)
    <3>2. c1 = Xor(Low(s(0)), Bits(b[1]))
      BY <1>5 DEF c1
    <3> QED
      BY <2>1, <3>1, <3>2, OneByteMore
  <2>8. g[1] = PushByte(g[0], b[1])
    BY <1>7
  <2> QED
    BY <2>2, <2>3, <2>6, <2>7, <2>8 DEF u
<1>10. /\ g[2] = Xor(Sum(<<o40[c1], o32[c2]>>), s(2))
      /\ <<o40[c1], o32[c2]>> \in Seq(Words)
  <2> DEFINE v == <<o32[c1]>>
             t == <<o40[c1]>>
             u == <<o40[c1], o32[c2]>>
  <2>1. v \in Seq(Words) /\ g[1] = Xor(Sum(v), s(1))
    BY <1>9
  <2>2. Shifted(v) = t
    <3>1. Shifted(v) =
              <<ShiftByte(o32[c1])>>
      BY DEF Shifted
    <3>2. /\ ShiftByte(o32[c1]) = o40[c1]
      BY <1>3, Tables
    <3> QED
      BY <3>1, <3>2
  <2>3. u \in Seq(Words)
    <3> HIDE DEF Words
    <3>1. /\ o40[c1] \in Words
          /\ o32[c2] \in Words
      BY <1>3, TablesIn
    <3> QED
      BY <3>1
  <2>4. /\ Len(u) = 2 /\ Len(t) = 1 /\ u[2] = o32[c2]
        /\ \A i \in 1 .. 1 : u[i] = t[i]
    OBVIOUS
  <2> HIDE DEF v, t, u
  <2>5. o32[c2] \in Words /\ t \in Seq(Words)
    BY <1>3, <2>1, <2>2, TablesIn, ShiftedWords
  <2>6. Append(t, o32[c2]) = u
    <3>1. /\ Len(u) = Len(t) + 1 /\ u[Len(u)] = o32[c2]
          /\ \A i \in 1 .. Len(t) : u[i] = t[i]
      BY <2>4
    <3> QED
      BY <2>3, <2>5, <3>1, AppendIs
  <2>7. PushByte(g[1], b[2]) =
            Xor(Sum(Append(Shifted(v), o32[c2])), s(2))
    <3>1. s(1) \in Words /\ Shr(s(1), 8) = s(2)
      BY <1>1
    <3>2. c2 = Xor(Low(s(1)), Bits(b[2]))
      BY <1>5 DEF c2
    <3> QED
      BY <2>1, <3>1, <3>2, OneByteMore
  <2>8. g[2] = PushByte(g[1], b[2])
    BY <1>7
  <2> QED
    BY <2>2, <2>3, <2>6, <2>7, <2>8 DEF u
<1>11. /\ g[3] = Xor(Sum(<<o48[c1], o40[c2], o32[c3]>>), s(3))
      /\ <<o48[c1], o40[c2], o32[c3]>> \in Seq(Words)
  <2> DEFINE v == <<o40[c1], o32[c2]>>
             t == <<o48[c1], o40[c2]>>
             u == <<o48[c1], o40[c2], o32[c3]>>
  <2>1. v \in Seq(Words) /\ g[2] = Xor(Sum(v), s(2))
    BY <1>10
  <2>2. Shifted(v) = t
    <3>1. Shifted(v) =
              <<ShiftByte(o40[c1]), ShiftByte(o32[c2])>>
      BY DEF Shifted
    <3>2. /\ ShiftByte(o40[c1]) = o48[c1]
          /\ ShiftByte(o32[c2]) = o40[c2]
      BY <1>3, Tables
    <3> QED
      BY <3>1, <3>2
  <2>3. u \in Seq(Words)
    <3> HIDE DEF Words
    <3>1. /\ o48[c1] \in Words
          /\ o40[c2] \in Words
          /\ o32[c3] \in Words
      BY <1>3, TablesIn
    <3> QED
      BY <3>1
  <2>4. /\ Len(u) = 3 /\ Len(t) = 2 /\ u[3] = o32[c3]
        /\ \A i \in 1 .. 2 : u[i] = t[i]
    OBVIOUS
  <2> HIDE DEF v, t, u
  <2>5. o32[c3] \in Words /\ t \in Seq(Words)
    BY <1>3, <2>1, <2>2, TablesIn, ShiftedWords
  <2>6. Append(t, o32[c3]) = u
    <3>1. /\ Len(u) = Len(t) + 1 /\ u[Len(u)] = o32[c3]
          /\ \A i \in 1 .. Len(t) : u[i] = t[i]
      BY <2>4
    <3> QED
      BY <2>3, <2>5, <3>1, AppendIs
  <2>7. PushByte(g[2], b[3]) =
            Xor(Sum(Append(Shifted(v), o32[c3])), s(3))
    <3>1. s(2) \in Words /\ Shr(s(2), 8) = s(3)
      BY <1>1
    <3>2. c3 = Xor(Low(s(2)), Bits(b[3]))
      BY <1>5 DEF c3
    <3> QED
      BY <2>1, <3>1, <3>2, OneByteMore
  <2>8. g[3] = PushByte(g[2], b[3])
    BY <1>7
  <2> QED
    BY <2>2, <2>3, <2>6, <2>7, <2>8 DEF u
<1>12. /\ g[4] = Xor(Sum(<<o56[c1], o48[c2], o40[c3], o32[c4]>>), s(4))
      /\ <<o56[c1], o48[c2], o40[c3], o32[c4]>> \in Seq(Words)
  <2> DEFINE v == <<o48[c1], o40[c2], o32[c3]>>
             t == <<o56[c1], o48[c2], o40[c3]>>
             u == <<o56[c1], o48[c2], o40[c3], o32[c4]>>
  <2>1. v \in Seq(Words) /\ g[3] = Xor(Sum(v), s(3))
    BY <1>11
  <2>2. Shifted(v) = t
    <3>1. Shifted(v) =
              <<ShiftByte(o48[c1]), ShiftByte(o40[c2]), ShiftByte(o32[c3])>>
      BY DEF Shifted
    <3>2. /\ ShiftByte(o48[c1]) = o56[c1]
          /\ ShiftByte(o40[c2]) = o48[c2]
          /\ ShiftByte(o32[c3]) = o40[c3]
      BY <1>3, Tables
    <3> QED
      BY <3>1, <3>2
  <2>3. u \in Seq(Words)
    <3> HIDE DEF Words
    <3>1. /\ o56[c1] \in Words
          /\ o48[c2] \in Words
          /\ o40[c3] \in Words
          /\ o32[c4] \in Words
      BY <1>3, TablesIn
    <3> QED
      BY <3>1
  <2>4. /\ Len(u) = 4 /\ Len(t) = 3 /\ u[4] = o32[c4]
        /\ \A i \in 1 .. 3 : u[i] = t[i]
    OBVIOUS
  <2> HIDE DEF v, t, u
  <2>5. o32[c4] \in Words /\ t \in Seq(Words)
    BY <1>3, <2>1, <2>2, TablesIn, ShiftedWords
  <2>6. Append(t, o32[c4]) = u
    <3>1. /\ Len(u) = Len(t) + 1 /\ u[Len(u)] = o32[c4]
          /\ \A i \in 1 .. Len(t) : u[i] = t[i]
      BY <2>4
    <3> QED
      BY <2>3, <2>5, <3>1, AppendIs
  <2>7. PushByte(g[3], b[4]) =
            Xor(Sum(Append(Shifted(v), o32[c4])), s(4))
    <3>1. s(3) \in Words /\ Shr(s(3), 8) = s(4)
      BY <1>1
    <3>2. c4 = Xor(Low(s(3)), Bits(b[4]))
      BY <1>5 DEF c4
    <3> QED
      BY <2>1, <3>1, <3>2, OneByteMore
  <2>8. g[4] = PushByte(g[3], b[4])
    BY <1>7
  <2> QED
    BY <2>2, <2>3, <2>6, <2>7, <2>8 DEF u
<1>13. /\ g[5] = Xor(Sum(<<o64[c1], o56[c2], o48[c3], o40[c4], o32[c5]>>), s(5))
      /\ <<o64[c1], o56[c2], o48[c3], o40[c4], o32[c5]>> \in Seq(Words)
  <2> DEFINE v == <<o56[c1], o48[c2], o40[c3], o32[c4]>>
             t == <<o64[c1], o56[c2], o48[c3], o40[c4]>>
             u == <<o64[c1], o56[c2], o48[c3], o40[c4], o32[c5]>>
  <2>1. v \in Seq(Words) /\ g[4] = Xor(Sum(v), s(4))
    BY <1>12
  <2>2. Shifted(v) = t
    <3>1. Shifted(v) =
              <<ShiftByte(o56[c1]), ShiftByte(o48[c2]), ShiftByte(o40[c3]),
                ShiftByte(o32[c4])>>
      BY DEF Shifted
    <3>2. /\ ShiftByte(o56[c1]) = o64[c1]
          /\ ShiftByte(o48[c2]) = o56[c2]
          /\ ShiftByte(o40[c3]) = o48[c3]
          /\ ShiftByte(o32[c4]) = o40[c4]
      BY <1>3, Tables
    <3> QED
      BY <3>1, <3>2
  <2>3. u \in Seq(Words)
    <3> HIDE DEF Words
    <3>1. /\ o64[c1] \in Words
          /\ o56[c2] \in Words
          /\ o48[c3] \in Words
          /\ o40[c4] \in Words
          /\ o32[c5] \in Words
      BY <1>3, TablesIn
    <3> QED
      BY <3>1
  <2>4. /\ Len(u) = 5 /\ Len(t) = 4 /\ u[5] = o32[c5]
        /\ \A i \in 1 .. 4 : u[i] = t[i]
    OBVIOUS
  <2> HIDE DEF v, t, u
  <2>5. o32[c5] \in Words /\ t \in Seq(Words)
    BY <1>3, <2>1, <2>2, TablesIn, ShiftedWords
  <2>6. Append(t, o32[c5]) = u
    <3>1. /\ Len(u) = Len(t) + 1 /\ u[Len(u)] = o32[c5]
          /\ \A i \in 1 .. Len(t) : u[i] = t[i]
      BY <2>4
    <3> QED
      BY <2>3, <2>5, <3>1, AppendIs
  <2>7. PushByte(g[4], b[5]) =
            Xor(Sum(Append(Shifted(v), o32[c5])), s(5))
    <3>1. s(4) \in Words /\ Shr(s(4), 8) = s(5)
      BY <1>1
    <3>2. c5 = Xor(Low(s(4)), Bits(b[5]))
      BY <1>5 DEF c5
    <3> QED
      BY <2>1, <3>1, <3>2, OneByteMore
  <2>8. g[5] = PushByte(g[4], b[5])
    BY <1>7
  <2> QED
    BY <2>2, <2>3, <2>6, <2>7, <2>8 DEF u
<1>14. /\ g[6] = Xor(Sum(<<o72[c1], o64[c2], o56[c3], o48[c4], o40[c5], o32[c6]>>), s(6))
      /\ <<o72[c1], o64[c2], o56[c3], o48[c4], o40[c5], o32[c6]>> \in Seq(Words)
  <2> DEFINE v == <<o64[c1], o56[c2], o48[c3], o40[c4], o32[c5]>>
             t == <<o72[c1], o64[c2], o56[c3], o48[c4], o40[c5]>>
             u == <<o72[c1], o64[c2], o56[c3], o48[c4], o40[c5], o32[c6]>>
  <2>1. v \in Seq(Words) /\ g[5] = Xor(Sum(v), s(5))
    BY <1>13
  <2>2. Shifted(v) = t
    <3>1. Shifted(v) =
              <<ShiftByte(o64[c1]), ShiftByte(o56[c2]), ShiftByte(o48[c3]),
                ShiftByte(o40[c4]), ShiftByte(o32[c5])>>
      BY DEF Shifted
    <3>2. /\ ShiftByte(o64[c1]) = o72[c1]
          /\ ShiftByte(o56[c2]) = o64[c2]
          /\ ShiftByte(o48[c3]) = o56[c3]
          /\ ShiftByte(o40[c4]) = o48[c4]
          /\ ShiftByte(o32[c5]) = o40[c5]
      BY <1>3, Tables
    <3> QED
      BY <3>1, <3>2
  <2>3. u \in Seq(Words)
    <3> HIDE DEF Words
    <3>1. /\ o72[c1] \in Words
          /\ o64[c2] \in Words
          /\ o56[c3] \in Words
          /\ o48[c4] \in Words
          /\ o40[c5] \in Words
          /\ o32[c6] \in Words
      BY <1>3, TablesIn
    <3> QED
      BY <3>1
  <2>4. /\ Len(u) = 6 /\ Len(t) = 5 /\ u[6] = o32[c6]
        /\ \A i \in 1 .. 5 : u[i] = t[i]
    OBVIOUS
  <2> HIDE DEF v, t, u
  <2>5. o32[c6] \in Words /\ t \in Seq(Words)
    BY <1>3, <2>1, <2>2, TablesIn, ShiftedWords
  <2>6. Append(t, o32[c6]) = u
    <3>1. /\ Len(u) = Len(t) + 1 /\ u[Len(u)] = o32[c6]
          /\ \A i \in 1 .. Len(t) : u[i] = t[i]
      BY <2>4
    <3> QED
      BY <2>3, <2>5, <3>1, AppendIs
  <2>7. PushByte(g[5], b[6]) =
            Xor(Sum(Append(Shifted(v), o32[c6])), s(6))
    <3>1. s(5) \in Words /\ Shr(s(5), 8) = s(6)
      BY <1>1
    <3>2. c6 = Xor(Low(s(5)), Bits(b[6]))
      BY <1>5 DEF c6
    <3> QED
      BY <2>1, <3>1, <3>2, OneByteMore
  <2>8. g[6] = PushByte(g[5], b[6])
    BY <1>7
  <2> QED
    BY <2>2, <2>3, <2>6, <2>7, <2>8 DEF u
<1>15. /\ g[7] = Xor(Sum(<<o80[c1], o72[c2], o64[c3], o56[c4], o48[c5], o40[c6], o32[c7]>>), s(7))
      /\ <<o80[c1], o72[c2], o64[c3], o56[c4], o48[c5], o40[c6], o32[c7]>> \in Seq(Words)
  <2> DEFINE v == <<o72[c1], o64[c2], o56[c3], o48[c4], o40[c5], o32[c6]>>
             t == <<o80[c1], o72[c2], o64[c3], o56[c4], o48[c5], o40[c6]>>
             u == <<o80[c1], o72[c2], o64[c3], o56[c4], o48[c5], o40[c6], o32[c7]>>
  <2>1. v \in Seq(Words) /\ g[6] = Xor(Sum(v), s(6))
    BY <1>14
  <2>2. Shifted(v) = t
    <3>1. Shifted(v) =
              <<ShiftByte(o72[c1]), ShiftByte(o64[c2]), ShiftByte(o56[c3]),
                ShiftByte(o48[c4]), ShiftByte(o40[c5]), ShiftByte(o32[c6])>>
      BY DEF Shifted
    <3>2. /\ ShiftByte(o72[c1]) = o80[c1]
          /\ ShiftByte(o64[c2]) = o72[c2]
          /\ ShiftByte(o56[c3]) = o64[c3]
          /\ ShiftByte(o48[c4]) = o56[c4]
          /\ ShiftByte(o40[c5]) = o48[c5]
          /\ ShiftByte(o32[c6]) = o40[c6]
      BY <1>3, Tables
    <3> QED
      BY <3>1, <3>2
  <2>3. u \in Seq(Words)
    <3> HIDE DEF Words
    <3>1. /\ o80[c1] \in Words
          /\ o72[c2] \in Words
          /\ o64[c3] \in Words
          /\ o56[c4] \in Words
          /\ o48[c5] \in Words
          /\ o40[c6] \in Words
          /\ o32[c7] \in Words
      BY <1>3, TablesIn
    <3> QED
      BY <3>1
  <2>4. /\ Len(u) = 7 /\ Len(t) = 6 /\ u[7] = o32[c7]
        /\ \A i \in 1 .. 6 : u[i] = t[i]
    OBVIOUS
  <2> HIDE DEF v, t, u
  <2>5. o32[c7] \in Words /\ t \in Seq(Words)
    BY <1>3, <2>1, <2>2, TablesIn, ShiftedWords
  <2>6. Append(t, o32[c7]) = u
    <3>1. /\ Len(u) = Len(t) + 1 /\ u[Len(u)] = o32[c7]
          /\ \A i \in 1 .. Len(t) : u[i] = t[i]
      BY <2>4
    <3> QED
      BY <2>3, <2>5, <3>1, AppendIs
  <2>7. PushByte(g[6], b[7]) =
            Xor(Sum(Append(Shifted(v), o32[c7])), s(7))
    <3>1. s(6) \in Words /\ Shr(s(6), 8) = s(7)
      BY <1>1
    <3>2. c7 = Xor(Low(s(6)), Bits(b[7]))
      BY <1>5 DEF c7
    <3> QED
      BY <2>1, <3>1, <3>2, OneByteMore
  <2>8. g[7] = PushByte(g[6], b[7])
    BY <1>7
  <2> QED
    BY <2>2, <2>3, <2>6, <2>7, <2>8 DEF u
<1>16. /\ g[8] = Xor(Sum(<<o88[c1], o80[c2], o72[c3], o64[c4], o56[c5], o48[c6], o40[c7], o32[c8]>>), s(8))
      /\ <<o88[c1], o80[c2], o72[c3], o64[c4], o56[c5], o48[c6], o40[c7], o32[c8]>> \in Seq(Words)
  <2> DEFINE v == <<o80[c1], o72[c2], o64[c3], o56[c4], o48[c5], o40[c6], o32[c7]>>
             t == <<o88[c1], o80[c2], o72[c3], o64[c4], o56[c5], o48[c6], o40[c7]>>
             u == <<o88[c1], o80[c2], o72[c3], o64[c4], o56[c5], o48[c6], o40[c7], o32[c8]>>
  <2>1. v \in Seq(Words) /\ g[7] = Xor(Sum(v), s(7))
    BY <1>15
  <2>2. Shifted(v) = t
    <3>1. Shifted(v) =
              <<ShiftByte(o80[c1]), ShiftByte(o72[c2]), ShiftByte(o64[c3]),
                ShiftByte(o56[c4]), ShiftByte(o48[c5]), ShiftByte(o40[c6]),
                ShiftByte(o32[c7])>>
      BY DEF Shifted
    <3>2. /\ ShiftByte(o80[c1]) = o88[c1]
          /\ ShiftByte(o72[c2]) = o80[c2]
          /\ ShiftByte(o64[c3]) = o72[c3]
          /\ ShiftByte(o56[c4]) = o64[c4]
          /\ ShiftByte(o48[c5]) = o56[c5]
          /\ ShiftByte(o40[c6]) = o48[c6]
          /\ ShiftByte(o32[c7]) = o40[c7]
      BY <1>3, Tables
    <3> QED
      BY <3>1, <3>2
  <2>3. u \in Seq(Words)
    <3> HIDE DEF Words
    <3>1. /\ o88[c1] \in Words
          /\ o80[c2] \in Words
          /\ o72[c3] \in Words
          /\ o64[c4] \in Words
          /\ o56[c5] \in Words
          /\ o48[c6] \in Words
          /\ o40[c7] \in Words
          /\ o32[c8] \in Words
      BY <1>3, TablesIn
    <3> QED
      BY <3>1
  <2>4. /\ Len(u) = 8 /\ Len(t) = 7 /\ u[8] = o32[c8]
        /\ \A i \in 1 .. 7 : u[i] = t[i]
    OBVIOUS
  <2> HIDE DEF v, t, u
  <2>5. o32[c8] \in Words /\ t \in Seq(Words)
    BY <1>3, <2>1, <2>2, TablesIn, ShiftedWords
  <2>6. Append(t, o32[c8]) = u
    <3>1. /\ Len(u) = Len(t) + 1 /\ u[Len(u)] = o32[c8]
          /\ \A i \in 1 .. Len(t) : u[i] = t[i]
      BY <2>4
    <3> QED
      BY <2>3, <2>5, <3>1, AppendIs
  <2>7. PushByte(g[7], b[8]) =
            Xor(Sum(Append(Shifted(v), o32[c8])), s(8))
    <3>1. s(7) \in Words /\ Shr(s(7), 8) = s(8)
      BY <1>1
    <3>2. c8 = Xor(Low(s(7)), Bits(b[8]))
      BY <1>5 DEF c8
    <3> QED
      BY <2>1, <3>1, <3>2, OneByteMore
  <2>8. g[8] = PushByte(g[7], b[8])
    BY <1>7
  <2> QED
    BY <2>2, <2>3, <2>6, <2>7, <2>8 DEF u
<1>17. Xor(Sum(all), {}) = Sum(all)
  BY DEF Xor
<1>18. XorAll(all) = Sum(all) /\ Sum(all) \in Words
  <2>1. all \in Seq(Words)
    BY <1>16
  <2> QED
    BY <2>1, XorAllFolds, SumWord DEF Sum
<1> QED
  BY <1>2, <1>4, <1>6, <1>16, <1>17, <1>18

-----------------------------------------------------------------------------
(* CRC32C: the three loops read every byte once *)

Bytewise(crc, a, b) == Fold("crc", crc, SubSeq(bytes, a, b))

LEMMA BytewiseWord ==
    ASSUME NEW S, bytes \in Seq(S), NEW crc \in Words, NEW a \in 1 .. Len(bytes) + 1,
           NEW b \in 0 .. Len(bytes)
    PROVE  SubSeq(bytes, a, b) \in Seq(S) /\ Bytewise(crc, a, b) \in Words
<1>1. \A i \in a .. b : bytes[i] \in S
  BY ElementOfSeq, LenProperties
<1>2. SubSeq(bytes, a, b) \in Seq(S)
  BY <1>1, SubSeqProperties, LenProperties
<1> DEFINE s == SubSeq(bytes, a, b)
<1>3. Len(s) \in Nat
  BY <1>2, LenProperties
<1>4. \A r \in Words : \A i \in 1 .. Len(s) : Step("crc", r, s[i]) \in Words
  BY StepBytes, PushByteIs
<1> HIDE DEF s
<1>5. Fold("crc", crc, s) \in Words
  BY <1>3, <1>4, FoldKeeps
<1> QED
  BY <1>2, <1>5 DEF Bytewise, s

LEMMA BytewiseSplits ==
    ASSUME NEW S, bytes \in Seq(S), NEW crc, NEW a \in 1 .. Len(bytes) + 1,
           NEW b \in a - 1 .. Len(bytes), NEW c \in b .. Len(bytes)
    PROVE  Bytewise(crc, a, c) = Bytewise(Bytewise(crc, a, b), b + 1, c)
<1>1. SubSeq(bytes, a, c) = SubSeq(bytes, a, b) \o SubSeq(bytes, b + 1, c)
  BY ConcatAdjacentSubSeq
<1>2. SubSeq(bytes, a, b) \in Seq(S) /\ SubSeq(bytes, b + 1, c) \in Seq(S)
  <2>1. /\ \A i \in a .. b : bytes[i] \in S
        /\ \A i \in b + 1 .. c : bytes[i] \in S
    BY ElementOfSeq, LenProperties
  <2>2. a \in Int /\ b \in Int /\ b + 1 \in Int /\ c \in Int
    BY LenProperties
  <2> QED
    BY <2>1, <2>2, SubSeqProperties
<1> DEFINE s == SubSeq(bytes, a, b)
           t == SubSeq(bytes, b + 1, c)
<1> HIDE DEF s, t
<1>3. Fold("crc", crc, s \o t) = Fold("crc", Fold("crc", crc, s), t)
  <2>1. s \in Seq(S) /\ t \in Seq(S)
    BY <1>2 DEF s, t
  <2> QED
    BY <2>1, FoldConcat
<1> QED
  BY <1>1, <1>3 DEF Bytewise, s, t

LEMMA WordsFrom ==
    ASSUME NEW S, bytes \in Seq(S), NEW crc \in Words, NEW p \in Nat, NEW n \in Nat,
           p + 8 * n <= Len(bytes)
    PROVE  FoldLeft(PushWords, crc,
                    [i \in 1 .. n |-> SubSeq(bytes, p + 8 * (i - 1) + 1, p + 8 * i)]) =
               Bytewise(crc, p + 1, p + 8 * n)
<1> DEFINE w == [i \in 1 .. n |-> SubSeq(bytes, p + 8 * (i - 1) + 1, p + 8 * i)]
<1>1. ASSUME NEW i \in 1 .. n
      PROVE  /\ w[i] = SubSeq(bytes, p + 8 * (i - 1) + 1, p + 8 * i)
             /\ w[i] \in Seq(S) /\ Len(w[i]) = 8
  <2> DEFINE a == p + 8 * (i - 1) + 1
             b == p + 8 * i
  <2>1. a \in Int /\ b \in Int /\ b - a + 1 = 8 /\ a <= b /\ a >= 1 /\ b <= Len(bytes)
    BY LenProperties
  <2>2. w[i] = SubSeq(bytes, a, b)
    OBVIOUS
  <2> HIDE DEF a, b
  <2>3. \A j \in a .. b : bytes[j] \in S
    BY <2>1, ElementOfSeq, LenProperties
  <2>4. SubSeq(bytes, a, b) \in Seq(S) /\ Len(SubSeq(bytes, a, b)) = 8
    BY <2>1, <2>3, SubSeqProperties
  <2> QED
    BY <2>2, <2>4 DEF a, b
<1>2. w \in Seq(Seq(S)) /\ Len(w) = n
  BY <1>1
<1>3. FoldLeft(PushWords, crc, w) = Fold("words", crc, w)
  BY <1>2, WordwiseFolds
<1> HIDE DEF w
<1>4. PICK g : Unrolls("words", g, crc, w) /\ Fold("words", crc, w) = g[Len(w)]
  BY <1>2, FoldUnrolls
<1> DEFINE T == {i \in 0 .. n : g[i] = Bytewise(crc, p + 1, p + 8 * i)}
<1>5. 0 \in T
  <2>1. SubSeq(bytes, p + 1, p + 8 * 0) = <<>>
    BY SubSeqEmpty
  <2>2. Bytewise(crc, p + 1, p + 8 * 0) = crc
    BY <2>1, FoldEmpty DEF Bytewise
  <2>3. g[0] = crc
    BY <1>4 DEF Unrolls
  <2> QED
    BY <2>2, <2>3
<1>6. ASSUME NEW i \in 0 .. n - 1, i \in T PROVE i + 1 \in T
  <2> DEFINE b == p + 8 * i
             c == p + 8 * (i + 1)
  <2>1. g[i] = Bytewise(crc, p + 1, b)
    BY <1>6
  <2>2. g[i + 1] = PushWords(g[i], w[i + 1])
    <3>1. i \in 0 .. Len(w) - 1
      BY <1>2
    <3>2. g[i + 1] = Step("words", g[i], w[i + 1])
      BY <1>4, <3>1, Zenon DEF Unrolls
    <3> QED
      BY <3>2, StepWords
  <2>3. i + 1 \in 1 .. n /\ (i + 1) - 1 = i
    OBVIOUS
  <2>4. w[i + 1] = SubSeq(bytes, b + 1, c) /\ w[i + 1] \in Seq(S) /\ Len(w[i + 1]) = 8
    <3>1. /\ w[i + 1] = SubSeq(bytes, p + 8 * ((i + 1) - 1) + 1, p + 8 * (i + 1))
          /\ w[i + 1] \in Seq(S) /\ Len(w[i + 1]) = 8
      BY <1>1, <2>3
    <3> QED
      BY <2>3, <3>1
  <2>5. /\ p + 1 \in 1 .. Len(bytes) + 1 /\ b \in (p + 1) - 1 .. Len(bytes)
        /\ c \in b .. Len(bytes) /\ b \in 0 .. Len(bytes)
    BY LenProperties
  <2> HIDE DEF b, c
  <2>6. g[i] \in Words
    BY <2>1, <2>5, BytewiseWord
  <2>7. PushWords(g[i], w[i + 1]) = Fold("crc", g[i], w[i + 1])
    BY <2>4, <2>6, PushWordsIs
  <2>8. Bytewise(crc, p + 1, c) = Bytewise(Bytewise(crc, p + 1, b), b + 1, c)
    BY <2>5, BytewiseSplits
  <2>9. g[i + 1] = Bytewise(crc, p + 1, c)
    BY <2>1, <2>2, <2>4, <2>7, <2>8 DEF Bytewise
  <2> QED
    BY <2>3, <2>9 DEF c
<1> HIDE DEF T
<1>7. 0 .. n \subseteq T
  BY <1>5, <1>6, Upward
<1>8. g[n] = Bytewise(crc, p + 1, p + 8 * n)
  BY <1>7 DEF T
<1> QED
  BY <1>2, <1>3, <1>4, <1>8 DEF w

\* Where the loops begin and end
LEMMA LoopBounds ==
    ASSUME NEW beg \in Nat, NEW end \in Nat, beg < end, NEW start, NEW n,
           start = AlignedStart(beg, end),
           n = IF (end \div 8) * 8 > start THEN ((end \div 8) * 8 - start) \div 8 ELSE 0
    PROVE  /\ start \in beg .. end
           /\ n \in Nat
           /\ start + 8 * n \in start .. end
<1>1. CeilDiv(beg, 8) * 8 \in Nat /\ CeilDiv(beg, 8) * 8 >= beg
  BY DEF CeilDiv
<1>2. start \in beg .. end
  BY <1>1 DEF AlignedStart
<1>3. end \div 8 \in Nat /\ (end \div 8) * 8 <= end
  OBVIOUS
<1>4. CASE (end \div 8) * 8 > start
  <2>1. n \in Nat /\ 8 * n <= (end \div 8) * 8 - start
    BY <1>2, <1>3, <1>4
  <2> QED
    BY <1>2, <1>3, <2>1
<1>5. CASE ~((end \div 8) * 8 > start)
  BY <1>2, <1>5
<1> QED
  BY <1>4, <1>5

LEMMA PushIs ==
    ASSUME NEW S, bytes \in Seq(S), align \in 0 .. 7, NEW crc \in Words,
           NEW last \in 1 .. Len(bytes), NEW first \in 1 .. last
    PROVE  Push(crc, first, last) = Bytewise(crc, first, last)
<1> DEFINE beg == align + first - 1
           end == align + last
           start == AlignedStart(beg, end)
           stop == (end \div 8) * 8
           n == IF stop > start THEN (stop - start) \div 8 ELSE 0
           p == start - align
           Sub(from, to) == SubSeq(bytes, from - align + 1, to - align)
           c1 == FoldLeft(PushByte, crc, Sub(beg, start))
           words == [i \in 1 .. n |-> Sub(start + 8 * (i - 1), start + 8 * i)]
           c2 == FoldLeft(PushWords, c1, words)
           c3 == FoldLeft(PushByte, c2, Sub(start + 8 * n, end))
<1>1. Push(crc, first, last) = c3
  <2>1. ~(first > last)
    OBVIOUS
  <2> QED
    BY <2>1, Zenon DEF Push
<1>2. Len(bytes) \in Nat
  BY LenProperties
<1>3. beg \in Nat /\ end \in Nat /\ beg < end
  BY <1>2
<1>4. /\ start \in beg .. end
      /\ n \in Nat
      /\ start + 8 * n \in start .. end
  <2> HIDE DEF beg, end, start
  <2>1. start = AlignedStart(beg, end)
    BY DEF start
  <2>2. n = IF (end \div 8) * 8 > start THEN ((end \div 8) * 8 - start) \div 8 ELSE 0
    OBVIOUS
  <2> HIDE DEF n
  <2> QED
    BY <1>3, <2>1, <2>2, LoopBounds
<1> HIDE DEF start, n
<1>5. /\ p \in Nat /\ p \in first - 1 .. last /\ p + 8 * n \in p .. last
      /\ start = p + align
  BY <1>2, <1>3, <1>4
<1>6. /\ Sub(beg, start) = SubSeq(bytes, first, p)
      /\ Sub(start + 8 * n, end) = SubSeq(bytes, p + 8 * n + 1, last)
  <2>1. /\ beg - align + 1 = first /\ start - align = p
        /\ (start + 8 * n) - align + 1 = p + 8 * n + 1 /\ end - align = last
    BY <1>2, <1>3, <1>4, <1>5
  <2> QED
    BY <2>1
<1>7. words = [i \in 1 .. n |-> SubSeq(bytes, p + 8 * (i - 1) + 1, p + 8 * i)]
  <2>1. ASSUME NEW i \in 1 .. n
        PROVE  Sub(start + 8 * (i - 1), start + 8 * i) =
                   SubSeq(bytes, p + 8 * (i - 1) + 1, p + 8 * i)
    <3>1. /\ (start + 8 * (i - 1)) - align + 1 = p + 8 * (i - 1) + 1
          /\ (start + 8 * i) - align = p + 8 * i
      BY <1>4, <1>5
    <3> QED
      BY <3>1
  <2> QED
    BY <2>1, Zenon
<1> HIDE DEF p, beg, end, Sub, words
<1>8. c1 = Bytewise(crc, first, p) /\ c1 \in Words
  <2>1. SubSeq(bytes, first, p) \in Seq(S) /\ Bytewise(crc, first, p) \in Words
    BY <1>2, <1>5, BytewiseWord
  <2>2. FoldLeft(PushByte, crc, SubSeq(bytes, first, p)) =
            Fold("crc", crc, SubSeq(bytes, first, p))
    BY <2>1, BytewiseFolds
  <2> QED
    BY <1>6, <2>1, <2>2 DEF Bytewise
<1> HIDE DEF c1
<1>9. c2 = Bytewise(c1, p + 1, p + 8 * n)
  <2>1. p + 8 * n <= Len(bytes)
    BY <1>2, <1>5
  <2> QED
    BY <1>4, <1>5, <1>7, <1>8, <2>1, WordsFrom
<1> HIDE DEF c2
<1>10. c2 = Bytewise(crc, first, p + 8 * n)
  <2>1. /\ first \in 1 .. Len(bytes) + 1 /\ p \in first - 1 .. Len(bytes)
        /\ p + 8 * n \in p .. Len(bytes)
    BY <1>2, <1>5
  <2> QED
    BY <1>8, <1>9, <2>1, BytewiseSplits
<1>11. c3 = Bytewise(c2, p + 8 * n + 1, last)
  <2> DEFINE q == p + 8 * n
  <2>1. q + 1 \in 1 .. Len(bytes) + 1 /\ last \in 0 .. Len(bytes)
    BY <1>2, <1>5
  <2>2. {} \in Words
    BY DEF Words
  <2>3. SubSeq(bytes, q + 1, last) \in Seq(S)
    BY <2>1, <2>2, BytewiseWord
  <2> HIDE DEF q
  <2>4. FoldLeft(PushByte, c2, SubSeq(bytes, q + 1, last)) =
            Fold("crc", c2, SubSeq(bytes, q + 1, last))
    BY <2>3, BytewiseFolds
  <2> QED
    BY <1>6, <2>4 DEF Bytewise, q
<1>12. Bytewise(crc, first, last) =
           Bytewise(Bytewise(crc, first, p + 8 * n), p + 8 * n + 1, last)
  <2> DEFINE q == p + 8 * n
  <2>1. /\ first \in 1 .. Len(bytes) + 1 /\ q \in first - 1 .. Len(bytes)
        /\ last \in q .. Len(bytes)
    BY <1>2, <1>4, <1>5
  <2> HIDE DEF q
  <2> QED
    BY <2>1, BytewiseSplits DEF q
<1> QED
  BY <1>1, <1>10, <1>11, <1>12

LEMMA ChecksumHolds ==
    ASSUME NEW S, bytes \in Seq(S), align \in 0 .. 7 PROVE ChecksumExact
<1> DEFINE n == Len(bytes)
<1>1. n \in Nat /\ SubSeq(bytes, 1, n) = bytes
  BY LenProperties, SubSeqFull
<1>2. Ones \in Words
  BY DEF Ones, Words
<1>3. FoldLeft(PushByte, Ones, bytes) = Bytewise(Ones, 1, n)
  BY <1>1, BytewiseFolds DEF Bytewise
<1>4. ASSUME bytes # <<>> PROVE Push(Ones, 1, n) = Bytewise(Ones, 1, n)
  <2>1. n \in 1 .. Len(bytes) /\ 1 \in 1 .. n
    BY <1>1, <1>4, EmptySeq
  <2> HIDE DEF n
  <2> QED
    BY <1>2, <2>1, PushIs
<1>5. ASSUME NEW cut \in 1 .. n - 1
      PROVE  Push(Push(Ones, 1, cut), cut + 1, n) = Bytewise(Ones, 1, n)
  <2>1. /\ cut \in 1 .. Len(bytes) /\ 1 \in 1 .. cut /\ n \in 1 .. Len(bytes)
        /\ cut + 1 \in 1 .. n /\ 1 \in 1 .. Len(bytes) + 1 /\ cut \in 0 .. Len(bytes)
        /\ cut \in 1 - 1 .. Len(bytes) /\ n \in cut .. Len(bytes)
    BY <1>1
  <2> HIDE DEF n
  <2>2. Push(Ones, 1, cut) = Bytewise(Ones, 1, cut)
    BY <1>2, <2>1, PushIs
  <2>3. Bytewise(Ones, 1, cut) \in Words
    BY <1>2, <2>1, BytewiseWord
  <2>4. Push(Bytewise(Ones, 1, cut), cut + 1, n) = Bytewise(Bytewise(Ones, 1, cut), cut + 1, n)
    BY <2>1, <2>3, PushIs
  <2>5. Bytewise(Ones, 1, n) = Bytewise(Bytewise(Ones, 1, cut), cut + 1, n)
    BY <2>1, BytewiseSplits
  <2> QED
    BY <2>2, <2>4, <2>5
<1> QED
  BY <1>3, <1>4, <1>5 DEF ChecksumExact

-----------------------------------------------------------------------------
(* The theorem *)

InputTypes == bytes \in Seq(0 .. 255) /\ align \in 0 .. 7

LEMMA InputTyped == InputSpec => []InputTypes
<1>1. InputInit => InputTypes
  BY EmptySeq DEF InputInit, InputTypes
<1>2. InputTypes /\ [InputNext]_inputVars => InputTypes'
  <2> SUFFICES ASSUME InputTypes, [InputNext]_inputVars PROVE InputTypes'
    OBVIOUS
  <2>1. CASE Grow
    <3>1. PICK b \in InputBytes : bytes' = Append(bytes, b)
      BY <2>1 DEF Grow
    <3>2. b \in 0 .. 255
      BY InputAssumption
    <3>3. Append(bytes, b) \in Seq(0 .. 255)
      BY <3>2, AppendProperties DEF InputTypes
    <3> QED
      BY <2>1, <3>1, <3>3 DEF InputTypes, Grow
  <2>2. CASE GrowLong
    <3> DEFINE b == (73 * Len(bytes)) % 256
    <3>1. Len(bytes) \in Nat
      BY LenProperties DEF InputTypes
    <3>2. b \in 0 .. 255
      <4>1. 73 * Len(bytes) \in Nat
        BY <3>1
      <4>2. \A n \in Nat : n % 256 \in 0 .. 255
        OBVIOUS
      <4> QED
        BY <4>1, <4>2
    <3> HIDE DEF b
    <3>3. Append(bytes, b) \in Seq(0 .. 255)
      BY <3>2, AppendProperties DEF InputTypes
    <3> QED
      BY <2>2, <3>3 DEF InputTypes, GrowLong, b
  <2>3. CASE UNCHANGED inputVars
    BY <2>3 DEF InputTypes, inputVars
  <2> QED
    BY <2>1, <2>2, <2>3 DEF InputNext
<1> QED
  BY <1>1, <1>2, PTL DEF InputSpec

LEMMA BytesAreNat == ASSUME InputTypes PROVE bytes \in Seq(Nat)
<1>1. 0 .. 255 \subseteq Nat
  OBVIOUS
<1> QED
  BY <1>1, SeqMonotonic DEF InputTypes

\* Whatever the bytes are and wherever they lie, SHA-1 processes them, the bit
\* behind them, the zeros and the length as whole blocks (sha1.cc:110-142), and
\* CRC32C is the same byte by byte, with eight bytes at a time and in two
\* pieces (crc32c.cc:24-70).
THEOREM DigestIsExact == InputSpec => []DigestExact
<1>1. InputTypes => DigestExact
  BY BytesAreNat, PaddingHolds, ChecksumHolds DEF InputTypes, DigestExact
<1> QED
  BY <1>1, InputTyped, PTL

-----------------------------------------------------------------------------
(* The folds of the conversions to and from text *)

LEMMA TimesFolds ==
    ASSUME NEW S, NEW s \in Seq(S), NEW z
    PROVE  FoldLeft(LAMBDA p, b : p * b, z, s) = Fold("times", z, s)
<1> DEFINE Makes(f, D) ==
               f = [T \in SUBSET D |->
                       IF T = {} THEN z
                       ELSE LET x == Max(T) IN f[T \ {x}] * s[x]]
           F == CHOOSE f : Makes(f, DOMAIN s)
<1>1. FoldLeft(LAMBDA p, b : p * b, z, s) = F[DOMAIN s]
  BY Zenon DEF FoldLeft, MapThenFoldSet
<1>2. \A f, D : Folds("times", f, z, s, D) <=> Makes(f, D)
  BY StepMultiplies, Zenon DEF Folds
<1>3. Len(s) \in Nat /\ DOMAIN s = 1 .. Len(s)
  BY LenProperties
<1>4. PICK h : Folds("times", h, z, s, DOMAIN s)
  BY <1>3, FoldsExist
<1> HIDE DEF Makes
<1>5. Makes(F, DOMAIN s)
  BY <1>2, <1>4, Zenon
<1> HIDE DEF F
<1> QED
  BY <1>1, <1>2, <1>3, <1>5, FoldFound

LEMMA SumFolds ==
    ASSUME NEW S, NEW s \in Seq(S), NEW z
    PROVE  FoldLeft(LAMBDA v, d : v + d, z, s) = Fold("sum", z, s)
<1> DEFINE Makes(f, D) ==
               f = [T \in SUBSET D |->
                       IF T = {} THEN z
                       ELSE LET x == Max(T) IN f[T \ {x}] + s[x]]
           F == CHOOSE f : Makes(f, DOMAIN s)
<1>1. FoldLeft(LAMBDA v, d : v + d, z, s) = F[DOMAIN s]
  BY Zenon DEF FoldLeft, MapThenFoldSet
<1>2. \A f, D : Folds("sum", f, z, s, D) <=> Makes(f, D)
  BY StepSums, Zenon DEF Folds
<1>3. Len(s) \in Nat /\ DOMAIN s = 1 .. Len(s)
  BY LenProperties
<1>4. PICK h : Folds("sum", h, z, s, DOMAIN s)
  BY <1>3, FoldsExist
<1> HIDE DEF Makes
<1>5. Makes(F, DOMAIN s)
  BY <1>2, <1>4, Zenon
<1> HIDE DEF F
<1> QED
  BY <1>1, <1>2, <1>3, <1>5, FoldFound

LEMMA UriFolds ==
    ASSUME NEW S, NEW s \in Seq(S), NEW z
    PROVE  FoldLeft(UriStep, z, s) = Fold("uri", z, s)
<1> DEFINE Makes(f, D) ==
               f = [T \in SUBSET D |->
                       IF T = {} THEN z
                       ELSE LET x == Max(T) IN UriStep(f[T \ {x}], s[x])]
           F == CHOOSE f : Makes(f, DOMAIN s)
<1>1. FoldLeft(UriStep, z, s) = F[DOMAIN s]
  BY Zenon DEF FoldLeft, MapThenFoldSet
<1>2. \A f, D : Folds("uri", f, z, s, D) <=> Makes(f, D)
  BY StepUri, Zenon DEF Folds
<1>3. Len(s) \in Nat /\ DOMAIN s = 1 .. Len(s)
  BY LenProperties
<1>4. PICK h : Folds("uri", h, z, s, DOMAIN s)
  BY <1>3, FoldsExist
<1> HIDE DEF Makes
<1>5. Makes(F, DOMAIN s)
  BY <1>2, <1>4, Zenon
<1> HIDE DEF F
<1> QED
  BY <1>1, <1>2, <1>3, <1>5, FoldFound

LEMMA ValidFolds ==
    ASSUME NEW S, NEW s \in Seq(S)
    PROVE  Valid(s) = Fold("valid", <<>>, s)
<1> DEFINE Makes(f, D) ==
               f = [T \in SUBSET D |->
                       IF T = {} THEN <<>>
                       ELSE LET x == Max(T) IN IF s[x] < Pad THEN Append(f[T \ {x}], s[x]) ELSE f[T \ {x}]]
           F == CHOOSE f : Makes(f, DOMAIN s)
<1>1. Valid(s) = F[DOMAIN s]
  BY Zenon DEF Valid, FoldLeft, MapThenFoldSet
<1>2. \A f, D : Folds("valid", f, <<>>, s, D) <=> Makes(f, D)
  BY StepValid, Zenon DEF Folds
<1>3. Len(s) \in Nat /\ DOMAIN s = 1 .. Len(s)
  BY LenProperties
<1>4. PICK h : Folds("valid", h, <<>>, s, DOMAIN s)
  BY <1>3, FoldsExist
<1> HIDE DEF Makes
<1>5. Makes(F, DOMAIN s)
  BY <1>2, <1>4, Zenon
<1> HIDE DEF F
<1> QED
  BY <1>1, <1>2, <1>3, <1>5, FoldFound

LEMMA DecodeFolds ==
    ASSUME NEW S, NEW s \in Seq(S), NEW z
    PROVE  FoldLeft(DecodeGroup, z, s) = Fold("decode", z, s)
<1> DEFINE Makes(f, D) ==
               f = [T \in SUBSET D |->
                       IF T = {} THEN z
                       ELSE LET x == Max(T) IN DecodeGroup(f[T \ {x}], s[x])]
           F == CHOOSE f : Makes(f, DOMAIN s)
<1>1. FoldLeft(DecodeGroup, z, s) = F[DOMAIN s]
  BY Zenon DEF FoldLeft, MapThenFoldSet
<1>2. \A f, D : Folds("decode", f, z, s, D) <=> Makes(f, D)
  BY StepDecodes, Zenon DEF Folds
<1>3. Len(s) \in Nat /\ DOMAIN s = 1 .. Len(s)
  BY LenProperties
<1>4. PICK h : Folds("decode", h, z, s, DOMAIN s)
  BY <1>3, FoldsExist
<1> HIDE DEF Makes
<1>5. Makes(F, DOMAIN s)
  BY <1>2, <1>4, Zenon
<1> HIDE DEF F
<1> QED
  BY <1>1, <1>2, <1>3, <1>5, FoldFound

-----------------------------------------------------------------------------
(* The digits of a number *)

LEMMA Division ==
    ASSUME NEW n \in Nat, NEW b \in Nat, b > 0
    PROVE  n \div b \in Nat /\ n % b \in 0 .. b - 1 /\ n = b * (n \div b) + (n % b)
  OBVIOUS

LEMMA DivisionTwice ==
    ASSUME NEW n \in Nat, NEW p \in Nat, p > 0, NEW b \in Nat, b > 0
    PROVE  n \div (p * b) = (n \div p) \div b
<1> DEFINE x == n \div p
           r == n % p
           y == x \div b
           z == x % b
<1>1. x \in Nat /\ r \in 0 .. p - 1 /\ n = p * x + r
  BY Division
<1> HIDE DEF x, r
<1>2. y \in Nat /\ z \in 0 .. b - 1 /\ x = b * y + z
  BY <1>1, Division
<1> HIDE DEF y, z
<1>3. p * b \in Nat /\ p * b > 0
  OBVIOUS
<1>4. p * z + r \in 0 .. p * b - 1
  <2>1. z \in Nat /\ r \in Nat /\ z + 1 <= b /\ r < p
    BY <1>1, <1>2
  <2>2. p * (z + 1) <= p * b
    BY <2>1
  <2>3. p * (z + 1) = p * z + p /\ p * z \in Nat
    BY <2>1
  <2> QED
    BY <1>3, <2>1, <2>2, <2>3
<1>5. n = (p * b) * y + (p * z + r)
  BY <1>1, <1>2
<1>6. n \div (p * b) = y
  BY <1>2, <1>3, <1>4, <1>5, QuotientIs
<1> QED
  BY <1>6 DEF y, x

LEMMA PowerIs ==
    ASSUME NEW b \in Nat, NEW n \in Nat
    PROVE  /\ Power(b, 0) = 1
           /\ Power(b, n + 1) = Power(b, n) * b
<1> DEFINE c(m) == [i \in 1 .. m |-> b]
<1>1. \A m \in Nat : c(m) \in Seq({b}) /\ Len(c(m)) = m
                     /\ \A i \in 1 .. m : c(m)[i] = b
  OBVIOUS
<1>2. \A m \in Nat : Power(b, m) = Fold("times", 1, c(m))
  <2> TAKE m \in Nat
  <2>1. c(m) \in Seq({b})
    BY <1>1
  <2> HIDE DEF c
  <2>2. FoldLeft(LAMBDA p, x : p * x, 1, c(m)) = Fold("times", 1, c(m))
    BY <2>1, TimesFolds
  <2> QED
    BY <2>2 DEF Power, c
<1>3. c(0) = <<>>
  OBVIOUS
<1> HIDE DEF c
<1>4. n + 1 \in Nat /\ 0 \in Nat
  OBVIOUS
<1>5. c(n + 1) = Append(c(n), b)
  <2> DEFINE t == c(n)
             u == c(n + 1)
  <2>1. /\ t \in Seq({b}) /\ u \in Seq({b}) /\ Len(u) = Len(t) + 1 /\ u[Len(u)] = b
        /\ \A i \in 1 .. Len(t) : u[i] = t[i]
    BY <1>1, <1>4
  <2> HIDE DEF t, u
  <2>2. Append(t, b) = u
    BY <2>1, AppendIs
  <2> QED
    BY <2>2 DEF t, u
<1>6. Fold("times", 1, Append(c(n), b)) = Fold("times", 1, c(n)) * b
  <2>1. c(n) \in Seq({b}) /\ b \in {b}
    BY <1>1
  <2>2. Fold("times", 1, Append(c(n), b)) = Step("times", Fold("times", 1, c(n)), b)
    BY <2>1, FoldAppend
  <2> QED
    BY <2>2, StepMultiplies
<1>7. Fold("times", 1, <<>>) = 1
  BY FoldEmpty
<1> QED
  BY <1>2, <1>3, <1>4, <1>5, <1>6, <1>7

LEMMA PowerNat ==
    ASSUME NEW b \in Nat, b > 0, NEW n \in Nat
    PROVE  Power(b, n) \in Nat /\ Power(b, n) > 0
<1> DEFINE T == {i \in Nat : Power(b, i) \in Nat /\ Power(b, i) > 0}
<1>1. 0 \in T
  BY PowerIs
<1>2. ASSUME NEW i \in 0 .. n - 1, i \in T PROVE i + 1 \in T
  <2>1. i \in Nat /\ Power(b, i + 1) = Power(b, i) * b /\ Power(b, i) \in Nat
        /\ Power(b, i) > 0
    BY <1>2, PowerIs
  <2> DEFINE p == Power(b, i)
  <2> HIDE DEF p
  <2>2. p \in Nat /\ p > 0 => p * b \in Nat /\ p * b > 0
    OBVIOUS
  <2> QED
    BY <2>1, <2>2 DEF p
<1> HIDE DEF T
<1>3. 0 .. n \subseteq T
  BY <1>1, <1>2, Upward
<1> QED
  BY <1>3 DEF T

LEMMA PowerSum ==
    ASSUME NEW b \in Nat, b > 0, NEW m \in Nat, NEW n \in Nat
    PROVE  Power(b, m + n) = Power(b, m) * Power(b, n)
<1> DEFINE T == {i \in Nat : Power(b, m + i) = Power(b, m) * Power(b, i)}
<1>1. 0 \in T
  <2>1. Power(b, 0) = 1 /\ Power(b, m) \in Nat /\ m + 0 = m
    BY PowerIs, PowerNat
  <2> QED
    BY <2>1
<1>2. ASSUME NEW i \in 0 .. n - 1, i \in T PROVE i + 1 \in T
  <2>1. i \in Nat /\ m + i \in Nat /\ m + (i + 1) = (m + i) + 1
    OBVIOUS
  <2>2. /\ Power(b, (m + i) + 1) = Power(b, m + i) * b
        /\ Power(b, i + 1) = Power(b, i) * b
        /\ Power(b, m + i) = Power(b, m) * Power(b, i)
        /\ Power(b, m) \in Nat /\ Power(b, i) \in Nat
    BY <1>2, <2>1, PowerIs, PowerNat
  <2> DEFINE p == Power(b, m)
             q == Power(b, i)
  <2> HIDE DEF p, q
  <2>3. p \in Nat /\ q \in Nat => (p * q) * b = p * (q * b)
    OBVIOUS
  <2>4. Power(b, m + (i + 1)) = Power(b, m) * Power(b, i + 1)
    BY <2>1, <2>2, <2>3 DEF p, q
  <2> QED
    BY <2>1, <2>4
<1> HIDE DEF T
<1>3. 0 .. n \subseteq T
  BY <1>1, <1>2, Upward
<1> QED
  BY <1>3 DEF T

LEMMA PowerGrows ==
    ASSUME NEW b \in Nat, b > 0, NEW m \in Nat, NEW n \in Nat, m <= n
    PROVE  Power(b, m) <= Power(b, n)
<1> DEFINE p == Power(b, m)
           q == Power(b, n - m)
<1>1. n - m \in Nat /\ m + (n - m) = n
  OBVIOUS
<1>2. Power(b, n) = p * q /\ p \in Nat /\ q \in Nat /\ q > 0
  <2> DEFINE d == n - m
  <2>1. d \in Nat /\ m + d = n
    BY <1>1
  <2> HIDE DEF d
  <2>2. Power(b, m + d) = Power(b, m) * Power(b, d)
    BY <2>1, PowerSum
  <2>3. Power(b, m) \in Nat /\ Power(b, d) \in Nat /\ Power(b, d) > 0
    BY <2>1, PowerNat
  <2> QED
    BY <2>1, <2>2, <2>3 DEF d
<1> HIDE DEF p, q
<1>3. p <= p * q
  BY <1>2
<1> QED
  BY <1>2, <1>3 DEF p

\* digits() for base 10, whose table ends
LEMMA DigitsOfTen ==
    ASSUME NEW n \in Nat, n > 0, n < Power(10, MaxDigits)
    PROVE  LET d == Digits(n, 10)
           IN  d \in Nat /\ d > 0 /\ Power(10, d - 1) <= n /\ n < Power(10, d)
<1> DEFINE T == {d \in 1 .. MaxDigits : n < Power(10, d)}
           Counts(d) == (d < MaxDigits => n < Power(10, d)) /\ (d > 1 => Power(10, d - 1) <= n)
           e == Digits(n, 10)
<1>1. MaxDigits \in Nat /\ MaxDigits > 0
  <2>1. MaxDigits \in Nat /\ Power(10, 0) = 1
    BY InputAssumption, PowerIs
  <2> QED
    BY <2>1
<1>2. T \in SUBSET Nat /\ MaxDigits \in T
  BY <1>1
<1> HIDE DEF T
<1>3. PICK d \in T : \A x \in T : d <= x
  BY <1>2, LeastOf
<1>4. d \in 1 .. MaxDigits /\ n < Power(10, d)
  BY DEF T
<1>5. d > 1 => Power(10, d - 1) <= n
  <2> SUFFICES ASSUME d > 1, ~(Power(10, d - 1) <= n) PROVE FALSE
    OBVIOUS
  <2>1. d - 1 \in Nat /\ d - 1 \in 1 .. MaxDigits /\ 10 \in Nat /\ 10 > 0
    BY <1>1, <1>4
  <2>2. Power(10, d - 1) \in Nat
    BY <2>1, PowerNat
  <2>3. d - 1 \in T
    BY <2>1, <2>2 DEF T
  <2> QED
    BY <1>3, <1>4, <2>3
<1>6. e \in 1 .. MaxDigits /\ Counts(e)
  <2>1. e = CHOOSE x \in 1 .. MaxDigits : Counts(x)
    BY Zenon DEF Digits
  <2>2. Counts(d)
    BY <1>4, <1>5
  <2> HIDE DEF Counts, e
  <2> QED
    BY <1>4, <2>1, <2>2, Zenon
<1> HIDE DEF e
<1>7. n < Power(10, e)
  BY <1>1, <1>6
<1>8. Power(10, e - 1) <= n
  <2>1. Power(10, 0) = 1
    BY PowerIs
  <2>2. CASE e = 1
    BY <2>1, <2>2
  <2>3. CASE e # 1
    BY <1>1, <1>6, <2>3
  <2> QED
    BY <2>2, <2>3
<1> QED
  BY <1>1, <1>6, <1>7, <1>8 DEF e

\* digits2(): the highest bit
LEMMA Digits2Is ==
    ASSUME NEW n \in Nat, n > 0, n < Power(2, 30)
    PROVE  LET d == Digits2(n)
           IN  d \in 1 .. 30 /\ Power(2, d - 1) <= n /\ n < Power(2, d)
<1> DEFINE T == {d \in 0 .. 30 : n < Power(2, d)}
           Counts(d) == n < Power(2, d) /\ (d > 0 => Power(2, d - 1) <= n)
           e == Digits2(n)
<1>1. T \in SUBSET Nat /\ 30 \in T
  OBVIOUS
<1> HIDE DEF T
<1>2. PICK d \in T : \A x \in T : d <= x
  BY <1>1, LeastOf
<1>3. d \in 0 .. 30 /\ n < Power(2, d)
  BY DEF T
<1>4. d > 0 => Power(2, d - 1) <= n
  <2> SUFFICES ASSUME d > 0, ~(Power(2, d - 1) <= n) PROVE FALSE
    OBVIOUS
  <2>1. d - 1 \in Nat /\ d - 1 \in 0 .. 30 /\ 2 \in Nat /\ 2 > 0
    BY <1>3
  <2>2. Power(2, d - 1) \in Nat
    BY <2>1, PowerNat
  <2>3. d - 1 \in T
    BY <2>1, <2>2 DEF T
  <2> QED
    BY <1>2, <1>3, <2>3
<1>5. e \in 0 .. 30 /\ Counts(e)
  <2>1. e = CHOOSE x \in 0 .. 30 : Counts(x)
    BY Zenon DEF Digits2
  <2>2. Counts(d)
    BY <1>3, <1>4
  <2> HIDE DEF Counts, e
  <2> QED
    BY <1>3, <2>1, <2>2, Zenon
<1> HIDE DEF e
<1>6. e # 0
  <2>1. Power(2, 0) = 1
    BY PowerIs
  <2> QED
    BY <1>5, <2>1
<1> QED
  BY <1>5, <1>6 DEF e

LEMMA PowersOfTwo ==
    /\ Power(2, 1) = 2 /\ Power(2, 2) = 4 /\ Power(2, 3) = 8 /\ Power(2, 4) = 16
    /\ Power(2, 5) = 32 /\ Power(2, 16) = 65536
<1>0. \A n \in Nat : Power(2, n + 1) = Power(2, n) * 2
  BY PowerIs
<1>1. Power(2, 0) = 1
  BY PowerIs
<1>2. Power(2, 0 + 1) = Power(2, 0) * 2
  BY <1>0
<1>3. Power(2, 1 + 1) = Power(2, 1) * 2
  BY <1>0
<1>4. Power(2, 2 + 1) = Power(2, 2) * 2
  BY <1>0
<1>5. Power(2, 3 + 1) = Power(2, 3) * 2
  BY <1>0
<1>6. Power(2, 4 + 1) = Power(2, 4) * 2
  BY <1>0
<1>7. Power(2, 4 + 4) = Power(2, 4) * Power(2, 4)
  BY PowerSum
<1>8. Power(2, 8 + 8) = Power(2, 8) * Power(2, 8)
  BY PowerSum
<1>9. /\ 0 + 1 = 1 /\ 1 + 1 = 2 /\ 2 + 1 = 3 /\ 3 + 1 = 4 /\ 4 + 1 = 5
      /\ 4 + 4 = 8 /\ 8 + 8 = 16
  OBVIOUS
<1>10. /\ Power(2, 1) = 2 /\ Power(2, 2) = 4 /\ Power(2, 3) = 8 /\ Power(2, 4) = 16
  BY <1>1, <1>2, <1>3, <1>4, <1>5, <1>9
<1> QED
  BY <1>6, <1>7, <1>8, <1>9, <1>10

\* The digits of a base that is a power of 2 are groups of the binary ones.
LEMMA PowerOfPower ==
    ASSUME NEW k \in Nat, NEW b \in Nat, b > 0, b = Power(2, k), NEW n \in Nat
    PROVE  Power(b, n) = Power(2, k * n)
<1> DEFINE T == {i \in Nat : Power(b, i) = Power(2, k * i)}
<1>1. 0 \in T
  <2>1. Power(b, 0) = 1 /\ Power(2, 0) = 1 /\ k * 0 = 0
    BY PowerIs
  <2> QED
    BY <2>1
<1>2. ASSUME NEW i \in 0 .. n - 1, i \in T PROVE i + 1 \in T
  <2>1. i \in Nat /\ k * i \in Nat /\ k * (i + 1) = k * i + k /\ i + 1 \in Nat
    OBVIOUS
  <2>2. Power(b, i + 1) = Power(b, i) * b
    BY <2>1, PowerIs
  <2> DEFINE m == k * i
  <2> HIDE DEF m
  <2>3. m \in Nat
    BY <2>1 DEF m
  <2>4. Power(2, m + k) = Power(2, m) * Power(2, k)
    BY <2>3, PowerSum
  <2>5. Power(b, i) = Power(2, m)
    BY <1>2 DEF m
  <2>6. Power(b, i + 1) = Power(2, k * (i + 1))
    BY <2>1, <2>2, <2>4, <2>5 DEF m
  <2> QED
    BY <2>1, <2>6
<1> HIDE DEF T
<1>3. 0 .. n \subseteq T
  BY <1>1, <1>2, Upward
<1> QED
  BY <1>3 DEF T

\* digits() for the bases that are a power of 2
LEMMA DigitsOfPowerOf2 ==
    ASSUME NEW n \in Nat, n > 0, n < Power(2, 30), NEW k \in 1 .. 5,
           NEW base \in Nat, base = Power(2, k), base > 1, base # 10,
           base \in PowersOf2
    PROVE  LET d == Digits(n, base)
           IN  d \in Nat /\ d > 0 /\ Power(base, d - 1) <= n /\ n < Power(base, d)
<1> DEFINE a == Digits2(n)
           c == Digits2(base)
           d == Digits(n, base)
<1>1. a \in 1 .. 30 /\ Power(2, a - 1) <= n /\ n < Power(2, a)
  BY Digits2Is
<1>2. k \in Nat /\ 30 \in Nat /\ 2 \in Nat /\ 2 > 0 /\ a \in Nat /\ a - 1 \in Nat
      /\ k + 1 \in Nat /\ k + 1 <= 30 /\ k <= 30
  BY <1>1
<1>3. \A i, j \in Nat : i <= j => Power(2, i) <= Power(2, j)
  BY PowerGrows
<1>4. /\ \A i \in Nat : Power(2, i) \in Nat /\ Power(2, i) > 0
      /\ Power(2, k + 1) = Power(2, k) * 2
  BY <1>2, PowerNat, PowerIs
<1>5. base > 0 /\ base < Power(2, 30)
  BY <1>2, <1>3, <1>4
<1>6. c = k + 1
  <2>1. c \in 1 .. 30 /\ Power(2, c - 1) <= base /\ base < Power(2, c)
    BY <1>5, Digits2Is
  <2> HIDE DEF c
  <2>2. c \in Nat /\ c - 1 \in Nat /\ Power(2, c) \in Nat /\ Power(2, c - 1) \in Nat
        /\ Power(2, k) \in Nat /\ Power(2, k + 1) \in Nat
    BY <1>2, <1>4, <2>1
  <2>3. ~ c <= k
    <3>1. c <= k => Power(2, c) <= Power(2, k)
      BY <1>2, <1>3, <2>2
    <3> QED
      BY <2>1, <2>2, <3>1
  <2>4. ~ k + 1 <= c - 1
    <3>1. k + 1 <= c - 1 => Power(2, k + 1) <= Power(2, c - 1)
      BY <1>2, <1>3, <2>2
    <3> QED
      BY <1>4, <2>1, <2>2, <3>1
  <2> QED
    BY <1>2, <2>2, <2>3, <2>4
<1>7. d = (a + c - 2) \div (c - 1)
  BY Zenon DEF Digits
<1> HIDE DEF a, c, d
<1>8. d = (a + k - 1) \div k
  <2>1. a + c - 2 = a + k - 1 /\ c - 1 = k
    BY <1>2, <1>6
  <2> QED
    BY <1>7, <2>1
<1>9. /\ d \in Nat /\ d > 0 /\ d - 1 \in Nat /\ k * d \in Nat /\ k * (d - 1) \in Nat
      /\ a <= k * d /\ k * (d - 1) <= a - 1
  <2>1. a + k - 1 \in Nat
    BY <1>1
  <2>2. k = 1 \/ k = 2 \/ k = 3 \/ k = 4 \/ k = 5
    OBVIOUS
  <2> QED
    BY <1>1, <1>8, <2>1, <2>2
<1>10. Power(base, d) = Power(2, k * d) /\ Power(base, d - 1) = Power(2, k * (d - 1))
  BY <1>2, <1>5, <1>9, PowerOfPower
<1>11. Power(2, a) <= Power(2, k * d) /\ Power(2, k * (d - 1)) <= Power(2, a - 1)
  BY <1>2, <1>3, <1>9
<1>12. /\ Power(2, a) \in Nat /\ Power(2, k * d) \in Nat
       /\ Power(2, k * (d - 1)) \in Nat /\ Power(2, a - 1) \in Nat
  BY <1>2, <1>4, <1>9
<1> QED
  BY <1>1, <1>9, <1>10, <1>11, <1>12 DEF d

\* append_number() writes the lowest digits of a number, as many as digits() has
\* counted: all of them, and no zero before them, if it has counted right.
LEMMA PrintedIs ==
    ASSUME NEW n \in Nat, NEW base \in Nat, base > 1, NEW L \in Nat, L > 0
    PROVE  LET printed == Printed(n, base, L)
           IN  /\ ValueOf(printed, base) = n % Power(base, L)
               /\ Power(base, L - 1) <= n /\ n < Power(base, L)
                  => ValueOf(printed, base) = n /\ printed[1] # 0
<1> DEFINE printed == Printed(n, base, L)
           v == [i \in DOMAIN printed |-> printed[i] * Power(base, Len(printed) - i)]
           P(i) == Power(base, L - i)
<1>1. printed = [i \in 1 .. L |-> (n \div P(i)) % base]
  BY DEF Printed
<1>2. \A i \in 0 .. L : L - i \in Nat /\ P(i) \in Nat /\ P(i) > 0
  <2> TAKE i \in 0 .. L
  <2>1. L - i \in Nat /\ base > 0
    OBVIOUS
  <2> QED
    BY <2>1, PowerNat
<1>3. \A i \in 0 .. L - 1 : P(i) = P(i + 1) * base
  <2> TAKE i \in 0 .. L - 1
  <2>1. L - (i + 1) \in Nat /\ (L - (i + 1)) + 1 = L - i
    OBVIOUS
  <2>2. Power(base, (L - (i + 1)) + 1) = Power(base, L - (i + 1)) * base
    BY <2>1, PowerIs
  <2> QED
    BY <2>1, <2>2
<1>4. P(L) = 1 /\ P(0) = Power(base, L) /\ P(1) = Power(base, L - 1)
  <2>1. L - L = 0 /\ L - 0 = L
    OBVIOUS
  <2>2. Power(base, 0) = 1
    BY PowerIs
  <2> QED
    BY <2>1, <2>2
<1> HIDE DEF P
<1>5. \A i \in 0 .. L : n \div P(i) \in Nat
  BY <1>2, Division
<1>6. \A i \in 1 .. L : printed[i] = (n \div P(i)) % base /\ printed[i] \in Nat
  <2> TAKE i \in 1 .. L
  <2>1. n \div P(i) \in Nat /\ base > 0
    BY <1>5
  <2>2. (n \div P(i)) % base \in 0 .. base - 1
    BY <2>1, Division
  <2> QED
    BY <1>1, <2>2
<1>7. DOMAIN printed = 1 .. L /\ Len(printed) = L
  BY <1>1
<1> HIDE DEF printed
<1>8. v \in Seq(Nat) /\ Len(v) = L /\ \A i \in 1 .. L : v[i] = printed[i] * P(i)
  <2>1. v = [i \in 1 .. L |-> printed[i] * P(i)]
    BY <1>7 DEF P
  <2>2. \A i \in 1 .. L : printed[i] * P(i) \in Nat
    BY <1>2, <1>6
  <2> HIDE DEF v
  <2> QED
    BY <2>1, <2>2
<1>9. ValueOf(printed, base) = Fold("sum", 0, v)
  <2> HIDE DEF v
  <2>1. FoldLeft(LAMBDA x, y : x + y, 0, v) = Fold("sum", 0, v)
    BY <1>8, SumFolds
  <2> QED
    BY <2>1 DEF ValueOf, v
<1> HIDE DEF v
<1>10. PICK g : Unrolls("sum", g, 0, v) /\ Fold("sum", 0, v) = g[Len(v)]
  BY <1>8, FoldUnrolls
<1>11. g[0] = 0 /\ \A i \in 0 .. L - 1 : g[i + 1] = g[i] + v[i + 1]
  BY <1>8, <1>10, StepSums DEF Unrolls
<1> DEFINE Q == (n \div P(0)) * P(0)
           T == {i \in 0 .. L : g[i] + Q = (n \div P(i)) * P(i)}
<1>12. Q \in Nat /\ 0 \in T /\ n % P(0) = n - Q /\ (n < P(0) => Q = 0)
  <2>1. 0 \in 0 .. L
    OBVIOUS
  <2>2. P(0) \in Nat /\ P(0) > 0
    BY <1>2, <2>1
  <2>3. n \div P(0) \in Nat /\ n = P(0) * (n \div P(0)) + (n % P(0)) /\ n % P(0) \in 0 .. P(0) - 1
    BY <2>2, Division
  <2> DEFINE p == P(0)
             x == n \div p
  <2>4. p \in Nat /\ x \in Nat /\ n = p * x + (n % p) /\ n % p \in Nat
    BY <2>2, <2>3
  <2>5. n < p => x = 0
    BY <2>2
  <2> HIDE DEF p, x
  <2>6. x * p \in Nat /\ n % p = n - x * p /\ (n < p => x * p = 0)
    BY <2>4, <2>5
  <2>7. Q = x * p
    BY DEF p, x
  <2>8. g[0] + Q = Q
    BY <1>11, <2>6, <2>7
  <2> QED
    BY <2>1, <2>6, <2>7, <2>8 DEF p, x
<1> HIDE DEF Q
<1>17. \A i \in 0 .. L : g[i] \in Nat
  <2> DEFINE U == {i \in 0 .. L : g[i] \in Nat}
  <2>1. 0 \in U
    BY <1>11
  <2>2. ASSUME NEW i \in 0 .. L - 1, i \in U PROVE i + 1 \in U
    <3>1. i + 1 \in 1 .. L /\ i + 1 \in 0 .. L
      OBVIOUS
    <3>2. printed[i + 1] \in Nat /\ P(i + 1) \in Nat
      BY <1>2, <1>6, <3>1
    <3>3. v[i + 1] \in Nat
      BY <1>8, <3>1, <3>2
    <3> QED
      BY <1>11, <2>2, <3>1, <3>3
  <2> QED
    BY <2>1, <2>2, Upward
<1>13. ASSUME NEW i \in 0 .. L - 1, i \in T PROVE i + 1 \in T
  <2> DEFINE p == P(i + 1)
             x == n \div p
             q == x \div base
             r == x % base
  <2>1. i + 1 \in 0 .. L /\ i + 1 \in 1 .. L /\ i \in 0 .. L
    OBVIOUS
  <2>2. p \in Nat /\ p > 0 /\ base > 0 /\ P(i) = p * base
    BY <1>2, <1>3, <2>1
  <2>3. g[i + 1] = g[i] + v[i + 1] /\ v[i + 1] = r * p
    BY <1>6, <1>8, <1>11, <2>1
  <2>4. n \div (p * base) = q
    BY <2>2, DivisionTwice
  <2>5. g[i] + Q = q * (p * base)
    BY <1>13, <2>2, <2>4
  <2>6. x \in Nat
    BY <2>2, Division
  <2> HIDE DEF x, p
  <2>7. q \in Nat /\ r \in 0 .. base - 1 /\ x = base * q + r
    BY <2>2, <2>6, Division
  <2> HIDE DEF q, r
  <2>8. q * (p * base) + r * p = (base * q + r) * p
    <3>1. r \in Nat
      BY <2>7
    <3> QED
      BY <2>2, <2>7, <3>1
  <2>10. g[i] \in Nat /\ g[i + 1] \in Nat
    BY <1>17, <2>1
  <2>9. g[i + 1] + Q = x * p
    BY <1>12, <2>10, <2>2, <2>3, <2>5, <2>7, <2>8
  <2> QED
    BY <2>1, <2>9 DEF x, p
<1> HIDE DEF T
<1>14. 0 .. L \subseteq T
  BY <1>12, <1>13, Upward
<1>15. g[L] = n - Q
  <2>1. g[L] + Q = (n \div 1) * 1
    BY <1>4, <1>14 DEF T
  <2> QED
    BY <1>12, <2>1, <1>17
<1>16. ASSUME Power(base, L - 1) <= n, n < Power(base, L) PROVE printed[1] # 0
  <2> DEFINE p == P(1)
             x == n \div p
  <2>1. 1 \in 1 .. L /\ 1 \in 0 .. L /\ 0 \in 0 .. L - 1 /\ 0 + 1 = 1
    OBVIOUS
  <2>2. p \in Nat /\ p > 0 /\ p <= n /\ n < p * base
    BY <1>2, <1>3, <1>4, <1>16, <2>1
  <2>3. printed[1] = x % base
    BY <1>6, <2>1
  <2> HIDE DEF p
  <2>4. x \in Nat /\ n % p \in 0 .. p - 1 /\ n = p * x + (n % p)
    BY <2>2, Division
  <2> DEFINE r == n % p
  <2> HIDE DEF x, r
  <2>5. x \in Nat /\ r \in 0 .. p - 1 /\ n = p * x + r
    BY <2>4 DEF r
  <2>6. x > 0
    BY <2>2, <2>5
  <2>7. x < base
    <3> SUFFICES ASSUME base <= x PROVE FALSE
      BY <2>5
    <3>1. p * base <= p * x
      BY <2>2, <2>5
    <3>2. p * x \in Nat /\ p * base \in Nat
      BY <2>2, <2>5
    <3> QED
      BY <2>2, <2>5, <3>1, <3>2
  <2>8. x % base = x
    BY <2>5, <2>7
  <2> QED
    BY <2>3, <2>6, <2>8
<1>18. ValueOf(printed, base) = n - Q
  BY <1>8, <1>9, <1>10, <1>15
<1> QED
  BY <1>4, <1>12, <1>16, <1>18 DEF printed

LEMMA NumberIs == ASSUME InputTypes PROVE Number \in Nat /\ Number < 65536
<1>1. CASE Len(bytes) = 2
  <2>1. bytes[1] \in 0 .. 255 /\ bytes[2] \in 0 .. 255
    <3>1. bytes \in Seq(0 .. 255) /\ 1 \in 1 .. Len(bytes) /\ 2 \in 1 .. Len(bytes)
      BY <1>1 DEF InputTypes
    <3> QED
      BY <3>1, ElementOfSeq
  <2> DEFINE x == bytes[1]
             y == bytes[2]
  <2>2. Number = x * 256 + y /\ x \in 0 .. 255 /\ y \in 0 .. 255
    BY <1>1, <2>1 DEF Number
  <2> HIDE DEF x, y
  <2> QED
    BY <2>2
<1>2. CASE Len(bytes) # 2
  BY <1>2 DEF Number
<1> QED
  BY <1>1, <1>2

LEMMA NumberHolds == ASSUME InputTypes PROVE NumberExact
<1> SUFFICES ASSUME NEW base \in Bases \intersect ({10} \union PowersOf2), Number > 0,
                    base = 10 => Number < Power(10, MaxDigits)
             PROVE  LET printed == AppendNumber(Number, base)
                    IN  ValueOf(printed, base) = Number /\ printed[1] # 0
  BY DEF NumberExact
<1>1. Number \in Nat /\ Number < 65536
  BY NumberIs
<1> DEFINE n == Number
           L == Digits(n, base)
<1> HIDE DEF n
<1>2. n \in Nat /\ n > 0 /\ n < Power(2, 30)
  <2>1. 2 \in Nat /\ 2 > 0 /\ 16 \in Nat /\ 30 \in Nat /\ 16 <= 30
    OBVIOUS
  <2>2. Power(2, 16) <= Power(2, 30)
    BY <2>1, PowerGrows
  <2>3. Power(2, 30) \in Nat
    BY <2>1, PowerNat
  <2>4. Power(2, 16) = 65536
    BY PowersOfTwo
  <2> QED
    BY <1>1, <2>2, <2>3, <2>4 DEF n
<1>3. base \in Nat /\ base > 1 /\ L \in Nat /\ L > 0
      /\ Power(base, L - 1) <= n /\ n < Power(base, L)
  <2>1. base = 10 \/ base \in PowersOf2
    OBVIOUS
  <2>2. CASE base = 10
    <3>1. n < Power(10, MaxDigits)
      BY <2>2 DEF n
    <3> QED
      BY <1>2, <2>2, <3>1, DigitsOfTen
  <2>3. CASE base \in PowersOf2
    <3>1. \E k \in 1 .. 5 : base = Power(2, k)
      BY <2>3, PowersOfTwo DEF PowersOf2
    <3>2. base \in Nat /\ base > 1 /\ base # 10
      BY <2>3 DEF PowersOf2
    <3> QED
      BY <1>2, <2>3, <3>1, <3>2, DigitsOfPowerOf2
  <2> QED
    BY <2>1, <2>2, <2>3
<1>4. LET printed == AppendNumber(n, base)
      IN  ValueOf(printed, base) = n /\ printed[1] # 0
  <2> HIDE DEF L
  <2>1. L = Digits(n, base)
    BY DEF L
  <2>2. AppendNumber(n, base) = Printed(n, base, L)
    BY <2>1 DEF AppendNumber
  <2> QED
    BY <1>2, <1>3, <2>2, PrintedIs
<1> QED
  BY <1>4 DEF n

LEMMA PowerExceeds ==
    ASSUME NEW b \in Nat, b > 1, NEW n \in Nat
    PROVE  n < Power(b, n)
<1> DEFINE T == {i \in 0 .. n : i < Power(b, i)}
<1>1. 0 \in T
  <2>1. Power(b, 0) = 1
    BY PowerIs
  <2> QED
    BY <2>1
<1>2. ASSUME NEW i \in 0 .. n - 1, i \in T PROVE i + 1 \in T
  <2>1. i \in Nat /\ i + 1 \in 0 .. n /\ b > 0
    OBVIOUS
  <2> DEFINE p == Power(b, i)
  <2>2. p \in Nat /\ i < p /\ Power(b, i + 1) = p * b
    BY <1>2, <2>1, PowerNat, PowerIs
  <2> HIDE DEF p
  <2>3. p * 2 <= p * b
    BY <2>2
  <2>4. p * b \in Nat
    BY <2>2
  <2>5. i + 1 < p * b
    BY <2>1, <2>2, <2>3, <2>4
  <2> QED
    BY <2>1, <2>2, <2>5
<1>3. 0 .. n \subseteq T
  BY <1>1, <1>2, Upward
<1> QED
  BY <1>3

\* digits() for the other bases: a digit less than the number has, or two
LEMMA FloorLogIs ==
    ASSUME NEW n \in Nat, n > 0, NEW base \in Nat, base > 1
    PROVE  LET d == FloorLog(n, base)
           IN  /\ d \in 0 .. n /\ Power(base, d) <= n
               /\ n < base <=> d = 0
<1> DEFINE In(k) == Power(base, k) <= n /\ n < Power(base, k + 1)
           k == CHOOSE x \in 0 .. n : In(x)
           d == FloorLog(n, base)
           T == {x \in Nat : n < Power(base, x + 1)}
<1>1. \A x \in Nat : Power(base, x) \in Nat /\ Power(base, x) > 0
  BY PowerNat
<1>2. Power(base, 0) = 1 /\ Power(base, 0 + 1) = base /\ 0 + 1 = 1
  <2>1. Power(base, 0) = 1 /\ Power(base, 0 + 1) = Power(base, 0) * base
    BY PowerIs
  <2> QED
    BY <2>1
<1>3. n - 1 \in Nat /\ (n - 1) + 1 = n /\ n < Power(base, n)
  BY PowerExceeds
<1>4. n - 1 \in T
  BY <1>3
<1>5. T \in SUBSET Nat /\ T # {}
  BY <1>4
<1> HIDE DEF T
<1>6. PICK x \in T : \A y \in T : x <= y
  BY <1>5, LeastOf
<1>7. x \in Nat /\ x <= n - 1 /\ n < Power(base, x + 1)
  BY <1>4, <1>6 DEF T
<1>8. Power(base, x) <= n
  <2>1. CASE x = 0
    BY <1>2, <2>1
  <2>2. CASE x # 0
    <3>1. x - 1 \in Nat /\ (x - 1) + 1 = x
      BY <1>7, <2>2
    <3>2. ~ (n < Power(base, x))
      <4>1. n < Power(base, x) => x - 1 \in T
        BY <3>1 DEF T
      <4> QED
        BY <1>6, <1>7, <4>1
    <3> QED
      BY <1>1, <1>7, <3>2
  <2> QED
    BY <2>1, <2>2
<1>9. k \in 0 .. n /\ In(k)
  <2>1. x \in 0 .. n /\ In(x)
    BY <1>7, <1>8
  <2> HIDE DEF In
  <2> QED
    BY <2>1, Zenon
<1>10. d = IF k > 1 /\ n = Power(base, k) /\ <<n, base>> \in LogBelow THEN k - 1 ELSE k
  BY Zenon DEF FloorLog
<1> HIDE DEF k, d
<1>11. k = 0 <=> n < base
  <2>1. k = 0 => n < base
    BY <1>2, <1>9
  <2>2. k # 0 => base <= n
    <3> SUFFICES ASSUME k # 0 PROVE base <= n
      OBVIOUS
    <3>1. 1 \in Nat /\ k \in Nat /\ 1 <= k /\ base > 0
      BY <1>9
    <3>2. Power(base, 1) <= Power(base, k)
      BY <3>1, PowerGrows
    <3> QED
      BY <1>1, <1>2, <1>9, <3>1, <3>2
  <2> QED
    BY <1>9, <2>1, <2>2
<1>12. CASE d = k
  BY <1>9, <1>11, <1>12 DEF d
<1>13. CASE d # k
  <2>1. k \in Nat /\ k > 1 /\ d = k - 1 /\ d \in Nat /\ d <= k /\ d # 0
    BY <1>9, <1>10, <1>13
  <2>2. Power(base, d) <= Power(base, k)
    BY <2>1, PowerGrows
  <2>3. Power(base, d) <= n
    BY <1>1, <1>9, <2>1, <2>2
  <2> QED
    BY <1>9, <1>11, <2>1, <2>3 DEF d
<1> QED
  BY <1>12, <1>13

LEMMA NumberShortHolds == ASSUME InputTypes PROVE NumberShort
<1> SUFFICES ASSUME NEW base \in Bases \ ({10} \union PowersOf2), Number > 0
             PROVE  IF Number < base THEN Digits(Number, base) = 0
                    ELSE \E d \in 1 .. Number :
                            /\ Power(base, d) <= Number
                            /\ ValueOf(AppendNumber(Number, base), base)
                               = Number % Power(base, d)
  BY DEF NumberShort
<1> DEFINE n == Number
           d == FloorLog(n, base)
<1>1. n \in Nat /\ n > 0 /\ base \in Nat /\ base > 1
  BY NumberIs, InputAssumption
<1>2. Digits(n, base) = d
  <2>1. base # 10 /\ base \notin PowersOf2
    OBVIOUS
  <2> QED
    BY <2>1, Zenon DEF Digits
<1> HIDE DEF n
<1>3. d \in 0 .. n /\ Power(base, d) <= n /\ (n < base <=> d = 0)
  BY <1>1, FloorLogIs
<1> HIDE DEF d
<1>4. ASSUME ~ n < base
      PROVE  d \in 1 .. n /\ ValueOf(AppendNumber(n, base), base) = n % Power(base, d)
  <2>1. d \in Nat /\ d > 0 /\ d \in 1 .. n
    BY <1>1, <1>3, <1>4
  <2>2. AppendNumber(n, base) = Printed(n, base, d)
    BY <1>2 DEF AppendNumber
  <2>3. ValueOf(Printed(n, base, d), base) = n % Power(base, d)
    BY <1>1, <2>1, PrintedIs
  <2> QED
    BY <2>1, <2>2, <2>3
<1> QED
  BY <1>2, <1>3, <1>4 DEF n

-----------------------------------------------------------------------------
(* URI components *)

LEMMA RestIs ==
    ASSUME InputTypes, NEW i \in 1 .. Len(bytes)
    PROVE  LET rest == SubSeq(bytes, i, Len(bytes))
           IN  /\ rest \in Seq(0 .. 255) /\ Len(rest) = Len(bytes) - i + 1
               /\ rest[1] = bytes[i] /\ bytes[i] \in 0 .. 255
               /\ Len(rest) > 2 => /\ rest[2] = bytes[i + 1] /\ rest[3] = bytes[i + 2]
                                   /\ rest[2] \in 0 .. 255 /\ rest[3] \in 0 .. 255
<1> DEFINE rest == SubSeq(bytes, i, Len(bytes))
<1>1. bytes \in Seq(0 .. 255) /\ Len(bytes) \in Nat
  BY LenProperties DEF InputTypes
<1>2. \A k \in 1 .. Len(bytes) : bytes[k] \in 0 .. 255
  BY <1>1, ElementOfSeq
<1>3. /\ rest \in Seq(0 .. 255) /\ Len(rest) = Len(bytes) - i + 1
      /\ \A k \in 1 .. Len(bytes) - i + 1 : rest[k] = bytes[i + k - 1]
  <2>1. \A k \in i .. Len(bytes) : bytes[k] \in 0 .. 255
    BY <1>1, <1>2
  <2>2. i \in Int /\ Len(bytes) \in Int /\ ~ i > Len(bytes)
    BY <1>1
  <2> DEFINE n == Len(bytes)
  <2>3. i \in Int /\ n \in Int /\ i <= n /\ \A k \in i .. n : bytes[k] \in 0 .. 255
    BY <2>1, <2>2
  <2> HIDE DEF n, rest
  <2>4. /\ SubSeq(bytes, i, n) \in Seq(0 .. 255)
        /\ Len(SubSeq(bytes, i, n)) = IF i <= n THEN n - i + 1 ELSE 0
        /\ \A k \in 1 .. n - i + 1 : SubSeq(bytes, i, n)[k] = bytes[i + k - 1]
    BY <2>3, SubSeqProperties
  <2>5. rest = SubSeq(bytes, i, n)
    BY DEF rest, n
  <2> QED
    BY <2>3, <2>4, <2>5 DEF n
<1> HIDE DEF rest
<1>4. rest[1] = bytes[i]
  <2>1. 1 \in 1 .. Len(bytes) - i + 1 /\ i + 1 - 1 = i
    BY <1>1
  <2> QED
    BY <1>3, <2>1
<1>5. ASSUME Len(rest) > 2
      PROVE  /\ rest[2] = bytes[i + 1] /\ rest[3] = bytes[i + 2]
             /\ rest[2] \in 0 .. 255 /\ rest[3] \in 0 .. 255
  <2>1. /\ 2 \in 1 .. Len(bytes) - i + 1 /\ 3 \in 1 .. Len(bytes) - i + 1
        /\ i + 2 - 1 = i + 1 /\ i + 3 - 1 = i + 2
        /\ i + 1 \in 1 .. Len(bytes) /\ i + 2 \in 1 .. Len(bytes)
    BY <1>1, <1>3, <1>5
  <2>2. rest[2] = bytes[i + 1] /\ rest[3] = bytes[i + 2]
    BY <1>3, <2>1
  <2> QED
    BY <1>2, <2>1, <2>2
<1> QED
  BY <1>2, <1>3, <1>4, <1>5 DEF rest

\* The cases of a turn of component_decode()
LEMMA UriCases ==
    ASSUME NEW s, NEW rest
    PROVE  LET c == rest[1]
               printable == ~ (c < 32 \/ c >= 127)
               escape == c = Percent /\ Len(rest) > 2
               hex == rest[2] \in HexDigits /\ rest[3] \in HexDigits
               reads == ~ s.bad /\ ~ s.skip > 0
               plus == s.urlencoded /\ c = Plus
           IN  /\ s.bad => UriStep(s, rest) = s
               /\ ~ s.bad /\ s.skip > 0 => UriStep(s, rest) = [s EXCEPT !.skip = @ - 1]
               /\ reads /\ ~ printable => UriStep(s, rest) = [s EXCEPT !.bad = TRUE]
               /\ reads /\ printable /\ plus
                  => UriStep(s, rest) = [s EXCEPT !.out = Append(@, Space)]
               /\ reads /\ printable /\ ~ plus /\ ~ escape
                  => UriStep(s, rest) = [s EXCEPT !.out = Append(@, c)]
               /\ reads /\ printable /\ ~ plus /\ escape /\ ~ hex
                  => UriStep(s, rest) = [s EXCEPT !.bad = TRUE]
               /\ reads /\ printable /\ ~ plus /\ escape /\ hex
                  => UriStep(s, rest) =
                         [s EXCEPT !.out = Append(@, HexToInt(rest[3]) * 16 + HexToInt(rest[2])),
                                   !.skip = 2]
  BY Zenon DEF UriStep

LEMMA PrintableIs == \A c \in 0 .. 255 : c \in 32 .. 126 <=> ~ (c < 32 \/ c >= 127)
  OBVIOUS

Undecoded(u) == [out |-> <<>>, skip |-> 0, bad |-> FALSE, urlencoded |-> u]
Decoding == [out : Seq(Nat), skip : Nat, bad : BOOLEAN, urlencoded : BOOLEAN]

\* g[i] is where component_decode() is after i bytes.
Decodes(g, u) ==
    /\ g[0] = Undecoded(u)
    /\ \A i \in 0 .. Len(bytes) - 1 :
          g[i + 1] = UriStep(g[i], SubSeq(bytes, i + 1, Len(bytes)))
    /\ ComponentDecode(u) = IF g[Len(bytes)].bad THEN <<>> ELSE g[Len(bytes)].out

LEMMA DecodesBytes == ASSUME InputTypes, NEW u PROVE \E g : Decodes(g, u)
<1> DEFINE n == Len(bytes)
           rests == [i \in 1 .. n |-> SubSeq(bytes, i, n)]
<1>1. n \in Nat
  BY LenProperties DEF InputTypes
<1>2. /\ rests \in Seq(Seq(0 .. 255)) /\ Len(rests) = n
      /\ \A i \in 1 .. n : rests[i] = SubSeq(bytes, i, n)
  <2>1. \A i \in 1 .. n : SubSeq(bytes, i, n) \in Seq(0 .. 255)
    BY RestIs
  <2> QED
    BY <1>1, <2>1
<1> HIDE DEF rests
<1>3. FoldLeft(UriStep, Undecoded(u), rests) = Fold("uri", Undecoded(u), rests)
  BY <1>2, UriFolds
<1>4. PICK g : Unrolls("uri", g, Undecoded(u), rests)
               /\ Fold("uri", Undecoded(u), rests) = g[Len(rests)]
  BY <1>1, <1>2, FoldUnrolls
<1>5. ComponentDecode(u) = IF g[n].bad THEN <<>> ELSE g[n].out
  <2>1. ComponentDecode(u) = LET r == FoldLeft(UriStep, Undecoded(u), rests)
                          IN  IF r.bad THEN <<>> ELSE r.out
    BY DEF ComponentDecode, Undecoded, rests
  <2> QED
    BY <1>2, <1>3, <1>4, <2>1
<1>6. \A i \in 0 .. n - 1 : g[i + 1] = UriStep(g[i], SubSeq(bytes, i + 1, n))
  <2> TAKE i \in 0 .. n - 1
  <2>1. i \in 0 .. Len(rests) - 1 /\ i + 1 \in 1 .. n
    BY <1>1, <1>2
  <2>2. g[i + 1] = Step("uri", g[i], rests[i + 1])
    BY <1>4, <2>1 DEF Unrolls
  <2> QED
    BY <1>2, <2>1, <2>2, StepUri
<1>7. g[0] = Undecoded(u)
  BY <1>4 DEF Unrolls
<1> QED
  BY <1>5, <1>6, <1>7 DEF Decodes

LEMMA UriPlainHolds == ASSUME InputTypes PROVE UriPlain
<1> SUFFICES ASSUME NEW w \in BOOLEAN, \A i \in DOMAIN bytes : bytes[i] # Percent
             PROVE  ComponentDecode(w) =
                        IF \A i \in DOMAIN bytes : bytes[i] \in 32 .. 126
                        THEN [i \in DOMAIN bytes |-> Unescaped(w, bytes[i])]
                        ELSE <<>>
  BY DEF UriPlain
<1> DEFINE n == Len(bytes)
           plain(j) == Unescaped(w, bytes[j])
           all(i) == [j \in 1 .. i |-> plain(j)]
<1>1. n \in Nat /\ DOMAIN bytes = 1 .. n /\ \A j \in 1 .. n : bytes[j] \in 0 .. 255
  BY LenProperties, ElementOfSeq DEF InputTypes
<1>2. PICK g : Decodes(g, w)
  BY DecodesBytes
<1>3. \A j \in 1 .. n : plain(j) \in Nat
  <2> TAKE j \in 1 .. n
  <2>1. bytes[j] \in Nat /\ Space \in Nat
    <3>1. bytes[j] \in 0 .. 255
      BY <1>1, Zenon
    <3>2. 0 .. 255 \subseteq Nat /\ Space \in Nat
      BY DEF Space
    <3> QED
      BY <3>1, <3>2, Zenon
  <2> QED
    BY <2>1 DEF Unescaped
<1>4. \A i \in 0 .. n : all(i) \in Seq(Nat) /\ Len(all(i)) = i
                        /\ \A j \in 1 .. i : all(i)[j] = plain(j)
  BY <1>1, <1>3
<1> DEFINE T == {i \in 0 .. n :
                    /\ g[i] \in Decoding /\ g[i].skip = 0 /\ g[i].urlencoded = w
                    /\ g[i].bad <=> ~ \A j \in 1 .. i : bytes[j] \in 32 .. 126
                    /\ ~ g[i].bad => g[i].out = all(i)}
<1>5. 0 \in T
  <2>1. g[0] = Undecoded(w)
    BY <1>2 DEF Decodes
  <2>2. all(0) = <<>>
    OBVIOUS
  <2>3. /\ Undecoded(w) \in Decoding /\ Undecoded(w).skip = 0
        /\ Undecoded(w).bad = FALSE /\ Undecoded(w).out = <<>>
        /\ Undecoded(w).urlencoded = w
    BY EmptySeq DEF Undecoded, Decoding
  <2>4. 0 \in 0 .. n /\ \A j \in 1 .. 0 : bytes[j] \in 32 .. 126
    BY <1>1
  <2> HIDE DEF all
  <2> QED
    BY <2>1, <2>2, <2>3, <2>4
<1>6. ASSUME NEW i \in 0 .. n - 1, i \in T PROVE i + 1 \in T
  <2> DEFINE rest == SubSeq(bytes, i + 1, n)
             s == g[i]
             c == bytes[i + 1]
  <2>1. i + 1 \in 1 .. n /\ i + 1 \in 0 .. n /\ i \in 0 .. n
    BY <1>1
  <2>2. rest[1] = c /\ c \in 0 .. 255 /\ c # Percent
    BY <1>1, <2>1, RestIs
  <2>3. g[i + 1] = UriStep(s, rest)
    BY <1>2 DEF Decodes
  <2>4. /\ s \in Decoding /\ s.skip = 0 /\ s.urlencoded = w
        /\ s.bad <=> ~ \A j \in 1 .. i : bytes[j] \in 32 .. 126
        /\ ~ s.bad => s.out = all(i)
    BY <1>6
  <2>5. (\A j \in 1 .. i + 1 : bytes[j] \in 32 .. 126)
        <=> (\A j \in 1 .. i : bytes[j] \in 32 .. 126) /\ c \in 32 .. 126
    <3>1. 1 .. i + 1 = (1 .. i) \union {i + 1}
      BY <2>1
    <3> QED
      BY <3>1, Zenon
  <2>6. Append(all(i), plain(i + 1)) = all(i + 1)
    <3> DEFINE t == all(i)
               u == all(i + 1)
               y == plain(i + 1)
    <3>1. t \in Seq(Nat) /\ u \in Seq(Nat) /\ y \in Nat /\ Len(u) = Len(t) + 1
          /\ u[Len(u)] = y /\ \A j \in 1 .. Len(t) : u[j] = t[j]
      <4> HIDE DEF all, plain
      <4>1. /\ t \in Seq(Nat) /\ Len(t) = i /\ u \in Seq(Nat) /\ Len(u) = i + 1
            /\ \A j \in 1 .. i : t[j] = plain(j)
            /\ \A j \in 1 .. i + 1 : u[j] = plain(j)
        BY <1>4, <2>1
      <4> QED
        BY <1>3, <2>1, <4>1
    <3> HIDE DEF t, u, y
    <3>2. Append(t, y) = u
      BY <3>1, AppendIs
    <3> QED
      BY <3>2 DEF t, u, y
  <2> DEFINE r == UriStep(s, rest)
  <2>7. /\ r \in Decoding /\ r.skip = 0 /\ r.urlencoded = w
        /\ r.bad <=> s.bad \/ ~ c \in 32 .. 126
        /\ ~ r.bad => r.out = Append(s.out, plain(i + 1))
    <3> HIDE DEF rest, s
    <3>1. CASE s.bad
      <4>1. r = s
        BY <3>1 DEF UriStep
      <4> QED
        BY <2>4, <3>1, <4>1
    <3>2. CASE ~ s.bad /\ ~ c \in 32 .. 126
      <4>1. r = [s EXCEPT !.bad = TRUE]
        <5>1. rest[1] < 32 \/ rest[1] >= 127
          BY <2>2, <3>2, PrintableIs, ZenonT(60)
        <5>2. ~ s.skip > 0
          BY <2>4
        <5> QED
          BY <3>2, <5>1, <5>2, UriCases, Zenon
      <4> QED
        BY <2>4, <3>2, <4>1 DEF Decoding
    <3>3. CASE ~ s.bad /\ c \in 32 .. 126
      <4>1. r = [s EXCEPT !.out = Append(@, plain(i + 1))]
        <5>1. ~ (c < 32 \/ c >= 127)
          BY <2>2, <3>3, PrintableIs, ZenonT(60)
        <5>2. ~ s.skip > 0
          BY <2>4
        <5>3. r = IF s.urlencoded /\ c = Plus THEN [s EXCEPT !.out = Append(@, Space)]
                  ELSE [s EXCEPT !.out = Append(@, c)]
          BY <2>2, <3>3, <5>1, <5>2, Zenon DEF UriStep
        <5>4. CASE s.urlencoded /\ c = Plus
          BY <2>4, <5>3, <5>4 DEF Unescaped
        <5>5. CASE ~ (s.urlencoded /\ c = Plus)
          BY <2>4, <5>3, <5>5 DEF Unescaped
        <5> QED
          BY <5>4, <5>5
      <4>2. plain(i + 1) \in Nat
        BY <1>3, <2>1
      <4> HIDE DEF plain
      <4>3. s.out \in Seq(Nat)
        BY <2>4 DEF Decoding
      <4>4. Append(s.out, plain(i + 1)) \in Seq(Nat)
        BY <4>2, <4>3, AppendProperties
      <4> QED
        BY <2>4, <3>3, <4>1, <4>4 DEF Decoding
    <3> QED
      BY <3>1, <3>2, <3>3
  <2> HIDE DEF r, s, rest, all, plain, c
  <2>8. /\ g[i + 1] \in Decoding /\ g[i + 1].skip = 0 /\ g[i + 1].urlencoded = w
        /\ g[i + 1].bad <=> ~ \A j \in 1 .. i + 1 : bytes[j] \in 32 .. 126
        /\ ~ g[i + 1].bad => g[i + 1].out = all(i + 1)
    BY <2>3, <2>4, <2>5, <2>6, <2>7 DEF r
  <2> QED
    BY <2>1, <2>8
<1> HIDE DEF T
<1>7. 0 .. n \subseteq T
  BY <1>1, <1>5, <1>6, Upward
<1>8. /\ g[n].bad <=> ~ \A j \in 1 .. n : bytes[j] \in 32 .. 126
      /\ ~ g[n].bad => g[n].out = all(n)
  <2> HIDE DEF all
  <2>1. n \in T
    BY <1>1, <1>7
  <2> QED
    BY <2>1 DEF T
<1>9. ComponentDecode(w) = IF g[n].bad THEN <<>> ELSE g[n].out
  BY <1>2 DEF Decodes
<1>10. (\A j \in 1 .. n : bytes[j] \in 32 .. 126)
           <=> \A j \in DOMAIN bytes : bytes[j] \in 32 .. 126
  BY <1>1
<1>11. all(n) = [i \in DOMAIN bytes |-> Unescaped(w, bytes[i])]
  BY <1>1
<1> HIDE DEF all
<1> QED
  BY <1>8, <1>9, <1>10, <1>11, Zenon

LEMMA PercentsCounted ==
    ASSUME NEW i \in Nat
    PROVE  LET C(k) == Cardinality({j \in 1 .. k : bytes[j] = Percent})
           IN  /\ C(0) = 0 /\ C(i) \in Nat
               /\ bytes[i + 1] = Percent => C(i + 1) = C(i) + 1
               /\ bytes[i + 1] # Percent => C(i + 1) = C(i)
<1> DEFINE S(k) == {j \in 1 .. k : bytes[j] = Percent}
<1>1. S(0) = {}
  OBVIOUS
<1>2. IsFiniteSet(S(i))
  <2>1. IsFiniteSet(1 .. i) /\ S(i) \in SUBSET (1 .. i)
    BY FS_Interval
  <2> HIDE DEF S
  <2> QED
    BY <2>1, FS_Subset
<1>3. bytes[i + 1] = Percent => S(i + 1) = S(i) \union {i + 1}
  OBVIOUS
<1>4. bytes[i + 1] # Percent => S(i + 1) = S(i)
  OBVIOUS
<1>5. i + 1 \notin S(i)
  OBVIOUS
<1> HIDE DEF S
<1>6. Cardinality(S(i)) \in Nat /\ Cardinality(S(0)) = 0
  BY <1>1, <1>2, FS_CardinalityType, FS_EmptySet
<1>7. Cardinality(S(i) \union {i + 1}) = Cardinality(S(i)) + 1
  BY <1>2, <1>5, FS_AddElement
<1>8. bytes[i + 1] = Percent => Cardinality(S(i + 1)) = Cardinality(S(i)) + 1
  BY <1>3, <1>7
<1>9. bytes[i + 1] # Percent => Cardinality(S(i + 1)) = Cardinality(S(i))
  BY <1>4
<1> QED
  BY <1>6, <1>8, <1>9 DEF S

LEMMA HexNat == \A c \in 0 .. 255 : HexToInt(c) \in Nat
  BY DEF HexToInt

\* What a turn changes, by its cases
LEMMA DecodingIs ==
    ASSUME NEW s \in Decoding
    PROVE  s.out \in Seq(Nat) /\ Len(s.out) \in Nat /\ s.skip \in Nat /\ s.bad \in BOOLEAN
<1>1. s.out \in Seq(Nat) /\ s.skip \in Nat /\ s.bad \in BOOLEAN
  BY DEF Decoding
<1> QED
  BY <1>1, LenProperties

LEMMA DecodingCopies ==
    ASSUME NEW s \in Decoding, NEW x \in Nat,
           NEW r, r = [s EXCEPT !.out = Append(@, x)]
    PROVE  /\ r \in Decoding /\ r.skip = s.skip /\ r.bad = s.bad
           /\ Len(r.out) = Len(s.out) + 1
<1> DEFINE u == Append(s.out, x)
<1>1. u \in Seq(Nat) /\ Len(u) = Len(s.out) + 1
  BY DecodingIs, AppendProperties
<1>2. r = [s EXCEPT !.out = u]
  OBVIOUS
<1> HIDE DEF u
<1>3. r \in Decoding /\ r.skip = s.skip /\ r.bad = s.bad /\ r.out = u
  BY <1>1, <1>2 DEF Decoding
<1> QED
  BY <1>1, <1>3

LEMMA DecodingSkipsTwo ==
    ASSUME NEW t \in Decoding, NEW r, r = [t EXCEPT !.skip = 2]
    PROVE  r \in Decoding /\ r.skip = 2 /\ r.bad = t.bad /\ r.out = t.out
  BY DEF Decoding

LEMMA DecodingEscapes ==
    ASSUME NEW s \in Decoding, NEW x \in Nat,
           NEW r, r = [s EXCEPT !.out = Append(@, x), !.skip = 2]
    PROVE  /\ r \in Decoding /\ r.skip = 2 /\ r.bad = s.bad
           /\ Len(r.out) = Len(s.out) + 1
<1> DEFINE t == [s EXCEPT !.out = Append(@, x)]
<1>1. r = [t EXCEPT !.skip = 2]
  OBVIOUS
<1> HIDE DEF t
<1>2. t \in Decoding /\ t.bad = s.bad /\ Len(t.out) = Len(s.out) + 1
  BY DecodingCopies DEF t
<1>3. r \in Decoding /\ r.skip = 2 /\ r.bad = t.bad /\ r.out = t.out
  BY <1>1, <1>2, DecodingSkipsTwo
<1> QED
  BY <1>2, <1>3

LEMMA DecodingBad ==
    ASSUME NEW s \in Decoding, NEW r, r = [s EXCEPT !.bad = TRUE]
    PROVE  r \in Decoding /\ r.bad
  BY DEF Decoding

LEMMA DecodingSkips ==
    ASSUME NEW s \in Decoding, s.skip > 0, NEW r, r = [s EXCEPT !.skip = @ - 1]
    PROVE  r \in Decoding /\ r.skip = s.skip - 1 /\ r.out = s.out
  BY DEF Decoding

Percents(k) == Cardinality({j \in 1 .. k : bytes[j] = Percent})

\* e escapes have been read
Escapes(r, i, e) ==
    Len(r.out) + 2 * e = i + r.skip /\ e <= Len(r.out) /\ e <= Percents(i)

\* An escape leaves one byte of its three.
Shortened(r, i) ==
    /\ r \in Decoding
    /\ ~ r.bad => /\ r.skip \in 0 .. 2 /\ i + r.skip <= Len(bytes)
                  /\ \E e \in Nat : Escapes(r, i, e)

LEMMA CopyShortens ==
    ASSUME NEW i \in Nat, i + 1 <= Len(bytes), Len(bytes) \in Nat,
           Percents(i) \in Nat, Percents(i + 1) \in Nat, Percents(i) <= Percents(i + 1),
           NEW s, Shortened(s, i), ~ s.bad, s.skip = 0, NEW x \in Nat,
           NEW r, r = [s EXCEPT !.out = Append(@, x)]
    PROVE  Shortened(r, i + 1)
<1>1. s \in Decoding
  BY DEF Shortened
<1>2. r \in Decoding /\ r.skip = 0 /\ ~ r.bad /\ Len(r.out) = Len(s.out) + 1
  BY <1>1, DecodingCopies
<1>3. Len(s.out) \in Nat
  BY <1>1, DecodingIs
<1>4. PICK e \in Nat : Escapes(s, i, e)
  BY DEF Shortened
<1>5. Escapes(r, i + 1, e)
  <2>1. Len(s.out) + 2 * e = i + 0 /\ e <= Len(s.out) /\ e <= Percents(i)
    BY <1>4 DEF Escapes
  <2> DEFINE l == Len(s.out)
  <2> HIDE DEF l
  <2>2. l + 1 + 2 * e = i + 1 + 0 /\ e <= l + 1 /\ e <= Percents(i + 1)
    BY <1>3, <2>1 DEF l
  <2> QED
    BY <1>2, <2>2 DEF Escapes, l
<1>6. r.skip \in 0 .. 2 /\ i + 1 + r.skip <= Len(bytes)
  BY <1>2
<1> QED
  BY <1>2, <1>5, <1>6 DEF Shortened

LEMMA EscapeShortens ==
    ASSUME NEW i \in Nat, i + 3 <= Len(bytes), Len(bytes) \in Nat,
           Percents(i) \in Nat, Percents(i + 1) = Percents(i) + 1,
           NEW s, Shortened(s, i), ~ s.bad, s.skip = 0, NEW x \in Nat,
           NEW r, r = [s EXCEPT !.out = Append(@, x), !.skip = 2]
    PROVE  Shortened(r, i + 1)
<1>1. s \in Decoding
  BY DEF Shortened
<1>2. r \in Decoding /\ r.skip = 2 /\ ~ r.bad /\ Len(r.out) = Len(s.out) + 1
  BY <1>1, DecodingEscapes, ZenonT(60)
<1>3. Len(s.out) \in Nat
  BY <1>1, DecodingIs
<1>4. PICK e \in Nat : Escapes(s, i, e)
  BY DEF Shortened
<1>5. e + 1 \in Nat /\ Escapes(r, i + 1, e + 1)
  <2>1. Len(s.out) + 2 * e = i + 0 /\ e <= Len(s.out) /\ e <= Percents(i)
    BY <1>4 DEF Escapes
  <2> DEFINE l == Len(s.out)
             p == Percents(i)
  <2>3. /\ l \in Nat /\ p \in Nat /\ Percents(i + 1) = p + 1
        /\ l + 2 * e = i + 0 /\ e <= l /\ e <= p
    BY <1>3, <2>1
  <2> HIDE DEF l, p
  <2>2. l + 1 + 2 * (e + 1) = i + 1 + 2 /\ e + 1 <= l + 1 /\ e + 1 <= Percents(i + 1)
    BY <2>3, SMTT(40)
  <2> QED
    BY <1>2, <2>2 DEF Escapes, l
<1>6. r.skip \in 0 .. 2 /\ i + 1 + r.skip <= Len(bytes)
  BY <1>2
<1> QED
  BY <1>2, <1>5, <1>6 DEF Shortened

LEMMA SkipShortens ==
    ASSUME NEW i \in Nat, Len(bytes) \in Nat,
           Percents(i) \in Nat, Percents(i + 1) \in Nat, Percents(i) <= Percents(i + 1),
           NEW s, Shortened(s, i), ~ s.bad, s.skip > 0,
           NEW r, r = [s EXCEPT !.skip = @ - 1]
    PROVE  Shortened(r, i + 1)
<1>1. s \in Decoding /\ s.skip \in 0 .. 2 /\ i + s.skip <= Len(bytes)
  BY DEF Shortened
<1>2. r \in Decoding /\ r.skip = s.skip - 1 /\ r.out = s.out
  BY <1>1, DecodingSkips
<1>3. Len(s.out) \in Nat
  BY <1>1, DecodingIs
<1>4. PICK e \in Nat : Escapes(s, i, e)
  BY DEF Shortened
<1> DEFINE l == Len(s.out)
           k == s.skip
<1>5. Escapes(r, i + 1, e)
  <2>1. l + 2 * e = i + k /\ e <= l /\ e <= Percents(i) /\ k \in 0 .. 2
    BY <1>1, <1>4 DEF Escapes
  <2> HIDE DEF l, k
  <2>2. l + 2 * e = i + 1 + (k - 1) /\ e <= l /\ e <= Percents(i + 1)
    BY <1>3, <2>1 DEF l
  <2> QED
    BY <1>2, <2>2 DEF Escapes, l, k
<1>6. r.skip \in 0 .. 2 /\ i + 1 + r.skip <= Len(bytes)
  <2>1. k \in 0 .. 2 /\ k > 0 /\ i + k <= Len(bytes)
    BY <1>1
  <2> HIDE DEF k
  <2>2. k - 1 \in 0 .. 2 /\ i + 1 + (k - 1) <= Len(bytes)
    BY <2>1
  <2> QED
    BY <1>2, <2>2 DEF k
<1> QED
  BY <1>2, <1>5, <1>6 DEF Shortened

LEMMA TurnShortens ==
    ASSUME InputTypes, NEW i \in 0 .. Len(bytes) - 1, NEW s, Shortened(s, i)
    PROVE  Shortened(UriStep(s, SubSeq(bytes, i + 1, Len(bytes))), i + 1)
<1> DEFINE n == Len(bytes)
           rest == SubSeq(bytes, i + 1, n)
           r == UriStep(s, rest)
           c == rest[1]
           printable == ~ (c < 32 \/ c >= 127)
           escape == c = Percent /\ Len(rest) > 2
           hex == rest[2] \in HexDigits /\ rest[3] \in HexDigits
           plus == s.urlencoded /\ c = Plus
<1>1. n \in Nat /\ \A j \in 1 .. n : bytes[j] \in 0 .. 255
  BY LenProperties, ElementOfSeq DEF InputTypes
<1>2. i + 1 \in 1 .. n /\ i \in Nat /\ i + 1 <= n
  BY <1>1
<1>3. /\ c = bytes[i + 1] /\ Len(rest) = n - (i + 1) + 1 /\ c \in 0 .. 255
      /\ Len(rest) > 2 => rest[2] \in 0 .. 255 /\ rest[3] \in 0 .. 255
  BY <1>2, RestIs
<1>4. Percents(i) \in Nat /\ Percents(i + 1) \in Nat /\ Percents(i) <= Percents(i + 1)
      /\ (c = Percent => Percents(i + 1) = Percents(i) + 1)
  <2>1. /\ Percents(i) \in Nat
        /\ bytes[i + 1] = Percent => Percents(i + 1) = Percents(i) + 1
        /\ bytes[i + 1] # Percent => Percents(i + 1) = Percents(i)
    BY <1>2, PercentsCounted DEF Percents
  <2> QED
    BY <1>3, <2>1
<1>5. s \in Decoding /\ s.skip \in Nat
  BY DecodingIs DEF Shortened
<1> HIDE DEF rest, r
<1>6. CASE s.bad
  <2>1. r = s
    BY <1>6, UriCases, Zenon DEF r
  <2> QED
    BY <1>5, <1>6, <2>1 DEF Shortened, r, rest
<1>7. CASE ~ s.bad /\ s.skip > 0
  <2>1. r = [s EXCEPT !.skip = @ - 1]
    BY <1>7, UriCases, Zenon DEF r
  <2>2. Shortened(r, i + 1)
    BY <1>1, <1>2, <1>4, <1>7, <2>1, SkipShortens
  <2> QED
    BY <2>2 DEF r, rest
<1>8. CASE ~ s.bad /\ ~ s.skip > 0
  <2>1. s.skip = 0
    BY <1>5, <1>8
  <2>2. CASE ~ printable
    <3>1. r = [s EXCEPT !.bad = TRUE]
      BY <1>8, <2>2, UriCases, Zenon DEF r
    <3>2. r \in Decoding /\ r.bad
      BY <1>5, <3>1, DecodingBad
    <3> QED
      BY <3>2 DEF Shortened, r, rest
  <2>3. CASE printable /\ plus
    <3>1. r = [s EXCEPT !.out = Append(@, Space)]
      BY <1>8, <2>3, UriCases, Zenon DEF r
    <3>2. Space \in Nat
      BY DEF Space
    <3>3. Shortened(r, i + 1)
      BY <1>1, <1>2, <1>4, <1>8, <2>1, <3>1, <3>2, CopyShortens
    <3> QED
      BY <3>3 DEF r, rest
  <2>4. CASE printable /\ ~ plus /\ ~ escape
    <3>1. r = [s EXCEPT !.out = Append(@, c)]
      BY <1>8, <2>4, UriCases, Zenon DEF r
    <3>2. c \in Nat
      <4>1. 0 .. 255 \subseteq Nat
        OBVIOUS
      <4> QED
        BY <1>3, <4>1, Zenon
    <3>3. Shortened(r, i + 1)
      BY <1>1, <1>2, <1>4, <1>8, <2>1, <3>1, <3>2, CopyShortens
    <3> QED
      BY <3>3 DEF r, rest
  <2>5. CASE printable /\ ~ plus /\ escape /\ ~ hex
    <3>1. r = [s EXCEPT !.bad = TRUE]
      BY <1>8, <2>5, UriCases, Zenon DEF r
    <3>2. r \in Decoding /\ r.bad
      BY <1>5, <3>1, DecodingBad
    <3> QED
      BY <3>2 DEF Shortened, r, rest
  <2>6. CASE printable /\ ~ plus /\ escape /\ hex
    <3> DEFINE x == HexToInt(rest[3]) * 16 + HexToInt(rest[2])
    <3>1. r = [s EXCEPT !.out = Append(@, x), !.skip = 2]
      BY <1>8, <2>6, UriCases, Zenon DEF r
    <3>2. x \in Nat
      <4>1. HexToInt(rest[3]) \in Nat /\ HexToInt(rest[2]) \in Nat
        BY <1>3, <2>6, HexNat
      <4> QED
        BY <4>1
    <3> HIDE DEF x
    <3>3. i + 3 <= n
      <4>1. n - (i + 1) + 1 > 2
        BY <1>3, <2>6
      <4> QED
        BY <1>1, <1>2, <4>1
    <3>4. Shortened(r, i + 1)
      BY <1>1, <1>2, <1>4, <1>8, <2>1, <2>6, <3>1, <3>2, <3>3, EscapeShortens
    <3> QED
      BY <3>4 DEF r, rest
  <2> QED
    BY <2>2, <2>3, <2>4, <2>5, <2>6
<1> QED
  BY <1>6, <1>7, <1>8

\* A turn for a byte that is no escape
LEMMA TurnCopies ==
    ASSUME NEW s, ~ s.bad, s.skip = 0,
           NEW rest, rest[1] \in 32 .. 126, rest[1] # Percent
    PROVE  UriStep(s, rest) = [s EXCEPT !.out = Append(@, Unescaped(s.urlencoded, rest[1]))]
<1> DEFINE c == rest[1]
<1> HIDE DEF c
<1>1. ~ (c < 32 \/ c >= 127) /\ ~ s.skip > 0
  BY DEF c
<1>2. UriStep(s, rest) = IF s.urlencoded /\ c = Plus THEN [s EXCEPT !.out = Append(@, Space)]
                         ELSE [s EXCEPT !.out = Append(@, c)]
  BY <1>1, Zenon DEF UriStep, c
<1>3. CASE s.urlencoded /\ c = Plus
  BY <1>2, <1>3 DEF Unescaped, c
<1>4. CASE ~ (s.urlencoded /\ c = Plus)
  BY <1>2, <1>4 DEF Unescaped, c
<1> QED
  BY <1>3, <1>4

\* What the bytes of a component with one escape, at e, become
Target(w, e, j) ==
    IF j = e THEN 16 * HexToInt(bytes[e + 2]) + HexToInt(bytes[e + 1])
    ELSE Unescaped(w, bytes[IF j < e THEN j ELSE j + 2])
Targets(w, e, k) == [j \in 1 .. k |-> Target(w, e, j)]

\* How long the result is after i bytes, and how many are left of the escape
OutLen(e, i) == IF i < e THEN i ELSE IF i <= e + 2 THEN e ELSE i - 2
LeftOver(e, i) == IF i = e THEN 2 ELSE IF i = e + 1 THEN 1 ELSE 0

LEMMA TargetsGrow ==
    ASSUME NEW w, NEW e, NEW m \in Nat, \A j \in 1 .. m : Target(w, e, j) \in Nat,
           NEW k \in 0 .. m - 1
    PROVE  /\ Append(Targets(w, e, k), Target(w, e, k + 1)) = Targets(w, e, k + 1)
           /\ Target(w, e, k + 1) \in Nat
<1> DEFINE t == Targets(w, e, k)
           u == Targets(w, e, k + 1)
           y == Target(w, e, k + 1)
<1>1. k \in Nat /\ k + 1 \in 1 .. m /\ \A j \in 1 .. k + 1 : j \in 1 .. m
  OBVIOUS
<1>2. /\ t \in Seq(Nat) /\ Len(t) = k /\ u \in Seq(Nat) /\ Len(u) = k + 1
      /\ \A j \in 1 .. k : t[j] = Target(w, e, j)
      /\ \A j \in 1 .. k + 1 : u[j] = Target(w, e, j)
  BY <1>1 DEF Targets
<1>3. y \in Nat /\ Len(u) = Len(t) + 1 /\ u[Len(u)] = y
      /\ \A j \in 1 .. Len(t) : u[j] = t[j]
  <2> HIDE DEF t, u
  <2> QED
    BY <1>1, <1>2
<1> HIDE DEF t, u, y
<1>4. Append(t, y) = u
  BY <1>2, <1>3, AppendIs
<1> QED
  BY <1>3, <1>4 DEF t, u, y

LEMMA UriEscapeHolds == ASSUME InputTypes PROVE UriEscape
<1> DEFINE n == Len(bytes)
<1> SUFFICES ASSUME NEW w \in BOOLEAN, NEW e \in 1 .. n - 2,
                    \A i \in DOMAIN bytes : bytes[i] \in 32 .. 126 /\ (bytes[i] = Percent <=> i = e),
                    bytes[e + 1] \in HexDigits, bytes[e + 2] \in HexDigits
             PROVE  ComponentDecode(w) = Targets(w, e, n - 2)
  BY DEF UriEscape, Targets, Target
<1>1. n \in Nat /\ DOMAIN bytes = 1 .. n /\ n - 2 \in Nat /\ e \in Nat /\ e <= n - 2 /\ e > 0
  BY LenProperties DEF InputTypes
<1>2. \A j \in 1 .. n : bytes[j] \in 32 .. 126 /\ bytes[j] \in 0 .. 255 /\ bytes[j] \in Nat
                        /\ (bytes[j] = Percent <=> j = e)
  <2> TAKE j \in 1 .. n
  <2>1. bytes[j] \in 32 .. 126 /\ (bytes[j] = Percent <=> j = e)
    BY <1>1
  <2>2. \A c \in 32 .. 126 : c \in 0 .. 255 /\ c \in Nat
    OBVIOUS
  <2> QED
    BY <2>1, <2>2, Zenon
<1>3. PICK g : Decodes(g, w)
  BY DecodesBytes
<1>4. e + 1 \in 1 .. n /\ e + 2 \in 1 .. n /\ e \in 1 .. n
  BY <1>1
<1>5. \A j \in 1 .. n - 2 : Target(w, e, j) \in Nat
  <2> TAKE j \in 1 .. n - 2
  <2>1. CASE j = e
    <3>1. HexToInt(bytes[e + 2]) \in Nat /\ HexToInt(bytes[e + 1]) \in Nat
      BY <1>2, <1>4, HexNat
    <3> DEFINE x == HexToInt(bytes[e + 2])
               y == HexToInt(bytes[e + 1])
    <3> HIDE DEF x, y
    <3>2. Target(w, e, j) = 16 * x + y
      BY <2>1 DEF Target, x, y
    <3> QED
      BY <3>1, <3>2 DEF x, y
  <2>2. CASE j # e
    <3> DEFINE k == IF j < e THEN j ELSE j + 2
    <3>1. k \in 1 .. n
      BY <1>1
    <3> HIDE DEF k
    <3>2. bytes[k] \in Nat /\ Space \in Nat
      BY <1>2, <3>1 DEF Space
    <3>3. Target(w, e, j) = Unescaped(w, bytes[k])
      BY <2>2, Zenon DEF Target, k
    <3> QED
      BY <3>2, <3>3 DEF Unescaped
  <2> QED
    BY <2>1, <2>2
<1>10. ASSUME NEW k \in 0 .. n - 3
       PROVE  /\ Append(Targets(w, e, k), Target(w, e, k + 1)) = Targets(w, e, k + 1)
              /\ Target(w, e, k + 1) \in Nat
  <2> DEFINE m == n - 2
  <2>1. m \in Nat /\ \A j \in 1 .. m : Target(w, e, j) \in Nat
    BY <1>1, <1>5
  <2>2. k \in 0 .. m - 1
    BY <1>1
  <2> HIDE DEF m
  <2> QED
    BY <2>1, <2>2, TargetsGrow
<1>11. OutLen(e, n) = n - 2
  <2> HIDE DEF n
  <2>1. ~ n < e /\ (n <= e + 2 => e = n - 2)
    BY <1>1
  <2> QED
    BY <2>1 DEF OutLen
<1> DEFINE Good(s, i) ==
               /\ s \in Decoding /\ s.urlencoded = w /\ ~ s.bad
               /\ s.skip = LeftOver(e, i) /\ s.out = Targets(w, e, OutLen(e, i))
           T == {i \in 0 .. n : Good(g[i], i)}
<1>6. 0 \in T
  <2>1. g[0] = Undecoded(w)
    BY <1>3 DEF Decodes
  <2>2. Targets(w, e, 0) = <<>>
    BY DEF Targets
  <2>3. OutLen(e, 0) = 0 /\ LeftOver(e, 0) = 0
    BY <1>1 DEF OutLen, LeftOver
  <2>4. /\ Undecoded(w) \in Decoding /\ Undecoded(w).skip = 0 /\ ~ Undecoded(w).bad
        /\ Undecoded(w).out = <<>> /\ Undecoded(w).urlencoded = w
    BY EmptySeq DEF Undecoded, Decoding
  <2>5. 0 \in 0 .. n
    BY <1>1
  <2> QED
    BY <2>1, <2>2, <2>3, <2>4, <2>5
<1>7. ASSUME NEW i \in 0 .. n - 1, i \in T PROVE i + 1 \in T
  <2> DEFINE rest == SubSeq(bytes, i + 1, n)
             s == g[i]
             c == bytes[i + 1]
             r == UriStep(s, rest)
             k == OutLen(e, i)
  <2>1. i + 1 \in 1 .. n /\ i + 1 \in 0 .. n /\ i \in Nat
    BY <1>1
  <2>2. /\ rest[1] = c /\ Len(rest) = n - (i + 1) + 1
        /\ Len(rest) > 2 => rest[2] = bytes[i + 1 + 1] /\ rest[3] = bytes[i + 1 + 2]
    BY <2>1, RestIs
  <2>3. c \in 32 .. 126 /\ (c = Percent <=> i + 1 = e)
    BY <1>2, <2>1
  <2>4. g[i + 1] = r
    BY <1>3 DEF Decodes
  <2>5. /\ s \in Decoding /\ s.urlencoded = w /\ ~ s.bad
        /\ s.skip = LeftOver(e, i) /\ s.out = Targets(w, e, k)
    BY <1>7
  <2> HIDE DEF s, rest, c, r
  <2>6. CASE i + 1 = e
    <3> DEFINE x == HexToInt(rest[3]) * 16 + HexToInt(rest[2])
    <3>1. /\ s.skip = 0 /\ ~ s.skip > 0 /\ k = e - 1 /\ k \in 0 .. n - 3 /\ k + 1 = e
          /\ OutLen(e, i + 1) = e /\ LeftOver(e, i + 1) = 2
      BY <1>1, <2>1, <2>5, <2>6 DEF OutLen, LeftOver
    <3>2. Len(rest) > 2 /\ i + 1 + 1 = e + 1 /\ i + 1 + 2 = e + 2
      BY <1>1, <2>1, <2>2, <2>6
    <3>3. rest[2] = bytes[e + 1] /\ rest[3] = bytes[e + 2]
          /\ rest[2] \in HexDigits /\ rest[3] \in HexDigits
      BY <2>2, <3>2
    <3>4. rest[1] = Percent /\ ~ (rest[1] < 32 \/ rest[1] >= 127) /\ ~ (s.urlencoded /\ rest[1] = Plus)
      BY <2>2, <2>3, <2>6 DEF Percent, Plus
    <3>5. r = [s EXCEPT !.out = Append(@, x), !.skip = 2]
      <4>1. ~ s.bad /\ ~ s.skip > 0
        BY <2>5, <3>1
      <4> QED
        BY <3>2, <3>3, <3>4, <4>1, UriCases, ZenonT(60) DEF r
    <3>6. x = Target(w, e, k + 1)
      <4> DEFINE a == HexToInt(bytes[e + 2])
                 b == HexToInt(bytes[e + 1])
      <4>1. a \in Nat /\ b \in Nat
        BY <1>2, <1>4, HexNat
      <4>2. x = a * 16 + b
        BY <3>3
      <4>3. Target(w, e, k + 1) = 16 * a + b
        BY <3>1 DEF Target
      <4> HIDE DEF a, b, x
      <4> QED
        BY <4>1, <4>2, <4>3
    <3> HIDE DEF x, k
    <3>7. Append(s.out, x) = Targets(w, e, k + 1) /\ x \in Nat
      BY <1>10, <2>5, <3>1, <3>6
    <3>8. r \in Decoding /\ r.skip = 2 /\ ~ r.bad /\ r.urlencoded = w
          /\ r.out = Append(s.out, x)
      <4>1. s.out \in Seq(Nat)
        BY <2>5 DEF Decoding
      <4>2. Append(s.out, x) \in Seq(Nat)
        BY <3>7, <4>1, AppendProperties
      <4> DEFINE u == Append(s.out, x)
      <4>3. r = [s EXCEPT !.out = u, !.skip = 2]
        BY <3>5
      <4> HIDE DEF u
      <4> QED
        BY <2>5, <4>2, <4>3 DEF Decoding, u
    <3> QED
      BY <2>1, <2>4, <3>1, <3>7, <3>8
  <2>7. CASE i = e \/ i = e + 1
    <3>1. /\ s.skip \in 1 .. 2 /\ s.skip > 0 /\ OutLen(e, i + 1) = k
          /\ LeftOver(e, i + 1) = s.skip - 1
      BY <1>1, <2>1, <2>5, <2>7 DEF OutLen, LeftOver
    <3>2. r = [s EXCEPT !.skip = @ - 1]
      BY <2>5, <3>1, UriCases, Zenon DEF r
    <3> HIDE DEF k
    <3>3. r \in Decoding /\ r.skip = s.skip - 1 /\ r.out = s.out
      BY <2>5, <3>1, <3>2, DecodingSkips
    <3>4. r.bad = s.bad /\ r.urlencoded = s.urlencoded
      BY <2>5, <3>2 DEF Decoding
    <3> QED
      BY <2>1, <2>4, <2>5, <3>1, <3>3, <3>4
  <2>8. CASE i + 1 # e /\ i # e /\ i # e + 1
    <3>1. /\ s.skip = 0 /\ k \in 0 .. n - 3 /\ OutLen(e, i + 1) = k + 1
          /\ LeftOver(e, i + 1) = 0 /\ k + 1 # e
          /\ (IF k + 1 < e THEN k + 1 ELSE k + 1 + 2) = i + 1
      BY <1>1, <2>1, <2>5, <2>8 DEF OutLen, LeftOver
    <3> DEFINE x == Unescaped(w, c)
    <3> HIDE DEF k, x
    <3>6. c # Percent /\ rest[1] = c
      BY <2>2, <2>3, <2>8
    <3>7. ~ s.bad /\ s.skip = 0 /\ rest[1] \in 32 .. 126 /\ rest[1] # Percent
      BY <2>3, <2>5, <3>1, <3>6
    <3>2. UriStep(s, rest) = [s EXCEPT !.out = Append(@, Unescaped(s.urlencoded, rest[1]))]
      BY <3>7, TurnCopies, Zenon
    <3>3. x = Target(w, e, k + 1)
      BY <3>1, Zenon DEF Target, x, c
    <3>4. Append(s.out, x) = Targets(w, e, k + 1) /\ x \in Nat
      BY <1>10, <2>5, <3>1, <3>3
    <3>5. r \in Decoding /\ r.skip = 0 /\ ~ r.bad /\ r.urlencoded = w
          /\ r.out = Append(s.out, x)
      <4>1. s.out \in Seq(Nat)
        BY <2>5 DEF Decoding
      <4>2. Append(s.out, x) \in Seq(Nat)
        BY <3>4, <4>1, AppendProperties
      <4> DEFINE u == Append(s.out, x)
      <4>3. r = [s EXCEPT !.out = u]
        <5>1. s.urlencoded = w /\ rest[1] = c
          BY <2>5, <3>6
        <5> QED
          BY <3>2, <5>1 DEF r, x
      <4> HIDE DEF u
      <4> QED
        BY <2>5, <3>1, <4>2, <4>3 DEF Decoding, u
    <3> QED
      BY <2>1, <2>4, <3>1, <3>4, <3>5
  <2> QED
    BY <2>6, <2>7, <2>8
<1> HIDE DEF T
<1>8. 0 .. n \subseteq T
  BY <1>1, <1>6, <1>7, Upward
<1>9. ~ g[n].bad /\ g[n].out = Targets(w, e, n - 2)
  <2>1. n \in T
    BY <1>1, <1>8
  <2> QED
    BY <1>11, <2>1 DEF T
<1> QED
  BY <1>3, <1>9 DEF Decodes

LEMMA UriLengthHolds == ASSUME InputTypes PROVE UriLength
<1> DEFINE n == Len(bytes)
<1> SUFFICES ASSUME NEW w \in BOOLEAN, ComponentDecode(w) # <<>>
             PROVE  \E escapes \in 0 .. n \div 3 :
                        /\ Len(ComponentDecode(w)) + 2 * escapes = n
                        /\ escapes <= Cardinality({i \in DOMAIN bytes : bytes[i] = Percent})
  BY DEF UriLength
<1>1. n \in Nat /\ DOMAIN bytes = 1 .. n
  BY LenProperties DEF InputTypes
<1>2. PICK g : Decodes(g, w)
  BY DecodesBytes
<1> DEFINE T == {i \in 0 .. n : Shortened(g[i], i)}
<1>4. 0 \in T
  <2>1. g[0] = Undecoded(w)
    BY <1>2 DEF Decodes
  <2>2. Undecoded(w) \in Decoding /\ Undecoded(w).skip = 0 /\ Undecoded(w).out = <<>>
    BY EmptySeq DEF Undecoded, Decoding
  <2>3. Percents(0) \in Nat
    BY PercentsCounted DEF Percents
  <2>4. Len(<<>>) + 2 * 0 = 0 + 0 /\ 0 <= Len(<<>>) /\ 0 <= Percents(0) /\ 0 \in Nat
    BY <2>3
  <2>5. Escapes(Undecoded(w), 0, 0)
    BY <2>2, <2>4 DEF Escapes
  <2>6. Undecoded(w).skip \in 0 .. 2 /\ 0 + Undecoded(w).skip <= Len(bytes)
    BY <1>1, <2>2
  <2>7. Shortened(Undecoded(w), 0)
    BY <2>2, <2>4, <2>5, <2>6 DEF Shortened
  <2> QED
    BY <1>1, <2>1, <2>7
<1>5. ASSUME NEW i \in 0 .. n - 1, i \in T PROVE i + 1 \in T
  <2>1. i + 1 \in 0 .. n
    BY <1>1
  <2>2. g[i + 1] = UriStep(g[i], SubSeq(bytes, i + 1, Len(bytes)))
    BY <1>2 DEF Decodes
  <2>3. Shortened(g[i + 1], i + 1)
    BY <1>5, <2>2, TurnShortens
  <2> QED
    BY <2>1, <2>3
<1> HIDE DEF T
<1>6. 0 .. n \subseteq T
  BY <1>1, <1>4, <1>5, Upward
<1>7. ~ g[n].bad /\ ComponentDecode(w) = g[n].out
  BY <1>2 DEF Decodes
<1>8. Shortened(g[n], n)
  BY <1>1, <1>6 DEF T
<1>9. g[n] \in Decoding /\ g[n].skip \in 0 .. 2 /\ n + g[n].skip <= n
  BY <1>7, <1>8 DEF Shortened
<1>10. PICK e \in Nat : Escapes(g[n], n, e)
  BY <1>7, <1>8 DEF Shortened
<1> DEFINE l == Len(ComponentDecode(w))
<1>11. g[n].skip = 0 /\ l \in Nat
  BY <1>1, <1>7, <1>9, DecodingIs
<1>12. l + 2 * e = n /\ e <= l /\ e <= Percents(n)
  <2>1. l + 2 * e = n + 0 /\ e <= l /\ e <= Percents(n)
    BY <1>7, <1>10, <1>11 DEF Escapes
  <2>2. n + 0 = n
    BY <1>1
  <2> QED
    BY <2>1, <2>2, Zenon
<1>13. e \in 0 .. n \div 3
  <2> HIDE DEF l, n
  <2>1. 3 * e <= n
    BY <1>1, <1>11, <1>12
  <2> QED
    BY <1>1, <2>1
<1>14. Percents(n) = Cardinality({i \in DOMAIN bytes : bytes[i] = Percent})
  BY <1>1 DEF Percents
<1> QED
  BY <1>12, <1>13, <1>14

-----------------------------------------------------------------------------
(* base64: what encode() writes *)

LEMMA Thirds ==
    ASSUME NEW n \in Nat
    PROVE  /\ n \div 3 \in Nat /\ n % 3 \in 0 .. 2 /\ n = 3 * (n \div 3) + (n % 3)
           /\ CeilDiv(n, 3) = IF n % 3 = 0 THEN n \div 3 ELSE n \div 3 + 1
<1>1. n \div 3 \in Nat /\ n % 3 \in 0 .. 2 /\ n = 3 * (n \div 3) + (n % 3)
  BY Division
<1>2. CeilDiv(n, 3) = (n + 3 - 1) \div 3
  BY DEF CeilDiv
<1> DEFINE q == n \div 3
           r == n % 3
<1>3. q \in Nat /\ r \in 0 .. 2 /\ n = 3 * q + r
  BY <1>1
<1>4. (n + 3 - 1) \div 3 = IF r = 0 THEN q ELSE q + 1
  <2> HIDE DEF q, r
  <2> QED
    BY <1>3
<1> QED
  BY <1>1, <1>2, <1>4

\* The last loop of encode() ends where fewer than three bytes are left.
LEMMA GroupsEndIs ==
    ASSUME NEW n \in Nat, align \in Nat
    PROVE  /\ GroupsEnd(n) <= n => GroupsEnd(n) = 3 * (n \div 3)
           /\ align % 4 = 0 => GroupsEnd(n) <= n
<1> DEFINE u == UnalignedEnd(n)
           b == AlignedEnd(n)
           e == GroupsEnd(n)
           a == align % 4
           c == CeilDiv(n - 11, 12)
           q == n \div 3
           r == n % 3
<1>1. a \in 0 .. 3
  BY Division
<1>2. n >= 12 => c \in Nat /\ 12 * c >= n - 11 /\ 12 * c < n + 1
  <2>1. n >= 12 => n - 11 + 12 - 1 \in Nat
    OBVIOUS
  <2> QED
    BY <2>1 DEF CeilDiv
<1>3. u = IF n >= 12 THEN 3 * a ELSE 0
  BY DEF UnalignedEnd
<1>4. b = u + IF n >= 12 THEN 12 * c ELSE 0
  BY DEF AlignedEnd
<1>5. e = IF b < n - 2 THEN b + 3 * CeilDiv(n - 2 - b, 3) ELSE b
  BY DEF GroupsEnd
<1> HIDE DEF u, b, e, a, c
<1>6. PICK m \in Nat : b = 3 * m
  <2>1. CASE n >= 12
    <3>1. b = 3 * (a + 4 * c) /\ a + 4 * c \in Nat
      BY <1>1, <1>2, <1>3, <1>4, <2>1
    <3> QED
      BY <3>1
  <2>2. CASE ~ n >= 12
    BY <1>3, <1>4, <2>2
  <2> QED
    BY <2>1, <2>2
<1>7. PICK k \in Nat : e = 3 * k /\ e >= n - 2 /\ (b <= n => e <= n)
  <2>1. CASE b < n - 2
    <3> DEFINE d == CeilDiv(n - 2 - b, 3)
    <3>1. d \in Nat /\ 3 * d >= n - 2 - b /\ 3 * d <= n - b
      <4>1. n - 2 - b + 3 - 1 \in Nat
        BY <1>6, <2>1
      <4> QED
        BY <1>6, <4>1 DEF CeilDiv
    <3> HIDE DEF d
    <3>2. e = b + 3 * d
      BY <1>5, <2>1 DEF d
    <3>3. m + d \in Nat /\ e = 3 * (m + d)
      BY <1>6, <3>1, <3>2
    <3> QED
      BY <1>6, <3>1, <3>2, <3>3
  <2>2. CASE ~ b < n - 2
    BY <1>5, <1>6, <2>2
  <2> QED
    BY <2>1, <2>2
<1>8. a = 0 => b <= n
  BY <1>2, <1>3, <1>4
<1>9. e <= n => e = 3 * q
  <2>1. q \in Nat /\ r \in 0 .. 2 /\ n = 3 * q + r
    BY Division
  <2> HIDE DEF q, r
  <2> QED
    BY <1>7, <2>1
<1> QED
  BY <1>7, <1>8, <1>9 DEF e, a

\* s is the groups of g, of four characters each, one after the other.
FourEach(g, m) == \A i \in 1 .. m : Len(g[i]) = 4

GroupsIn(S, s, g, m) ==
    /\ s \in Seq(S) /\ Len(s) = 4 * m
    /\ \A i \in 1 .. m : \A j \in 1 .. 4 : s[4 * (i - 1) + j] = g[i][j]

\* Joining groups of four
LEMMA GroupsJoined ==
    ASSUME NEW S, NEW m \in Nat, NEW g \in Seq(Seq(S)), Len(g) = m, FourEach(g, m)
    PROVE  GroupsIn(S, Joined(g), g, m)
<1> DEFINE Whole(i, s) == /\ s \in Seq(S) /\ Len(s) = 4 * i
                          /\ \A k \in 1 .. i : \A j \in 1 .. 4 : s[4 * (k - 1) + j] = g[k][j]
<1>1. PICK h : Unrolls("join", h, <<>>, g) /\ Fold("join", <<>>, g) = h[Len(g)]
  BY FoldUnrolls
<1>2. Joined(g) = h[m]
  BY <1>1, JoinedFolds
<1> DEFINE T == {i \in 0 .. m : Whole(i, h[i])}
<1>3. 0 \in T
  <2>1. h[0] = <<>>
    BY <1>1 DEF Unrolls
  <2>2. Whole(0, <<>>)
    <3>1. <<>> \in Seq(S) /\ Len(<<>>) = 4 * 0
      BY EmptySeq
    <3>2. \A k \in 1 .. 0 : FALSE
      OBVIOUS
    <3> QED
      BY <3>1, <3>2
  <2> HIDE DEF Whole
  <2> QED
    BY <2>1, <2>2
<1>4. ASSUME NEW i \in 0 .. m - 1, i \in T PROVE i + 1 \in T
  <2> DEFINE s == h[i]
             x == g[i + 1]
             t == h[i + 1]
  <2>1. i + 1 \in 1 .. m /\ i + 1 \in 0 .. m /\ i \in 0 .. Len(g) - 1 /\ i \in Nat
    OBVIOUS
  <2>2. t = s \o x
    <3>1. t = Step("join", s, x)
      BY <1>1, <2>1 DEF Unrolls
    <3> QED
      BY <3>1, StepJoins
  <2>3. x \in Seq(S) /\ Len(x) = 4
    BY <2>1, ElementOfSeq DEF FourEach
  <2>4. Whole(i, s)
    BY <1>4
  <2> HIDE DEF s, x, t
  <2>5. /\ t \in Seq(S) /\ Len(t) = 4 * i + 4
        /\ \A k \in 1 .. 4 * i + 4 : t[k] = IF k <= 4 * i THEN s[k] ELSE x[k - 4 * i]
    <3>1. s \in Seq(S) /\ Len(s) = 4 * i
      BY <2>4
    <3>2. /\ t \in Seq(S) /\ Len(t) = Len(s) + Len(x)
          /\ \A k \in 1 .. Len(s) + Len(x) :
                t[k] = IF k <= Len(s) THEN s[k] ELSE x[k - Len(s)]
      BY <2>2, <2>3, <3>1, ConcatProperties
    <3> QED
      BY <2>3, <3>1, <3>2
  <2>6. ASSUME NEW k \in 1 .. i + 1, NEW j \in 1 .. 4
        PROVE  t[4 * (k - 1) + j] = g[k][j]
    <3>1. CASE k <= i
      <4>1. 4 * (k - 1) + j \in 1 .. 4 * i + 4 /\ 4 * (k - 1) + j <= 4 * i /\ k \in 1 .. i
        BY <2>1, <3>1
      <4>2. t[4 * (k - 1) + j] = s[4 * (k - 1) + j]
        BY <2>5, <4>1
      <4>3. s[4 * (k - 1) + j] = g[k][j]
        BY <2>4, <4>1
      <4> QED
        BY <4>2, <4>3
    <3>2. CASE k = i + 1
      <4>1. /\ 4 * (k - 1) + j = 4 * i + j /\ 4 * i + j \in 1 .. 4 * i + 4
            /\ ~ 4 * i + j <= 4 * i /\ (4 * i + j) - 4 * i = j
        BY <2>1, <3>2
      <4>2. t[4 * i + j] = x[(4 * i + j) - 4 * i]
        BY <2>5, <4>1
      <4> QED
        BY <3>2, <4>1, <4>2 DEF x
    <3>3. k <= i \/ k = i + 1
      BY <2>1
    <3> QED
      BY <3>1, <3>2, <3>3
  <2>7. 4 * i + 4 = 4 * (i + 1)
    BY <2>1
  <2>8. Whole(i + 1, t)
    BY <2>5, <2>6, <2>7
  <2> HIDE DEF Whole
  <2> QED
    BY <2>1, <2>8 DEF t
<1> HIDE DEF T
<1>5. 0 .. m \subseteq T
  BY <1>3, <1>4, Upward
<1>6. m \in T
  BY <1>5
<1>7. Whole(m, h[m])
  BY <1>6 DEF T
<1>8. GroupsIn(S, h[m], g, m)
  BY <1>7 DEF GroupsIn
<1> QED
  BY <1>2, <1>8

\* The characters for the bytes of a group, of which the last may be short
Four(i) == Sextets(ByteAt(3 * i - 2), ByteAt(3 * i - 1), ByteAt(3 * i))
Written(i) ==
    <<Four(i)[1], Four(i)[2],
      IF 3 * i - 1 > Len(bytes) THEN Pad ELSE Four(i)[3],
      IF 3 * i > Len(bytes) THEN Pad ELSE Four(i)[4]>>

LEMMA CutTwo ==
    ASSUME NEW S, NEW a \in S, NEW b \in S, NEW c \in S, NEW d \in S, NEW p \in S
    PROVE  SubSeq(<<a, b, c, d>>, 1, 2) \o <<p, p>> = <<a, b, p, p>>
<1> DEFINE s == <<a, b, c, d>>
<1>1. s[1] = a /\ s[2] = b
  OBVIOUS
<1> HIDE DEF s
<1>2. \A i \in 1 .. 2 : s[i] \in S
  <2>1. \A i \in 1 .. 2 : i = 1 \/ i = 2
    OBVIOUS
  <2> QED
    BY <1>1, <2>1
<1>3. /\ SubSeq(s, 1, 2) \in Seq(S) /\ Len(SubSeq(s, 1, 2)) = 2
      /\ SubSeq(s, 1, 2)[1] = a /\ SubSeq(s, 1, 2)[2] = b
  <2>1. /\ SubSeq(s, 1, 2) \in Seq(S)
        /\ Len(SubSeq(s, 1, 2)) = IF 1 <= 2 THEN 2 - 1 + 1 ELSE 0
        /\ \A i \in 1 .. 2 - 1 + 1 : SubSeq(s, 1, 2)[i] = s[1 + i - 1]
    BY <1>2, SubSeqProperties
  <2> QED
    BY <1>1, <2>1
<1> DEFINE t == SubSeq(s, 1, 2)
<1> HIDE DEF t
<1>4. t \in Seq(S) /\ Len(t) = 2 /\ t[1] = a /\ t[2] = b
  BY <1>3 DEF t
<1>5. t = <<a, b>>
  <2> DEFINE u == <<a, b>>
  <2>1. u \in Seq(S) /\ Len(u) = 2 /\ u[1] = a /\ u[2] = b
    OBVIOUS
  <2> HIDE DEF u
  <2>2. \A i \in 1 .. 2 : i = 1 \/ i = 2
    OBVIOUS
  <2>3. Len(t) = Len(u) /\ \A i \in 1 .. Len(t) : t[i] = u[i]
    BY <1>4, <2>1, <2>2
  <2>4. t = u
    BY <1>4, <2>1, <2>3, SeqEqual
  <2> QED
    BY <2>4 DEF u
<1>6. <<a, b>> \o <<p, p>> = <<a, b, p, p>>
  <2> DEFINE u == <<a, b>>
             v == <<p, p>>
             w == <<a, b, p, p>>
  <2>1. /\ u \in Seq(S) /\ Len(u) = 2 /\ u[1] = a /\ u[2] = b
        /\ v \in Seq(S) /\ Len(v) = 2 /\ v[1] = p /\ v[2] = p
        /\ w \in Seq(S) /\ Len(w) = 4 /\ w[1] = a /\ w[2] = b /\ w[3] = p /\ w[4] = p
    OBVIOUS
  <2> HIDE DEF u, v, w
  <2>2. /\ u \o v \in Seq(S) /\ Len(u \o v) = Len(u) + Len(v)
        /\ \A i \in 1 .. Len(u) + Len(v) :
              (u \o v)[i] = IF i <= Len(u) THEN u[i] ELSE v[i - Len(u)]
    BY <2>1, ConcatProperties
  <2>3. \A i \in 1 .. 4 : (u \o v)[i] = w[i]
    <3>1. \A i \in 1 .. 4 : i = 1 \/ i = 2 \/ i = 3 \/ i = 4
      OBVIOUS
    <3> QED
      BY <2>1, <2>2, <3>1
  <2>4. u \o v = w
    BY <2>1, <2>2, <2>3, SeqEqual
  <2> QED
    BY <2>4 DEF u, v, w
<1> QED
  BY <1>5, <1>6 DEF t, s

LEMMA CutThree ==
    ASSUME NEW S, NEW a \in S, NEW b \in S, NEW c \in S, NEW d \in S, NEW p \in S
    PROVE  SubSeq(<<a, b, c, d>>, 1, 3) \o <<p>> = <<a, b, c, p>>
<1> DEFINE s == <<a, b, c, d>>
<1>1. s[1] = a /\ s[2] = b /\ s[3] = c
  OBVIOUS
<1> HIDE DEF s
<1>2. \A i \in 1 .. 3 : s[i] \in S
  <2>1. \A i \in 1 .. 3 : i = 1 \/ i = 2 \/ i = 3
    OBVIOUS
  <2> QED
    BY <1>1, <2>1
<1>3. /\ SubSeq(s, 1, 3) \in Seq(S) /\ Len(SubSeq(s, 1, 3)) = 3
      /\ SubSeq(s, 1, 3)[1] = a /\ SubSeq(s, 1, 3)[2] = b /\ SubSeq(s, 1, 3)[3] = c
  <2>1. /\ SubSeq(s, 1, 3) \in Seq(S)
        /\ Len(SubSeq(s, 1, 3)) = IF 1 <= 3 THEN 3 - 1 + 1 ELSE 0
        /\ \A i \in 1 .. 3 - 1 + 1 : SubSeq(s, 1, 3)[i] = s[1 + i - 1]
    BY <1>2, SubSeqProperties
  <2> QED
    BY <1>1, <2>1
<1> DEFINE t == SubSeq(s, 1, 3)
<1> HIDE DEF t
<1>4. t \in Seq(S) /\ Len(t) = 3 /\ t[1] = a /\ t[2] = b /\ t[3] = c
  BY <1>3 DEF t
<1>5. t = <<a, b, c>>
  <2> DEFINE u == <<a, b, c>>
  <2>1. u \in Seq(S) /\ Len(u) = 3 /\ u[1] = a /\ u[2] = b /\ u[3] = c
    OBVIOUS
  <2> HIDE DEF u
  <2>2. \A i \in 1 .. 3 : i = 1 \/ i = 2 \/ i = 3
    OBVIOUS
  <2>3. Len(t) = Len(u) /\ \A i \in 1 .. Len(t) : t[i] = u[i]
    BY <1>4, <2>1, <2>2
  <2>4. t = u
    BY <1>4, <2>1, <2>3, SeqEqual
  <2> QED
    BY <2>4 DEF u
<1>6. <<a, b, c>> \o <<p>> = <<a, b, c, p>>
  <2> DEFINE u == <<a, b, c>>
             v == <<p>>
             w == <<a, b, c, p>>
  <2>1. /\ u \in Seq(S) /\ Len(u) = 3 /\ u[1] = a /\ u[2] = b /\ u[3] = c
        /\ v \in Seq(S) /\ Len(v) = 1 /\ v[1] = p
        /\ w \in Seq(S) /\ Len(w) = 4 /\ w[1] = a /\ w[2] = b /\ w[3] = c /\ w[4] = p
    OBVIOUS
  <2> HIDE DEF u, v, w
  <2>2. /\ u \o v \in Seq(S) /\ Len(u \o v) = Len(u) + Len(v)
        /\ \A i \in 1 .. Len(u) + Len(v) :
              (u \o v)[i] = IF i <= Len(u) THEN u[i] ELSE v[i - Len(u)]
    BY <2>1, ConcatProperties
  <2>3. \A i \in 1 .. 4 : (u \o v)[i] = w[i]
    <3>1. \A i \in 1 .. 4 : i = 1 \/ i = 2 \/ i = 3 \/ i = 4
      OBVIOUS
    <3> QED
      BY <2>1, <2>2, <3>1
  <2>4. u \o v = w
    BY <2>1, <2>2, <2>3, SeqEqual
  <2> QED
    BY <2>4 DEF u, v, w
<1> QED
  BY <1>5, <1>6 DEF t, s

LEMMA ByteIs == ASSUME InputTypes, NEW i \in Nat \ {0} PROVE ByteAt(i) \in 0 .. 255
<1>1. Len(bytes) \in Nat
  BY LenProperties DEF InputTypes
<1>2. CASE i <= Len(bytes)
  <2>1. i \in 1 .. Len(bytes)
    BY <1>1, <1>2
  <2> QED
    BY <1>2, <2>1, ElementOfSeq DEF InputTypes, ByteAt
<1>3. CASE ~ i <= Len(bytes)
  BY <1>3 DEF ByteAt
<1> QED
  BY <1>2, <1>3

LEMMA SextetsAre ==
    ASSUME NEW a \in 0 .. 255, NEW b \in 0 .. 255, NEW c \in 0 .. 255
    PROVE  LET s == Sextets(a, b, c)
           IN  /\ s[1] = a \div 4 /\ s[2] = (a % 4) * 16 + b \div 16
               /\ s[3] = (b % 16) * 4 + c \div 64 /\ s[4] = c % 64
               /\ s[1] \in 0 .. 63 /\ s[2] \in 0 .. 63 /\ s[3] \in 0 .. 63 /\ s[4] \in 0 .. 63
               /\ s = <<s[1], s[2], s[3], s[4]>>
<1>1. /\ a \div 4 \in 0 .. 63 /\ (a % 4) * 16 + b \div 16 \in 0 .. 63
      /\ (b % 16) * 4 + c \div 64 \in 0 .. 63 /\ c % 64 \in 0 .. 63
  OBVIOUS
<1> QED
  BY <1>1 DEF Sextets

LEMMA FourAre ==
    ASSUME InputTypes, NEW i \in Nat \ {0}
    PROVE  \A j \in 1 .. 4 : Four(i)[j] \in 0 .. 63
<1>1. 3 * i - 2 \in Nat \ {0} /\ 3 * i - 1 \in Nat \ {0} /\ 3 * i \in Nat \ {0}
  OBVIOUS
<1>2. ByteAt(3 * i - 2) \in 0 .. 255 /\ ByteAt(3 * i - 1) \in 0 .. 255
      /\ ByteAt(3 * i) \in 0 .. 255
  BY <1>1, ByteIs
<1> DEFINE a == ByteAt(3 * i - 2)
           b == ByteAt(3 * i - 1)
           c == ByteAt(3 * i)
<1> HIDE DEF a, b, c
<1>3. a \in 0 .. 255 /\ b \in 0 .. 255 /\ c \in 0 .. 255
  BY <1>2 DEF a, b, c
<1>4. Four(i) = Sextets(a, b, c)
  BY DEF Four, a, b, c
<1>5. \A j \in 1 .. 4 : Sextets(a, b, c)[j] \in 0 .. 63
  <2> DEFINE s == Sextets(a, b, c)
  <2>1. s[1] \in 0 .. 63 /\ s[2] \in 0 .. 63 /\ s[3] \in 0 .. 63 /\ s[4] \in 0 .. 63
    BY <1>3, SextetsAre, ZenonT(60)
  <2> HIDE DEF s
  <2>2. \A j \in 1 .. 4 : j = 1 \/ j = 2 \/ j = 3 \/ j = 4
    OBVIOUS
  <2>3. \A j \in 1 .. 4 : s[j] \in 0 .. 63
    BY <2>1, <2>2, Zenon
  <2> QED
    BY <2>3, SMTT(40) DEF s
<1> QED
  BY <1>4, <1>5

LEMMA WrittenIs ==
    ASSUME InputTypes, NEW i \in Nat \ {0}
    PROVE  Written(i) \in Seq(0 .. 64) /\ Len(Written(i)) = 4
<1>1. \A j \in 1 .. 4 : Four(i)[j] \in 0 .. 63
  BY FourAre
<1> DEFINE a == Four(i)[1]
           b == Four(i)[2]
           c == IF 3 * i - 1 > Len(bytes) THEN Pad ELSE Four(i)[3]
           d == IF 3 * i > Len(bytes) THEN Pad ELSE Four(i)[4]
<1>2. a \in 0 .. 64 /\ b \in 0 .. 64 /\ c \in 0 .. 64 /\ d \in 0 .. 64
  <2>1. 0 .. 63 \subseteq 0 .. 64 /\ Pad \in 0 .. 64
    BY DEF Pad
  <2>2. Four(i)[1] \in 0 .. 63 /\ Four(i)[2] \in 0 .. 63
        /\ Four(i)[3] \in 0 .. 63 /\ Four(i)[4] \in 0 .. 63
    BY <1>1
  <2> QED
    BY <2>1, <2>2, Zenon
<1>3. Written(i) = <<a, b, c, d>>
  BY DEF Written
<1> HIDE DEF a, b, c, d
<1> QED
  BY <1>2, <1>3

\* encode() writes them group by group.
LEMMA EncodeIs ==
    ASSUME InputTypes, GroupsEnd(Len(bytes)) <= Len(bytes)
    PROVE  Encode = Joined([i \in 1 .. CeilDiv(Len(bytes), 3) |-> Written(i)])
<1> DEFINE n == Len(bytes)
           q == n \div 3
           r == n % 3
           e == GroupsEnd(n)
           w(k) == [i \in 1 .. k |-> Written(i)]
           tail == CASE n - e = 1 -> SubSeq(Sextets(bytes[n], 0, 0), 1, 2) \o <<Pad, Pad>>
                     [] n - e = 2 -> SubSeq(Sextets(bytes[n - 1], bytes[n], 0), 1, 3) \o <<Pad>>
                     [] OTHER -> <<>>
           groups == [i \in 1 .. e \div 3 |-> Sextets(bytes[3 * i - 2], bytes[3 * i - 1], bytes[3 * i])]
<1>1. n \in Nat /\ align \in Nat /\ \A i \in 1 .. n : bytes[i] \in 0 .. 255
  BY LenProperties, ElementOfSeq DEF InputTypes
<1>2. /\ q \in Nat /\ r \in 0 .. 2 /\ n = 3 * q + r
      /\ CeilDiv(n, 3) = IF r = 0 THEN q ELSE q + 1
  BY <1>1, Thirds
<1>3. e = 3 * q
  BY <1>1, GroupsEndIs
<1>4. Encode = Joined(groups) \o tail
  BY DEF Encode
<1> HIDE DEF q, r, e
<1>5. e \div 3 = q /\ n - e = r
  BY <1>2, <1>3
<1>6. groups = w(q)
  <2>1. ASSUME NEW i \in 1 .. q
        PROVE  Sextets(bytes[3 * i - 2], bytes[3 * i - 1], bytes[3 * i]) = Written(i)
    <3>1. 3 * i <= n /\ 3 * i - 1 <= n /\ 3 * i - 2 <= n /\ ~ 3 * i > n /\ ~ 3 * i - 1 > n
          /\ i \in Nat \ {0}
      BY <1>2
    <3>2. /\ ByteAt(3 * i - 2) = bytes[3 * i - 2] /\ ByteAt(3 * i - 1) = bytes[3 * i - 1]
          /\ ByteAt(3 * i) = bytes[3 * i]
      BY <3>1 DEF ByteAt
    <3>3. Four(i) = Sextets(bytes[3 * i - 2], bytes[3 * i - 1], bytes[3 * i])
      BY <3>2 DEF Four
    <3>4. Written(i) = <<Four(i)[1], Four(i)[2], Four(i)[3], Four(i)[4]>>
      BY <3>1 DEF Written
    <3>5. Four(i) = <<Four(i)[1], Four(i)[2], Four(i)[3], Four(i)[4]>>
      BY DEF Four, Sextets
    <3> QED
      BY <3>3, <3>4, <3>5
  <2> QED
    BY <1>5, <2>1
<1> HIDE DEF groups
<1>7. tail = CASE r = 1 -> SubSeq(Sextets(bytes[n], 0, 0), 1, 2) \o <<Pad, Pad>>
               [] r = 2 -> SubSeq(Sextets(bytes[n - 1], bytes[n], 0), 1, 3) \o <<Pad>>
               [] OTHER -> <<>>
  BY <1>5
<1> HIDE DEF tail, n
<1>8. \A k \in Nat : w(k) \in Seq(Seq(0 .. 64))
  BY WrittenIs
<1>9. Joined(w(q)) \in Seq(0 .. 64)
  <2>1. \A i \in 1 .. q : w(q)[i] = Written(i) /\ Len(Written(i)) = 4
    BY <1>2, WrittenIs
  <2>2. Len(w(q)) = q /\ w(q) \in Seq(Seq(0 .. 64))
    BY <1>2, <1>8
  <2> HIDE DEF w
  <2>3. FourEach(w(q), q)
    BY <2>1 DEF FourEach
  <2>4. GroupsIn(0 .. 64, Joined(w(q)), w(q), q)
    BY <1>2, <2>2, <2>3, GroupsJoined
  <2> QED
    BY <2>4 DEF GroupsIn
<1>10. CASE r = 0
  <2>1. tail = <<>>
    BY <1>7, <1>10
  <2>2. Joined(w(q)) \o <<>> = Joined(w(q))
    BY <1>9
  <2>3. CeilDiv(Len(bytes), 3) = q
    BY <1>2, <1>10 DEF n
  <2> QED
    BY <1>4, <1>6, <2>1, <2>2, <2>3
<1>11. CASE r # 0
  <2>1. w(q + 1) = Append(w(q), Written(q + 1))
    <3> DEFINE t == w(q)
               u == w(q + 1)
               y == Written(q + 1)
    <3>1. /\ t \in Seq(Seq(0 .. 64)) /\ u \in Seq(Seq(0 .. 64)) /\ Len(u) = Len(t) + 1
          /\ u[Len(u)] = y /\ \A i \in 1 .. Len(t) : u[i] = t[i]
      <4>1. \A k \in Nat : Len(w(k)) = k /\ \A i \in 1 .. k : w(k)[i] = Written(i)
        OBVIOUS
      <4>2. q \in Nat /\ q + 1 \in Nat /\ q + 1 \in 1 .. q + 1
            /\ \A i \in 1 .. q : i \in 1 .. q + 1
        BY <1>2
      <4> HIDE DEF w
      <4> QED
        BY <1>8, <4>1, <4>2
    <3>2. y \in Seq(0 .. 64)
      <4>1. q + 1 \in Nat \ {0}
        BY <1>2
      <4> QED
        BY <4>1, WrittenIs
    <3> HIDE DEF t, u, y
    <3>3. Append(t, y) = u
      BY <3>1, <3>2, AppendIs
    <3> QED
      BY <3>3 DEF t, u, y
  <2>2. Joined(w(q + 1)) = Joined(w(q)) \o Written(q + 1)
    <3>1. q + 1 \in Nat \ {0}
      BY <1>2
    <3>2. Written(q + 1) \in Seq(0 .. 64) /\ w(q) \in Seq(Seq(0 .. 64))
      BY <1>2, <1>8, <3>1, WrittenIs
    <3> HIDE DEF w
    <3> QED
      BY <2>1, <3>2, JoinedOneMore
  <2>3. tail = Written(q + 1)
    <3> DEFINE s == Four(q + 1)
    <3>1. 3 * (q + 1) - 2 = 3 * q + 1 /\ 3 * (q + 1) - 1 = 3 * q + 2 /\ 3 * (q + 1) = 3 * q + 3
      BY <1>2
    <3>2. s = Sextets(ByteAt(3 * q + 1), ByteAt(3 * q + 2), ByteAt(3 * q + 3))
      BY <3>1 DEF Four
    <3>5. /\ s = <<s[1], s[2], s[3], s[4]>> /\ Pad \in Nat
          /\ s[1] \in Nat /\ s[2] \in Nat /\ s[3] \in Nat /\ s[4] \in Nat
      <4>1. s = <<s[1], s[2], s[3], s[4]>>
        BY DEF Four, Sextets
      <4>2. q + 1 \in Nat \ {0}
        BY <1>2
      <4>3. s[1] \in 0 .. 63 /\ s[2] \in 0 .. 63 /\ s[3] \in 0 .. 63 /\ s[4] \in 0 .. 63
        <5>1. \A j \in 1 .. 4 : s[j] \in 0 .. 63
          BY <4>2, FourAre
        <5> HIDE DEF s
        <5> QED
          BY <5>1
      <4>4. 0 .. 63 \subseteq Nat /\ Pad \in Nat
        BY DEF Pad
      <4> HIDE DEF s
      <4> QED
        BY <4>1, <4>3, <4>4, Zenon
    <3>3. CASE r = 1
      <4>1. n = 3 * q + 1 /\ n <= n /\ ~ 3 * q + 2 <= n /\ ~ 3 * q + 3 <= n
            /\ 3 * q + 2 > n /\ 3 * q + 3 > n
        BY <1>1, <1>2, <3>3 DEF n
      <4>2. s = Sextets(bytes[n], 0, 0)
        BY <3>2, <4>1 DEF ByteAt, n
      <4>3. Written(q + 1) = <<s[1], s[2], Pad, Pad>>
        BY <3>1, <4>1 DEF Written, n
      <4>4. SubSeq(s, 1, 2) \o <<Pad, Pad>> = <<s[1], s[2], Pad, Pad>>
        BY <3>5, CutTwo
      <4> QED
        BY <1>7, <3>3, <4>2, <4>3, <4>4
    <3>4. CASE r = 2
      <4>1. n = 3 * q + 2 /\ n - 1 = 3 * q + 1 /\ n <= n /\ n - 1 <= n /\ ~ 3 * q + 3 <= n
            /\ ~ 3 * q + 2 > n /\ 3 * q + 3 > n
        BY <1>1, <1>2, <3>4 DEF n
      <4>2. s = Sextets(bytes[n - 1], bytes[n], 0)
        BY <3>2, <4>1 DEF ByteAt, n
      <4>3. Written(q + 1) = <<s[1], s[2], s[3], Pad>>
        BY <3>1, <4>1 DEF Written, n
      <4>4. SubSeq(s, 1, 3) \o <<Pad>> = <<s[1], s[2], s[3], Pad>>
        BY <3>5, CutThree
      <4> QED
        BY <1>7, <3>4, <4>2, <4>3, <4>4
    <3> QED
      BY <1>2, <1>11, <3>3, <3>4
  <2>4. CeilDiv(Len(bytes), 3) = q + 1
    BY <1>2, <1>11 DEF n
  <2> QED
    BY <1>4, <1>6, <2>2, <2>3, <2>4
<1> QED
  BY <1>10, <1>11

\* The bits of three bytes, six at a time
SixBits(word) ==
    <<(word \div (4096 * 64)) % 64, (word \div 4096) % 64, (word \div 64) % 64,
      (word \div 1) % 64>>

Byte == 0 .. 255
WordOf(a, b, c) == (a * 256 + b) * 256 + c

LEMMA SextetsAreSixBits ==
    ASSUME NEW a \in Byte, NEW b \in Byte, NEW c \in Byte
    PROVE  Sextets(a, b, c) = SixBits(WordOf(a, b, c))
<1> DEFINE word == (a * 256 + b) * 256 + c
           a1 == a \div 4
           a2 == a % 4
           b1 == b \div 16
           b2 == b % 16
           c1 == c \div 64
           c2 == c % 64
<1>1. /\ a1 \in 0 .. 63 /\ a2 \in 0 .. 3 /\ a = 4 * a1 + a2
      /\ b1 \in 0 .. 15 /\ b2 \in 0 .. 15 /\ b = 16 * b1 + b2
      /\ c1 \in 0 .. 3 /\ c2 \in 0 .. 63 /\ c = 64 * c1 + c2
      /\ a \in Nat /\ b \in Nat /\ c \in Nat
  BY DEF Byte
<1> HIDE DEF a1, a2, b1, b2, c1, c2
<1> DEFINE v == a * 256 + b
           x == 16 * a + b1
<1>2. /\ v \in Nat /\ x \in Nat /\ word = 64 * (4 * v + c1) + c2
      /\ 4 * v + c1 = 64 * x + (4 * b2 + c1) /\ x = 64 * a1 + (16 * a2 + b1)
      /\ 4 * b2 + c1 \in 0 .. 63 /\ 16 * a2 + b1 \in 0 .. 63
  BY <1>1
<1> HIDE DEF v, x, word
<1>3. \A q \in Nat : \A r \in 0 .. 63 : (64 * q + r) \div 64 = q /\ (64 * q + r) % 64 = r
  OBVIOUS
<1>4. /\ word \in Nat /\ 4 * v + c1 \in Nat /\ word \div 64 = 4 * v + c1 /\ word % 64 = c2
      /\ word \div 1 = word
  <2> DEFINE q == 4 * v + c1
  <2>1. q \in Nat /\ c2 \in 0 .. 63 /\ word = 64 * q + c2
    BY <1>1, <1>2
  <2> HIDE DEF q
  <2>2. word \div 64 = q /\ word % 64 = c2
    BY <1>3, <2>1
  <2>3. word \in Nat /\ word \div 1 = word
    BY <2>1
  <2> QED
    BY <2>1, <2>2, <2>3 DEF q
<1>5. (4 * v + c1) \div 64 = x /\ (4 * v + c1) % 64 = 4 * b2 + c1
  BY <1>2, <1>3, SMTT(40)
<1>6. x \div 64 = a1 /\ x % 64 = 16 * a2 + b1
  <2> DEFINE r == 16 * a2 + b1
  <2>1. a1 \in Nat /\ r \in 0 .. 63 /\ x = 64 * a1 + r
    BY <1>1, <1>2
  <2> HIDE DEF r
  <2>2. x \div 64 = a1 /\ x % 64 = r
    BY <1>3, <2>1
  <2> QED
    BY <2>2 DEF r
<1>7. a1 % 64 = a1
  BY <1>1
<1>8. word \div 4096 = x
  <2>1. word \div (64 * 64) = (word \div 64) \div 64
    BY <1>4, DivisionTwice
  <2> QED
    BY <1>4, <1>5, <2>1
<1>9. word \div (4096 * 64) = a1
  <2>1. word \div (4096 * 64) = (word \div 4096) \div 64
    BY <1>4, DivisionTwice
  <2> QED
    BY <1>6, <1>8, <2>1
<1>10. /\ (word \div (4096 * 64)) % 64 = a1
       /\ (word \div 4096) % 64 = a2 * 16 + b1
       /\ (word \div 64) % 64 = b2 * 4 + c1
       /\ (word \div 1) % 64 = c2
  BY <1>1, <1>4, <1>5, <1>6, <1>7, <1>8, <1>9
<1>11. SixBits(word) = <<a1, a2 * 16 + b1, b2 * 4 + c1, c2>>
  <2> DEFINE s1 == (word \div (4096 * 64)) % 64
             s2 == (word \div 4096) % 64
             s3 == (word \div 64) % 64
             s4 == (word \div 1) % 64
  <2>1. SixBits(word) = <<s1, s2, s3, s4>>
    BY DEF SixBits
  <2> HIDE DEF s1, s2, s3, s4
  <2>2. s1 = a1 /\ s2 = a2 * 16 + b1 /\ s3 = b2 * 4 + c1 /\ s4 = c2
    BY <1>10 DEF s1, s2, s3, s4
  <2> QED
    BY <2>1, <2>2
<1>12. Sextets(a, b, c) = <<a1, a2 * 16 + b1, b2 * 4 + c1, c2>>
  BY Zenon DEF Sextets, a1, a2, b1, b2, c1, c2
<1>13. word = WordOf(a, b, c)
  BY DEF word, WordOf
<1> QED
  BY <1>11, <1>12, <1>13

LEMMA PowersOf64 ==
    Power(64, 0) = 1 /\ Power(64, 1) = 64 /\ Power(64, 2) = 4096 /\ Power(64, 3) = (4096 * 64)
<1>1. Power(64, 0) = 1 /\ Power(64, 0 + 1) = Power(64, 0) * 64
  BY PowerIs
<1>2. Power(64, 1 + 1) = Power(64, 1) * 64
  BY PowerIs
<1>3. Power(64, 2 + 1) = Power(64, 2) * 64
  BY PowerIs
<1>4. 0 + 1 = 1 /\ 1 + 1 = 2 /\ 2 + 1 = 3 /\ 1 * 64 = 64 /\ 64 * 64 = 4096
  OBVIOUS
<1> QED
  BY <1>1, <1>2, <1>3, <1>4

\* The character that stands at 4 * q + j, counted from zero
LEMMA CharacterIs ==
    ASSUME InputTypes, NEW q \in Nat, NEW j \in 0 .. 3, 3 * q < Len(bytes)
    PROVE  LET i == 3 * q
               word == (ByteAt(i + 1) * 256 + ByteAt(i + 2)) * 256 + ByteAt(i + 3)
           IN  Written(q + 1)[j + 1] =
                   IF i + j > Len(bytes) THEN Pad ELSE (word \div Power(64, 3 - j)) % 64
<1> DEFINE a == ByteAt(3 * q + 1)
           b == ByteAt(3 * q + 2)
           c == ByteAt(3 * q + 3)
           n == Len(bytes)
           s == Four(q + 1)
           w == Written(q + 1)
           word == (a * 256 + b) * 256 + c
<1>1. n \in Nat
  BY LenProperties DEF InputTypes
<1>2. a \in 0 .. 255 /\ b \in 0 .. 255 /\ c \in 0 .. 255
  <2>1. 3 * q + 1 \in Nat \ {0} /\ 3 * q + 2 \in Nat \ {0} /\ 3 * q + 3 \in Nat \ {0}
    OBVIOUS
  <2> QED
    BY <2>1, ByteIs
<1>3. s = Sextets(a, b, c)
  <2>1. 3 * (q + 1) - 2 = 3 * q + 1 /\ 3 * (q + 1) - 1 = 3 * q + 2 /\ 3 * (q + 1) = 3 * q + 3
    OBVIOUS
  <2> QED
    BY <2>1 DEF Four
<1>4. /\ w[1] = s[1] /\ w[2] = s[2]
      /\ w[3] = IF 3 * q + 2 > n THEN Pad ELSE s[3]
      /\ w[4] = IF 3 * q + 3 > n THEN Pad ELSE s[4]
  <2>1. 3 * (q + 1) - 1 = 3 * q + 2 /\ 3 * (q + 1) = 3 * q + 3
    OBVIOUS
  <2> QED
    BY <2>1 DEF Written
<1> HIDE DEF a, b, c, s, w, n
<1>5. s = SixBits(word)
  <2>1. a \in Byte /\ b \in Byte /\ c \in Byte
    BY <1>2 DEF Byte
  <2>2. word = WordOf(a, b, c)
    BY DEF WordOf
  <2> HIDE DEF word
  <2> QED
    BY <1>3, <2>1, <2>2, SextetsAreSixBits
<1> HIDE DEF word
<1>6. /\ s[1] = (word \div (4096 * 64)) % 64 /\ s[2] = (word \div 4096) % 64
      /\ s[3] = (word \div 64) % 64 /\ s[4] = (word \div 1) % 64
  <2> DEFINE s1 == (word \div (4096 * 64)) % 64
             s2 == (word \div 4096) % 64
             s3 == (word \div 64) % 64
             s4 == (word \div 1) % 64
  <2>1. s = <<s1, s2, s3, s4>>
    BY <1>5 DEF SixBits
  <2> HIDE DEF s1, s2, s3, s4
  <2>2. s[1] = s1 /\ s[2] = s2 /\ s[3] = s3 /\ s[4] = s4
    BY <2>1
  <2> QED
    BY <2>2 DEF s1, s2, s3, s4
<1>7. 3 * q + 0 <= n /\ 3 * q + 1 <= n
  BY <1>1 DEF n
<1>8. w[j + 1] = IF 3 * q + j > n THEN Pad ELSE (word \div Power(64, 3 - j)) % 64
  <2>1. CASE j = 0
    <3>1. ~ 3 * q + 0 > n /\ 0 + 1 = 1 /\ 3 - 0 = 3
      BY <1>1, <1>7
    <3> QED
      BY <1>4, <1>6, <2>1, <3>1, PowersOf64
  <2>2. CASE j = 1
    <3>1. ~ 3 * q + 1 > n /\ 1 + 1 = 2 /\ 3 - 1 = 2
      BY <1>1, <1>7
    <3> QED
      BY <1>4, <1>6, <2>2, <3>1, PowersOf64
  <2>3. CASE j = 2
    <3>1. 2 + 1 = 3 /\ 3 - 2 = 1
      OBVIOUS
    <3> QED
      BY <1>4, <1>6, <2>3, <3>1, PowersOf64
  <2>4. CASE j = 3
    <3>1. 3 + 1 = 4 /\ 3 - 3 = 0
      OBVIOUS
    <3> QED
      BY <1>4, <1>6, <2>4, <3>1, PowersOf64
  <2> QED
    BY <2>1, <2>2, <2>3, <2>4
<1> QED
  BY <1>8 DEF word, w, n, a, b, c

LEMMA EncodeHolds == ASSUME InputTypes PROVE EncodeExact
<1> SUFFICES ASSUME align % 4 = 0
             PROVE  /\ GroupsEnd(Len(bytes)) <= Len(bytes)
                    /\ Encode = [k \in 1 .. 4 * CeilDiv(Len(bytes), 3) |->
                          LET i == 3 * ((k - 1) \div 4)
                              word == (ByteAt(i + 1) * 256 + ByteAt(i + 2)) * 256 + ByteAt(i + 3)
                              j == (k - 1) % 4
                          IN  IF i + j > Len(bytes) THEN Pad
                              ELSE (word \div Power(64, 3 - j)) % 64]
  BY DEF EncodeExact
<1> DEFINE n == Len(bytes)
           m == CeilDiv(n, 3)
           g == [i \in 1 .. m |-> Written(i)]
           at(i, j) == LET word == (ByteAt(i + 1) * 256 + ByteAt(i + 2)) * 256 + ByteAt(i + 3)
                       IN  IF i + j > n THEN Pad ELSE (word \div Power(64, 3 - j)) % 64
<1>1. n \in Nat /\ align \in Nat
  BY LenProperties DEF InputTypes
<1>2. GroupsEnd(n) <= n
  BY <1>1, GroupsEndIs
<1>3. Encode = Joined(g)
  BY <1>2, EncodeIs
<1>4. m \in Nat /\ 3 * (m - 1) < n
  <2>1. /\ n \div 3 \in Nat /\ n % 3 \in 0 .. 2 /\ n = 3 * (n \div 3) + (n % 3)
        /\ m = IF n % 3 = 0 THEN n \div 3 ELSE n \div 3 + 1
    BY <1>1, Thirds
  <2> DEFINE q == n \div 3
             r == n % 3
  <2> HIDE DEF q, r, m
  <2>2. q \in Nat /\ r \in 0 .. 2 /\ n = 3 * q + r /\ m = IF r = 0 THEN q ELSE q + 1
    BY <2>1 DEF q, r
  <2> QED
    BY <2>2
<1>5. /\ g \in Seq(Seq(0 .. 64)) /\ Len(g) = m
      /\ \A i \in 1 .. m : g[i] = Written(i) /\ Len(g[i]) = 4
  <2> HIDE DEF m
  <2>1. \A i \in 1 .. m : Written(i) \in Seq(0 .. 64) /\ Len(Written(i)) = 4
    BY WrittenIs
  <2> QED
    BY <1>4, <2>1
<1> HIDE DEF g
<1>6. /\ Joined(g) \in Seq(0 .. 64) /\ Len(Joined(g)) = 4 * m
      /\ \A i \in 1 .. m : \A j \in 1 .. 4 : Joined(g)[4 * (i - 1) + j] = g[i][j]
  <2>1. FourEach(g, m)
    BY <1>5 DEF FourEach
  <2> HIDE DEF m
  <2>2. GroupsIn(0 .. 64, Joined(g), g, m)
    BY <1>4, <1>5, <2>1, GroupsJoined
  <2> QED
    BY <2>2 DEF GroupsIn
<1> HIDE DEF m, n
<1>7. ASSUME NEW k \in 1 .. 4 * m
      PROVE  Joined(g)[k] = at(3 * ((k - 1) \div 4), (k - 1) % 4)
  <2> DEFINE q == (k - 1) \div 4
             j == (k - 1) % 4
  <2>1. k - 1 \in Nat
    BY <1>4
  <2>2. q \in Nat /\ j \in 0 .. 3 /\ k - 1 = 4 * q + j
    BY <2>1, Division
  <2> HIDE DEF q, j
  <2>3. /\ q + 1 \in 1 .. m /\ j + 1 \in 1 .. 4 /\ 4 * ((q + 1) - 1) + (j + 1) = k
        /\ 3 * q <= 3 * (m - 1)
    BY <1>4, <2>2
  <2>4. 3 * q < Len(bytes)
    BY <1>1, <1>4, <2>2, <2>3 DEF n
  <2>5. Written(q + 1)[j + 1] = at(3 * q, j)
    BY <2>2, <2>4, CharacterIs DEF n
  <2>6. Joined(g)[4 * ((q + 1) - 1) + (j + 1)] = g[q + 1][j + 1]
    BY <1>6, <2>3
  <2>7. g[q + 1] = Written(q + 1)
    BY <1>5, <2>3
  <2> HIDE DEF at
  <2>8. Joined(g)[k] = at(3 * q, j)
    BY <2>3, <2>5, <2>6, <2>7
  <2> QED
    BY <2>8 DEF q, j
<1>8. Joined(g) = [k \in 1 .. 4 * m |-> Joined(g)[k]]
  BY <1>4, <1>6
<1>9. Joined(g) = [k \in 1 .. 4 * m |-> at(3 * ((k - 1) \div 4), (k - 1) % 4)]
  <2> HIDE DEF at
  <2> QED
    BY <1>7, <1>8
<1> QED
  BY <1>2, <1>3, <1>9 DEF m, n

-----------------------------------------------------------------------------
(* base64: what decode() makes of it *)

LEMMA ValidNothing == Valid(<<>>) = <<>>
<1>1. <<>> \in Seq({})
  BY EmptySeq
<1> QED
  BY <1>1, ValidFolds, FoldEmpty

LEMMA ValidOneMore ==
    ASSUME NEW s \in Seq(Nat), NEW x \in Nat
    PROVE  Valid(Append(s, x)) = IF x < Pad THEN Append(Valid(s), x) ELSE Valid(s)
<1>1. Append(s, x) \in Seq(Nat)
  BY AppendProperties
<1>2. Fold("valid", <<>>, Append(s, x)) = Step("valid", Fold("valid", <<>>, s), x)
  BY FoldAppend
<1> QED
  BY <1>1, <1>2, ValidFolds, StepValid

LEMMA AppendTuples ==
    ASSUME NEW p \in Nat, NEW q \in Nat, NEW x \in Nat
    PROVE  Append(<<p>>, q) = <<p, q>> /\ Append(<<p, q>>, x) = <<p, q, x>>
<1> DEFINE a == <<p>>
           b == <<p, q>>
           c == <<p, q, x>>
<1>1. /\ a \in Seq(Nat) /\ Len(a) = 1 /\ a[1] = p
      /\ b \in Seq(Nat) /\ Len(b) = 2 /\ b[1] = p /\ b[2] = q
      /\ c \in Seq(Nat) /\ Len(c) = 3 /\ c[1] = p /\ c[2] = q /\ c[3] = x
  OBVIOUS
<1> HIDE DEF a, b, c
<1>2. Append(a, q) = b
  <2>1. Len(b) = Len(a) + 1 /\ b[Len(b)] = q /\ \A i \in 1 .. Len(a) : b[i] = a[i]
    BY <1>1
  <2> QED
    BY <1>1, <2>1, AppendIs
<1>3. Append(b, x) = c
  <2>1. \A i \in 1 .. 2 : i = 1 \/ i = 2
    OBVIOUS
  <2>2. Len(c) = Len(b) + 1 /\ c[Len(c)] = x /\ \A i \in 1 .. Len(b) : c[i] = b[i]
    BY <1>1, <2>1
  <2> QED
    BY <1>1, <2>2, AppendIs
<1> QED
  BY <1>2, <1>3 DEF a, b, c

LEMMA AppendFourth ==
    ASSUME NEW p \in Nat, NEW q \in Nat, NEW x \in Nat, NEW y \in Nat
    PROVE  Append(<<p, q, x>>, y) = <<p, q, x, y>>
<1> DEFINE c == <<p, q, x>>
           d == <<p, q, x, y>>
<1>1. /\ c \in Seq(Nat) /\ Len(c) = 3 /\ c[1] = p /\ c[2] = q /\ c[3] = x
      /\ d \in Seq(Nat) /\ Len(d) = 4 /\ d[1] = p /\ d[2] = q /\ d[3] = x /\ d[4] = y
  OBVIOUS
<1> HIDE DEF c, d
<1>2. \A i \in 1 .. 3 : i = 1 \/ i = 2 \/ i = 3
  OBVIOUS
<1>3. Len(d) = Len(c) + 1 /\ d[Len(d)] = y /\ \A i \in 1 .. Len(c) : d[i] = c[i]
  BY <1>1, <1>2
<1>4. Append(c, y) = d
  BY <1>1, <1>3, AppendIs
<1> QED
  BY <1>4 DEF c, d

LEMMA ValidFour ==
    ASSUME NEW a \in 0 .. 63, NEW b \in 0 .. 63, NEW c \in 0 .. 63, NEW d \in 0 .. 63
    PROVE  /\ Valid(<<a, b, c, d>>) = <<a, b, c, d>>
           /\ Valid(<<a, b, c, Pad>>) = <<a, b, c>>
           /\ Valid(<<a, b, Pad, Pad>>) = <<a, b>>
<1>1. a \in Nat /\ b \in Nat /\ c \in Nat /\ d \in Nat /\ Pad \in Nat
      /\ a < Pad /\ b < Pad /\ c < Pad /\ d < Pad /\ ~ Pad < Pad
  BY DEF Pad
<1> DEFINE s1 == <<a>>
           s2 == <<a, b>>
           s3 == <<a, b, c>>
           t3 == <<a, b, Pad>>
           s4 == <<a, b, c, d>>
           t4 == <<a, b, c, Pad>>
           u4 == <<a, b, Pad, Pad>>
<1>2. s1 \in Seq(Nat) /\ s2 \in Seq(Nat) /\ s3 \in Seq(Nat) /\ t3 \in Seq(Nat)
  BY <1>1
<1>3. Append(<<>>, a) = s1 /\ <<>> \in Seq(Nat)
  BY <1>1, EmptySeq
<1>4. Append(s1, b) = s2
  BY <1>1, AppendTuples
<1>5. Append(s2, c) = s3
  BY <1>1, AppendTuples
<1>6. Append(s2, Pad) = t3
  BY <1>1, AppendTuples
<1>7. Append(s3, d) = s4
  BY <1>1, AppendFourth, Zenon
<1>8. Append(s3, Pad) = t4
  BY <1>1, AppendFourth, Zenon
<1>9. Append(t3, Pad) = u4
  BY <1>1, AppendFourth, Zenon
<1> HIDE DEF s1, s2, s3, t3, s4, t4, u4
<1>10. Valid(s1) = s1
  BY <1>1, <1>3, ValidNothing, ValidOneMore
<1>11. Valid(s2) = s2
  BY <1>1, <1>2, <1>4, <1>10, ValidOneMore
<1>12. Valid(s3) = s3
  BY <1>1, <1>2, <1>5, <1>11, ValidOneMore
<1>13. Valid(t3) = s2
  BY <1>1, <1>2, <1>6, <1>11, ValidOneMore
<1>14. Valid(s4) = s4 /\ Valid(t4) = s3 /\ Valid(u4) = s2
  BY <1>1, <1>2, <1>7, <1>8, <1>9, <1>12, <1>13, ValidOneMore
<1> QED
  BY <1>14 DEF s2, s3, s4, t4, u4

\* The valid characters are some of them.
LEMMA ValidTyped ==
    ASSUME NEW s \in Seq(Nat)
    PROVE  Valid(s) \in Seq(Nat) /\ Len(Valid(s)) \in 0 .. Len(s)
<1> DEFINE n == Len(s)
<1>1. n \in Nat
  BY LenProperties
<1>2. PICK h : Unrolls("valid", h, <<>>, s) /\ Fold("valid", <<>>, s) = h[Len(s)]
  BY <1>1, FoldUnrolls
<1>3. Valid(s) = h[n]
  BY <1>2, ValidFolds
<1> DEFINE T == {i \in 0 .. n : h[i] \in Seq(Nat) /\ Len(h[i]) \in 0 .. i}
<1>4. 0 \in T
  <2>1. h[0] = <<>>
    BY <1>2 DEF Unrolls
  <2>2. <<>> \in Seq(Nat) /\ Len(<<>>) \in 0 .. 0
    BY EmptySeq
  <2>3. 0 \in 0 .. n
    BY <1>1
  <2> QED
    BY <2>1, <2>2, <2>3
<1>5. ASSUME NEW i \in 0 .. n - 1, i \in T PROVE i + 1 \in T
  <2> DEFINE r == h[i]
             x == s[i + 1]
             t == h[i + 1]
  <2>1. i + 1 \in 1 .. n /\ i + 1 \in 0 .. n /\ i \in 0 .. Len(s) - 1 /\ i \in Nat
    BY <1>1
  <2>2. t = IF x < Pad THEN Append(r, x) ELSE r
    <3>1. t = Step("valid", r, x)
      BY <1>2, <2>1 DEF Unrolls
    <3> QED
      BY <3>1, StepValid
  <2>3. x \in Nat /\ r \in Seq(Nat) /\ Len(r) \in 0 .. i
    BY <1>5, <2>1, ElementOfSeq
  <2> HIDE DEF r, x, t
  <2>4. Append(r, x) \in Seq(Nat) /\ Len(Append(r, x)) = Len(r) + 1
    BY <2>3, AppendProperties
  <2>5. t \in Seq(Nat) /\ Len(t) \in 0 .. i + 1
    BY <2>1, <2>2, <2>3, <2>4
  <2> QED
    BY <2>1, <2>5 DEF t
<1> HIDE DEF T
<1>6. 0 .. n \subseteq T
  BY <1>1, <1>4, <1>5, Upward
<1>7. n \in T
  BY <1>1, <1>6
<1> QED
  BY <1>3, <1>7 DEF T

LEMMA TripleTyped ==
    ASSUME NEW s \in Seq(Nat), NEW n \in Nat, n <= Len(s)
    PROVE  /\ Triple(s, n) \in Seq(Nat)
           /\ Len(Triple(s, n)) = IF n \in {2, 3, 4} THEN n - 1 ELSE 0
<1> DEFINE k == Len(s) - n
           x(j) == s[k + j]
<1>1. Len(s) \in Nat
  BY LenProperties
<1>2. \A j \in 1 .. n : x(j) \in Nat
  <2> TAKE j \in 1 .. n
  <2>1. k + j \in 1 .. Len(s)
    BY <1>1
  <2> QED
    BY <2>1, ElementOfSeq
<1>3. Triple(s, n) =
        CASE n = 2 -> <<x(1) * 4 + x(2) \div 16>>
          [] n = 3 -> <<x(1) * 4 + x(2) \div 16, (x(2) % 16) * 16 + x(3) \div 4>>
          [] n = 4 -> <<x(1) * 4 + x(2) \div 16, (x(2) % 16) * 16 + x(3) \div 4,
                        (x(3) % 4) * 64 + x(4)>>
          [] OTHER -> <<>>
  BY DEF Triple
<1> HIDE DEF k, x
<1>4. \A p, q \in Nat : /\ p * 4 + q \div 16 \in Nat /\ (p % 16) * 16 + q \div 4 \in Nat
                        /\ (p % 4) * 64 + q \in Nat
  OBVIOUS
<1>5. CASE n = 2
  <2>1. x(1) * 4 + x(2) \div 16 \in Nat
    BY <1>2, <1>4, <1>5
  <2> QED
    BY <1>3, <1>5, <2>1
<1>6. CASE n = 3
  <2>1. x(1) \in Nat /\ x(2) \in Nat /\ x(3) \in Nat
    BY <1>2, <1>6
  <2>2. x(1) * 4 + x(2) \div 16 \in Nat /\ (x(2) % 16) * 16 + x(3) \div 4 \in Nat
    BY <1>4, <2>1
  <2> QED
    BY <1>3, <1>6, <2>2
<1>7. CASE n = 4
  <2>1. x(1) \in Nat /\ x(2) \in Nat /\ x(3) \in Nat /\ x(4) \in Nat
    BY <1>2, <1>7
  <2>2. x(1) * 4 + x(2) \div 16 \in Nat /\ (x(2) % 16) * 16 + x(3) \div 4 \in Nat
        /\ (x(3) % 4) * 64 + x(4) \in Nat
    BY <1>4, <2>1
  <2> QED
    BY <1>3, <1>7, <2>2
<1>8. CASE n \notin {2, 3, 4}
  <2>1. Triple(s, n) = <<>>
    BY <1>3, <1>8
  <2>2. <<>> \in Seq(Nat) /\ Len(<<>>) = 0
    BY EmptySeq
  <2> QED
    BY <1>8, <2>1, <2>2
<1> QED
  BY <1>5, <1>6, <1>7, <1>8

\* Where decode() is after i groups: it has written no more than three bytes for
\* each, and one less if it is in the middle of a group.
Bounded(d, i) ==
    /\ d.r \in Seq(Nat) /\ d.out \in Seq(Nat)
    /\ d.ri \in 0 .. 255 /\ d.ri \notin {2, 3, 4} /\ d.ri <= Len(d.r)
    /\ Len(d.out) <= 3 * i /\ (d.ri = 1 => Len(d.out) + 1 <= 3 * i)

LEMMA RemainderIs == \A k \in Nat : k % 256 \in 0 .. 255 /\ k % 256 <= k
<1> TAKE k \in Nat
<1> DEFINE q == k \div 256
           r == k % 256
<1>1. q \in Nat /\ r \in 0 .. 255 /\ k = 256 * q + r
  OBVIOUS
<1> HIDE DEF q, r
<1>2. r \in 0 .. 255 /\ r <= k
  BY <1>1
<1> QED
  BY <1>2 DEF r

\* The sextets that are counted have been read.
LEMMA CountedAreRead ==
    ASSUME NEW ri \in 0 .. 255, NEW lr \in Nat, ri <= lr, NEW lv \in Nat
    PROVE  LET n == (ri + lv) % 256
           IN  n \in 0 .. 255 /\ n \in Nat /\ n <= ri + lv /\ n <= lr + lv
<1> DEFINE m == ri + lv
           n == m % 256
<1>1. m \in Nat /\ m <= lr + lv
  OBVIOUS
<1> HIDE DEF m
<1>2. n \in 0 .. 255 /\ n <= m
  BY <1>1, RemainderIs
<1> HIDE DEF n
<1>3. n \in 0 .. 255 /\ n \in Nat /\ n <= m /\ n <= lr + lv
  BY <1>1, <1>2
<1> QED
  BY <1>3 DEF n, m

\* A group with the sextets v makes s of the sextets, n of which are new, and
\* writes t.
Turn(d, v, s, n, t) ==
    s = d.r \o v /\ n = (d.ri + Len(v)) % 256 /\ t = Triple(s, n)
Turned(d, v, s, n, t) ==
    /\ n \in 0 .. 255 /\ n <= d.ri + Len(v) /\ n <= Len(s)
    /\ s \in Seq(Nat) /\ Len(s) = Len(d.r) + Len(v)
    /\ Len(d.r) \in Nat /\ Len(v) \in Nat
    /\ Len(t) = IF n \in {2, 3, 4} THEN n - 1 ELSE 0
    /\ d.out \o t \in Seq(Nat) /\ Len(d.out \o t) = Len(d.out) + Len(t)

LEMMA GroupBounded ==
    ASSUME NEW i \in Nat, NEW d, Bounded(d, i), NEW v \in Seq(Nat),
           NEW s, NEW n, NEW t, Turn(d, v, s, n, t)
    PROVE  Turned(d, v, s, n, t)
<1> DEFINE m == d.ri + Len(v)
<1>1. /\ d.r \in Seq(Nat) /\ d.out \in Seq(Nat) /\ d.ri \in 0 .. 255 /\ d.ri <= Len(d.r)
      /\ Len(v) \in Nat /\ Len(d.r) \in Nat
  BY LenProperties DEF Bounded
<1>6. s = d.r \o v /\ n = (d.ri + Len(v)) % 256 /\ t = Triple(s, n)
  BY DEF Turn
<1>2. s \in Seq(Nat) /\ Len(s) = Len(d.r) + Len(v)
  BY <1>1, <1>6, ConcatProperties
<1>3. n \in 0 .. 255 /\ n \in Nat /\ n <= m /\ n <= Len(s)
  <2> DEFINE ri == d.ri
             lr == Len(d.r)
             lv == Len(v)
  <2>1. ri \in 0 .. 255 /\ lr \in Nat /\ ri <= lr /\ lv \in Nat
    BY <1>1
  <2>2. n = (ri + lv) % 256 /\ m = ri + lv /\ Len(s) = lr + lv
    BY <1>2, <1>6
  <2> HIDE DEF ri, lr, lv, m
  <2>3. LET k == (ri + lv) % 256
        IN  k \in 0 .. 255 /\ k \in Nat /\ k <= ri + lv /\ k <= lr + lv
    BY <2>1, CountedAreRead
  <2> QED
    BY <2>2, <2>3, ZenonT(60)
<1>4. t \in Seq(Nat) /\ Len(t) = IF n \in {2, 3, 4} THEN n - 1 ELSE 0
  <2> HIDE DEF m
  <2>1. /\ Triple(s, n) \in Seq(Nat)
        /\ Len(Triple(s, n)) = IF n \in {2, 3, 4} THEN n - 1 ELSE 0
    BY <1>2, <1>3, TripleTyped
  <2> QED
    BY <1>6, <2>1, Zenon
<1>5. d.out \o t \in Seq(Nat) /\ Len(d.out \o t) = Len(d.out) + Len(t)
  <2> DEFINE o == d.out
  <2>1. o \in Seq(Nat) /\ t \in Seq(Nat)
    BY <1>1, <1>4
  <2> HIDE DEF o
  <2>2. o \o t \in Seq(Nat) /\ Len(o \o t) = Len(o) + Len(t)
    BY <2>1, ConcatProperties
  <2> QED
    BY <2>2 DEF o
<1> QED
  BY <1>1, <1>2, <1>3, <1>4, <1>5 DEF Turned

LEMMA DecodeGroupBounded ==
    ASSUME NEW i \in Nat, NEW d, Bounded(d, i), NEW group \in Seq(Nat), Len(group) = 4
    PROVE  Bounded(DecodeGroup(d, group), i + 1)
<1> DEFINE v == Valid(group)
           n == (d.ri + Len(v)) % 256
           s == d.r \o v
           t == Triple(s, n)
           e == DecodeGroup(d, group)
<1>1. v \in Seq(Nat) /\ Len(v) \in 0 .. 4
  BY ValidTyped
<1>2. e = [r |-> s, ri |-> IF n \in {2, 3} THEN 1 ELSE IF n = 4 THEN 0 ELSE n,
           out |-> d.out \o t]
  BY DEF DecodeGroup
<1> HIDE DEF v, e
<1>3. /\ n \in 0 .. 255 /\ n <= d.ri + Len(v)
      /\ s \in Seq(Nat) /\ Len(s) = Len(d.r) + Len(v)
      /\ n <= Len(s) /\ Len(d.r) \in Nat
      /\ Len(t) = IF n \in {2, 3, 4} THEN n - 1 ELSE 0
      /\ d.out \o t \in Seq(Nat) /\ Len(d.out \o t) = Len(d.out) + Len(t)
  <2>1. Turn(d, v, s, n, t)
    BY DEF Turn
  <2> HIDE DEF n, s, t
  <2>2. Turned(d, v, s, n, t)
    BY <1>1, <2>1, GroupBounded
  <2> QED
    BY <2>2 DEF Turned
<1> HIDE DEF n, s, t
<1>4. e.r = s /\ e.ri = (IF n \in {2, 3} THEN 1 ELSE IF n = 4 THEN 0 ELSE n)
      /\ e.out = d.out \o t
  BY <1>2
<1> DEFINE l == Len(d.out)
           u == Len(t)
<1>5. l \in Nat /\ l <= 3 * i
  <2>1. d.out \in Seq(Nat) /\ Len(d.out) <= 3 * i
    BY DEF Bounded
  <2> QED
    BY <2>1, LenProperties
<1> HIDE DEF l
<1>6. e.ri \in 0 .. 255 /\ e.ri \notin {2, 3, 4} /\ e.ri <= Len(s)
  <2> DEFINE ls == Len(s)
             ri == e.ri
  <2>1. n \in 0 .. 255 /\ n <= ls
        /\ ri = (IF n \in {2, 3} THEN 1 ELSE IF n = 4 THEN 0 ELSE n)
    BY <1>3, <1>4
  <2>2. ls \in Nat
    BY <1>3, LenProperties
  <2> HIDE DEF ls, ri
  <2>3. ri \in 0 .. 255 /\ ri \notin {2, 3, 4} /\ ri <= ls
    BY <2>1, <2>2
  <2> QED
    BY <2>3 DEF ls, ri
<1>7. l + u <= 3 * (i + 1) /\ (e.ri = 1 => l + u + 1 <= 3 * (i + 1))
  <2> HIDE DEF u
  <2>1. u = IF n \in {2, 3, 4} THEN n - 1 ELSE 0
    BY <1>3 DEF u
  <2> QED
    BY <1>3, <1>4, <1>5, <2>1
<1>8. Len(e.out) = l + u
  BY <1>3, <1>4 DEF l
<1> QED
  BY <1>3, <1>4, <1>6, <1>7, <1>8 DEF Bounded, e

NoGroup == [r |-> <<>>, ri |-> 0, out |-> <<>>]
GroupOf(chars, i) == SubSeq(chars, 4 * i - 3, 4 * i)

\* d[i] is where decode() is after i groups.
DecodesTo(d, chars) ==
    /\ d[0] = NoGroup
    /\ \A i \in 0 .. Len(chars) \div 4 - 1 :
          d[i + 1] = DecodeGroup(d[i], GroupOf(chars, i + 1))
    /\ Decoded(chars) = d[Len(chars) \div 4]

LEMMA GroupIs ==
    ASSUME NEW chars \in Seq(Nat), NEW i \in 1 .. Len(chars) \div 4
    PROVE  /\ GroupOf(chars, i) \in Seq(Nat) /\ Len(GroupOf(chars, i)) = 4
           /\ \A j \in 1 .. 4 : GroupOf(chars, i)[j] = chars[4 * (i - 1) + j]
<1> DEFINE n == Len(chars)
           m == n \div 4
           a == 4 * i - 3
           b == 4 * i
<1>1. n \in Nat /\ \A k \in 1 .. n : chars[k] \in Nat
  BY LenProperties, ElementOfSeq
<1>2. m \in Nat /\ 4 * m <= n
  <2>1. m \in Nat /\ n % 4 \in 0 .. 4 - 1 /\ n = 4 * m + (n % 4)
    BY <1>1, Division
  <2> DEFINE r == n % 4
  <2> HIDE DEF r, m
  <2> QED
    BY <2>1
<1> HIDE DEF m
<1>3. i \in Nat /\ i <= m /\ i >= 1
  BY <1>2 DEF m
<1>4. a \in Int /\ b \in Int /\ a <= b /\ b - a + 1 = 4 /\ \A k \in a .. b : k \in 1 .. n
  BY <1>1, <1>2, <1>3
<1>5. \A j \in 1 .. 4 : a + j - 1 = 4 * (i - 1) + j
  BY <1>3
<1> HIDE DEF a, b, n
<1>6. \A k \in a .. b : chars[k] \in Nat
  BY <1>1, <1>4
<1>7. /\ SubSeq(chars, a, b) \in Seq(Nat)
      /\ Len(SubSeq(chars, a, b)) = IF a <= b THEN b - a + 1 ELSE 0
      /\ \A j \in 1 .. b - a + 1 : SubSeq(chars, a, b)[j] = chars[a + j - 1]
  BY <1>4, <1>6, SubSeqProperties
<1>8. GroupOf(chars, i) = SubSeq(chars, a, b)
  BY DEF GroupOf, a, b
<1> QED
  BY <1>4, <1>5, <1>7, <1>8

LEMMA DecodesChars == ASSUME NEW chars \in Seq(Nat) PROVE \E d : DecodesTo(d, chars)
<1> DEFINE m == Len(chars) \div 4
           g == [i \in 1 .. m |-> GroupOf(chars, i)]
<1>1. m \in Nat
  <2>1. Len(chars) \in Nat
    BY LenProperties
  <2> QED
    BY <2>1
<1>2. g \in Seq(Seq(Nat)) /\ Len(g) = m /\ \A i \in 1 .. m : g[i] = GroupOf(chars, i)
  <2>1. \A i \in 1 .. m : GroupOf(chars, i) \in Seq(Nat)
    BY GroupIs
  <2> HIDE DEF m
  <2> QED
    BY <1>1, <2>1
<1>3. Decoded(chars) = FoldLeft(DecodeGroup, NoGroup, g)
  BY DEF Decoded, NoGroup, GroupOf
<1> HIDE DEF g
<1>4. Decoded(chars) = Fold("decode", NoGroup, g)
  BY <1>2, <1>3, DecodeFolds
<1>5. PICK d : Unrolls("decode", d, NoGroup, g) /\ Fold("decode", NoGroup, g) = d[Len(g)]
  BY <1>1, <1>2, FoldUnrolls
<1>6. \A i \in 0 .. m - 1 : d[i + 1] = DecodeGroup(d[i], GroupOf(chars, i + 1))
  <2> TAKE i \in 0 .. m - 1
  <2>1. i \in 0 .. Len(g) - 1 /\ i + 1 \in 1 .. m
    BY <1>1, <1>2
  <2>2. d[i + 1] = Step("decode", d[i], g[i + 1])
    BY <1>5, <2>1 DEF Unrolls
  <2> QED
    BY <1>2, <2>1, <2>2, StepDecodes
<1>7. d[0] = NoGroup
  BY <1>5 DEF Unrolls
<1> QED
  BY <1>2, <1>4, <1>5, <1>6, <1>7 DEF DecodesTo

LEMMA DecodedBounded ==
    ASSUME NEW chars \in Seq(Nat)
    PROVE  Bounded(Decoded(chars), Len(chars) \div 4)
<1> DEFINE m == Len(chars) \div 4
<1>1. m \in Nat
  <2>1. Len(chars) \in Nat
    BY LenProperties
  <2> QED
    BY <2>1
<1>2. PICK d : DecodesTo(d, chars)
  BY DecodesChars
<1> DEFINE T == {i \in 0 .. m : Bounded(d[i], i)}
<1>3. 0 \in T
  <2>1. d[0] = NoGroup
    BY <1>2 DEF DecodesTo
  <2>2. <<>> \in Seq(Nat) /\ Len(<<>>) = 0
    BY EmptySeq
  <2>3. NoGroup.r = <<>> /\ NoGroup.ri = 0 /\ NoGroup.out = <<>>
    BY DEF NoGroup
  <2>4. Bounded(NoGroup, 0)
    BY <2>2, <2>3 DEF Bounded
  <2> QED
    BY <1>1, <2>1, <2>4
<1>4. ASSUME NEW i \in 0 .. m - 1, i \in T PROVE i + 1 \in T
  <2>1. i + 1 \in 1 .. m /\ i + 1 \in 0 .. m /\ i \in Nat
    BY <1>1
  <2>2. d[i + 1] = DecodeGroup(d[i], GroupOf(chars, i + 1))
    BY <1>2 DEF DecodesTo
  <2>3. Bounded(d[i], i)
    BY <1>4
  <2>4. GroupOf(chars, i + 1) \in Seq(Nat) /\ Len(GroupOf(chars, i + 1)) = 4
    BY <2>1, GroupIs
  <2>5. Bounded(d[i + 1], i + 1)
    BY <2>1, <2>2, <2>3, <2>4, DecodeGroupBounded
  <2> QED
    BY <2>1, <2>5
<1> HIDE DEF T
<1>5. 0 .. m \subseteq T
  BY <1>1, <1>3, <1>4, Upward
<1>6. m \in T
  BY <1>1, <1>5
<1>7. Decoded(chars) = d[m]
  BY <1>2 DEF DecodesTo
<1> QED
  BY <1>6, <1>7 DEF T

LEMMA CountedIs == \A k \in 0 .. 256 : k % 256 = k \/ k % 256 = 0
  OBVIOUS

\* The one character that may be left writes a byte only if there is room for it.
LEMMA TailBounded ==
    ASSUME NEW i \in Nat, NEW d, Bounded(d, i), NEW v \in Seq(Nat), Len(v) <= 1,
           NEW s, NEW n, NEW t, Turn(d, v, s, n, t)
    PROVE  Len(d.out) + Len(t) <= 3 * i
<1> DEFINE ri == d.ri
           l == Len(d.out)
           lv == Len(v)
           u == Len(t)
<1>1. Turned(d, v, s, n, t)
  BY GroupBounded
<1>2. /\ n \in 0 .. 255 /\ n <= ri + lv /\ lv \in Nat
      /\ u = IF n \in {2, 3, 4} THEN n - 1 ELSE 0
  BY <1>1 DEF Turned
<1>3. /\ ri \in 0 .. 255 /\ ri \notin {2, 3, 4} /\ l <= 3 * i /\ (ri = 1 => l + 1 <= 3 * i)
      /\ d.out \in Seq(Nat)
  BY DEF Bounded
<1>4. l \in Nat /\ lv <= 1
  BY <1>3, LenProperties
<1>5. n = (ri + lv) % 256
  BY DEF Turn
<1> HIDE DEF ri, l, lv, u
<1>6. n \in {2, 3, 4} => n = 2 /\ ri = 1
  <2>1. lv = 0 \/ lv = 1
    BY <1>2, <1>4
  <2>2. n = ri \/ n = ri + 1 \/ n = 0
    <3> DEFINE k == ri + lv
    <3>1. k \in 0 .. 256 /\ (k = ri \/ k = ri + 1)
      <4>1. CASE lv = 0
        <5>1. k = ri + 0
          BY <4>1
        <5> HIDE DEF k
        <5> QED
          BY <1>3, <5>1
      <4>2. CASE lv = 1
        <5>1. k = ri + 1
          BY <4>2
        <5> HIDE DEF k
        <5> QED
          BY <1>3, <5>1
      <4> QED
        BY <2>1, <4>1, <4>2
    <3> HIDE DEF k
    <3>2. k % 256 = k \/ k % 256 = 0
      BY <3>1, CountedIs
    <3>3. n = k % 256
      BY <1>5 DEF k
    <3> QED
      BY <3>1, <3>2, <3>3
  <2> QED
    BY <1>2, <1>3, <2>2
<1>7. l + u <= 3 * i
  BY <1>2, <1>3, <1>4, <1>6
<1> QED
  BY <1>7 DEF l, u

LEMMA DecodeInBoundsHolds == ASSUME InputTypes PROVE DecodeInBounds
<1> DEFINE chars == [i \in DOMAIN bytes |-> bytes[i] % 80]
           n == Len(chars)
           m == n \div 4
           rest == SubSeq(chars, 4 * m + 1, n)
           left == Valid(rest)
           d == Decoded(chars)
<1>1. chars \in Seq(Nat) /\ n \in Nat
  <2>1. Len(bytes) \in Nat /\ DOMAIN bytes = 1 .. Len(bytes)
    BY LenProperties DEF InputTypes
  <2>2. \A i \in 1 .. Len(bytes) : bytes[i] % 80 \in Nat
    <3> TAKE i \in 1 .. Len(bytes)
    <3>1. bytes[i] \in Nat
      BY BytesAreNat, ElementOfSeq
    <3> DEFINE b == bytes[i]
    <3> HIDE DEF b
    <3>2. b \in Nat => b % 80 \in Nat
      OBVIOUS
    <3> QED
      BY <3>1, <3>2 DEF b
  <2>3. chars = [i \in 1 .. Len(bytes) |-> bytes[i] % 80]
    BY <2>1
  <2>4. chars \in Seq(Nat)
    <3> DEFINE k == Len(bytes)
               x(i) == bytes[i] % 80
    <3>1. k \in Nat /\ \A i \in 1 .. k : x(i) \in Nat
      BY <2>1, <2>2
    <3> HIDE DEF x, k
    <3>2. [i \in 1 .. k |-> x(i)] \in Seq(Nat)
      BY <3>1
    <3> QED
      BY <2>3, <3>2 DEF x, k
  <2> QED
    BY <2>4, LenProperties
<1> SUFFICES ASSUME n % 4 <= 1
             PROVE  Len(Decode(chars)) + Len(Tail4(chars)) <= 3 * m
  BY DEF DecodeInBounds
<1> HIDE DEF chars
<1>2. m \in Nat /\ n % 4 \in 0 .. 3 /\ n = 4 * m + (n % 4)
  BY <1>1, Division
<1>3. Bounded(d, m)
  BY <1>1, DecodedBounded
<1>4. rest \in Seq(Nat) /\ Len(rest) <= 1
  <2> DEFINE a == 4 * m + 1
  <2>1. a \in Int /\ n \in Int /\ n - a + 1 <= 1 /\ \A k \in a .. n : k \in 1 .. n
    <3> DEFINE r == n % 4
    <3>1. r \in 0 .. 3 /\ r <= 1 /\ n = 4 * m + r /\ m \in Nat
      BY <1>2
    <3> HIDE DEF r, m, n
    <3> QED
      BY <1>1, <3>1
  <2> HIDE DEF a
  <2>2. \A k \in a .. n : chars[k] \in Nat
    BY <1>1, <2>1, ElementOfSeq
  <2> HIDE DEF n
  <2>3. /\ SubSeq(chars, a, n) \in Seq(Nat)
        /\ Len(SubSeq(chars, a, n)) = IF a <= n THEN n - a + 1 ELSE 0
    BY <2>1, <2>2, SubSeqProperties
  <2>4. rest = SubSeq(chars, a, n)
    BY DEF a
  <2> HIDE DEF rest
  <2> QED
    BY <2>1, <2>3, <2>4
<1> HIDE DEF rest
<1>5. left \in Seq(Nat) /\ Len(left) <= 1
  <2>1. left \in Seq(Nat) /\ Len(left) \in 0 .. Len(rest) /\ Len(rest) \in Nat
    BY <1>4, ValidTyped, LenProperties
  <2> DEFINE l == Len(left)
             k == Len(rest)
  <2>2. l \in 0 .. k /\ k \in Nat /\ k <= 1
    BY <1>4, <2>1
  <2> HIDE DEF l, k
  <2>3. l <= 1
    BY <2>2
  <2> QED
    BY <2>1, <2>3 DEF l
<1> DEFINE s == d.r \o left
           k == (d.ri + Len(left)) % 256
           t == Triple(s, k)
<1>6. Tail4(chars) = t /\ Decode(chars) = d.out
  BY DEF Tail4, Decode, rest
<1>7. Turn(d, left, s, k, t)
  BY DEF Turn
<1> HIDE DEF s, k, t, left, d, m
<1>8. Len(d.out) + Len(t) <= 3 * m
  BY <1>2, <1>3, <1>5, <1>7, TailBounded
<1> QED
  BY <1>6, <1>8

\* Three bytes come back from their sextets.
Back(s, a, b, c) ==
    /\ s[1] * 4 + s[2] \div 16 = a
    /\ (s[2] % 16) * 16 + s[3] \div 4 = b
    /\ (s[3] % 4) * 64 + s[4] = c
    /\ s[1] \in 0 .. 63 /\ s[2] \in 0 .. 63 /\ s[3] \in 0 .. 63 /\ s[4] \in 0 .. 63

LEMMA SextetsBack ==
    ASSUME NEW a \in Byte, NEW b \in Byte, NEW c \in Byte, NEW s, s = Sextets(a, b, c)
    PROVE  Back(s, a, b, c)
<1> DEFINE a1 == a \div 4
           a2 == a % 4
           b1 == b \div 16
           b2 == b % 16
           c1 == c \div 64
           c2 == c % 64
<1>1. /\ a1 \in 0 .. 63 /\ a2 \in 0 .. 3 /\ a = 4 * a1 + a2
      /\ b1 \in 0 .. 15 /\ b2 \in 0 .. 15 /\ b = 16 * b1 + b2
      /\ c1 \in 0 .. 3 /\ c2 \in 0 .. 63 /\ c = 64 * c1 + c2
  BY DEF Byte
<1>2. s = <<a1, a2 * 16 + b1, b2 * 4 + c1, c2>>
  BY Zenon DEF Sextets
<1> HIDE DEF a1, a2, b1, b2, c1, c2
<1>3. s[1] = a1 /\ s[2] = a2 * 16 + b1 /\ s[3] = b2 * 4 + c1 /\ s[4] = c2
  BY <1>2
<1> DEFINE p == a2 * 16 + b1
           q == b2 * 4 + c1
<1>4. p \div 16 = a2 /\ p % 16 = b1 /\ q \div 4 = b2 /\ q % 4 = c1
      /\ p \in 0 .. 63 /\ q \in 0 .. 63
  BY <1>1
<1>5. s[1] = a1 /\ s[2] = p /\ s[3] = q /\ s[4] = c2
  BY <1>3
<1> HIDE DEF p, q
<1>6. a1 * 4 + a2 = a /\ b1 * 16 + b2 = b /\ c1 * 64 + c2 = c
  BY <1>1
<1> QED
  BY <1>1, <1>4, <1>5, <1>6 DEF Back

\* The bytes from p on, behind those before p
LEMMA BytesGrow ==
    ASSUME InputTypes, NEW p \in Nat, NEW v \in Seq(0 .. 255), p + Len(v) <= Len(bytes),
           \A j \in 1 .. Len(v) : v[j] = bytes[p + j]
    PROVE  SubSeq(bytes, 1, p) \o v = SubSeq(bytes, 1, p + Len(v))
<1> DEFINE n == Len(bytes)
           l == Len(v)
           s == SubSeq(bytes, 1, p)
           t == SubSeq(bytes, 1, p + l)
<1>1. n \in Nat /\ l \in Nat /\ \A k \in 1 .. n : bytes[k] \in 0 .. 255
  BY LenProperties, ElementOfSeq DEF InputTypes
<1>2. p + l <= n
  OBVIOUS
<1>3. \A q \in 0 .. n : /\ SubSeq(bytes, 1, q) \in Seq(0 .. 255)
                        /\ Len(SubSeq(bytes, 1, q)) = q
                        /\ \A k \in 1 .. q : SubSeq(bytes, 1, q)[k] = bytes[k]
  <2> TAKE q \in 0 .. n
  <2>1. 1 \in Int /\ q \in Int /\ q \in Nat /\ q - 1 + 1 = q /\ \A k \in 1 .. q : k \in 1 .. n /\ 1 + k - 1 = k
    BY <1>1
  <2>2. \A k \in 1 .. q : bytes[k] \in 0 .. 255
    BY <1>1, <2>1
  <2>3. /\ SubSeq(bytes, 1, q) \in Seq(0 .. 255)
        /\ Len(SubSeq(bytes, 1, q)) = IF 1 <= q THEN q - 1 + 1 ELSE 0
        /\ \A k \in 1 .. q - 1 + 1 : SubSeq(bytes, 1, q)[k] = bytes[1 + k - 1]
    BY <2>1, <2>2, SubSeqProperties
  <2>4. (IF 1 <= q THEN q - 1 + 1 ELSE 0) = q
    BY <2>1
  <2> QED
    BY <2>1, <2>3, <2>4
<1> HIDE DEF n, l
<1>4. p \in 0 .. n /\ p + l \in 0 .. n
  BY <1>1, <1>2
<1>5. /\ s \in Seq(0 .. 255) /\ Len(s) = p /\ \A k \in 1 .. p : s[k] = bytes[k]
      /\ t \in Seq(0 .. 255) /\ Len(t) = p + l /\ \A k \in 1 .. p + l : t[k] = bytes[k]
  BY <1>3, <1>4
<1> HIDE DEF s, t
<1>6. /\ s \o v \in Seq(0 .. 255) /\ Len(s \o v) = p + l
      /\ \A k \in 1 .. p + l : (s \o v)[k] = IF k <= p THEN s[k] ELSE v[k - p]
  <2>1. /\ s \o v \in Seq(0 .. 255) /\ Len(s \o v) = Len(s) + Len(v)
        /\ \A k \in 1 .. Len(s) + Len(v) :
              (s \o v)[k] = IF k <= Len(s) THEN s[k] ELSE v[k - Len(s)]
    BY <1>5, ConcatProperties
  <2>2. Len(s) = p /\ Len(v) = l
    BY <1>5 DEF l
  <2> QED
    BY <2>1, <2>2
<1>7. \A k \in 1 .. p + l : (s \o v)[k] = t[k]
  <2> TAKE k \in 1 .. p + l
  <2>1. CASE k <= p
    <3>1. k \in 1 .. p
      BY <2>1
    <3> QED
      BY <1>5, <1>6, <2>1, <3>1
  <2>2. CASE ~ k <= p
    <3>1. k - p \in 1 .. l /\ p + (k - p) = k
      BY <1>1, <2>2
    <3>2. v[k - p] = bytes[p + (k - p)]
      BY <3>1 DEF l
    <3> QED
      BY <1>5, <1>6, <2>2, <3>1, <3>2
  <2> QED
    BY <2>1, <2>2
<1>8. s \o v = t
  BY <1>5, <1>6, <1>7, SeqEqual
<1> QED
  BY <1>8 DEF s, t, l

\* What is written for two, three or four new sextets
LEMMA TripleOf ==
    ASSUME NEW r \in Seq(Nat), NEW v \in Seq(Nat), NEW n, n = Len(v)
    PROVE  /\ n = 2 => Triple(r \o v, n) = <<v[1] * 4 + v[2] \div 16>>
           /\ n = 3 => Triple(r \o v, n) =
                  <<v[1] * 4 + v[2] \div 16, (v[2] % 16) * 16 + v[3] \div 4>>
           /\ n = 4 => Triple(r \o v, n) =
                  <<v[1] * 4 + v[2] \div 16, (v[2] % 16) * 16 + v[3] \div 4,
                    (v[3] % 4) * 64 + v[4]>>
<1> DEFINE s == r \o v
           k == Len(s) - n
           l == Len(r)
<1>1. l \in Nat /\ n \in Nat
  BY LenProperties
<1>2. /\ Len(s) = l + n
      /\ \A i \in 1 .. l + n : s[i] = IF i <= l THEN r[i] ELSE v[i - l]
  BY ConcatProperties
<1>3. k = l
  BY <1>1, <1>2
<1> HIDE DEF s, l
<1>4. \A j \in 1 .. n : s[k + j] = v[j]
  <2> TAKE j \in 1 .. n
  <2>1. l + j \in 1 .. l + n /\ ~ l + j <= l /\ (l + j) - l = j
    BY <1>1
  <2> QED
    BY <1>2, <1>3, <2>1
<1> DEFINE x(j) == s[k + j]
<1>5. Triple(s, n) =
        CASE n = 2 -> <<x(1) * 4 + x(2) \div 16>>
          [] n = 3 -> <<x(1) * 4 + x(2) \div 16, (x(2) % 16) * 16 + x(3) \div 4>>
          [] n = 4 -> <<x(1) * 4 + x(2) \div 16, (x(2) % 16) * 16 + x(3) \div 4,
                        (x(3) % 4) * 64 + x(4)>>
          [] OTHER -> <<>>
  BY DEF Triple
<1>6. \A j \in 1 .. n : x(j) = v[j]
  BY <1>4
<1> HIDE DEF x, k
<1>7. ASSUME n = 2 PROVE Triple(s, n) = <<v[1] * 4 + v[2] \div 16>>
  <2>1. x(1) = v[1] /\ x(2) = v[2]
    BY <1>6, <1>7
  <2>2. Triple(s, n) = <<x(1) * 4 + x(2) \div 16>>
    BY <1>5, <1>7
  <2> QED
    BY <2>1, <2>2, Zenon
<1>8. ASSUME n = 3
      PROVE  Triple(s, n) = <<v[1] * 4 + v[2] \div 16, (v[2] % 16) * 16 + v[3] \div 4>>
  <2>1. x(1) = v[1] /\ x(2) = v[2] /\ x(3) = v[3]
    BY <1>6, <1>8
  <2>2. Triple(s, n) = <<x(1) * 4 + x(2) \div 16, (x(2) % 16) * 16 + x(3) \div 4>>
    BY <1>5, <1>8
  <2> QED
    BY <2>1, <2>2, Zenon
<1>9. ASSUME n = 4
      PROVE  Triple(s, n) = <<v[1] * 4 + v[2] \div 16, (v[2] % 16) * 16 + v[3] \div 4,
                              (v[3] % 4) * 64 + v[4]>>
  <2>1. x(1) = v[1] /\ x(2) = v[2] /\ x(3) = v[3] /\ x(4) = v[4]
    BY <1>6, <1>9
  <2>2. Triple(s, n) = <<x(1) * 4 + x(2) \div 16, (x(2) % 16) * 16 + x(3) \div 4,
                         (x(3) % 4) * 64 + x(4)>>
    BY <1>5, <1>9
  <2> QED
    BY <2>1, <2>2, Zenon
<1> QED
  BY <1>7, <1>8, <1>9, Zenon DEF s

\* A group of decode() gives back the bytes encode() has written it for: the
\* sextets of the bytes that were there, and no others, are valid.
LEMMA WrittenBack ==
    ASSUME InputTypes, NEW i \in Nat \ {0}, 3 * i - 2 <= Len(bytes),
           NEW u, u = (IF 3 * i <= Len(bytes) THEN 3 * i ELSE Len(bytes)),
           NEW r \in Seq(Nat)
    PROVE  LET v == Valid(Written(i))
           IN  /\ v \in Seq(Nat) /\ Len(v) \in 2 .. 4
               /\ 3 * i <= Len(bytes) => Len(v) = 4
               /\ SubSeq(bytes, 1, 3 * i - 3) \o Triple(r \o v, Len(v)) = SubSeq(bytes, 1, u)
<1> DEFINE n == Len(bytes)
           p == 3 * i - 3
           s == Four(i)
           a == bytes[p + 1]
           b == ByteAt(3 * i - 1)
           c == ByteAt(3 * i)
           v == Valid(Written(i))
<1>1. n \in Nat
  BY LenProperties DEF InputTypes
<1>2. p \in Nat /\ 3 * i - 2 = p + 1 /\ 3 * i - 1 = p + 2 /\ 3 * i = p + 3 /\ p + 1 <= n
  OBVIOUS
<1>3. a \in 0 .. 255 /\ b \in 0 .. 255 /\ c \in 0 .. 255
  <2>1. 3 * i - 1 \in Nat \ {0} /\ 3 * i \in Nat \ {0} /\ p + 1 \in 1 .. Len(bytes)
    BY <1>1, <1>2
  <2> QED
    BY <2>1, ByteIs, ElementOfSeq DEF InputTypes
<1>4. s = Sextets(a, b, c)
  <2>1. ByteAt(3 * i - 2) = a
    BY <1>2 DEF ByteAt
  <2> QED
    BY <2>1 DEF Four
<1>5. /\ p + 2 <= n => b = bytes[p + 2]
      /\ p + 3 <= n => c = bytes[p + 3]
  BY <1>2 DEF ByteAt
<1>6. Written(i) = <<s[1], s[2], IF p + 2 > n THEN Pad ELSE s[3], IF p + 3 > n THEN Pad ELSE s[4]>>
  BY <1>2 DEF Written
<1> HIDE DEF s, a, b, c
<1>7. /\ s[1] * 4 + s[2] \div 16 = a
      /\ (s[2] % 16) * 16 + s[3] \div 4 = b
      /\ (s[3] % 4) * 64 + s[4] = c
      /\ s[1] \in 0 .. 63 /\ s[2] \in 0 .. 63 /\ s[3] \in 0 .. 63 /\ s[4] \in 0 .. 63
  <2>1. a \in Byte /\ b \in Byte /\ c \in Byte
    BY <1>3 DEF Byte
  <2>2. Back(s, a, b, c)
    BY <1>4, <2>1, SextetsBack
  <2> QED
    BY <2>2 DEF Back
<1> DEFINE w == s[1]
           x == s[2]
           y == s[3]
           z == s[4]
<1>8. /\ w * 4 + x \div 16 = a /\ (x % 16) * 16 + y \div 4 = b /\ (y % 4) * 64 + z = c
      /\ w \in 0 .. 63 /\ x \in 0 .. 63 /\ y \in 0 .. 63 /\ z \in 0 .. 63
  BY <1>7
<1>9. Written(i) = <<w, x, IF p + 2 > n THEN Pad ELSE y, IF p + 3 > n THEN Pad ELSE z>>
  BY <1>6, Zenon
<1> HIDE DEF w, x, y, z
<1>10. /\ Valid(<<w, x, y, z>>) = <<w, x, y, z>>
       /\ Valid(<<w, x, y, Pad>>) = <<w, x, y>>
       /\ Valid(<<w, x, Pad, Pad>>) = <<w, x>>
  BY <1>8, ValidFour, ZenonT(60)
<1>11. w \in Nat /\ x \in Nat /\ y \in Nat /\ z \in Nat
  BY <1>8
<1>12. ASSUME NEW t \in Seq(0 .. 255), p + Len(t) = u, \A j \in 1 .. Len(t) : t[j] = bytes[p + j]
       PROVE  SubSeq(bytes, 1, p) \o t = SubSeq(bytes, 1, u)
  <2>1. u <= Len(bytes)
    BY <1>1
  <2> HIDE DEF p
  <2>2. p \in Nat /\ p + Len(t) <= Len(bytes)
    BY <1>2, <1>12, <2>1
  <2>3. SubSeq(bytes, 1, p) \o t = SubSeq(bytes, 1, p + Len(t))
    BY <1>12, <2>2, BytesGrow
  <2> QED
    BY <1>12, <2>3
<1>13. u = IF p + 3 <= n THEN p + 3 ELSE n
  BY <1>2
<1> HIDE DEF n, p, v
<1> DEFINE Goal == /\ v \in Seq(Nat) /\ Len(v) \in 2 .. 4
                   /\ 3 * i <= Len(bytes) => Len(v) = 4
                   /\ SubSeq(bytes, 1, p) \o Triple(r \o v, Len(v)) = SubSeq(bytes, 1, u)
<1>14. ASSUME p + 3 <= n PROVE Goal
  <2>1. Written(i) = <<w, x, y, z>> /\ u = p + 3 /\ p + 2 <= n
    <3>1. ~ p + 2 > n /\ ~ p + 3 > n /\ p + 2 <= n
      BY <1>1, <1>2, <1>14
    <3> QED
      BY <1>9, <1>13, <1>14, <3>1
  <2>2. v = <<w, x, y, z>>
    BY <1>10, <2>1 DEF v
  <2>3. v \in Seq(Nat) /\ Len(v) = 4 /\ v[1] = w /\ v[2] = x /\ v[3] = y /\ v[4] = z
    BY <1>11, <2>2
  <2>4. Triple(r \o v, Len(v)) = <<a, b, c>>
    <3>1. Triple(r \o v, Len(v)) =
              <<v[1] * 4 + v[2] \div 16, (v[2] % 16) * 16 + v[3] \div 4, (v[3] % 4) * 64 + v[4]>>
      BY <2>3, TripleOf
    <3> QED
      BY <1>8, <2>3, <3>1, Zenon
  <2> DEFINE t == <<a, b, c>>
  <2>5. t \in Seq(0 .. 255) /\ Len(t) = 3 /\ t[1] = a /\ t[2] = b /\ t[3] = c
    BY <1>3
  <2> HIDE DEF t
  <2>6. \A j \in 1 .. Len(t) : t[j] = bytes[p + j]
    <3>1. \A j \in 1 .. 3 : j = 1 \/ j = 2 \/ j = 3
      OBVIOUS
    <3> QED
      BY <1>5, <1>14, <2>1, <2>5, <3>1 DEF a
  <2>7. SubSeq(bytes, 1, p) \o t = SubSeq(bytes, 1, u)
    BY <1>12, <2>1, <2>5, <2>6
  <2> QED
    <3>1. Len(v) \in 2 .. 4
      BY <2>3
    <3> QED
      BY <2>3, <2>4, <2>7, <3>1, Zenon DEF t
<1>15. ASSUME ~ p + 3 <= n, p + 2 <= n PROVE Goal
  <2>1. Written(i) = <<w, x, y, Pad>> /\ u = p + 2
    <3>1. ~ p + 2 > n /\ p + 3 > n /\ n = p + 2
      BY <1>1, <1>2, <1>15
    <3> QED
      BY <1>9, <1>13, <1>15, <3>1
  <2>2. v = <<w, x, y>>
    BY <1>10, <2>1 DEF v
  <2>3. v \in Seq(Nat) /\ Len(v) = 3 /\ v[1] = w /\ v[2] = x /\ v[3] = y
    BY <1>11, <2>2
  <2>4. Triple(r \o v, Len(v)) = <<a, b>>
    <3>1. Triple(r \o v, Len(v)) = <<v[1] * 4 + v[2] \div 16, (v[2] % 16) * 16 + v[3] \div 4>>
      BY <2>3, TripleOf
    <3> QED
      BY <1>8, <2>3, <3>1, Zenon
  <2> DEFINE t == <<a, b>>
  <2>5. t \in Seq(0 .. 255) /\ Len(t) = 2 /\ t[1] = a /\ t[2] = b
    BY <1>3
  <2> HIDE DEF t
  <2>6. \A j \in 1 .. Len(t) : t[j] = bytes[p + j]
    <3>1. \A j \in 1 .. 2 : j = 1 \/ j = 2
      OBVIOUS
    <3> QED
      BY <1>5, <1>15, <2>5, <3>1 DEF a
  <2>7. SubSeq(bytes, 1, p) \o t = SubSeq(bytes, 1, u)
    BY <1>12, <2>1, <2>5, <2>6
  <2>8. ~ 3 * i <= Len(bytes)
    BY <1>2, <1>15 DEF n
  <2> QED
    <3>1. Len(v) \in 2 .. 4
      BY <2>3
    <3> QED
      BY <2>3, <2>4, <2>7, <2>8, <3>1, Zenon DEF t
<1>16. ASSUME ~ p + 2 <= n PROVE Goal
  <2>1. Written(i) = <<w, x, Pad, Pad>> /\ u = p + 1 /\ ~ p + 3 <= n
    <3>1. p + 2 > n /\ p + 3 > n /\ n = p + 1 /\ ~ p + 3 <= n
      BY <1>1, <1>2, <1>16
    <3> QED
      BY <1>9, <1>13, <1>16, <3>1
  <2>2. v = <<w, x>>
    BY <1>10, <2>1 DEF v
  <2>3. v \in Seq(Nat) /\ Len(v) = 2 /\ v[1] = w /\ v[2] = x
    BY <1>11, <2>2
  <2>4. Triple(r \o v, Len(v)) = <<a>>
    <3>1. Triple(r \o v, Len(v)) = <<v[1] * 4 + v[2] \div 16>>
      BY <2>3, TripleOf
    <3> QED
      BY <1>8, <2>3, <3>1, Zenon
  <2> DEFINE t == <<a>>
  <2>5. t \in Seq(0 .. 255) /\ Len(t) = 1 /\ t[1] = a
    BY <1>3
  <2> HIDE DEF t
  <2>6. \A j \in 1 .. Len(t) : t[j] = bytes[p + j]
    BY <2>5 DEF a
  <2>7. SubSeq(bytes, 1, p) \o t = SubSeq(bytes, 1, u)
    BY <1>12, <2>1, <2>5, <2>6
  <2>8. ~ 3 * i <= Len(bytes)
    BY <1>2, <2>1 DEF n
  <2> QED
    <3>1. Len(v) \in 2 .. 4
      BY <2>3
    <3> QED
      BY <2>3, <2>4, <2>7, <2>8, <3>1, Zenon DEF t
<1>17. Goal
  <2> HIDE DEF Goal
  <2> QED
    BY <1>14, <1>15, <1>16
<1> QED
  BY <1>17, Zenon DEF v, p

\* The bytes the group i gives back: r are those of the groups before it.
BackAt(i, u, r, v) ==
    /\ v \in Seq(Nat) /\ Len(v) \in 2 .. 4
    /\ 3 * i <= Len(bytes) => Len(v) = 4
    /\ SubSeq(bytes, 1, 3 * i - 3) \o Triple(r \o v, Len(v)) = SubSeq(bytes, 1, u)

Upto(i) == IF 3 * i <= Len(bytes) THEN 3 * i ELSE Len(bytes)

Begins(i) == 3 * i - 2 <= Len(bytes)

LEMMA GroupBack ==
    ASSUME InputTypes, NEW i \in Nat \ {0}, Begins(i), NEW r \in Seq(Nat)
    PROVE  BackAt(i, Upto(i), r, Valid(Written(i)))
<1> DEFINE u == Upto(i)
           v == Valid(Written(i))
<1>1. u = (IF 3 * i <= Len(bytes) THEN 3 * i ELSE Len(bytes)) /\ 3 * i - 2 <= Len(bytes)
  BY DEF Upto, Begins
<1> HIDE DEF u
<1>2. /\ v \in Seq(Nat) /\ Len(v) \in 2 .. 4
      /\ 3 * i <= Len(bytes) => Len(v) = 4
      /\ SubSeq(bytes, 1, 3 * i - 3) \o Triple(r \o v, Len(v)) = SubSeq(bytes, 1, u)
  BY <1>1, WrittenBack
<1> HIDE DEF v
<1>3. BackAt(i, u, r, v)
  BY <1>2 DEF BackAt
<1> QED
  BY <1>3 DEF u, v

\* The groups decode() reads are those encode() has written.
LEMMA EncodedGroups ==
    ASSUME InputTypes, GroupsEnd(Len(bytes)) <= Len(bytes)
    PROVE  /\ Encode \in Seq(Nat)
           /\ Len(Encode) \div 4 = CeilDiv(Len(bytes), 3)
           /\ \A i \in 1 .. CeilDiv(Len(bytes), 3) : GroupOf(Encode, i) = Written(i)
<1> DEFINE n == Len(bytes)
           m == CeilDiv(n, 3)
           g == [i \in 1 .. m |-> Written(i)]
           chars == Encode
<1>1. n \in Nat
  BY LenProperties DEF InputTypes
<1>2. m \in Nat
  BY <1>1, Thirds
<1>3. chars = Joined(g)
  BY EncodeIs
<1>4. \A i \in 1 .. m : Written(i) \in Seq(Nat) /\ Len(Written(i)) = 4
  <2>1. 0 .. 64 \subseteq Nat
    OBVIOUS
  <2> HIDE DEF m
  <2>2. \A i \in 1 .. m : i \in Nat \ {0}
    BY <1>2
  <2>3. \A i \in 1 .. m : Written(i) \in Seq(0 .. 64) /\ Len(Written(i)) = 4
    BY <2>2, WrittenIs
  <2> QED
    BY <2>1, <2>3, SeqMonotonic
<1>5. g \in Seq(Seq(Nat)) /\ Len(g) = m /\ \A i \in 1 .. m : g[i] = Written(i)
  <2> HIDE DEF m
  <2> QED
    BY <1>2, <1>4
<1> HIDE DEF g, m
<1>6. \A i \in 1 .. m : Len(g[i]) = 4
  BY <1>4, <1>5
<1> HIDE DEF chars
<1>7. /\ chars \in Seq(Nat) /\ Len(chars) = 4 * m
      /\ \A i \in 1 .. m : \A j \in 1 .. 4 : chars[4 * (i - 1) + j] = g[i][j]
  <2>1. FourEach(g, m)
    BY <1>6 DEF FourEach
  <2>2. GroupsIn(Nat, Joined(g), g, m)
    BY <1>2, <1>5, <2>1, GroupsJoined
  <2>3. GroupsIn(Nat, chars, g, m)
    BY <1>3, <2>2
  <2> QED
    BY <2>3 DEF GroupsIn
<1>8. Len(chars) \div 4 = m
  BY <1>2, <1>7
<1>9. ASSUME NEW i \in 1 .. m PROVE GroupOf(chars, i) = Written(i)
  <2>1. i \in 1 .. Len(chars) \div 4
    BY <1>8
  <2>2. /\ GroupOf(chars, i) \in Seq(Nat) /\ Len(GroupOf(chars, i)) = 4
        /\ \A j \in 1 .. 4 : GroupOf(chars, i)[j] = chars[4 * (i - 1) + j]
    BY <1>7, <2>1, GroupIs
  <2>3. \A j \in 1 .. 4 : chars[4 * (i - 1) + j] = g[i][j]
    BY <1>7
  <2> DEFINE s == GroupOf(chars, i)
             t == Written(i)
  <2>4. \A j \in 1 .. 4 : s[j] = t[j]
    BY <1>5, <2>2, <2>3
  <2>5. t \in Seq(Nat) /\ Len(t) = 4 /\ s \in Seq(Nat) /\ Len(s) = 4
    BY <1>4, <2>2
  <2> HIDE DEF s, t
  <2>6. s = t
    BY <2>4, <2>5, SeqEqual
  <2> QED
    BY <2>6 DEF s, t
<1> QED
  BY <1>7, <1>8, <1>9 DEF chars, m

LEMMA RoundTripHolds == ASSUME InputTypes PROVE RoundTrip
<1> SUFFICES ASSUME GroupsEnd(Len(bytes)) <= Len(bytes) PROVE Decode(Encode) = bytes
  BY DEF RoundTrip
<1> DEFINE n == Len(bytes)
           m == CeilDiv(n, 3)
           chars == Encode
           upto(i) == IF 3 * i <= n THEN 3 * i ELSE n
           Back_(d, i) == /\ d.r \in Seq(Nat) /\ d.out = SubSeq(bytes, 1, upto(i))
                          /\ (i < m => d.ri = 0)
<1>1. n \in Nat
  BY LenProperties DEF InputTypes
<1>2. m \in Nat /\ 3 * m >= n /\ 3 * (m - 1) < n
  <2>1. /\ n \div 3 \in Nat /\ n % 3 \in 0 .. 2 /\ n = 3 * (n \div 3) + (n % 3)
        /\ m = IF n % 3 = 0 THEN n \div 3 ELSE n \div 3 + 1
    BY <1>1, Thirds
  <2> DEFINE q == n \div 3
             r == n % 3
  <2> HIDE DEF q, r, m
  <2>2. q \in Nat /\ r \in 0 .. 2 /\ n = 3 * q + r /\ m = IF r = 0 THEN q ELSE q + 1
    BY <2>1 DEF q, r
  <2> QED
    BY <2>2
<1>3. chars \in Seq(Nat) /\ Len(chars) \div 4 = m /\ \A i \in 1 .. m : GroupOf(chars, i) = Written(i)
  BY EncodedGroups
<1> HIDE DEF m, chars
<1>4. PICK d : DecodesTo(d, chars)
  BY <1>3, DecodesChars
<1>5. /\ d[0] = NoGroup
      /\ \A i \in 0 .. m - 1 : d[i + 1] = DecodeGroup(d[i], Written(i + 1))
      /\ Decoded(chars) = d[m]
  <2>1. \A i \in 0 .. m - 1 : i + 1 \in 1 .. m
    BY <1>2
  <2> QED
    BY <1>3, <1>4, <2>1 DEF DecodesTo
<1> DEFINE T == {i \in 0 .. m : Back_(d[i], i)}
<1>6. 0 \in T
  <2>1. NoGroup.r \in Seq(Nat) /\ NoGroup.ri = 0 /\ NoGroup.out = <<>>
    BY EmptySeq DEF NoGroup
  <2>2. upto(0) = 0 /\ 0 \in 0 .. m
    BY <1>1, <1>2
  <2>3. SubSeq(bytes, 1, 0) = <<>>
    BY SubSeqEmpty
  <2> HIDE DEF upto
  <2> QED
    BY <1>5, <2>1, <2>2, <2>3
<1>7. ASSUME NEW i \in 0 .. m - 1, i \in T PROVE i + 1 \in T
  <2> DEFINE a == d[i]
             e == d[i + 1]
             v == Valid(Written(i + 1))
             u == upto(i + 1)
  <2>1. /\ i \in Nat /\ i + 1 \in 0 .. m /\ i + 1 \in Nat \ {0} /\ i < m
        /\ 3 * (i + 1) - 2 <= n /\ 3 * (i + 1) - 3 = 3 * i /\ upto(i) = 3 * i
    BY <1>1, <1>2
  <2>2. a.r \in Seq(Nat) /\ a.ri = 0 /\ a.out = SubSeq(bytes, 1, 3 * i)
    BY <1>7, <2>1
  <2>3. u = IF 3 * (i + 1) <= Len(bytes) THEN 3 * (i + 1) ELSE Len(bytes)
    OBVIOUS
  <2> HIDE DEF a, u
  <2>4. /\ v \in Seq(Nat) /\ Len(v) \in 2 .. 4
        /\ 3 * (i + 1) <= Len(bytes) => Len(v) = 4
        /\ SubSeq(bytes, 1, 3 * (i + 1) - 3) \o Triple(a.r \o v, Len(v)) = SubSeq(bytes, 1, u)
    <3> DEFINE j == i + 1
    <3>1. Begins(j) /\ u = Upto(j) /\ j \in Nat \ {0}
      BY <2>1, <2>3 DEF Begins, Upto
    <3>2. v = Valid(Written(j))
      OBVIOUS
    <3> HIDE DEF j, v
    <3>3. BackAt(j, Upto(j), a.r, Valid(Written(j)))
      BY <2>2, <3>1, GroupBack
    <3>4. BackAt(j, u, a.r, v)
      BY <3>1, <3>2, <3>3
    <3> QED
      BY <3>4 DEF BackAt, j
  <2>5. e = DecodeGroup(a, Written(i + 1))
    BY <1>5 DEF a
  <2> HIDE DEF e
  <2> DEFINE k == (a.ri + Len(v)) % 256
  <2>6. e = [r |-> a.r \o v, ri |-> IF k \in {2, 3} THEN 1 ELSE IF k = 4 THEN 0 ELSE k,
             out |-> a.out \o Triple(a.r \o v, k)]
    BY <2>5 DEF DecodeGroup
  <2> HIDE DEF v
  <2>7. k = Len(v)
    <3> DEFINE l == Len(v)
    <3>1. l \in 2 .. 4 /\ a.ri = 0
      BY <2>2, <2>4
    <3> HIDE DEF l
    <3>2. \A x \in 2 .. 4 : (0 + x) % 256 = x
      OBVIOUS
    <3>3. k = (a.ri + l) % 256
      BY DEF l
    <3>4. k = l
      BY <3>1, <3>2, <3>3
    <3> QED
      BY <3>4 DEF l
  <2> HIDE DEF k
  <2>8. /\ e.r = a.r \o v /\ e.out = a.out \o Triple(a.r \o v, k)
        /\ e.ri = IF k \in {2, 3} THEN 1 ELSE IF k = 4 THEN 0 ELSE k
    BY <2>6
  <2>9. e.r \in Seq(Nat)
    BY <2>2, <2>4, <2>8, ConcatProperties
  <2>10. e.out = SubSeq(bytes, 1, u)
    BY <2>1, <2>2, <2>4, <2>7, <2>8
  <2>11. i + 1 < m => e.ri = 0
    <3> SUFFICES ASSUME i + 1 < m PROVE e.ri = 0
      OBVIOUS
    <3>1. 3 * (i + 1) <= Len(bytes)
      BY <1>1, <1>2, <2>1
    <3>2. k = 4
      BY <2>4, <2>7, <3>1
    <3> QED
      BY <2>8, <3>2
  <2>12. Back_(e, i + 1)
    BY <2>9, <2>10, <2>11 DEF u
  <2> HIDE DEF Back_
  <2> QED
    BY <2>1, <2>12 DEF e
<1> HIDE DEF T
<1>8. 0 .. m \subseteq T
  BY <1>2, <1>6, <1>7, Upward
<1>9. m \in T
  BY <1>2, <1>8
<1>10. upto(m) = n
  BY <1>1, <1>2
<1>11. d[m].out = SubSeq(bytes, 1, n)
  <2> HIDE DEF upto, n
  <2> QED
    BY <1>9, <1>10 DEF T
<1>12. SubSeq(bytes, 1, n) = bytes
  BY SubSeqFull DEF InputTypes
<1> QED
  BY <1>5, <1>11, <1>12 DEF Decode, chars

\* For inputs of any length: numbers are printed as their digits in base 10 and the
\* bases that are a power of 2, and without the highest in all the others; a URI
\* component loses two bytes for each escape, which becomes the byte of its digits
\* in reverse order; base64 gives back what it encoded and writes within its bounds
\* (math.cc:118-170, mutable_buffer.cc:95-115, uri.cc:29-60, base64.cc:27-307).
THEOREM TextIsExact == InputSpec => []TextExact
<1>1. InputTypes => TextExact
  BY NumberHolds, NumberShortHolds, UriPlainHolds, UriEscapeHolds, UriLengthHolds,
     EncodeHolds, RoundTripHolds, DecodeInBoundsHolds DEF TextExact
<1> QED
  BY <1>1, InputTyped, PTL

=============================================================================
