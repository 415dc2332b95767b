--------------------------- MODULE Buffers_proofs ---------------------------
(* Theorems about Buffers, for any handles, blocks of memory and sizes. *)
EXTENDS Buffers, FiniteSetTheorems, SequenceTheorems, TLAPS

-----------------------------------------------------------------------------
(* Counting the users of a block *)

\* What refers to what, and the handles that refer to b
Refs == [g \in Handles |-> buf[g].block]

Referring(f, b) == {g \in Handles : f[g] = b}

One(x, b) == IF x = b THEN 1 ELSE 0

AsideFrom(h, f, f1) == \A g \in Handles \ {h} : f1[g] = f[g]

LEMMA ReferringFinite ==
    ASSUME NEW f, NEW b
    PROVE  /\ IsFiniteSet(Referring(f, b))
           /\ Cardinality(Referring(f, b)) \in Nat
           /\ Cardinality(Referring(f, b)) = 0 <=> Referring(f, b) = {}
<1>1. IsFiniteSet(Handles) /\ Referring(f, b) \in SUBSET Handles
  BY HandlesAssumption DEF Handles, Referring
<1>2. IsFiniteSet(Referring(f, b))
  BY <1>1, FS_Subset
<1> QED
  BY <1>2, FS_CardinalityType, FS_EmptySet

\* One handle refers to something else.
LEMMA ReferringExcept ==
    ASSUME NEW f, NEW f1, NEW h \in Handles, NEW b,
           AsideFrom(h, f, f1)
    PROVE  Cardinality(Referring(f1, b)) =
               Cardinality(Referring(f, b)) - One(f[h], b) + One(f1[h], b)
<1> DEFINE R == Referring(f, b)
           Q == Referring(f1, b)
<1>1. IsFiniteSet(R) /\ Cardinality(R) \in Nat
  BY ReferringFinite
<1>2. h \in R <=> f[h] = b
  BY DEF Referring
<1>3. IsFiniteSet(R \ {h}) /\ h \notin R \ {h}
      /\ Cardinality(R \ {h}) = IF h \in R THEN Cardinality(R) - 1 ELSE Cardinality(R)
  BY <1>1, FS_RemoveElement
<1>4. Cardinality((R \ {h}) \cup {h}) = Cardinality(R \ {h}) + 1
  BY <1>3, FS_AddElement
<1>5. Q = IF f1[h] = b THEN (R \ {h}) \cup {h} ELSE R \ {h}
  BY DEF Referring, AsideFrom
<1> HIDE DEF Q, R
<1>6. Cardinality(Q) = Cardinality(R) - One(f[h], b) + One(f1[h], b)
  BY <1>1, <1>2, <1>3, <1>4, <1>5 DEF One
<1> QED
  BY <1>6 DEF Q, R

LEMMA UsersReferring == \A b : Users(b) = Referring(Refs, b)
  BY DEF Users, Referring, Refs

-----------------------------------------------------------------------------
(* Sections of memory *)

LEMMA SectionProperties ==
    ASSUME NEW S, NEW s \in Seq(S), NEW off \in Nat, NEW n \in Nat,
           off + n <= Len(s)
    PROVE  /\ SubSeq(s, off + 1, off + n) \in Seq(S)
           /\ Len(SubSeq(s, off + 1, off + n)) = n
           /\ \A i \in 1 .. n : SubSeq(s, off + 1, off + n)[i] = s[off + i]
<1>1. \A i \in off + 1 .. off + n : s[i] \in S
  OBVIOUS
<1>2. off + 1 \in Int /\ off + n \in Int
  OBVIOUS
<1>3. /\ SubSeq(s, off + 1, off + n) \in Seq(S)
      /\ Len(SubSeq(s, off + 1, off + n)) =
             IF off + 1 <= off + n THEN (off + n) - (off + 1) + 1 ELSE 0
      /\ \A i \in 1 .. (off + n) - (off + 1) + 1 :
             SubSeq(s, off + 1, off + n)[i] = s[(off + 1) + i - 1]
  BY SMTT(60), <1>1, <1>2, SubSeqProperties
<1>4. /\ (off + n) - (off + 1) + 1 = n
      /\ (IF off + 1 <= off + n THEN (off + n) - (off + 1) + 1 ELSE 0) = n
      /\ \A i \in 1 .. n : (off + 1) + i - 1 = off + i
  OBVIOUS
<1>5. \A i \in 1 .. n : SubSeq(s, off + 1, off + n)[i] = s[off + i]
  <2> TAKE i \in 1 .. n
  <2>1. SubSeq(s, off + 1, off + n)[i] = s[(off + 1) + i - 1]
    BY <1>3, <1>4, Zenon
  <2> QED
    BY <2>1, <1>4, Zenon
<1> QED
  BY <1>3, <1>4, <1>5, Zenon

\* Sections with the same bytes are equal.
Agree(s, t, off, n) == \A i \in 1 .. n : s[off + i] = t[off + i]

LEMMA AgreeEqual ==
    ASSUME NEW S, NEW s \in Seq(S), NEW t \in Seq(S),
           NEW off \in Nat, NEW n \in Nat,
           off + n <= Len(s), off + n <= Len(t), Agree(s, t, off, n)
    PROVE  SubSeq(s, off + 1, off + n) = SubSeq(t, off + 1, off + n)
<1> DEFINE p == SubSeq(s, off + 1, off + n)
           q == SubSeq(t, off + 1, off + n)
<1>1. p \in Seq(S) /\ Len(p) = n /\ \A i \in 1 .. n : p[i] = s[off + i]
  BY SectionProperties
<1>2. q \in Seq(S) /\ Len(q) = n /\ \A i \in 1 .. n : q[i] = t[off + i]
  BY SectionProperties
<1> HIDE DEF p, q
<1>3. p = q
  BY <1>1, <1>2, SeqEqual DEF Agree
<1> QED
  BY <1>3 DEF p, q

-----------------------------------------------------------------------------
(* The invariant *)

EndOf(r) == r.off + r.size

\* A buffer has no capacity, a handle without memory no size, and what refers to
\* nothing or to a literal string has no room behind its end.
Shape == \A h \in Handles :
    /\ h \in Buffers => buf[h].cap = 0
    /\ buf[h].block = None => buf[h].size = 0
    /\ buf[h].block \in {None, Static} => ~Spare(h)

BuffersInv ==
    /\ TypeOK
    /\ Len(mem[Static]) = MaxSize
    /\ Shape /\ InBounds /\ SpareIsPrivate /\ CountExact

\* A step leaves the handles outside of C and what they refer to.
Others(C) == \A g \in Handles \ C :
    /\ buf'[g] = buf[g]
    /\ buf[g].block # None => mem'[buf[g].block] = mem[buf[g].block]

\* Only the handles in C become or stop to be misfits.
Marked(C) ==
    /\ misfit' \subseteq Mutables
    /\ \A g \in Handles \ C : g \in misfit' <=> g \in misfit

LEMMA SpareOf ==
    \A g : Spare(g)' <=> g \notin misfit' /\ ~NoSpare(buf'[g])
  BY DEF Spare, NoSpare

LEMMA OthersKeep ==
    ASSUME NEW C, Others(C) PROVE \A g \in Handles \ C : Value(g)' = Value(g)
  BY DEF Others, Value

LEMMA RecordFields ==
    ASSUME TypeOK, NEW h \in Handles
    PROVE  /\ buf[h] \in Handle
           /\ buf[h].block \in Blocks \union {Static, None}
           /\ buf[h].off \in Nat /\ buf[h].size \in Nat /\ buf[h].cap \in Nat
           /\ buf[h].block # None => /\ mem[buf[h].block] \in Seq(Bytes)
                                     /\ Len(mem[buf[h].block]) \in Nat
<1>1. buf[h] \in Handle
  BY DEF TypeOK
<1>2. /\ buf[h].block \in Blocks \union {Static, None}
      /\ buf[h].off \in Nat /\ buf[h].size \in Nat /\ buf[h].cap \in Nat
  BY <1>1 DEF Handle
<1>3. buf[h].block # None => mem[buf[h].block] \in Seq(Bytes)
  BY <1>2 DEF TypeOK
<1> QED
  BY <1>1, <1>2, <1>3

\* The step of one handle, which gets new memory for itself or refers to the
\* memory of another handle.
LEMMA Placed ==
    ASSUME BuffersInv, NEW h \in Handles, NEW r \in Handle, Others({h}),
           buf' = [buf EXCEPT ![h] = r],
           mem' \in [Blocks \union {Static} -> Seq(Bytes)],
           Len(mem'[Static]) = MaxSize,
           Marked({h}),
           h \in Buffers => r.cap = 0,
           r.block = None => r.size = 0,
           r.block \in {None, Static} => NoSpare(r) \/ h \in misfit',
           r.block # None =>
               /\ EndOf(r) <= Len(mem'[r.block])
               /\ h \notin misfit' => r.off + r.cap <= Len(mem'[r.block]),
           \/ r.block \in {None, Static}
           \/ \A g \in Handles \ {h} : buf[g].block # r.block
           \/ /\ NoSpare(r) \/ h \in misfit'
              /\ \E o \in Handles \ {h} : /\ buf[o].block = r.block
                                          /\ EndOf(r) <= EndOf(buf[o]),
           count' \in [Blocks -> Nat],
           CountExact'
    PROVE  BuffersInv'
<1>1. TypeOK'
  BY DEF BuffersInv, TypeOK, Marked
<1>2. buf'[h] = r /\ \A g \in Handles \ {h} : buf'[g] = buf[g]
  BY DEF BuffersInv, TypeOK
<1>11. /\ Spare(h)' <=> h \notin misfit' /\ ~NoSpare(r)
       /\ \A g \in Handles \ {h} : Spare(g)' <=> Spare(g)
  BY <1>2, SpareOf DEF Marked, Spare
<1>3. Shape'
  <2>1. \A g \in Handles : /\ g \in Buffers => buf[g].cap = 0
                           /\ buf[g].block = None => buf[g].size = 0
                           /\ buf[g].block \in {None, Static} => ~Spare(g)
    BY DEF BuffersInv, Shape
  <2>2. \A g \in Handles : /\ g \in Buffers => buf'[g].cap = 0
                           /\ buf'[g].block = None => buf'[g].size = 0
                           /\ buf'[g].block \in {None, Static} => ~Spare(g)'
    BY <1>2, <1>11, <2>1
  <2> QED
    BY <2>2 DEF Shape
<1>4. InBounds'
  <2> SUFFICES ASSUME NEW g \in Handles, buf'[g].block # None
               PROVE  /\ buf'[g].off + buf'[g].size <= Len(mem'[buf'[g].block])
                      /\ g \notin misfit' =>
                             buf'[g].off + buf'[g].cap <= Len(mem'[buf'[g].block])
    BY DEF InBounds
  <2>1. CASE g = h
    BY <1>2, <2>1 DEF EndOf
  <2>2. CASE g # h
    BY <1>2, <2>2 DEF Others, BuffersInv, InBounds, Marked
  <2> QED
    BY <2>1, <2>2
<1>5. SpareIsPrivate'
  <2> SUFFICES ASSUME NEW m \in Mutables, NEW g \in Handles, g # m,
                      buf'[m].block # None, buf'[g].block = buf'[m].block,
                      Spare(m)'
               PROVE  EndOf(buf'[g]) <= EndOf(buf'[m]) /\ ~Spare(g)'
    BY DEF SpareIsPrivate, EndOf
  <2>1. m \in Handles
    BY DEF Handles
  <2>2. \A o \in Handles : o # m /\ buf[o].block = buf[m].block /\ m # h =>
            EndOf(buf[o]) <= EndOf(buf[m]) /\ ~Spare(o)
    BY <1>2, <1>11, <2>1 DEF BuffersInv, SpareIsPrivate, EndOf
  <2>3. CASE m # h /\ g # h
    BY <1>2, <1>11, <2>1, <2>2, <2>3
  <2>7. \A k \in Handles : buf[k].block = Static => ~Spare(k)
    BY DEF BuffersInv, Shape
  <2>4. CASE m = h
    BY <1>2, <1>11, <2>1, <2>4
  <2>5. CASE g = h
    <3>1. buf'[m] = buf[m] /\ buf[m].block # Static
      BY <1>2, <1>11, <2>1, <2>5, <2>7
    <3>2. (NoSpare(r) \/ h \in misfit') /\ \E o \in Handles \ {h} : /\ buf[o].block = r.block
                                                /\ EndOf(r) <= EndOf(buf[o])
      BY <1>2, <2>1, <2>5, <3>1
    <3>3. PICK o \in Handles \ {h} : /\ buf[o].block = r.block
                                     /\ EndOf(r) <= EndOf(buf[o])
      BY <3>2
    <3>4. EndOf(buf[o]) <= EndOf(buf[m])
      <4>1. CASE o = m
        BY <2>1, <4>1, RecordFields DEF BuffersInv, EndOf
      <4>2. CASE o # m
        BY <1>2, <2>2, <2>5, <3>1, <3>3, <4>2
      <4> QED
        BY <4>1, <4>2
    <3>5. /\ EndOf(r) \in Nat /\ EndOf(buf[o]) \in Nat /\ EndOf(buf[m]) \in Nat
      <4>1. TypeOK
        BY DEF BuffersInv
      <4>2. buf[o].off + buf[o].size \in Nat /\ buf[m].off + buf[m].size \in Nat
        BY <2>1, <4>1, RecordFields
      <4>3. r.off + r.size \in Nat
        BY DEF Handle
      <4> QED
        BY <4>2, <4>3 DEF EndOf
    <3>6. EndOf(r) <= EndOf(buf[m])
      BY <3>3, <3>4, <3>5
    <3> QED
      BY <1>2, <1>11, <2>5, <3>1, <3>2, <3>6
  <2> QED
    BY <2>3, <2>4, <2>5
<1> QED
  BY <1>1, <1>3, <1>4, <1>5 DEF BuffersInv

-----------------------------------------------------------------------------
(* Reference counts *)

LEMMA CountsUsers ==
    ASSUME BuffersInv, NEW b \in Blocks
    PROVE  /\ count[b] \in Nat
           /\ count[b] = Cardinality(Referring(Refs, b))
           /\ \A h \in Handles : buf[h].block = b => count[b] > 0
           /\ mem[b] # <<>> <=> count[b] > 0
<1>1. count[b] = Cardinality(Users(b)) /\ (mem[b] # <<>> <=> Users(b) # {})
  BY DEF BuffersInv, CountExact
<1>2. Users(b) = Referring(Refs, b)
  BY UsersReferring
<1>3. count[b] \in Nat /\ (count[b] = 0 <=> Users(b) = {})
  BY <1>1, <1>2, ReferringFinite
<1>4. \A h \in Handles : buf[h].block = b => Users(b) # {}
  BY DEF Users
<1> QED
  BY <1>1, <1>2, <1>3, <1>4

\* A block with two users is not freed when one of them gives it up.
LEMMA TwoUsers ==
    ASSUME BuffersInv, NEW b \in Blocks, NEW g \in Handles, NEW h \in Handles,
           g # h, buf[g].block = b, buf[h].block = b
    PROVE  count[b] # 1
<1>1. g \in Users(b) /\ h \in Users(b)
  BY DEF Users
<1>2. IsFiniteSet(Users(b))
  BY UsersReferring, ReferringFinite
<1>3. Cardinality(Users(b)) # 1
  BY <1>1, <1>2, FS_Singleton
<1> QED
  BY <1>3 DEF BuffersInv, CountExact

LEMMA CountExactAgain ==
    ASSUME \A b \in Blocks : count'[b] = Cardinality(Referring(Refs', b)),
           \A b \in Blocks : mem'[b] # <<>> <=> count'[b] # 0
    PROVE  CountExact'
<1>1. \A b : Users(b)' = Referring(Refs', b)
  BY DEF Users, Referring, Refs
<1>2. \A b \in Blocks : Cardinality(Referring(Refs', b)) = 0 <=> Users(b)' = {}
  BY <1>1, ReferringFinite
<1> QED
  BY <1>1, <1>2 DEF CountExact

\* The references when one handle is changed
LEMMA RefsExcept ==
    ASSUME BuffersInv, NEW h \in Handles, NEW r, buf' = [buf EXCEPT ![h] = r]
    PROVE  \A b \in Blocks : Cardinality(Referring(Refs', b)) =
               count[b] - One(buf[h].block, b) + One(r.block, b)
<1>1. /\ AsideFrom(h, Refs, Refs')
      /\ Refs'[h] = r.block
      /\ Refs[h] = buf[h].block
  BY DEF Refs, BuffersInv, TypeOK, AsideFrom
<1> TAKE b \in Blocks
<1>2. Cardinality(Referring(Refs', b)) =
          Cardinality(Referring(Refs, b)) - One(Refs[h], b) + One(Refs'[h], b)
  BY <1>1, ReferringExcept
<1>3. count[b] = Cardinality(Referring(Refs, b))
  BY CountsUsers
<1> QED
  BY <1>1, <1>2, <1>3

-----------------------------------------------------------------------------
(* A handle that gives up its memory *)

\* The counts after h refers to block y, which is none or has a user already
LEMMA SharedCounts ==
    ASSUME BuffersInv, NEW h \in Handles, NEW r,
           buf' = [buf EXCEPT ![h] = r],
           count' = Retained(Released(count, buf[h].block), r.block)
    PROVE  /\ count' \in [Blocks -> Nat]
           /\ \A b \in Blocks : count'[b] = Cardinality(Referring(Refs', b))
           /\ \A b \in Blocks : count'[b] =
                  count[b] - One(buf[h].block, b) + One(r.block, b)
<1>1. count \in [Blocks -> Nat]
  BY DEF BuffersInv, TypeOK
<1>2. \A b \in Blocks : count'[b] =
          count[b] - One(buf[h].block, b) + One(r.block, b)
  BY <1>1 DEF Retained, Released, One
<1>3. \A b \in Blocks : buf[h].block = b => count[b] > 0
  BY CountsUsers
<1>4. \A b \in Blocks : count'[b] \in Nat
  BY <1>1, <1>2, <1>3 DEF One
<1>5. count' \in [Blocks -> Nat]
  BY <1>1, <1>4 DEF Retained, Released
<1>6. \A b \in Blocks : count'[b] = Cardinality(Referring(Refs', b))
  BY <1>2, RefsExcept
<1> QED
  BY <1>2, <1>5, <1>6

LEMMA FreedMemory ==
    ASSUME BuffersInv, NEW h \in Handles
    PROVE  LET x == buf[h].block
           IN  /\ Freed(x) \in [Blocks \union {Static} -> Seq(Bytes)]
               /\ Freed(x)[Static] = mem[Static]
               /\ \A b \in Blocks : Freed(x)[b] =
                      IF b = x /\ count[b] = 1 THEN <<>> ELSE mem[b]
               /\ \A g \in Handles \ {h} : buf[g].block # None =>
                      Freed(x)[buf[g].block] = mem[buf[g].block]
<1> DEFINE x == buf[h].block
<1>1. mem \in [Blocks \union {Static} -> Seq(Bytes)]
  BY DEF BuffersInv, TypeOK
<1>2. Freed(x) \in [Blocks \union {Static} -> Seq(Bytes)]
  <2>1. <<>> \in Seq(Bytes)
    OBVIOUS
  <2> QED
    BY <1>1, <2>1 DEF Freed
<1>3. Freed(x)[Static] = mem[Static]
  BY <1>1, AddressesAssumption DEF Freed
<1>4. \A b \in Blocks : Freed(x)[b] = IF b = x /\ count[b] = 1 THEN <<>> ELSE mem[b]
  BY <1>1 DEF Freed
<1>5. \A g \in Handles \ {h} : buf[g].block # None =>
          Freed(x)[buf[g].block] = mem[buf[g].block]
  <2> SUFFICES ASSUME NEW g \in Handles \ {h}, buf[g].block # None
               PROVE  Freed(x)[buf[g].block] = mem[buf[g].block]
    OBVIOUS
  <2>1. buf[g].block \in Blocks \union {Static}
    BY RecordFields DEF BuffersInv
  <2>2. CASE buf[g].block = Static
    BY <1>3, <2>2
  <2>3. CASE buf[g].block \in Blocks
    <3>1. ~(buf[g].block = x /\ count[buf[g].block] = 1)
      BY <2>3, TwoUsers
    <3> QED
      BY <1>4, <2>3, <3>1
  <2> QED
    BY <2>1, <2>2, <2>3
<1> HIDE DEF x
<1>6. /\ Freed(x) \in [Blocks \union {Static} -> Seq(Bytes)]
      /\ Freed(x)[Static] = mem[Static]
      /\ \A b \in Blocks : Freed(x)[b] =
             IF b = x /\ count[b] = 1 THEN <<>> ELSE mem[b]
      /\ \A g \in Handles \ {h} : buf[g].block # None =>
             Freed(x)[buf[g].block] = mem[buf[g].block]
  BY <1>2, <1>3, <1>4, <1>5
<1> QED
  BY <1>6 DEF x

\* h refers to nothing, or to a part of what another handle refers to.
LEMMA ShareKeeps ==
    ASSUME BuffersInv, NEW h \in Handles, NEW r \in Handle, Share(h, r),
           Marked({h}), NoSpare(r) \/ h \in misfit',
           h \in Buffers => r.cap = 0,
           r.block = None => r.size = 0,
           r.block # None => \E o \in Handles \ {h} :
                                 /\ buf[o].block = r.block
                                 /\ EndOf(r) <= EndOf(buf[o])
    PROVE  /\ BuffersInv'
           /\ Others({h})
           /\ buf'[h] = r
           /\ r.block # None => mem'[r.block] = mem[r.block]
<1> DEFINE x == buf[h].block
<1>1. /\ buf' = [buf EXCEPT ![h] = r]
      /\ count' = Retained(Released(count, x), r.block)
      /\ mem' = IF r.block = x THEN mem ELSE Freed(x)
  BY DEF Share
<1>2. /\ count' \in [Blocks -> Nat]
      /\ \A b \in Blocks : count'[b] = Cardinality(Referring(Refs', b))
      /\ \A b \in Blocks : count'[b] = count[b] - One(x, b) + One(r.block, b)
  BY <1>1, SharedCounts
<1>3. /\ Freed(x) \in [Blocks \union {Static} -> Seq(Bytes)]
      /\ Freed(x)[Static] = mem[Static]
      /\ \A b \in Blocks : Freed(x)[b] =
             IF b = x /\ count[b] = 1 THEN <<>> ELSE mem[b]
      /\ \A g \in Handles \ {h} : buf[g].block # None =>
             Freed(x)[buf[g].block] = mem[buf[g].block]
  BY FreedMemory
<1>4. buf'[h] = r /\ \A g \in Handles \ {h} : buf'[g] = buf[g]
  BY <1>1 DEF BuffersInv, TypeOK
<1> HIDE DEF x
<1>5. Others({h})
  BY <1>1, <1>3, <1>4 DEF Others
<1>6. r.block # None => mem'[r.block] = mem[r.block]
  BY <1>1, <1>3
<1>7. mem' \in [Blocks \union {Static} -> Seq(Bytes)] /\ Len(mem'[Static]) = MaxSize
  BY <1>1, <1>3 DEF BuffersInv, TypeOK
<1>8. \A b \in Blocks : mem'[b] # <<>> <=> count'[b] # 0
  <2> TAKE b \in Blocks
  <2>1. count[b] \in Nat /\ (mem[b] # <<>> <=> count[b] > 0)
    BY CountsUsers
  <2>2. x = b => count[b] > 0
    BY CountsUsers DEF x
  <2>3. r.block = b => count[b] > 0
    BY CountsUsers, AddressesAssumption
  <2>4. count'[b] = count[b] - One(x, b) + One(r.block, b)
    BY <1>2
  <2>5. CASE r.block = b
    <3>1. mem'[b] = mem[b]
      BY <1>6, <2>5, AddressesAssumption
    <3> QED
      BY <2>1, <2>2, <2>3, <2>4, <2>5, <3>1 DEF One
  <2>6. CASE r.block # b /\ x = b
    <3>1. mem'[b] = IF count[b] = 1 THEN <<>> ELSE mem[b]
      BY <1>1, <1>3, <2>6
    <3> QED
      BY <2>1, <2>2, <2>4, <2>6, <3>1 DEF One
  <2>7. CASE r.block # b /\ x # b
    <3>1. mem'[b] = mem[b]
      BY <1>1, <1>3, <2>7
    <3> QED
      BY <2>1, <2>4, <2>7, <3>1 DEF One
  <2> QED
    BY <2>5, <2>6, <2>7
<1>9. CountExact'
  BY <1>2, <1>8, CountExactAgain
<1>10. r.block # None =>
           /\ EndOf(r) <= Len(mem'[r.block])
           /\ h \notin misfit' => r.off + r.cap <= Len(mem'[r.block])
  <2> SUFFICES ASSUME r.block # None
               PROVE  /\ EndOf(r) <= Len(mem'[r.block])
                      /\ h \notin misfit' => r.off + r.cap <= Len(mem'[r.block])
    OBVIOUS
  <2>1. PICK o \in Handles \ {h} : buf[o].block = r.block /\ EndOf(r) <= EndOf(buf[o])
    OBVIOUS
  <2>2. EndOf(buf[o]) <= Len(mem[r.block])
    BY <2>1 DEF BuffersInv, InBounds, EndOf
  <2>3. EndOf(buf[o]) \in Nat /\ Len(mem[r.block]) \in Nat
    BY <2>1, RecordFields DEF BuffersInv, EndOf
  <2>4. r.off \in Nat /\ r.size \in Nat /\ r.cap \in Nat
    BY DEF Handle
  <2> QED
    BY <1>6, <2>1, <2>2, <2>3, <2>4 DEF EndOf, NoSpare
<1>11. BuffersInv'
  BY <1>1, <1>2, <1>5, <1>7, <1>9, <1>10, Placed
<1> QED
  BY <1>4, <1>5, <1>6, <1>11

\* h gets memory of its own.
LEMMA OwnKeeps ==
    ASSUME BuffersInv, NEW h \in Handles, NEW s \in Seq(Bytes),
           NEW size \in Nat, NEW cap \in Nat, size <= Len(s), cap <= Len(s),
           h \in Buffers => cap = 0, misfit' = misfit,
           Own(h, s, size, cap)
    PROVE  /\ BuffersInv'
           /\ Others({h})
           /\ buf'[h].size = size
           /\ Value(h)' = SubSeq(s, 1, size)
<1> DEFINE x == buf[h].block
<1>1. PICK b \in Free :
          /\ buf' = [buf EXCEPT ![h] = [block |-> b, off |-> 0, size |-> size,
                                        cap |-> cap]]
          /\ count' = [Released(count, x) EXCEPT ![b] = 1]
          /\ mem' = [Freed(x) EXCEPT ![b] = s]
  BY DEF Own
<1> DEFINE r == [block |-> b, off |-> 0, size |-> size, cap |-> cap]
<1>2. b \in Blocks /\ mem[b] = <<>> /\ b # None /\ b # Static
  BY AddressesAssumption DEF Free
<1>3. count[b] = 0 /\ \A g \in Handles : buf[g].block # b
  BY <1>2, CountsUsers
<1>4. /\ Freed(x) \in [Blocks \union {Static} -> Seq(Bytes)]
      /\ Freed(x)[Static] = mem[Static]
      /\ \A c \in Blocks : Freed(x)[c] =
             IF c = x /\ count[c] = 1 THEN <<>> ELSE mem[c]
      /\ \A g \in Handles \ {h} : buf[g].block # None =>
             Freed(x)[buf[g].block] = mem[buf[g].block]
  BY FreedMemory
<1>5. x # b
  BY <1>3
<1>6. /\ r \in Handle /\ r.block = b /\ r.off = 0 /\ r.size = size /\ r.cap = cap
      /\ EndOf(r) = size
  BY <1>2 DEF Handle, EndOf
<1>7. buf' = [buf EXCEPT ![h] = r]
  BY <1>1
<1>8. buf'[h] = r /\ \A g \in Handles \ {h} : buf'[g] = buf[g]
  BY <1>7 DEF BuffersInv, TypeOK
<1>9. \A c \in Blocks : x = c => count[c] > 0
  BY CountsUsers
<1> HIDE DEF r, x
<1>10. mem' \in [Blocks \union {Static} -> Seq(Bytes)] /\ Len(mem'[Static]) = MaxSize
  BY <1>1, <1>2, <1>4 DEF BuffersInv
<1>11. mem'[b] = s /\ \A c \in Blocks \ {b} : mem'[c] = Freed(x)[c]
  BY <1>1, <1>2, <1>4
<1>12. Others({h})
  <2> SUFFICES ASSUME NEW g \in Handles \ {h}, buf[g].block # None
               PROVE  mem'[buf[g].block] = mem[buf[g].block]
    BY <1>8 DEF Others
  <2>1. buf[g].block \in Blocks \union {Static} /\ buf[g].block # b
    BY <1>3, RecordFields DEF BuffersInv
  <2> QED
    BY <1>1, <1>2, <1>4, <2>1
<1>13. count \in [Blocks -> Nat]
  BY DEF BuffersInv, TypeOK
<1>14. \A c \in Blocks : count'[c] = count[c] - One(x, c) + One(b, c)
  BY <1>1, <1>2, <1>3, <1>5, <1>13 DEF Released, One
<1>15. \A c \in Blocks : count'[c] \in Nat
  BY <1>9, <1>13, <1>14 DEF One
<1>16. count' \in [Blocks -> Nat]
  BY <1>1, <1>13, <1>15 DEF Released
<1>17. \A c \in Blocks : count'[c] = Cardinality(Referring(Refs', c))
  BY <1>6, <1>7, <1>14, RefsExcept DEF x
<1>18. s # <<>>
  BY DEF Own
<1>19. \A c \in Blocks : mem'[c] # <<>> <=> count'[c] # 0
  <2> TAKE c \in Blocks
  <2>1. count[c] \in Nat /\ (mem[c] # <<>> <=> count[c] > 0)
    BY CountsUsers
  <2>2. count'[c] = count[c] - One(x, c) + One(b, c)
    BY <1>14
  <2>3. CASE c = b
    BY <1>3, <1>5, <1>11, <1>18, <2>2, <2>3 DEF One
  <2>4. CASE c # b
    <3>1. mem'[c] = IF c = x /\ count[c] = 1 THEN <<>> ELSE mem[c]
      BY <1>4, <1>11, <2>4
    <3> QED
      BY <1>9, <2>1, <2>2, <2>4, <3>1 DEF One
  <2> QED
    BY <2>3, <2>4
<1>20. CountExact'
  BY <1>17, <1>19, CountExactAgain
<1>21. EndOf(r) <= Len(mem'[r.block]) /\ r.off + r.cap <= Len(mem'[r.block])
  BY <1>6, <1>11
<1>22. \A g \in Handles \ {h} : buf[g].block # r.block
  BY <1>3, <1>6
<1>25. Marked({h})
  BY DEF Marked, BuffersInv, TypeOK
<1>23. BuffersInv'
  BY <1>2, <1>6, <1>7, <1>10, <1>12, <1>16, <1>20, <1>21, <1>22, <1>25, Placed
<1>24. Value(h)' = SubSeq(s, 1, size)
  BY <1>2, <1>6, <1>8, <1>11 DEF Value
<1> QED
  BY <1>6, <1>8, <1>12, <1>23, <1>24

-----------------------------------------------------------------------------
(* Moves and swaps *)

Untouched(C) == \A g \in Handles \ C : buf'[g] = buf[g]

LEMMA RefsExceptTwo ==
    ASSUME BuffersInv, NEW h \in Handles, NEW o \in Handles, h # o,
           Untouched({h, o}), NEW b \in Blocks
    PROVE  Cardinality(Referring(Refs', b)) =
               count[b] - One(buf[h].block, b) - One(buf[o].block, b)
                        + One(buf'[h].block, b) + One(buf'[o].block, b)
<1> DEFINE f == [Refs EXCEPT ![h] = buf'[h].block]
<1>1. /\ AsideFrom(h, Refs, f) /\ AsideFrom(o, f, Refs')
      /\ Refs[h] = buf[h].block /\ f[h] = buf'[h].block
      /\ f[o] = buf[o].block /\ Refs'[o] = buf'[o].block
  BY DEF Refs, Untouched, AsideFrom
<1> HIDE DEF f
<1>2. Cardinality(Referring(f, b)) =
          Cardinality(Referring(Refs, b)) - One(Refs[h], b) + One(f[h], b)
  BY <1>1, ReferringExcept
<1>3. Cardinality(Referring(Refs', b)) =
          Cardinality(Referring(f, b)) - One(f[o], b) + One(Refs'[o], b)
  BY <1>1, ReferringExcept
<1>4. count[b] = Cardinality(Referring(Refs, b)) /\ count[b] \in Nat
  BY CountsUsers
<1>5. One(Refs[h], b) \in Nat /\ One(f[h], b) \in Nat /\ One(f[o], b) \in Nat
      /\ One(Refs'[o], b) \in Nat
  BY DEF One
<1> QED
  BY <1>1, <1>2, <1>3, <1>4, <1>5

\* No handle but h and o, which exchange their memory or pass it on, is touched.
LEMMA Exchanged ==
    ASSUME BuffersInv, NEW h \in Handles, NEW o \in Handles, h # o,
           NEW r \in Handle, NEW q \in Handle,
           buf' = [buf EXCEPT ![h] = r, ![o] = q],
           Others({h, o}),
           mem' \in [Blocks \union {Static} -> Seq(Bytes)],
           mem'[Static] = mem[Static],
           count' \in [Blocks -> Nat], CountExact',
           h \in Buffers => r.cap = 0, o \in Buffers => q.cap = 0,
           r.block = buf[o].block, r.off = buf[o].off, r.size = buf[o].size,
           r.block # None => mem'[r.block] = mem[r.block],
           Marked({h, o}),
           \/ NoSpare(r) \/ h \in misfit'
           \/ o \in Mutables /\ r = buf[o] /\ o \notin misfit,
           NoSpare(q) \/ o \in misfit',
           \/ q.block = None /\ q.size = 0
           \/ /\ q.block = buf[h].block /\ q.off = buf[h].off /\ q.size = buf[h].size
              /\ NoSpare(r) \/ h \in misfit'
              /\ mem' = mem
    PROVE  BuffersInv'
<1>1. TypeOK'
  BY DEF BuffersInv, TypeOK, Marked
<1>2. /\ buf'[h] = r /\ buf'[o] = q
      /\ \A g \in Handles \ {h, o} : buf'[g] = buf[g]
  BY DEF BuffersInv, TypeOK
<1>6. \A g \in Handles \ {h, o} : Spare(g)' <=> Spare(g)
  BY <1>2, SpareOf DEF Marked, Spare
<1>7. ~Spare(o)'
  BY <1>2, SpareOf
<1>8. Spare(h)' => /\ o \in Mutables /\ r = buf[o] /\ Spare(o)
                   /\ q.block = None
  BY <1>2, SpareOf DEF Spare
<1>3. Shape'
  <2> SUFFICES ASSUME NEW g \in Handles
               PROVE  /\ g \in Buffers => buf'[g].cap = 0
                      /\ buf'[g].block = None => buf'[g].size = 0
                      /\ buf'[g].block \in {None, Static} => ~Spare(g)'
    BY DEF Shape
  <2>1. \A k \in Handles : /\ k \in Buffers => buf[k].cap = 0
                           /\ buf[k].block = None => buf[k].size = 0
                           /\ buf[k].block \in {None, Static} => ~Spare(k)
    BY DEF BuffersInv, Shape
  <2>2. CASE g \notin {h, o}
    BY ZenonT(60), <1>2, <1>6, <2>1, <2>2
  <2>3. CASE g = h
    <3>1. buf'[g] = r
      BY <1>2, <2>3
    <3>2. r.block \in {None, Static} => ~Spare(h)'
      BY <1>8, <2>1
    <3>3. r.block = None => r.size = 0
      BY <2>1
    <3> QED
      BY <2>3, <3>1, <3>2, <3>3
  <2>4. CASE g = o
    <3>1. buf'[g] = q
      BY <1>2, <2>4
    <3>2. q.block = None => q.size = 0
      BY <2>1
    <3> QED
      BY <1>7, <2>4, <3>1, <3>2
  <2> QED
    BY <2>2, <2>3, <2>4
<1>4. InBounds'
  <2> SUFFICES ASSUME NEW g \in Handles, buf'[g].block # None
               PROVE  /\ buf'[g].off + buf'[g].size <= Len(mem'[buf'[g].block])
                      /\ g \notin misfit' =>
                             buf'[g].off + buf'[g].cap <= Len(mem'[buf'[g].block])
    BY DEF InBounds
  <2>1. \A k \in Handles : buf[k].block # None =>
            /\ buf[k].off + buf[k].size <= Len(mem[buf[k].block])
            /\ k \notin misfit => buf[k].off + buf[k].cap <= Len(mem[buf[k].block])
            /\ Len(mem[buf[k].block]) \in Nat
            /\ buf[k].off \in Nat /\ buf[k].size \in Nat /\ buf[k].cap \in Nat
    BY RecordFields DEF BuffersInv, InBounds
  <2>2. r.off \in Nat /\ r.cap \in Nat /\ q.cap \in Nat
    BY DEF Handle
  <2>3. CASE g \notin {h, o}
    <3>1. buf'[g] = buf[g] /\ (g \in misfit' <=> g \in misfit)
      BY ZenonT(60), <1>2, <2>3 DEF Marked
    <3>2. buf[g].block # None /\ mem'[buf[g].block] = mem[buf[g].block]
      BY ZenonT(60), <3>1, <2>3 DEF Others
    <3> QED
      BY ZenonT(60), <2>1, <3>1, <3>2
  <2>4. CASE g = h
    <3>1. buf'[g] = r /\ buf[o].block # None /\ mem'[r.block] = mem[buf[o].block]
      BY <1>2, <2>4
    <3>2. /\ buf[o].off + buf[o].size <= Len(mem[buf[o].block])
          /\ o \notin misfit => buf[o].off + buf[o].cap <= Len(mem[buf[o].block])
          /\ Len(mem[buf[o].block]) \in Nat
          /\ buf[o].off \in Nat /\ buf[o].size \in Nat /\ buf[o].cap \in Nat
      BY <2>1, <3>1
    <3>3. r.off + r.size <= Len(mem[buf[o].block])
      BY <3>2
    <3>4. h \notin misfit' => r.off + r.cap <= Len(mem[buf[o].block])
      <4>1. CASE NoSpare(r)
        <5>1. r.cap <= buf[o].size /\ r.off = buf[o].off
          BY <4>1 DEF NoSpare
        <5> QED
          BY SMTT(60), <2>2, <3>2, <5>1
      <4>2. CASE r = buf[o] /\ o \notin misfit
        BY <3>2, <4>2
      <4> QED
        BY <4>1, <4>2
    <3> QED
      BY <2>4, <3>1, <3>3, <3>4
  <2>5. CASE g = o
    <3>1. buf'[g] = q /\ q.block # None
      BY <1>2, <2>5
    <3>2. buf[h].block # None /\ mem'[q.block] = mem[buf[h].block]
          /\ q.off = buf[h].off /\ q.size = buf[h].size
      BY <3>1
    <3>3. q.off + q.size <= Len(mem[buf[h].block])
      BY <2>1, <3>2
    <3>4. o \notin misfit' => q.off + q.cap <= Len(mem[buf[h].block])
      <4> SUFFICES ASSUME o \notin misfit'
                   PROVE  q.off + q.cap <= Len(mem[buf[h].block])
        OBVIOUS
      <4>1. q.cap <= buf[h].size
        BY <3>2 DEF NoSpare
      <4> QED
        BY SMTT(60), <2>1, <2>2, <3>2, <4>1
    <3> QED
      BY <2>5, <3>1, <3>2, <3>3, <3>4
  <2> QED
    BY <2>3, <2>4, <2>5
<1>5. SpareIsPrivate'
  <2> SUFFICES ASSUME NEW m \in Mutables, NEW g \in Handles, g # m,
                      buf'[m].block # None, buf'[g].block = buf'[m].block,
                      Spare(m)'
               PROVE  EndOf(buf'[g]) <= EndOf(buf'[m]) /\ ~Spare(g)'
    BY DEF SpareIsPrivate, EndOf
  <2>1. m \in Handles
    BY DEF Handles
  <2>2. \A n \in Mutables, k \in Handles :
            k # n /\ buf[n].block # None /\ buf[k].block = buf[n].block /\ Spare(n)
               => EndOf(buf[k]) <= EndOf(buf[n]) /\ ~Spare(k)
    BY DEF BuffersInv, SpareIsPrivate, EndOf
  <2>3. m # o
    BY <1>7
  <2>4. CASE m = h
    <3>1. o \in Mutables /\ r = buf[o] /\ Spare(o) /\ q.block = None
      BY <1>8, <2>4
    <3>2. g \notin {h, o} /\ buf'[m] = buf[o]
      BY <1>2, <2>4, <3>1
    <3>3. buf'[g] = buf[g] /\ (Spare(g)' <=> Spare(g))
      BY ZenonT(60), <1>2, <1>6, <3>2
    <3>4. g # o /\ buf[o].block # None /\ buf[g].block = buf[o].block
      BY <3>2, <3>3
    <3>5. EndOf(buf[g]) <= EndOf(buf[o]) /\ ~Spare(g)
      BY <2>2, <3>1, <3>4
    <3> QED
      BY <3>2, <3>3, <3>5
  <2>5. CASE m # h
    <3>1. buf'[m] = buf[m] /\ Spare(m) /\ buf[m].block # None
      BY <1>2, <1>6, <2>1, <2>3, <2>5
    <3>2. CASE g \notin {h, o}
      <4>1. buf'[g] = buf[g] /\ (Spare(g)' <=> Spare(g))
        BY ZenonT(60), <1>2, <1>6, <3>2
      <4>2. buf[g].block = buf[m].block
        BY <3>1, <4>1
      <4>3. EndOf(buf[g]) <= EndOf(buf[m]) /\ ~Spare(g)
        BY <2>2, <3>1, <4>2
      <4> QED
        BY <3>1, <4>1, <4>3
    <3>3. CASE g = h
      <4>1. buf'[g] = r /\ o # m /\ buf[o].block = buf[m].block
        BY <1>2, <2>3, <3>1, <3>3
      <4>2. EndOf(buf[o]) <= EndOf(buf[m]) /\ ~Spare(o)
        BY <2>2, <3>1, <4>1
      <4>3. ~Spare(h)'
        BY <1>8, <4>2
      <4>4. EndOf(r) = EndOf(buf[o])
        BY DEF EndOf
      <4> QED
        BY <3>1, <3>3, <4>1, <4>2, <4>3, <4>4
    <3>4. CASE g = o
      <4>1. buf'[g] = q /\ q.block # None
        BY <1>2, <3>1, <3>4
      <4>2. q.block = buf[h].block /\ EndOf(q) = EndOf(buf[h]) /\ h # m
        BY <2>5, <4>1 DEF EndOf
      <4>3. buf[h].block = buf[m].block
        BY <3>1, <4>1, <4>2
      <4>4. EndOf(buf[h]) <= EndOf(buf[m])
        BY <2>2, <3>1, <4>2, <4>3
      <4> QED
        BY <1>7, <3>1, <3>4, <4>1, <4>2, <4>4
    <3> QED
      BY <3>2, <3>3, <3>4
  <2> QED
    BY <2>4, <2>5
<1> QED
  BY <1>1, <1>3, <1>4, <1>5 DEF BuffersInv

LEMMA MoveKeeps ==
    ASSUME BuffersInv, NEW h \in Handles, NEW o \in Handles, MoveTo(h, o)
    PROVE  /\ BuffersInv'
           /\ Others({h, o})
           /\ Value(h)' = Value(o)
           /\ Value(o)' = <<>>
<1> DEFINE x == buf[h].block
           r == [buf[o] EXCEPT !.cap = IF h \in Mutables THEN @ ELSE 0]
           q == [Empty EXCEPT !.cap = buf[o].cap]
<1>1. /\ h # o
      /\ buf' = [buf EXCEPT ![h] = r, ![o] = q]
      /\ count' = Released(count, x)
      /\ mem' = Freed(x)
      /\ misfit' = (misfit \ {h, o}) \union (IF o \in misfit THEN {h} \ Buffers ELSE {})
                                       \union (IF buf[o].cap > 0 THEN {o} ELSE {})
  BY DEF MoveTo
<1>2. /\ buf[o] \in Handle /\ buf[o].cap \in Nat
      /\ h \in Buffers \/ h \in Mutables
      /\ o \in Buffers \/ o \in Mutables
      /\ ~(h \in Buffers /\ h \in Mutables)
  BY RecordFields, HandlesAssumption DEF BuffersInv, Handles
<1>3. /\ r \in Handle
      /\ r.block = buf[o].block /\ r.off = buf[o].off /\ r.size = buf[o].size
      /\ r.cap = IF h \in Mutables THEN buf[o].cap ELSE 0
      /\ h \in Mutables => r = buf[o]
  BY <1>2 DEF Handle
<1>4. q \in Handle /\ q.block = None /\ q.size = 0 /\ q.cap = buf[o].cap
  BY <1>2 DEF Handle, Empty
<1>5. /\ mem' \in [Blocks \union {Static} -> Seq(Bytes)]
      /\ mem'[Static] = mem[Static]
      /\ \A b \in Blocks : mem'[b] = IF b = x /\ count[b] = 1 THEN <<>> ELSE mem[b]
      /\ \A g \in Handles \ {h} : buf[g].block # None =>
             mem'[buf[g].block] = mem[buf[g].block]
  BY <1>1, FreedMemory
<1>7. /\ buf'[h] = r /\ buf'[o] = q
      /\ \A g \in Handles \ {h, o} : buf'[g] = buf[g]
  BY <1>1 DEF BuffersInv, TypeOK
<1>8. \A b \in Blocks : x = b => count[b] > 0
  BY CountsUsers
<1>9. o \in Buffers => buf[o].cap = 0
  BY DEF BuffersInv, Shape
<1> HIDE DEF x, r, q
<1>6. \A b \in Blocks : Cardinality(Referring(Refs', b)) =
          count[b] - One(x, b) - One(buf[o].block, b) + One(r.block, b) + One(q.block, b)
  <2>1. Untouched({h, o})
    BY <1>7 DEF Untouched
  <2>2. h # o
    BY <1>1
  <2> TAKE b \in Blocks
  <2>3. Cardinality(Referring(Refs', b)) =
            count[b] - One(buf[h].block, b) - One(buf[o].block, b)
                     + One(buf'[h].block, b) + One(buf'[o].block, b)
    BY <2>1, <2>2, RefsExceptTwo, Zenon
  <2> QED
    BY <1>7, <2>3, Zenon DEF x
<1>10. count \in [Blocks -> Nat]
  BY DEF BuffersInv, TypeOK
<1>11. \A b \in Blocks : count'[b] = count[b] - One(x, b)
  BY <1>1, <1>10 DEF Released, One
<1>12. \A b \in Blocks : count'[b] \in Nat
  BY <1>8, <1>10, <1>11 DEF One
<1>13. count' \in [Blocks -> Nat]
  BY <1>1, <1>10, <1>12 DEF Released
<1>14. \A b \in Blocks : count'[b] = Cardinality(Referring(Refs', b))
  <2> TAKE b \in Blocks
  <2>1. One(q.block, b) = 0 /\ One(r.block, b) = One(buf[o].block, b)
    BY <1>3, <1>4, AddressesAssumption DEF One
  <2>2. One(x, b) \in Nat /\ One(buf[o].block, b) \in Nat /\ count[b] \in Nat
    BY <1>10 DEF One
  <2> QED
    BY <1>6, <1>11, <2>1, <2>2
<1>15. \A b \in Blocks : mem'[b] # <<>> <=> count'[b] # 0
  <2> TAKE b \in Blocks
  <2>1. count[b] \in Nat /\ (mem[b] # <<>> <=> count[b] > 0)
    BY CountsUsers
  <2>2. CASE x = b
    BY <1>5, <1>8, <1>11, <2>1, <2>2 DEF One
  <2>3. CASE x # b
    BY <1>5, <1>11, <2>1, <2>3 DEF One
  <2> QED
    BY <2>2, <2>3
<1>16. CountExact'
  BY <1>14, <1>15, CountExactAgain
<1>17. Others({h, o})
  BY <1>5, <1>7 DEF Others
<1>18. r.block # None => mem'[r.block] = mem[r.block]
  BY <1>1, <1>3, <1>5
<1>19. \/ NoSpare(r) \/ h \in misfit'
       \/ o \in Mutables /\ r = buf[o] /\ o \notin misfit
  <2>1. CASE h \in Buffers \/ o \in Buffers
    <3>1. r.cap = 0 /\ r.size \in Nat
      BY <1>2, <1>3, <1>9, <2>1, RecordFields DEF BuffersInv
    <3> QED
      BY <3>1 DEF NoSpare
  <2> QED
    BY <1>1, <1>2, <1>3, <2>1
<1>20. NoSpare(q) \/ o \in misfit'
  BY <1>1, <1>2, <1>4 DEF NoSpare
<1>25. Marked({h, o})
  <2>1. o \in Mutables \/ buf[o].cap = 0
    BY <1>2, <1>9
  <2>2. h \in Mutables \/ h \in Buffers
    BY <1>2
  <2>3. misfit \subseteq Mutables
    BY DEF BuffersInv, TypeOK
  <2> QED
    BY <1>1, <2>1, <2>2, <2>3 DEF Marked
<1>21. (h \in Buffers => r.cap = 0) /\ (o \in Buffers => q.cap = 0)
  BY <1>2, <1>3, <1>4, <1>9
<1>22. BuffersInv'
  BY <1>1, <1>3, <1>4, <1>5, <1>13, <1>16, <1>17, <1>18, <1>19, <1>20, <1>21,
     <1>25, Exchanged
<1>23. Value(h)' = Value(o)
  BY <1>3, <1>7, <1>18 DEF Value
<1>24. Value(o)' = <<>>
  BY <1>4, <1>7 DEF Value
<1> QED
  BY <1>17, <1>22, <1>23, <1>24

LEMMA SwapKeeps ==
    ASSUME BuffersInv, NEW h \in Handles, NEW o \in Handles, Swap(h, o)
    PROVE  /\ BuffersInv'
           /\ Others({h, o})
           /\ Value(h)' = Value(o)
           /\ Value(o)' = Value(h)
<1> DEFINE r == [buf[o] EXCEPT !.cap = buf[h].cap]
           q == [buf[h] EXCEPT !.cap = IF o \in Mutables THEN buf[h].size ELSE 0]
<1>1. /\ h # o
      /\ buf' = [buf EXCEPT ![h] = r, ![o] = q]
      /\ count' = count /\ mem' = mem
      /\ misfit' = IF NoSpare(r) THEN misfit \ {h, o} ELSE (misfit \ {o}) \union {h}
  BY DEF Swap
<1>2. /\ buf[o] \in Handle /\ buf[o].size \in Nat
      /\ buf[h] \in Handle /\ buf[h].size \in Nat /\ buf[h].cap \in Nat
      /\ ~(o \in Buffers /\ o \in Mutables)
      /\ h \in Buffers => buf[h].cap = 0
      /\ h \in Buffers \/ h \in Mutables
  BY RecordFields, HandlesAssumption DEF BuffersInv, Shape, Handles
<1>3. /\ r \in Handle
      /\ r.block = buf[o].block /\ r.off = buf[o].off /\ r.size = buf[o].size
      /\ h \in Buffers => r.cap = 0 /\ NoSpare(r)
  BY <1>2 DEF Handle, NoSpare
<1>4. /\ q \in Handle /\ NoSpare(q)
      /\ q.block = buf[h].block /\ q.off = buf[h].off /\ q.size = buf[h].size
      /\ o \in Buffers => q.cap = 0
  BY <1>2 DEF Handle, NoSpare
<1>6. /\ buf'[h] = r /\ buf'[o] = q
      /\ \A g \in Handles \ {h, o} : buf'[g] = buf[g]
  BY <1>1 DEF BuffersInv, TypeOK
<1> HIDE DEF r, q
<1>5. \A b \in Blocks : Cardinality(Referring(Refs', b)) =
          count[b] - One(buf[h].block, b) - One(buf[o].block, b)
                   + One(r.block, b) + One(q.block, b)
  <2>1. Untouched({h, o})
    BY <1>6 DEF Untouched
  <2>2. h # o
    BY <1>1
  <2> TAKE b \in Blocks
  <2>3. Cardinality(Referring(Refs', b)) =
            count[b] - One(buf[h].block, b) - One(buf[o].block, b)
                     + One(buf'[h].block, b) + One(buf'[o].block, b)
    BY <2>1, <2>2, RefsExceptTwo, Zenon
  <2> QED
    BY <1>6, <2>3, Zenon
<1>7. count' \in [Blocks -> Nat]
      /\ mem' \in [Blocks \union {Static} -> Seq(Bytes)]
  BY <1>1 DEF BuffersInv, TypeOK
<1>8. \A b \in Blocks : count'[b] = Cardinality(Referring(Refs', b))
  <2> TAKE b \in Blocks
  <2>1. /\ One(buf[h].block, b) \in Nat /\ One(buf[o].block, b) \in Nat
        /\ count[b] \in Nat
    BY <1>1, <1>7 DEF One
  <2> QED
    BY <1>1, <1>3, <1>4, <1>5, <2>1
<1>9. \A b \in Blocks : mem'[b] # <<>> <=> count'[b] # 0
  BY <1>1, CountsUsers
<1>10. CountExact'
  BY <1>8, <1>9, CountExactAgain
<1>11. Others({h, o})
  BY <1>1, <1>6 DEF Others
<1>14. Marked({h, o}) /\ (NoSpare(r) \/ h \in misfit')
  <2>1. misfit \subseteq Mutables
    BY DEF BuffersInv, TypeOK
  <2> QED
    BY <1>1, <1>2, <1>3, <2>1 DEF Marked
<1>12. BuffersInv'
  BY <1>1, <1>3, <1>4, <1>7, <1>10, <1>11, <1>14, Exchanged
<1>13. Value(h)' = Value(o) /\ Value(o)' = Value(h)
  BY <1>1, <1>3, <1>4, <1>6 DEF Value
<1> QED
  BY <1>11, <1>12, <1>13

-----------------------------------------------------------------------------
(* Values *)

LEMMA ValueProperties ==
    ASSUME BuffersInv, NEW h \in Handles
    PROVE  /\ Value(h) \in Seq(Bytes)
           /\ Len(Value(h)) = buf[h].size
           /\ buf[h].block # None =>
                  \A i \in 1 .. buf[h].size :
                      Value(h)[i] = mem[buf[h].block][buf[h].off + i]
<1>1. CASE buf[h].block = None
  <2>1. Value(h) = <<>> /\ buf[h].size = 0
    BY <1>1 DEF Value, BuffersInv, Shape
  <2> QED
    BY <1>1, <2>1, EmptySeq
<1>2. CASE buf[h].block # None
  <2>1. /\ mem[buf[h].block] \in Seq(Bytes)
        /\ buf[h].off \in Nat /\ buf[h].size \in Nat
        /\ buf[h].off + buf[h].size <= Len(mem[buf[h].block])
    BY <1>2, RecordFields DEF BuffersInv, InBounds
  <2>2. Value(h) = SubSeq(mem[buf[h].block], buf[h].off + 1, buf[h].off + buf[h].size)
    BY <1>2 DEF Value
  <2> DEFINE d == mem[buf[h].block]
             off == buf[h].off
             n == buf[h].size
             v == Value(h)
  <2>3. d \in Seq(Bytes) /\ off \in Nat /\ n \in Nat /\ off + n <= Len(d)
    BY <2>1
  <2>4. v = SubSeq(d, off + 1, off + n)
    BY <2>2
  <2> HIDE DEF d, off, n, v
  <2>5. v \in Seq(Bytes) /\ Len(v) = n /\ \A i \in 1 .. n : v[i] = d[off + i]
    BY <2>3, <2>4, SectionProperties
  <2> QED
    BY <2>5, Zenon DEF d, off, n, v
<1> QED
  BY <1>1, <1>2

LEMMA UninitialisedByte == Uninitialised \in Bytes
  BY BytesAssumption DEF Uninitialised

LEMMA ResizedProperties ==
    ASSUME BuffersInv, NEW h \in Handles, NEW n \in Nat
    PROVE  /\ Resized(h, n) \in Seq(Bytes)
           /\ Len(Resized(h, n)) = n
           /\ \A i \in 1 .. n : i <= buf[h].size => Resized(h, n)[i] = Value(h)[i]
<1>1. Value(h) \in Seq(Bytes) /\ Len(Value(h)) = buf[h].size /\ buf[h].size \in Nat
  BY ValueProperties, RecordFields DEF BuffersInv
<1>2. \A i \in 1 .. n : i <= buf[h].size => Value(h)[i] \in Bytes
  BY <1>1
<1>3. \A i \in 1 .. n :
          (IF i <= buf[h].size THEN Value(h)[i] ELSE Uninitialised) \in Bytes
  BY <1>2, UninitialisedByte
<1>4. Resized(h, n) \in [1 .. n -> Bytes]
  BY <1>3 DEF Resized
<1>5. Resized(h, n) \in Seq(Bytes) /\ Len(Resized(h, n)) = n
  BY <1>4
<1> QED
  BY <1>5 DEF Resized

LEMMA WrittenProperties ==
    ASSUME NEW data \in Seq(Bytes), NEW at \in Nat, NEW s \in Seq(Bytes)
    PROVE  /\ Written(data, at, s) \in Seq(Bytes)
           /\ Len(Written(data, at, s)) = Len(data)
           /\ \A i \in 1 .. Len(data) : Written(data, at, s)[i] =
                  IF i \in at + 1 .. at + Len(s) THEN s[i - at] ELSE data[i]
<1>1. Len(data) \in Nat /\ Len(s) \in Nat /\ DOMAIN data = 1 .. Len(data)
  BY LenProperties
<1>2. \A i \in 1 .. Len(data) : i \in at + 1 .. at + Len(s) => s[i - at] \in Bytes
  <2> SUFFICES ASSUME NEW i \in 1 .. Len(data), i \in at + 1 .. at + Len(s)
               PROVE  s[i - at] \in Bytes
    OBVIOUS
  <2>1. i - at \in 1 .. Len(s)
    BY <1>1
  <2> QED
    BY <2>1, ElementOfSeq
<1>3. \A i \in 1 .. Len(data) :
          (IF i \in at + 1 .. at + Len(s) THEN s[i - at] ELSE data[i]) \in Bytes
  BY <1>2, ElementOfSeq
<1>4. Written(data, at, s) \in [1 .. Len(data) -> Bytes]
  BY <1>1, <1>3 DEF Written
<1>5. Written(data, at, s) \in Seq(Bytes) /\ Len(Written(data, at, s)) = Len(data)
  BY <1>1, <1>4
<1> QED
  BY <1>1, <1>5 DEF Written

\* Bytes written behind a section lengthen it by these bytes.
LEMMA AppendedSection ==
    ASSUME NEW data \in Seq(Bytes), NEW off \in Nat, NEW size \in Nat,
           NEW s \in Seq(Bytes), off + size + Len(s) <= Len(data)
    PROVE  SubSeq(Written(data, off + size, s), off + 1, off + (size + Len(s)))
               = SubSeq(data, off + 1, off + size) \o s
<1> DEFINE w == Written(data, off + size, s)
           p == SubSeq(w, off + 1, off + (size + Len(s)))
           q == SubSeq(data, off + 1, off + size)
<1>1. /\ w \in Seq(Bytes) /\ Len(w) = Len(data)
      /\ \A i \in 1 .. Len(data) : w[i] =
             IF i \in off + size + 1 .. off + size + Len(s)
             THEN s[i - (off + size)] ELSE data[i]
  BY WrittenProperties
<1>2. Len(s) \in Nat /\ Len(data) \in Nat
  OBVIOUS
<1> HIDE DEF w
<1>3. size + Len(s) \in Nat /\ off + (size + Len(s)) <= Len(w)
  BY <1>1, <1>2
<1>4. /\ p \in Seq(Bytes) /\ Len(p) = size + Len(s)
      /\ \A i \in 1 .. size + Len(s) : p[i] = w[off + i]
  BY <1>1, <1>3, SectionProperties
<1>5. /\ q \in Seq(Bytes) /\ Len(q) = size
      /\ \A i \in 1 .. size : q[i] = data[off + i]
  BY <1>2, SectionProperties
<1> HIDE DEF p, q
<1>6. /\ q \o s \in Seq(Bytes) /\ Len(q \o s) = size + Len(s)
      /\ \A i \in 1 .. size + Len(s) :
             (q \o s)[i] = IF i <= size THEN q[i] ELSE s[i - size]
  BY <1>5, ConcatProperties
<1>7. \A i \in 1 .. size + Len(s) : p[i] = (q \o s)[i]
  <2> TAKE i \in 1 .. size + Len(s)
  <2>1. off + i \in 1 .. Len(data)
    BY <1>2
  <2>2. p[i] = IF off + i \in off + size + 1 .. off + size + Len(s)
               THEN s[(off + i) - (off + size)] ELSE data[off + i]
    BY <1>1, <1>4, <2>1
  <2>3. CASE i <= size
    <3>1. off + i \notin off + size + 1 .. off + size + Len(s) /\ i \in 1 .. size
      BY <1>2, <2>3
    <3> QED
      BY <1>5, <1>6, <2>2, <2>3, <3>1
  <2>4. CASE ~(i <= size)
    <3>1. /\ off + i \in off + size + 1 .. off + size + Len(s)
          /\ (off + i) - (off + size) = i - size
      BY <1>2, <2>4
    <3> QED
      BY <1>6, <2>2, <2>4, <3>1
  <2> QED
    BY <2>3, <2>4
<1>8. p = q \o s
  BY <1>4, <1>6, <1>7, SeqEqual
<1> QED
  BY <1>8 DEF p, q, w

LEMMA PrefixOf ==
    ASSUME NEW S, NEW s \in Seq(S), NEW t \in Seq(S), Len(s) <= Len(t),
           \A i \in 1 .. Len(s) : s[i] = t[i]
    PROVE  IsPrefix(s, t)
<1>1. Len(s) \in Nat /\ Len(t) \in Nat /\ 0 \in Nat
  OBVIOUS
<1>2. SubSeq(s, 0 + 1, 0 + Len(s)) = SubSeq(t, 0 + 1, 0 + Len(s))
  <2>1. Agree(s, t, 0, Len(s))
    BY <1>1 DEF Agree
  <2>2. 0 + Len(s) <= Len(s) /\ 0 + Len(s) <= Len(t)
    BY <1>1
  <2> QED
    BY <1>1, <2>1, <2>2, AgreeEqual
<1>3. 0 + 1 = 1 /\ 0 + Len(s) = Len(s)
  BY <1>1
<1> QED
  BY <1>2, <1>3 DEF IsPrefix

-----------------------------------------------------------------------------
(* A mutable_buffer that changes its size in place *)

\* The step keeps the values of the handles outside of C.
Kept(C) == \A g \in Handles \ C : Value(g)' = Value(g)

\* Memory changes behind the end of m, if at all.
MemWritten(m) ==
    /\ mem' \in [Blocks \union {Static} -> Seq(Bytes)]
    /\ \A b \in Blocks \union {Static} :
          /\ Len(mem'[b]) = Len(mem[b])
          /\ \A i \in 1 .. Len(mem[b]) : mem'[b][i] # mem[b][i] =>
                Spare(m) /\ b = buf[m].block /\ i > EndOf(buf[m])

SameBytes(g) ==
    LET b == buf[g].block
    IN  /\ mem'[b] \in Seq(Bytes) /\ Len(mem'[b]) = Len(mem[b])
        /\ \A i \in 1 .. buf[g].size : mem'[b][buf[g].off + i] = mem[b][buf[g].off + i]

LEMMA SameBytesSameValue ==
    ASSUME BuffersInv, NEW g \in Handles, buf'[g] = buf[g], SameBytes(g),
           buf[g].block # None
    PROVE  Value(g)' = Value(g)
<1> DEFINE d == mem[buf[g].block]
           e == mem'[buf[g].block]
           off == buf[g].off
           size == buf[g].size
<1>1. /\ d \in Seq(Bytes) /\ e \in Seq(Bytes)
      /\ off \in Nat /\ size \in Nat
      /\ off + size <= Len(d) /\ off + size <= Len(e)
  BY RecordFields DEF BuffersInv, InBounds, SameBytes
<1>2. Agree(e, d, off, size)
  BY DEF SameBytes, Agree
<1>3. Value(g) = SubSeq(d, off + 1, off + size)
  BY DEF Value
<1>4. Value(g)' = SubSeq(e, off + 1, off + size)
  BY DEF Value
<1> HIDE DEF d, e, off, size
<1>5. SubSeq(e, off + 1, off + size) = SubSeq(d, off + 1, off + size)
  BY <1>1, <1>2, AgreeEqual
<1> QED
  BY <1>3, <1>4, <1>5

LEMMA InPlaceKeeps ==
    ASSUME BuffersInv, NEW m \in Mutables, NEW n \in Nat,
           buf' = [buf EXCEPT ![m].size = n], count' = count, MemWritten(m),
           Usable(m), misfit' = misfit,
           buf[m].block = None => n = 0,
           n <= buf[m].size \/ n <= buf[m].cap,
           n >= buf[m].size \/ Alone(m)
    PROVE  BuffersInv' /\ Kept({m})
<1>1. /\ m \in Handles /\ m \notin Buffers
  BY HandlesAssumption DEF Handles
<1>2. \A g \in Handles :
          /\ buf[g].block \in Blocks \union {Static, None}
          /\ buf[g].off \in Nat /\ buf[g].size \in Nat /\ buf[g].cap \in Nat
          /\ buf[g].block # None => /\ mem[buf[g].block] \in Seq(Bytes)
                                    /\ Len(mem[buf[g].block]) \in Nat
  BY RecordFields DEF BuffersInv
<1>3. /\ buf' \in [Handles -> Handle]
      /\ buf'[m].block = buf[m].block /\ buf'[m].off = buf[m].off
      /\ buf'[m].size = n /\ buf'[m].cap = buf[m].cap
      /\ \A g \in Handles \ {m} : buf'[g] = buf[g]
  <2>1. buf \in [Handles -> Handle] /\ buf[m] \in Handle
    BY <1>1 DEF BuffersInv, TypeOK
  <2>2. [buf[m] EXCEPT !.size = n] \in Handle
    BY <2>1 DEF Handle
  <2>3. buf' = [buf EXCEPT ![m] = [buf[m] EXCEPT !.size = n]]
    OBVIOUS
  <2>4. buf'[m] = [buf[m] EXCEPT !.size = n]
    BY <1>1, <2>1, <2>3
  <2> QED
    BY <1>1, <2>1, <2>2, <2>3, <2>4 DEF Handle
<1>4. \A b \in Blocks \union {Static} : Len(mem'[b]) = Len(mem[b])
  BY DEF MemWritten
<1>5. \A g \in Handles : g # m /\ buf[m].block # None /\ buf[g].block = buf[m].block
          => n >= buf[m].size
  BY <1>1, TwoUsers DEF Alone
<1>6. TypeOK'
  BY <1>3 DEF BuffersInv, TypeOK, MemWritten
<1>14. /\ m \notin misfit
       /\ Spare(m) <=> ~NoSpare(buf[m])
       /\ Spare(m)' <=> buf[m].cap > n
       /\ \A g \in Handles \ {m} : Spare(g)' <=> Spare(g)
  BY <1>1, <1>2, <1>3, SpareOf DEF Usable, Spare, NoSpare
<1>7. Shape'
  <2>1. \A g \in Handles : /\ g \in Buffers => buf[g].cap = 0
                           /\ buf[g].block = None => buf[g].size = 0
                           /\ buf[g].block \in {None, Static} => ~Spare(g)
    BY DEF BuffersInv, Shape
  <2>2. buf[m].block = Static => n >= buf[m].size
    BY AddressesAssumption DEF Alone
  <2>3. buf[m].block \in {None, Static} => ~Spare(m)'
    <3>1. buf[m].block \in {None, Static} => buf[m].cap <= buf[m].size
      BY <1>1, <1>14, <2>1 DEF NoSpare
    <3>2. buf[m].block = None => buf[m].size = 0
      BY <1>1, <2>1
    <3> QED
      BY <1>1, <1>2, <1>14, <2>2, <3>1, <3>2
  <2>4. \A g \in Handles : /\ g \in Buffers => buf'[g].cap = 0
                           /\ buf'[g].block = None => buf'[g].size = 0
                           /\ buf'[g].block \in {None, Static} => ~Spare(g)'
    BY <1>1, <1>3, <1>14, <2>1, <2>3
  <2> QED
    BY <2>4 DEF Shape
<1>8. InBounds'
  <2>1. \A g \in Handles : buf[g].block # None =>
            /\ buf[g].off + buf[g].size <= Len(mem[buf[g].block])
            /\ g \notin misfit => buf[g].off + buf[g].cap <= Len(mem[buf[g].block])
    BY DEF BuffersInv, InBounds
  <2>2. buf[m].block # None => buf[m].off + n <= Len(mem[buf[m].block])
    BY SMTT(60), <1>1, <1>2, <1>14, <2>1
  <2>3. \A g \in Handles : buf[g].block # None =>
            Len(mem'[buf[g].block]) = Len(mem[buf[g].block])
    BY <1>2, <1>4
  <2>4. \A g \in Handles : buf'[g].block # None =>
            /\ buf'[g].off + buf'[g].size <= Len(mem'[buf'[g].block])
            /\ g \notin misfit' => buf'[g].off + buf'[g].cap <= Len(mem'[buf'[g].block])
    BY <1>1, <1>3, <2>1, <2>2, <2>3
  <2> QED
    BY <2>4 DEF InBounds
<1>9. \A k \in Mutables, g \in Handles :
          g # k /\ buf[k].block # None /\ buf[g].block = buf[k].block /\ Spare(k)
              => EndOf(buf[g]) <= EndOf(buf[k]) /\ ~Spare(g)
  BY DEF BuffersInv, SpareIsPrivate, EndOf
<1>10. SpareIsPrivate'
  <2> SUFFICES ASSUME NEW k \in Mutables, NEW g \in Handles, g # k,
                      buf'[k].block # None, buf'[g].block = buf'[k].block,
                      Spare(k)'
               PROVE  EndOf(buf'[g]) <= EndOf(buf'[k]) /\ ~Spare(g)'
    BY DEF SpareIsPrivate, EndOf
  <2>1. k \in Handles
    BY DEF Handles
  <2>2. CASE k # m /\ g # m
    BY <1>3, <1>9, <1>14, <2>1, <2>2
  <2>3. CASE k = m
    <3>1. n >= buf[m].size
      BY <1>3, <1>5, <2>3
    <3>2. Spare(m)
      BY <1>1, <1>2, <1>14, <2>3, <3>1 DEF NoSpare
    <3>3. EndOf(buf[g]) <= EndOf(buf[m]) /\ ~Spare(g) /\ buf'[g] = buf[g]
      BY <1>3, <1>9, <2>3, <3>2
    <3>4. ~Spare(g)'
      BY <1>14, <2>3, <3>3
    <3> QED
      BY <1>1, <1>2, <1>3, <2>3, <3>1, <3>3, <3>4 DEF EndOf
  <2>4. CASE g = m /\ k # m
    <3>1. buf'[k] = buf[k] /\ buf[k].block # None /\ buf[m].block = buf[k].block
          /\ Spare(k)
      BY <1>3, <1>14, <2>1, <2>4
    <3>2. n >= buf[m].size
      BY <1>5, <2>1, <2>4, <3>1
    <3>3. EndOf(buf[m]) <= EndOf(buf[k]) /\ ~Spare(m)
      BY <1>9, <2>4, <3>1, <1>1
    <3>4. n = buf[m].size
      BY <1>1, <1>2, <1>14, <3>2, <3>3 DEF NoSpare
    <3>5. ~Spare(m)'
      BY <1>1, <1>2, <1>14, <3>3, <3>4 DEF NoSpare
    <3> QED
      BY <1>3, <2>4, <3>1, <3>3, <3>4, <3>5 DEF EndOf
  <2> QED
    BY <2>2, <2>3, <2>4
<1>11. CountExact'
  <2>1. \A b \in Blocks : Users(b)' = Users(b)
    BY <1>1, <1>3 DEF Users
  <2>2. \A b \in Blocks : mem'[b] = <<>> <=> mem[b] = <<>>
    <3> TAKE b \in Blocks
    <3>1. mem[b] \in Seq(Bytes) /\ mem'[b] \in Seq(Bytes) /\ Len(mem'[b]) = Len(mem[b])
      BY <1>4 DEF MemWritten, BuffersInv, TypeOK
    <3> QED
      BY <3>1, EmptySeq
  <2> QED
    BY <2>1, <2>2 DEF BuffersInv, CountExact
<1>12. Len(mem'[Static]) = MaxSize
  BY <1>4 DEF BuffersInv
<1>13. Kept({m})
  <2> SUFFICES ASSUME NEW g \in Handles \ {m}
               PROVE  Value(g)' = Value(g)
    BY DEF Kept
  <2>1. buf'[g] = buf[g]
    BY <1>3
  <2>2. CASE buf[g].block = None
    BY <2>1, <2>2 DEF Value
  <2>3. CASE buf[g].block # None
    <3> DEFINE b == buf[g].block
               off == buf[g].off
               size == buf[g].size
    <3>1. b \in Blocks \union {Static}
      BY <1>2, <2>3
    <3>2. /\ mem[b] \in Seq(Bytes) /\ mem'[b] \in Seq(Bytes)
          /\ Len(mem'[b]) = Len(mem[b])
      BY <1>2, <1>4, <2>3, <3>1 DEF MemWritten
    <3>3. off \in Nat /\ size \in Nat /\ off + size <= Len(mem[b]) /\ Len(mem[b]) \in Nat
      BY <1>2, <2>3 DEF BuffersInv, InBounds
    <3>4. \A i \in 1 .. size : mem'[b][off + i] = mem[b][off + i]
      <4> SUFFICES ASSUME NEW i \in 1 .. size, mem'[b][off + i] # mem[b][off + i]
                   PROVE  FALSE
        OBVIOUS
      <4>1. off + i \in 1 .. Len(mem[b])
        BY <3>3
      <4>2. Spare(m) /\ b = buf[m].block /\ off + i > EndOf(buf[m])
        BY <3>1, <4>1 DEF MemWritten
      <4>3. EndOf(buf[g]) <= EndOf(buf[m])
        BY <1>9, <2>3, <4>2
      <4>4. EndOf(buf[m]) \in Nat /\ EndOf(buf[g]) = off + size
        BY <1>1, <1>2 DEF EndOf
      <4> QED
        BY <3>3, <4>2, <4>3, <4>4
    <3> QED
      BY <2>1, <2>3, <3>2, <3>3, <3>4, SameBytesSameValue DEF SameBytes
  <2> QED
    BY <2>2, <2>3
<1> QED
  BY <1>6, <1>7, <1>8, <1>10, <1>11, <1>12, <1>13 DEF BuffersInv

-----------------------------------------------------------------------------
(* Bytes that are copied *)

LEMMA OthersKept ==
    ASSUME NEW C, Others(C) PROVE Kept(C)
  BY OthersKeep DEF Kept

LEMMA GrownFits ==
    ASSUME BuffersInv, NEW m \in Mutables, NEW n \in Nat
    PROVE  Grown(m, n) \in Nat /\ n <= Grown(m, n)
<1>1. buf[m].cap \in Nat
  BY RecordFields DEF BuffersInv, Handles
<1> QED
  BY <1>1, SizesAssumption DEF Grown, MaxOf

\* The start of a copy
LEMMA ResizedStart ==
    ASSUME BuffersInv, NEW h \in Handles, NEW n \in Nat, buf[h].size <= n
    PROVE  SubSeq(Resized(h, n), 1, buf[h].size) = Value(h)
<1> DEFINE t == Resized(h, n)
           v == Value(h)
           k == buf[h].size
           p == SubSeq(t, 0 + 1, 0 + k)
<1>1. v \in Seq(Bytes) /\ Len(v) = k /\ k \in Nat /\ 0 \in Nat
  BY ValueProperties, RecordFields DEF BuffersInv
<1>2. t \in Seq(Bytes) /\ Len(t) = n /\ \A i \in 1 .. n : i <= k => t[i] = v[i]
  BY ResizedProperties
<1>3. k <= n
  OBVIOUS
<1> HIDE DEF t, v, k
<1>4. 0 + k <= Len(t)
  BY <1>1, <1>2, <1>3
<1>5. p \in Seq(Bytes) /\ Len(p) = k /\ \A i \in 1 .. k : p[i] = t[0 + i]
  BY <1>1, <1>2, <1>4, SectionProperties
<1>6. \A i \in 1 .. k : p[i] = v[i]
  BY <1>1, <1>2, <1>3, <1>5
<1> HIDE DEF p
<1>7. p = v
  BY <1>1, <1>5, <1>6, SeqEqual
<1>8. p = SubSeq(t, 1, k)
  BY <1>1 DEF p
<1> QED
  BY <1>7, <1>8 DEF t, v, k

\* What is cut off a copy is the end of it.
LEMMA ResizedPrefix ==
    ASSUME BuffersInv, NEW h \in Handles, NEW n \in Nat, NEW k \in Nat, k <= n
    PROVE  \/ IsPrefix(Value(h), SubSeq(Resized(h, n), 1, k))
           \/ IsPrefix(SubSeq(Resized(h, n), 1, k), Value(h))
<1> DEFINE t == Resized(h, n)
           v == Value(h)
           size == buf[h].size
           p == SubSeq(t, 0 + 1, 0 + k)
<1>1. v \in Seq(Bytes) /\ Len(v) = size /\ size \in Nat /\ 0 \in Nat
  BY ValueProperties, RecordFields DEF BuffersInv
<1>2. t \in Seq(Bytes) /\ Len(t) = n /\ \A i \in 1 .. n : i <= size => t[i] = v[i]
  BY ResizedProperties
<1> HIDE DEF t, v, size
<1>3. p \in Seq(Bytes) /\ Len(p) = k /\ \A i \in 1 .. k : p[i] = t[0 + i]
  BY <1>1, <1>2, SectionProperties
<1>4. p = SubSeq(t, 1, k)
  OBVIOUS
<1> HIDE DEF p
<1>5. \A i \in 1 .. k : i <= size => p[i] = v[i]
  BY <1>2, <1>3
<1>6. CASE size <= k
  <2>1. Len(v) <= Len(p) /\ \A i \in 1 .. Len(v) : v[i] = p[i]
    BY <1>1, <1>3, <1>5, <1>6
  <2>2. IsPrefix(v, p)
    BY <1>1, <1>3, <2>1, PrefixOf
  <2> QED
    BY <1>4, <2>2 DEF t, v
<1>7. CASE k <= size
  <2>1. Len(p) <= Len(v) /\ \A i \in 1 .. Len(p) : p[i] = v[i]
    BY <1>1, <1>3, <1>5, <1>7
  <2>2. IsPrefix(p, v)
    BY <1>1, <1>3, <2>1, PrefixOf
  <2> QED
    BY <1>4, <2>2 DEF t, v
<1> QED
  BY <1>1, <1>6, <1>7

LEMMA AppendBytesKeeps ==
    ASSUME BuffersInv, NEW m \in Mutables, NEW s \in Seq(Bytes), AppendBytes(m, s)
    PROVE  BuffersInv' /\ Kept({m}) /\ Value(m)' = Value(m) \o s
<1> DEFINE r == buf[m]
           n == r.size + Len(s)
<1>1. /\ m \in Handles /\ m \notin Buffers
      /\ r.off \in Nat /\ r.size \in Nat /\ r.cap \in Nat
      /\ r.block \in Blocks \union {Static, None}
      /\ r.block # None => mem[r.block] \in Seq(Bytes) /\ Len(mem[r.block]) \in Nat
      /\ m \notin misfit /\ misfit' = misfit
  BY RecordFields, HandlesAssumption DEF BuffersInv, Handles, AppendBytes, Usable
<1>2. Len(s) \in Nat /\ Len(s) > 0 /\ n \in Nat /\ n > r.size
  <2>1. Len(s) \in Nat /\ s # <<>>
    BY DEF AppendBytes
  <2>2. Len(s) # 0
    BY <2>1, EmptySeq
  <2> QED
    BY <1>1, <2>1, <2>2
<1>3. CASE n > r.cap
  <2> DEFINE G == Grown(m, n)
             t == Resized(m, G)
             w == Written(t, r.size, s)
  <2>1. Own(m, w, n, G)
    BY <1>3 DEF AppendBytes
  <2>2. G \in Nat /\ n <= G
    BY <1>2, GrownFits
  <2>3. t \in Seq(Bytes) /\ Len(t) = G
    BY <1>1, <2>2, ResizedProperties
  <2>4. SubSeq(t, 1, r.size) = Value(m)
    BY <1>1, <1>2, <2>2, ResizedStart
  <2> HIDE DEF G, t
  <2>5. w \in Seq(Bytes) /\ Len(w) = Len(t)
    BY <1>1, <2>3, WrittenProperties
  <2>6. SubSeq(w, 1, n) = SubSeq(t, 1, r.size) \o s
    <3> DEFINE size == r.size
    <3>1. size \in Nat /\ 0 \in Nat /\ 0 + size + Len(s) <= Len(t)
      BY <1>1, <1>2, <2>2, <2>3
    <3>2. 0 + size = size /\ 0 + (size + Len(s)) = n /\ 0 + 1 = 1
      BY <1>1, <1>2
    <3>3. SubSeq(Written(t, 0 + size, s), 0 + 1, 0 + (size + Len(s)))
              = SubSeq(t, 0 + 1, 0 + size) \o s
      <4> HIDE DEF size
      <4> QED
        BY <2>3, <3>1, AppendedSection
    <3> QED
      BY <3>2, <3>3
  <2>8. n \in Nat /\ n <= Len(w) /\ G <= Len(w) /\ (m \in Buffers => G = 0)
    BY <1>1, <1>2, <2>2, <2>3, <2>5
  <2> HIDE DEF n, w
  <2>7. /\ BuffersInv' /\ Others({m}) /\ Value(m)' = SubSeq(w, 1, n)
    BY <1>1, <2>1, <2>2, <2>5, <2>8, OwnKeeps
  <2> QED
    BY <2>4, <2>6, <2>7, OthersKept
<1>4. CASE ~(n > r.cap)
  <2>1. /\ buf' = [buf EXCEPT ![m].size = n]
        /\ mem' = [mem EXCEPT ![r.block] = Written(mem[r.block], r.off + r.size, s)]
        /\ count' = count
    BY <1>4 DEF AppendBytes
  <2>9. ~NoSpare(r) /\ Spare(m)
    BY <1>1, <1>2, <1>4 DEF NoSpare, Spare
  <2>2. r.block # None
    BY <1>1, <2>9 DEF BuffersInv, Shape
  <2> DEFINE b == r.block
             d == mem[r.block]
             w == Written(d, r.off + r.size, s)
  <2>3. /\ b \in Blocks \union {Static} /\ d \in Seq(Bytes) /\ Len(d) \in Nat
        /\ r.off + n <= Len(d)
    <3>1. b \in Blocks \union {Static} /\ d \in Seq(Bytes) /\ Len(d) \in Nat
      BY <1>1, <2>2
    <3>2. r.off + r.cap <= Len(d)
      BY <1>1, <2>2 DEF BuffersInv, InBounds
    <3>3. n <= r.cap
      BY <1>1, <1>2, <1>4
    <3> HIDE DEF n, d
    <3> QED
      BY <1>1, <1>2, <3>1, <3>2, <3>3
  <2>4. r.off + r.size \in Nat
    BY <1>1
  <2> HIDE DEF d
  <2>5. /\ w \in Seq(Bytes) /\ Len(w) = Len(d)
        /\ \A i \in 1 .. Len(d) : w[i] =
               IF i \in (r.off + r.size) + 1 .. (r.off + r.size) + Len(s)
               THEN s[i - (r.off + r.size)] ELSE d[i]
    BY <2>3, <2>4, WrittenProperties
  <2>6. mem' = [mem EXCEPT ![b] = w]
    BY <2>1 DEF d
  <2> HIDE DEF w
  <2>7. mem \in [Blocks \union {Static} -> Seq(Bytes)]
    BY DEF BuffersInv, TypeOK
  <2>8. /\ mem' \in [Blocks \union {Static} -> Seq(Bytes)]
        /\ mem'[b] = w /\ \A c \in (Blocks \union {Static}) \ {b} : mem'[c] = mem[c]
    BY <2>3, <2>5, <2>6, <2>7
  <2>10. MemWritten(m)
    <3> SUFFICES ASSUME NEW c \in Blocks \union {Static}
                 PROVE  /\ Len(mem'[c]) = Len(mem[c])
                        /\ \A i \in 1 .. Len(mem[c]) : mem'[c][i] # mem[c][i] =>
                              Spare(m) /\ c = b /\ i > EndOf(r)
      BY <2>8 DEF MemWritten
    <3>1. CASE c # b
      BY <2>8, <3>1
    <3>2. CASE c = b
      <4>1. \A i \in 1 .. Len(d) : w[i] # d[i] => i > r.off + r.size
        BY <1>1, <2>4, <2>5
      <4> QED
        BY <2>5, <2>8, <2>9, <3>2, <4>1 DEF d, EndOf
    <3> QED
      BY <3>1, <3>2
  <2>11. n <= r.cap /\ n >= r.size
    BY <1>1, <1>2, <1>4
  <2>12. BuffersInv' /\ Kept({m})
    <3> HIDE DEF n
    <3> QED
      BY <1>1, <1>2, <2>1, <2>2, <2>10, <2>11, InPlaceKeeps DEF Usable
  <2>13. Value(m)' = SubSeq(w, r.off + 1, r.off + n)
    <3>1. buf'[m].block = b /\ buf'[m].off = r.off /\ buf'[m].size = n
      BY <1>1, <2>1 DEF BuffersInv, TypeOK, Handle
    <3> QED
      BY <2>2, <2>8, <3>1 DEF Value
  <2>14. Value(m) = SubSeq(d, r.off + 1, r.off + r.size)
    BY <2>2 DEF Value, d
  <2>15. SubSeq(w, r.off + 1, r.off + n) = SubSeq(d, r.off + 1, r.off + r.size) \o s
    <3> DEFINE off == r.off
               size == r.size
    <3>1. off \in Nat /\ size \in Nat /\ off + size + Len(s) <= Len(d)
      BY <1>1, <1>2, <2>3
    <3>2. SubSeq(Written(d, off + size, s), off + 1, off + (size + Len(s)))
               = SubSeq(d, off + 1, off + size) \o s
      <4> HIDE DEF off, size
      <4> QED
        BY <2>3, <3>1, AppendedSection
    <3> QED
      BY <3>2 DEF w
  <2> QED
    BY <2>12, <2>13, <2>14, <2>15
<1> QED
  BY <1>3, <1>4

-----------------------------------------------------------------------------
(* References to sections *)

\* Sections k+1..l of a section of memory
LEMMA SectionOfSection ==
    ASSUME NEW d \in Seq(Bytes), NEW off \in Nat, NEW size \in Nat,
           NEW k \in Nat, NEW n \in Nat,
           off + size <= Len(d), k + n <= size
    PROVE  SubSeq(SubSeq(d, off + 1, off + size), k + 1, k + n)
               = SubSeq(d, (off + k) + 1, (off + k) + n)
<1> DEFINE v == SubSeq(d, off + 1, off + size)
           p == SubSeq(v, k + 1, k + n)
           at == off + k
           q == SubSeq(d, at + 1, at + n)
<1>1. v \in Seq(Bytes) /\ Len(v) = size /\ \A i \in 1 .. size : v[i] = d[off + i]
  BY SectionProperties
<1>2. at = off + k
  OBVIOUS
<1>7. at \in Nat /\ at + n <= Len(d) /\ k + n <= Len(v)
  BY <1>1, LenProperties
<1>8. at \in Nat /\ at + n <= Len(d)
  BY <1>7
<1> HIDE DEF v, at
<1>3. p \in Seq(Bytes) /\ Len(p) = n /\ \A i \in 1 .. n : p[i] = v[k + i]
  BY <1>1, <1>7, SectionProperties
<1>4. q \in Seq(Bytes) /\ Len(q) = n /\ \A i \in 1 .. n : q[i] = d[at + i]
  BY ZenonT(60), <1>8, SectionProperties
<1>5. \A i \in 1 .. n : v[k + i] = d[at + i]
  <2> TAKE i \in 1 .. n
  <2>1. k + i \in 1 .. size /\ off + (k + i) = at + i
    BY <1>2
  <2> QED
    BY <1>1, <2>1
<1> HIDE DEF p, q
<1>6. p = q
  BY <1>3, <1>4, <1>5, SeqEqual
<1> QED
  BY <1>6 DEF p, q, v, at

LEMMA WholeSection ==
    ASSUME NEW S, NEW s \in Seq(S)
    PROVE  SubSeq(s, 0 + 1, 0 + Len(s)) = s
<1> DEFINE p == SubSeq(s, 0 + 1, 0 + Len(s))
<1>1. Len(s) \in Nat /\ 0 \in Nat /\ 0 + Len(s) <= Len(s)
  OBVIOUS
<1>2. p \in Seq(S) /\ Len(p) = Len(s) /\ \A i \in 1 .. Len(s) : p[i] = s[0 + i]
  BY <1>1, SectionProperties
<1> HIDE DEF p
<1>3. \A i \in 1 .. Len(s) : p[i] = s[i]
  BY <1>1, <1>2
<1>4. p = s
  BY <1>2, <1>3, SeqEqual
<1> QED
  BY <1>4 DEF p

\* h refers to a part of what o refers to, without room behind it of its own.
LEMMA SectionKeeps ==
    ASSUME BuffersInv, NEW h \in Handles, NEW o \in Handles, h # o,
           NEW r \in Handle, Share(h, r), h \in Buffers => r.cap = 0,
           Marked({h}), NoSpare(r) \/ h \in misfit',
           NEW k \in Nat, NEW n \in Nat, k + n <= buf[o].size,
           r.block = buf[o].block, r.off = buf[o].off + k, r.size = n
    PROVE  /\ BuffersInv' /\ Kept({h})
           /\ Value(h)' = SubSeq(Value(o), k + 1, k + n)
<1>1. /\ buf[o].off \in Nat /\ buf[o].size \in Nat
      /\ buf[o].block = None => buf[o].size = 0
  BY RecordFields DEF BuffersInv, Shape
<1>2. r.block = None => r.size = 0
  BY <1>1
<1>3. EndOf(r) <= EndOf(buf[o])
  BY <1>1 DEF EndOf
<1>4. /\ BuffersInv' /\ Others({h}) /\ buf'[h] = r
      /\ r.block # None => mem'[r.block] = mem[r.block]
  BY <1>2, <1>3, ShareKeeps
<1>5. CASE r.block = None
  <2>1. k = 0 /\ n = 0 /\ Value(o) = <<>>
    BY <1>1, <1>5 DEF Value
  <2>2. SubSeq(<<>>, 0 + 1, 0 + 0) = <<>>
    BY EmptySeq, WholeSection
  <2>3. Value(h)' = <<>>
    BY <1>4, <1>5 DEF Value
  <2> QED
    BY <1>4, <2>1, <2>2, <2>3, OthersKept
<1>6. CASE r.block # None
  <2> DEFINE d == mem[r.block]
             off == buf[o].off
             size == buf[o].size
  <2>1. /\ d \in Seq(Bytes) /\ off + size <= Len(d) /\ off \in Nat /\ size \in Nat
        /\ k + n <= size
    BY <1>1, <1>6, RecordFields DEF BuffersInv, InBounds
  <2>2. Value(h)' = SubSeq(d, (off + k) + 1, (off + k) + n)
    BY <1>4, <1>6 DEF Value
  <2>3. Value(o) = SubSeq(d, off + 1, off + size)
    BY <1>6 DEF Value
  <2> HIDE DEF d, off, size
  <2>4. SubSeq(SubSeq(d, off + 1, off + size), k + 1, k + n)
            = SubSeq(d, (off + k) + 1, (off + k) + n)
    BY <2>1, SectionOfSection
  <2> QED
    BY <1>4, <2>2, <2>3, <2>4, OthersKept
<1> QED
  BY <1>5, <1>6

LEMMA SectionFields ==
    ASSUME BuffersInv, NEW o \in Handles, NEW beg \in Nat, NEW end \in Nat,
           beg < buf[o].size, beg < end, buf[o].block # None
    PROVE  LET r == Section(o, beg, end)
               size == MinOf(end, buf[o].size) - beg
           IN  /\ r = [block |-> buf[o].block, off |-> buf[o].off + beg,
                       size |-> size, cap |-> 0]
               /\ size \in Nat /\ beg + size <= buf[o].size
               /\ size > 0 /\ beg + size = MinOf(end, buf[o].size)
<1>1. buf[o].off \in Nat /\ buf[o].size \in Nat
  BY RecordFields DEF BuffersInv
<1>2. MinOf(beg, buf[o].size) = beg /\ MinOf(end, buf[o].size) > beg
      /\ MinOf(end, buf[o].size) <= buf[o].size /\ MinOf(end, buf[o].size) \in Nat
  BY <1>1 DEF MinOf
<1> QED
  BY <1>1, <1>2 DEF Section

-----------------------------------------------------------------------------
(* The operations *)

LEMMA EmptyReference ==
    /\ Empty \in Handle /\ NoSpare(Empty) /\ EndOf(Empty) = 0
    /\ Empty.block = None /\ Empty.size = 0 /\ Empty.cap = 0 /\ Empty.off = 0
  BY DEF Empty, Handle, NoSpare, EndOf

\* The marks of a handle that gets memory it shares
LEMMA BorrowsMarks ==
    ASSUME BuffersInv, NEW h \in Handles, NEW r, Borrows(h, r),
           h \in Buffers => NoSpare(r)
    PROVE  Marked({h}) /\ (NoSpare(r) \/ h \in misfit')
<1>1. misfit \subseteq Mutables /\ (h \in Buffers \/ h \in Mutables)
  BY DEF BuffersInv, TypeOK, Handles
<1> QED
  BY <1>1 DEF Borrows, Marked

\* Those of a handle that has no room behind its end any more
LEMMA CuredMarks ==
    ASSUME BuffersInv, NEW h, misfit' = misfit \ {h} PROVE Marked({h})
  BY DEF BuffersInv, TypeOK, Marked

LEMMA FreshValue ==
    ASSUME NEW h, Fresh(h) PROVE Value(h) = <<>> /\ buf[h].block = None
  BY DEF Fresh, Value, Empty

LEMMA NewKeeps ==
    ASSUME BuffersInv, NEW h \in Handles, NEW n \in 1 .. MaxSize, New(h, n)
    PROVE  BuffersInv' /\ Kept({h}) /\ Value(h) = <<>>
<1> DEFINE s == [i \in 1 .. n |-> Uninitialised]
<1>1. n \in Nat /\ s \in Seq(Bytes) /\ Len(s) = n
  <2>1. n \in Nat
    BY SizesAssumption
  <2>2. s \in [1 .. n -> Bytes]
    BY UninitialisedByte
  <2> QED
    BY <2>1, <2>2
<1>2. Fresh(h) /\ IF h \in Mutables THEN Own(h, s, 0, n) ELSE Own(h, s, n, 0)
  BY DEF New
<1>5. misfit' = misfit
  BY DEF New
<1>3. h \in Mutables => h \notin Buffers
  BY HandlesAssumption
<1> HIDE DEF s
<1>4. BuffersInv' /\ Others({h})
  <2>1. 0 \in Nat /\ 0 <= Len(s) /\ n <= Len(s)
    BY <1>1
  <2>2. CASE h \in Mutables
    <3>1. Own(h, s, 0, n) /\ h \notin Buffers
      BY <1>2, <1>3, <2>2
    <3> QED
      BY <1>1, <1>5, <2>1, <3>1, OwnKeeps
  <2>3. CASE h \notin Mutables
    <3>1. Own(h, s, n, 0)
      BY <1>2, <2>3
    <3> QED
      BY <1>1, <1>5, <2>1, <3>1, OwnKeeps
  <2> QED
    BY <2>2, <2>3
<1> QED
  BY <1>2, <1>4, FreshValue, OthersKept

LEMMA LiteralKeeps ==
    ASSUME BuffersInv, NEW h \in Handles, NEW n \in 1 .. MaxSize, Literal(h, n)
    PROVE  BuffersInv' /\ Kept({h}) /\ Value(h) = <<>>
<1> DEFINE r == [block |-> Static, off |-> 0, size |-> n, cap |-> 0]
<1>1. n \in Nat /\ n <= MaxSize /\ MaxSize \in Nat
  BY SizesAssumption
<1>2. /\ r \in Handle /\ r.block = Static /\ r.off = 0 /\ r.size = n /\ r.cap = 0
      /\ EndOf(r) = n /\ NoSpare(r) /\ r.block # None
  <2>2. r.block = Static /\ r.off = 0 /\ r.size = n /\ r.cap = 0
    OBVIOUS
  <2>3. r \in Handle
    BY <1>1 DEF Handle
  <2> HIDE DEF r
  <2> QED
    BY <1>1, <2>2, <2>3, AddressesAssumption DEF EndOf, NoSpare
<1>3. Fresh(h) /\ buf' = [buf EXCEPT ![h] = r] /\ mem' = mem /\ count' = count
  BY DEF Literal
<1>4. buf[h].block = None
  BY <1>3, FreshValue
<1> HIDE DEF r
<1>5. \A b \in Blocks : count'[b] = Cardinality(Referring(Refs', b))
  <2> TAKE b \in Blocks
  <2>1. One(buf[h].block, b) = 0 /\ One(r.block, b) = 0
    BY <1>2, <1>4, AddressesAssumption DEF One
  <2>2. count[b] \in Nat
    BY CountsUsers
  <2>3. Cardinality(Referring(Refs', b)) =
            count[b] - One(buf[h].block, b) + One(r.block, b)
    BY <1>3, RefsExcept
  <2> QED
    BY <1>3, <2>1, <2>2, <2>3
<1>6. CountExact'
  <2>1. \A b \in Blocks : mem'[b] # <<>> <=> count'[b] # 0
    BY <1>3, CountsUsers
  <2> QED
    BY <1>5, <2>1, CountExactAgain
<1>7. Others({h})
  BY <1>3 DEF Others, BuffersInv, TypeOK
<1>8. /\ mem' \in [Blocks \union {Static} -> Seq(Bytes)]
      /\ Len(mem'[Static]) = MaxSize /\ count' \in [Blocks -> Nat]
  BY <1>3 DEF BuffersInv, TypeOK
<1>9. EndOf(r) <= Len(mem'[r.block]) /\ r.off + r.cap <= Len(mem'[r.block])
  BY <1>1, <1>2, <1>8
<1>11. Marked({h})
  BY DEF Literal, Marked, BuffersInv, TypeOK
<1>10. BuffersInv'
  BY <1>2, <1>3, <1>6, <1>7, <1>8, <1>9, <1>11, Placed
<1> QED
  BY <1>3, <1>7, <1>10, FreshValue, OthersKept

LEMMA CopyToKeeps ==
    ASSUME BuffersInv, NEW h \in Handles, NEW o \in Handles, CopyTo(h, o)
    PROVE  BuffersInv' /\ Kept({h}) /\ Value(h)' = Value(o)
<1> DEFINE r == [buf[o] EXCEPT !.cap = IF h \in Buffers THEN 0
                                       ELSE IF o \in Mutables THEN buf[o].cap
                                       ELSE buf[o].size]
<1>1. h # o /\ Share(h, r) /\ Borrows(h, r)
  BY DEF CopyTo
<1>2. /\ buf[o] \in Handle /\ buf[o].off \in Nat /\ buf[o].size \in Nat
      /\ buf[o].cap \in Nat
  BY RecordFields DEF BuffersInv
<1>3. /\ r \in Handle /\ r.block = buf[o].block /\ r.off = buf[o].off
      /\ r.size = buf[o].size /\ (h \in Buffers => r.cap = 0)
  BY <1>2 DEF Handle
<1> DEFINE n == buf[o].size
<1>4. n \in Nat /\ 0 \in Nat /\ 0 + n <= buf[o].size /\ r.off = buf[o].off + 0
      /\ r.size = n
  BY <1>2, <1>3
<1>5. Len(Value(o)) = n /\ Value(o) \in Seq(Bytes)
  BY ValueProperties
<1>7. h \in Buffers => NoSpare(r)
  BY <1>3, <1>4 DEF NoSpare
<1> HIDE DEF r, n
<1>8. Marked({h}) /\ (NoSpare(r) \/ h \in misfit')
  BY <1>1, <1>7, BorrowsMarks
<1>6. /\ BuffersInv' /\ Kept({h})
      /\ Value(h)' = SubSeq(Value(o), 0 + 1, 0 + n)
  BY ZenonT(60), <1>1, <1>3, <1>4, <1>8, SectionKeeps
<1> QED
  BY <1>5, <1>6, WholeSection

LEMMA ResetKeeps ==
    ASSUME BuffersInv, NEW h \in Handles, Reset(h)
    PROVE  BuffersInv' /\ Kept({h}) /\ Value(h)' = <<>>
<1>1. Share(h, Empty) /\ Marked({h})
  BY CuredMarks DEF Reset
<1>2. BuffersInv' /\ Others({h}) /\ buf'[h] = Empty
  BY <1>1, EmptyReference, ShareKeeps
<1>3. Value(h)' = <<>>
  BY <1>2, EmptyReference DEF Value
<1> QED
  BY <1>2, <1>3, OthersKept

LEMMA CopyKeeps ==
    ASSUME BuffersInv, NEW h \in Handles, NEW o \in Handles, NEW n \in Nat,
           Copy(h, o, n)
    PROVE  /\ BuffersInv' /\ Kept({h})
           /\ IsPrefix(Value(o), Value(h)') \/ IsPrefix(Value(h)', Value(o))
<1> DEFINE k == IF n = 0 THEN buf[o].size ELSE n
           t == Resized(o, k)
<1>1. Own(h, t, k, 0) /\ misfit' = misfit
  BY DEF Copy
<1>2. k \in Nat /\ 0 \in Nat
  BY RecordFields DEF BuffersInv
<1> HIDE DEF k
<1>3. t \in Seq(Bytes) /\ Len(t) = k
  BY <1>2, ResizedProperties
<1>4. \/ IsPrefix(Value(o), SubSeq(t, 1, k))
      \/ IsPrefix(SubSeq(t, 1, k), Value(o))
  BY <1>2, ResizedPrefix
<1> HIDE DEF t
<1>5. k <= Len(t) /\ 0 <= Len(t)
  BY <1>2, <1>3
<1>6. BuffersInv' /\ Others({h}) /\ Value(h)' = SubSeq(t, 1, k)
  BY <1>1, <1>2, <1>3, <1>5, OwnKeeps
<1> QED
  BY <1>4, <1>6, OthersKept

LEMMA SliceKeeps ==
    ASSUME BuffersInv, NEW h \in Handles, NEW o \in Handles,
           NEW beg \in Nat, NEW end \in Nat, Slice(h, o, beg, end)
    PROVE  /\ BuffersInv' /\ Kept({h})
           /\ \E k, l \in 0 .. Len(Value(o)) : Value(h)' = SubSeq(Value(o), k + 1, l)
<1> DEFINE r == Section(o, beg, end)
           left == (buf[o].cap - (r.off - buf[o].off)) % SizeT
           cap == IF {h, o} \subseteq Mutables THEN left ELSE 0
           q == [r EXCEPT !.cap = cap]
           size == MinOf(end, buf[o].size) - beg
<1>1. /\ buf[o].off \in Nat /\ buf[o].size \in Nat /\ buf[o].cap \in Nat
      /\ buf[o].block \in Blocks \union {Static, None}
  BY RecordFields DEF BuffersInv
<1>2. h # o /\ r # Empty /\ Share(h, q) /\ Borrows(h, q)
  BY DEF Slice
<1>3. beg < buf[o].size /\ beg < end /\ buf[o].block # None
  BY <1>1, <1>2 DEF Section, MinOf
<1>4. /\ r = [block |-> buf[o].block, off |-> buf[o].off + beg,
              size |-> size, cap |-> 0]
      /\ size \in Nat /\ beg + size <= buf[o].size
      /\ size > 0 /\ beg + size = MinOf(end, buf[o].size)
  BY <1>3, SectionFields
<1>5. cap \in Nat /\ (h \in Buffers => cap = 0)
  <2>1. h \in Buffers => h \notin Mutables
    BY HandlesAssumption
  <2>2. r.off - buf[o].off \in Int
    BY <1>1, <1>4
  <2>3. \A x \in Int : x % SizeT \in Nat
    BY SizeTAssumption
  <2>4. left \in Nat
    BY <1>1, <2>2, <2>3
  <2> HIDE DEF left
  <2> QED
    BY <2>1, <2>4
<1> HIDE DEF left
<1>6. /\ q \in Handle /\ q.block = buf[o].block /\ q.off = buf[o].off + beg
      /\ q.size = size /\ q.cap = cap
  BY <1>1, <1>4, <1>5 DEF Handle
<1>10. Marked({h}) /\ (NoSpare(q) \/ h \in misfit')
  <2>1. h \in Buffers => NoSpare(q)
    BY <1>4, <1>5, <1>6 DEF NoSpare
  <2> HIDE DEF q
  <2> QED
    BY <1>2, <2>1, BorrowsMarks
<1> HIDE DEF q, size, cap
<1>7. /\ BuffersInv' /\ Kept({h})
      /\ Value(h)' = SubSeq(Value(o), beg + 1, beg + size)
  BY ZenonT(60), <1>2, <1>4, <1>5, <1>6, <1>10, SectionKeeps
<1>8. Len(Value(o)) = buf[o].size
  BY ValueProperties
<1>9. beg \in 0 .. Len(Value(o)) /\ beg + size \in 0 .. Len(Value(o))
  BY <1>1, <1>4, <1>8
<1> QED
  BY <1>7, <1>9

LEMMA AppendBufferKeeps ==
    ASSUME BuffersInv, NEW m \in Mutables, NEW o \in Handles,
           NEW pos \in Nat, NEW n \in Nat, AppendBuffer(m, o, pos, n)
    PROVE  /\ BuffersInv' /\ Kept({m})
           /\ Value(m)' = Value(m) \o
                  SubSeq(Value(o), pos + 1, MinOf(pos + n, buf[o].size))
           /\ \/ buf[m].size > 0
              \/ \E k, l \in 0 .. Len(Value(o)) :
                     Value(m)' = SubSeq(Value(o), k + 1, l)
<1> DEFINE size == MinOf(pos + n, buf[o].size) - pos
           s == SubSeq(Value(o), pos + 1, pos + size)
<1>1. /\ m \in Handles /\ m \notin Buffers /\ m # o /\ n > 0 /\ pos < buf[o].size
      /\ buf[o].off \in Nat /\ buf[o].size \in Nat /\ buf[m].size \in Nat
  BY RecordFields, HandlesAssumption DEF BuffersInv, Handles, AppendBuffer
<1>2. /\ size \in Nat /\ size > 0 /\ pos + size = MinOf(pos + n, buf[o].size)
      /\ pos + size <= buf[o].size
  BY <1>1 DEF MinOf
<1>3. Value(o) \in Seq(Bytes) /\ Len(Value(o)) = buf[o].size
  BY ValueProperties
<1> HIDE DEF size
<1>4. s \in Seq(Bytes) /\ Len(s) = size
  <2> DEFINE v == Value(o)
  <2>1. v \in Seq(Bytes) /\ pos + size <= Len(v)
    BY <1>2, <1>3
  <2> HIDE DEF v
  <2>2. SubSeq(v, pos + 1, pos + size) \in Seq(Bytes)
        /\ Len(SubSeq(v, pos + 1, pos + size)) = size
    BY <1>2, <2>1, SectionProperties
  <2> QED
    BY <2>2 DEF v
<1>5. s = SubSeq(Value(o), pos + 1, MinOf(pos + n, buf[o].size))
  BY <1>2
<1> HIDE DEF s
<1>6. CASE buf[m].size > 0
  <2>1. AppendBytes(m, s)
    BY <1>5, <1>6 DEF AppendBuffer
  <2>2. BuffersInv' /\ Kept({m}) /\ Value(m)' = Value(m) \o s
    BY <1>4, <2>1, AppendBytesKeeps
  <2> QED
    BY <1>5, <1>6, <2>2
<1>7. CASE ~(buf[m].size > 0)
  <2> DEFINE r == Section(o, pos, n)
             q == [r EXCEPT !.cap = r.size]
  <2>1. pos = 0 /\ Share(m, q) /\ Marked({m})
    BY <1>1, <1>7, CuredMarks DEF AppendBuffer
  <2>2. buf[o].block # None
    BY <1>1 DEF BuffersInv, Shape
  <2>3. pos < n /\ pos + n = n /\ n = pos + n
    BY <1>1, <2>1
  <2>4. r = [block |-> buf[o].block, off |-> buf[o].off + pos,
             size |-> size, cap |-> 0]
    BY <1>1, <2>2, <2>3, SectionFields DEF size
  <2>5. /\ q \in Handle /\ q.block = buf[o].block /\ q.off = buf[o].off + pos
        /\ q.size = size /\ q.cap = size /\ NoSpare(q)
    <3>1. q = [block |-> buf[o].block, off |-> buf[o].off + pos,
               size |-> size, cap |-> size]
      BY <2>4
    <3>2. buf[o].block \in Blocks \union {Static, None}
      BY RecordFields DEF BuffersInv
    <3> QED
      BY <1>1, <1>2, <3>1, <3>2 DEF Handle, NoSpare
  <2> HIDE DEF q
  <2>11. m \in Buffers => q.cap = 0
    BY <1>1
  <2>6. /\ BuffersInv' /\ Kept({m})
        /\ Value(m)' = SubSeq(Value(o), pos + 1, pos + size)
    <3>1. m \in Handles /\ m # o /\ Share(m, q) /\ pos + size <= buf[o].size
      BY <1>1, <1>2, <2>1
    <3>2. /\ q \in Handle /\ NoSpare(q) /\ q.block = buf[o].block
          /\ q.off = buf[o].off + pos /\ q.size = size
      BY <2>5
    <3>3. size \in Nat /\ pos \in Nat
      BY <1>2
    <3>4. Marked({m}) /\ (NoSpare(q) \/ m \in misfit')
      BY <2>1, <3>2
    <3> QED
      BY ZenonT(60), <2>11, <3>1, <3>2, <3>3, <3>4, SectionKeeps
  <2>7. Value(m)' = s
    BY <1>2, <1>5, <2>6
  <2>8. Value(m) = <<>>
    <3>1. Value(m) \in Seq(Bytes) /\ Len(Value(m)) = 0
      BY <1>1, <1>7, ValueProperties
    <3> QED
      BY <3>1, EmptySeq
  <2>9. <<>> \o s = s
    BY <1>4
  <2>10. pos \in 0 .. Len(Value(o)) /\ pos + size \in 0 .. Len(Value(o))
    BY <1>1, <1>2, <1>3
  <2> QED
    BY <1>5, <2>6, <2>7, <2>8, <2>9, <2>10
<1> QED
  BY <1>6, <1>7

\* A size that changes in place cuts the value or adds to it.
LEMMA InPlacePrefix ==
    ASSUME BuffersInv, NEW m \in Handles, BuffersInv', mem' = mem,
           buf'[m].block = buf[m].block, buf'[m].off = buf[m].off
    PROVE  IsPrefix(Value(m), Value(m)') \/ IsPrefix(Value(m)', Value(m))
<1> DEFINE v == Value(m)
           w == Value(m)'
           size == buf[m].size
           k == buf'[m].size
           d == mem[buf[m].block]
           off == buf[m].off
<1>1. CASE buf[m].block = None
  <2>1. v = <<>> /\ w = <<>>
    BY <1>1 DEF Value
  <2>2. IsPrefix(v, w)
    <3>1. v \in Seq(Bytes) /\ w \in Seq(Bytes) /\ Len(v) <= Len(w)
          /\ \A i \in 1 .. Len(v) : v[i] = w[i]
      BY <2>1
    <3> HIDE DEF v, w
    <3> QED
      BY <3>1, PrefixOf
  <2> QED
    BY <2>2
<1>2. CASE buf[m].block # None
  <2>1. /\ off \in Nat /\ size \in Nat /\ d \in Seq(Bytes) /\ off + size <= Len(d)
    BY <1>2, RecordFields DEF BuffersInv, InBounds
  <2>2. k \in Nat /\ off + k <= Len(d)
    BY <1>2 DEF BuffersInv, InBounds, TypeOK, Handle
  <2>3. v = SubSeq(d, off + 1, off + size) /\ w = SubSeq(d, off + 1, off + k)
    BY <1>2 DEF Value
  <2> HIDE DEF v, w, size, k, d, off
  <2>4. v \in Seq(Bytes) /\ Len(v) = size /\ \A i \in 1 .. size : v[i] = d[off + i]
    BY <2>1, <2>3, SectionProperties
  <2>5. w \in Seq(Bytes) /\ Len(w) = k /\ \A i \in 1 .. k : w[i] = d[off + i]
    BY <2>1, <2>2, <2>3, SectionProperties
  <2>6. CASE size <= k
    <3>3. Len(v) = size /\ Len(w) = k /\ Len(v) <= Len(w)
      BY <2>4, <2>5, <2>6
    <3>4. \A i \in 1 .. size : i \in 1 .. k
      BY <2>1, <2>2, <2>6
    <3>5. \A i \in 1 .. size : v[i] = w[i]
      BY <2>4, <2>5, <3>4, Zenon
    <3>1. Len(v) <= Len(w) /\ \A i \in 1 .. Len(v) : v[i] = w[i]
      BY <3>3, <3>5, Zenon
    <3>2. IsPrefix(v, w)
      BY <2>4, <2>5, <3>1, PrefixOf
    <3> QED
      BY <3>2 DEF v, w
  <2>7. CASE k <= size
    <3>3. Len(w) = k /\ Len(v) = size /\ Len(w) <= Len(v)
      BY <2>4, <2>5, <2>7
    <3>4. \A i \in 1 .. k : i \in 1 .. size
      BY <2>1, <2>2, <2>7
    <3>5. \A i \in 1 .. k : w[i] = v[i]
      BY <2>4, <2>5, <3>4, Zenon
    <3>1. Len(w) <= Len(v) /\ \A i \in 1 .. Len(w) : w[i] = v[i]
      BY <3>3, <3>5, Zenon
    <3>2. IsPrefix(w, v)
      BY <2>4, <2>5, <3>1, PrefixOf
    <3> QED
      BY <3>2 DEF v, w
  <2> QED
    BY <2>1, <2>2, <2>6, <2>7
<1> QED
  BY <1>1, <1>2

\* The memory stays, and m gets size n.
LEMMA ResizeInPlace ==
    ASSUME BuffersInv, NEW m \in Mutables, NEW n \in Nat, Usable(m),
           buf' = [buf EXCEPT ![m].size = n], mem' = mem, count' = count,
           misfit' = misfit, n <= buf[m].cap, n >= buf[m].size \/ Alone(m)
    PROVE  /\ BuffersInv' /\ Kept({m})
           /\ IsPrefix(Value(m), Value(m)') \/ IsPrefix(Value(m)', Value(m))
<1>1. m \in Handles
  BY DEF Handles
<1>2. MemWritten(m)
  BY DEF MemWritten, BuffersInv, TypeOK
<1>3. buf[m].block = None => n = 0
  <2>1. buf[m].block = None => buf[m].size = 0 /\ NoSpare(buf[m])
    BY <1>1 DEF Usable, Spare, BuffersInv, Shape
  <2>2. buf[m].cap \in Nat
    BY <1>1, RecordFields DEF BuffersInv
  <2> QED
    BY <2>1, <2>2 DEF NoSpare
<1>4. BuffersInv' /\ Kept({m})
  BY <1>2, <1>3, InPlaceKeeps
<1>5. buf'[m].block = buf[m].block /\ buf'[m].off = buf[m].off
  BY <1>1 DEF BuffersInv, TypeOK, Handle
<1> QED
  BY <1>1, <1>4, <1>5, InPlacePrefix

LEMMA ClearKeeps ==
    ASSUME BuffersInv, NEW m \in Mutables, Clear(m)
    PROVE  /\ BuffersInv' /\ Kept({m})
           /\ IsPrefix(Value(m), Value(m)') \/ IsPrefix(Value(m)', Value(m))
<1>1. /\ Usable(m) /\ Alone(m) /\ buf' = [buf EXCEPT ![m].size = 0]
      /\ mem' = mem /\ count' = count /\ misfit' = misfit
  BY DEF Clear
<1>2. 0 \in Nat /\ 0 <= buf[m].cap
  BY RecordFields DEF BuffersInv, Handles
<1> QED
  BY <1>1, <1>2, ResizeInPlace

SizeSet(m, n, keep, cap) ==
    IF keep THEN MinOf(buf[m].size, MinOf(cap, n)) ELSE MinOf(cap, n)

LEMMA SizeSetBounds ==
    ASSUME BuffersInv, NEW m \in Mutables, NEW n \in Nat, NEW keep, NEW cap \in Nat
    PROVE  /\ SizeSet(m, n, keep, cap) \in Nat
           /\ SizeSet(m, n, keep, cap) <= cap
           /\ n >= buf[m].size /\ n <= cap => SizeSet(m, n, keep, cap) >= buf[m].size
<1>1. buf[m].size \in Nat
  BY RecordFields DEF BuffersInv, Handles
<1> QED
  BY <1>1 DEF SizeSet, MinOf

LEMMA SetSizeKeeps ==
    ASSUME BuffersInv, NEW m \in Mutables, NEW n \in Nat, NEW keep \in BOOLEAN,
           SetSize(m, n, keep)
    PROVE  /\ BuffersInv' /\ Kept({m})
           /\ IsPrefix(Value(m), Value(m)') \/ IsPrefix(Value(m)', Value(m))
<1> DEFINE r == buf[m]
           cap == IF n > r.cap THEN Grown(m, n) ELSE MaxOf(MinCapacity, n)
           k == SizeSet(m, n, keep, cap)
           l == SizeSet(m, n, keep, r.cap)
<1>1. m \in Handles /\ m \notin Buffers /\ r.size \in Nat /\ r.cap \in Nat
  BY RecordFields, HandlesAssumption DEF BuffersInv, Handles
<1>2. Usable(m) /\ (n < r.size => Alone(m)) /\ misfit' = misfit
  BY DEF SetSize
<1>3. cap \in Nat
  BY GrownFits, SizesAssumption DEF MaxOf
<1>4. IF n > r.cap \/ n + n \div 2 <= r.cap
      THEN Own(m, Resized(m, cap), k, cap)
      ELSE /\ buf' = [buf EXCEPT ![m].size = l] /\ mem' = mem /\ count' = count
  BY DEF SetSize, SizeSet
<1>5. k \in Nat /\ k <= cap /\ l \in Nat /\ l <= r.cap
      /\ (n >= r.size /\ n <= r.cap => l >= r.size)
  BY <1>1, <1>3, SizeSetBounds
<1> HIDE DEF k, l, cap
<1>6. CASE n > r.cap \/ n + n \div 2 <= r.cap
  <2> DEFINE t == Resized(m, cap)
  <2>1. t \in Seq(Bytes) /\ Len(t) = cap
    BY <1>1, <1>3, ResizedProperties
  <2>2. \/ IsPrefix(Value(m), SubSeq(t, 1, k))
        \/ IsPrefix(SubSeq(t, 1, k), Value(m))
    BY <1>1, <1>3, <1>5, ResizedPrefix
  <2>3. Own(m, t, k, cap)
    BY <1>4, <1>6
  <2> HIDE DEF t
  <2>4. k <= Len(t) /\ cap <= Len(t)
    BY <1>3, <1>5, <2>1
  <2>5. BuffersInv' /\ Others({m}) /\ Value(m)' = SubSeq(t, 1, k)
    BY <1>1, <1>2, <1>3, <1>5, <2>1, <2>3, <2>4, OwnKeeps
  <2> QED
    BY <2>2, <2>5, OthersKept
<1>7. CASE ~(n > r.cap \/ n + n \div 2 <= r.cap)
  <2>1. /\ buf' = [buf EXCEPT ![m].size = l] /\ mem' = mem /\ count' = count
    BY <1>4, <1>7
  <2>2. n <= r.cap
    BY <1>1, <1>7
  <2>3. l >= r.size \/ Alone(m)
    BY <1>1, <1>2, <1>5, <2>2
  <2> QED
    BY <1>2, <1>5, <2>1, <2>3, ResizeInPlace
<1> QED
  BY <1>6, <1>7

-----------------------------------------------------------------------------
(* The invariant holds *)

LEMMA InitBuffers == ASSUME Init PROVE BuffersInv
<1>1. Empty \in Handle
  BY EmptyReference
<1>2. \A h \in Handles : buf[h] = Empty
  BY DEF Init
<1>3. [i \in 1 .. MaxSize |-> Uninitialised] \in Seq(Bytes)
      /\ Len([i \in 1 .. MaxSize |-> Uninitialised]) = MaxSize
  BY SizesAssumption, UninitialisedByte
<1>4. <<>> \in Seq(Bytes)
  OBVIOUS
<1> DEFINE literal == [i \in 1 .. MaxSize |-> Uninitialised]
<1>5. mem = [b \in Blocks \union {Static} |-> IF b = Static THEN literal ELSE <<>>]
  BY DEF Init
<1> HIDE DEF literal
<1>6. literal \in Seq(Bytes) /\ Len(literal) = MaxSize
  BY <1>3 DEF literal
<1>7. TypeOK
  BY <1>1, <1>4, <1>5, <1>6 DEF Init, TypeOK
<1>8. mem[Static] = literal /\ \A b \in Blocks : mem[b] = <<>>
  BY <1>5, AddressesAssumption
<1>9. Shape /\ InBounds /\ SpareIsPrivate
  <2>1. \A h \in Handles : /\ buf[h].block = None /\ buf[h].cap = 0 /\ buf[h].size = 0
                           /\ ~Spare(h)
    BY <1>2, EmptyReference DEF Spare
  <2>2. Mutables \subseteq Handles
    BY DEF Handles
  <2> QED
    BY <2>1, <2>2, AddressesAssumption DEF Shape, InBounds, SpareIsPrivate
<1>10. CountExact
  <2>1. \A b \in Blocks : Users(b) = {} /\ count[b] = 0
    BY <1>2, EmptyReference, AddressesAssumption DEF Users, Init
  <2>2. Cardinality({}) = 0
    BY FS_EmptySet
  <2> QED
    BY <1>8, <2>1, <2>2 DEF CountExact
<1> QED
  BY <1>6, <1>7, <1>8, <1>9, <1>10 DEF BuffersInv

\* What a step does to the values of the handles
ValuesStep ==
    \E h, o \in Handles :
        \/ Value(h) = <<>> /\ Kept({h})
        \/ Value(h)' = <<>> /\ Kept({h})
        \/ /\ \E k, l \in 0 .. Len(Value(o)) : Value(h)' = SubSeq(Value(o), k + 1, l)
           /\ Kept({h})
        \/ Value(h)' = Value(o) /\ Value(o)' = <<>> /\ Kept({h, o})
        \/ Value(h)' = Value(o) /\ Value(o)' = Value(h) /\ Kept({h, o})
        \/ /\ IsPrefix(Value(o), Value(h)') \/ IsPrefix(Value(h)', Value(o))
           /\ Kept({h})

LEMMA ConcatPrefix ==
    ASSUME NEW S, NEW s \in Seq(S), NEW t \in Seq(S)
    PROVE  IsPrefix(s, s \o t)
<1>1. /\ s \o t \in Seq(S) /\ Len(s) <= Len(s \o t)
      /\ \A i \in 1 .. Len(s) : (s \o t)[i] = s[i]
  OBVIOUS
<1> QED
  BY <1>1, PrefixOf

LEMMA StepOfBuffers == ASSUME BuffersInv, Next PROVE BuffersInv' /\ ValuesStep
<1>1. ASSUME NEW h \in Handles, NEW n \in 1 .. MaxSize, New(h, n) \/ Literal(h, n)
      PROVE  BuffersInv' /\ ValuesStep
  <2>1. BuffersInv' /\ Kept({h}) /\ Value(h) = <<>>
    BY <1>1, NewKeeps, LiteralKeeps
  <2> QED
    BY <2>1 DEF ValuesStep
<1>2. ASSUME NEW h \in Handles, NEW o \in Handles, CopyTo(h, o)
      PROVE  BuffersInv' /\ ValuesStep
  <2>1. BuffersInv' /\ Kept({h}) /\ Value(h)' = Value(o)
    BY <1>2, CopyToKeeps
  <2>2. Value(o) \in Seq(Bytes)
    BY ValueProperties
  <2>3. SubSeq(Value(o), 0 + 1, Len(Value(o))) = Value(o)
    <3> DEFINE v == Value(o)
    <3> HIDE DEF v
    <3>1. v \in Seq(Bytes)
      BY <2>2 DEF v
    <3>2. SubSeq(v, 0 + 1, 0 + Len(v)) = v /\ 0 + Len(v) = Len(v)
      BY <3>1, WholeSection
    <3> QED
      BY <3>2 DEF v
  <2>4. 0 \in 0 .. Len(Value(o)) /\ Len(Value(o)) \in 0 .. Len(Value(o))
    BY <2>2
  <2>5. \E k, l \in 0 .. Len(Value(o)) : Value(h)' = SubSeq(Value(o), k + 1, l)
    BY <2>1, <2>3, <2>4
  <2> QED
    BY <2>1, <2>5 DEF ValuesStep
<1>3. ASSUME NEW h \in Handles, NEW o \in Handles, MoveTo(h, o)
      PROVE  BuffersInv' /\ ValuesStep
  <2>1. /\ BuffersInv' /\ Others({h, o}) /\ Value(h)' = Value(o) /\ Value(o)' = <<>>
    BY <1>3, MoveKeeps
  <2> QED
    BY <2>1, OthersKept DEF ValuesStep
<1>4. ASSUME NEW h \in Handles, NEW o \in Handles, Swap(h, o)
      PROVE  BuffersInv' /\ ValuesStep
  <2>1. /\ BuffersInv' /\ Others({h, o})
        /\ Value(h)' = Value(o) /\ Value(o)' = Value(h)
    BY <1>4, SwapKeeps
  <2> QED
    BY <2>1, OthersKept DEF ValuesStep
<1>5. ASSUME NEW h \in Handles, Reset(h)
      PROVE  BuffersInv' /\ ValuesStep
  BY <1>5, ResetKeeps DEF ValuesStep
<1>6. ASSUME NEW h \in Handles, NEW o \in Handles, NEW n \in 0 .. MaxSize, Copy(h, o, n)
      PROVE  BuffersInv' /\ ValuesStep
  <2>1. n \in Nat
    BY SizesAssumption
  <2> QED
    BY <1>6, <2>1, CopyKeeps DEF ValuesStep
<1>7. ASSUME NEW h \in Handles, NEW o \in Handles,
             NEW beg \in 0 .. MaxSize - 1, NEW end \in 1 .. MaxSize,
             Slice(h, o, beg, end)
      PROVE  BuffersInv' /\ ValuesStep
  <2>1. beg \in Nat /\ end \in Nat
    BY SizesAssumption
  <2> QED
    BY <1>7, <2>1, SliceKeeps DEF ValuesStep
<1>8. ASSUME NEW m \in Mutables, NEW b \in Bytes, AppendBytes(m, <<b>>)
      PROVE  BuffersInv' /\ ValuesStep
  <2>1. <<b>> \in Seq(Bytes) /\ m \in Handles
    BY DEF Handles
  <2>2. BuffersInv' /\ Kept({m}) /\ Value(m)' = Value(m) \o <<b>>
    BY <1>8, <2>1, AppendBytesKeeps
  <2>3. Value(m) \in Seq(Bytes)
    BY <2>1, ValueProperties
  <2>4. IsPrefix(Value(m), Value(m) \o <<b>>)
    BY <2>1, <2>3, ConcatPrefix
  <2> QED
    BY <2>1, <2>2, <2>4 DEF ValuesStep
<1>9. ASSUME NEW m \in Mutables, NEW o \in Handles,
             NEW pos \in 0 .. MaxSize - 1, NEW n \in 1 .. MaxSize,
             AppendBuffer(m, o, pos, n)
      PROVE  BuffersInv' /\ ValuesStep
  <2> DEFINE s == SubSeq(Value(o), pos + 1, MinOf(pos + n, buf[o].size))
  <2>1. pos \in Nat /\ n \in Nat /\ m \in Handles
    BY SizesAssumption DEF Handles
  <2>2. /\ BuffersInv' /\ Kept({m}) /\ Value(m)' = Value(m) \o s
        /\ \/ buf[m].size > 0
           \/ \E k, l \in 0 .. Len(Value(o)) : Value(m)' = SubSeq(Value(o), k + 1, l)
    BY <1>9, <2>1, AppendBufferKeeps
  <2>3. CASE buf[m].size > 0
    <3>1. AppendBytes(m, s)
      BY <1>9, <2>3 DEF AppendBuffer
    <3>2. Value(m) \in Seq(Bytes) /\ Value(o) \in Seq(Bytes)
          /\ Len(Value(o)) = buf[o].size /\ buf[o].size \in Nat
      BY <2>1, ValueProperties, RecordFields DEF BuffersInv
    <3>3. s \in Seq(Bytes)
      <4> DEFINE v == Value(o)
                 l == MinOf(pos + n, buf[o].size)
      <4>1. v \in Seq(Bytes) /\ l \in Int /\ l <= Len(v) /\ pos + 1 \in Int /\ pos + 1 >= 1
        BY <2>1, <3>2 DEF MinOf
      <4> HIDE DEF v, l
      <4>2. SubSeq(v, pos + 1, l) \in Seq(Bytes)
        BY <4>1, <2>1
      <4> QED
        BY <4>2 DEF v, l
    <3> HIDE DEF s
    <3>4. IsPrefix(Value(m), Value(m) \o s)
      BY <3>2, <3>3, ConcatPrefix
    <3> QED
      BY <2>1, <2>2, <3>4 DEF ValuesStep
  <2>4. CASE ~(buf[m].size > 0)
    BY <2>1, <2>2, <2>4 DEF ValuesStep
  <2> QED
    BY <2>3, <2>4
<1>10. ASSUME NEW m \in Mutables, NEW n \in 0 .. MaxSize, NEW keep \in BOOLEAN,
              SetSize(m, n, keep)
       PROVE  BuffersInv' /\ ValuesStep
  <2>1. n \in Nat /\ m \in Handles
    BY SizesAssumption DEF Handles
  <2> QED
    BY ZenonT(60), <1>10, <2>1, SetSizeKeeps DEF ValuesStep
<1>11. ASSUME NEW m \in Mutables, Clear(m)
       PROVE  BuffersInv' /\ ValuesStep
  <2>1. m \in Handles
    BY DEF Handles
  <2> QED
    BY <1>11, <2>1, ClearKeeps DEF ValuesStep
<1> QED
  BY <1>1, <1>2, <1>3, <1>4, <1>5, <1>6, <1>7, <1>8, <1>9, <1>10, <1>11 DEF Next

LEMMA StutterOfBuffers ==
    ASSUME BuffersInv, UNCHANGED vars
    PROVE  BuffersInv' /\ \A h \in Handles : Value(h)' = Value(h)
<1>1. buf' = buf /\ mem' = mem /\ count' = count /\ misfit' = misfit
  BY DEF vars
<1>2. BuffersInv'
  BY <1>1 DEF BuffersInv, TypeOK, Shape, Spare, NoSpare, InBounds,
              SpareIsPrivate, CountExact, Users
<1>3. \A h \in Handles : Value(h)' = Value(h)
  BY <1>1 DEF Value
<1> QED
  BY <1>2, <1>3

LEMMA InvBuffers == Spec => []BuffersInv
<1>1. BuffersInv /\ [Next]_vars => BuffersInv'
  BY StepOfBuffers, StutterOfBuffers
<1> QED
  BY <1>1, InitBuffers, PTL DEF Spec

-----------------------------------------------------------------------------
\* Handles, memory and reference counts are well typed.
THEOREM BuffersTypeOK == Spec => []TypeOK
  BY InvBuffers, PTL DEF BuffersInv

\* The reference count of a block is the number of handles that refer to it, and
\* memory is there exactly as long as a handle refers to it.
THEOREM BufferCountExact == Spec => []CountExact
  BY InvBuffers, PTL DEF BuffersInv

\* No handle reaches, and no append in place writes, behind the end of a block, as
\* long as the program appends to no misfit (the rules of the module).
THEOREM BufferInBounds == Spec => []InBounds
  BY InvBuffers, PTL DEF BuffersInv

\* The room behind the end of a mutable_buffer, unless it is a misfit, is seen by
\* no other handle.
THEOREM BufferSpareIsPrivate == Spec => []SpareIsPrivate
  BY InvBuffers, PTL DEF BuffersInv

\* append() adds the bytes it was given and nothing else.
THEOREM BufferAppendExact == Spec => AppendExact
<1> DEFINE A == \A m \in Mutables : buf'[m].size > buf[m].size =>
          /\ \A b \in Bytes : AppendBytes(m, <<b>>) => Value(m)' = Value(m) \o <<b>>
          /\ \A o \in Handles, pos \in 0 .. MaxSize - 1, n \in 1 .. MaxSize :
                AppendBuffer(m, o, pos, n) =>
                    Value(m)' = Value(m) \o
                        SubSeq(Value(o), pos + 1, MinOf(pos + n, buf[o].size))
<1>1. BuffersInv => A
  <2> SUFFICES ASSUME BuffersInv, NEW m \in Mutables
               PROVE  /\ \A b \in Bytes : AppendBytes(m, <<b>>) =>
                             Value(m)' = Value(m) \o <<b>>
                      /\ \A o \in Handles, pos \in 0 .. MaxSize - 1,
                            n \in 1 .. MaxSize :
                            AppendBuffer(m, o, pos, n) =>
                                Value(m)' = Value(m) \o
                                    SubSeq(Value(o), pos + 1,
                                           MinOf(pos + n, buf[o].size))
    OBVIOUS
  <2>1. ASSUME NEW b \in Bytes, AppendBytes(m, <<b>>)
        PROVE  Value(m)' = Value(m) \o <<b>>
    <3>1. <<b>> \in Seq(Bytes)
      OBVIOUS
    <3> QED
      BY <2>1, <3>1, AppendBytesKeeps
  <2>2. ASSUME NEW o \in Handles, NEW pos \in 0 .. MaxSize - 1,
               NEW n \in 1 .. MaxSize, AppendBuffer(m, o, pos, n)
        PROVE  Value(m)' = Value(m) \o
                   SubSeq(Value(o), pos + 1, MinOf(pos + n, buf[o].size))
    <3>1. pos \in Nat /\ n \in Nat
      BY SizesAssumption
    <3> QED
      BY <2>2, <3>1, AppendBufferKeeps
  <2> QED
    BY <2>1, <2>2
<1>2. BuffersInv /\ [Next]_vars => [A]_vars
  BY <1>1
<1>3. AppendExact <=> [][A]_vars
  BY DEF AppendExact
<1> HIDE DEF A
<1> QED
  BY <1>2, <1>3, InvBuffers, PTL DEF Spec

-----------------------------------------------------------------------------
(* Sharing memory cannot be observed *)

LEMMA InitOfValues == ASSUME Init PROVE Abstract!Init
<1>1. \A h \in Handles : Value(h) = <<>>
  BY EmptyReference DEF Init, Value
<1> QED
  BY <1>1 DEF Abstract!Init

LEMMA StepOfValues == ASSUME ValuesStep PROVE Abstract!Next
<1> DEFINE val == [h \in Handles |-> Value(h)]
<1>1. \A h \in Handles : val[h] = Value(h) /\ val'[h] = Value(h)'
  OBVIOUS
<1>2. \A C : Kept(C) => Abstract!Only(C)
  BY <1>1 DEF Kept, Abstract!Only
<1>3. \A s, t : Abstract!IsPrefix(s, t) <=> IsPrefix(s, t)
  BY DEF IsPrefix, Abstract!IsPrefix
<1>4. PICK h \in Handles, o \in Handles :
        \/ Value(h) = <<>> /\ Kept({h})
        \/ Value(h)' = <<>> /\ Kept({h})
        \/ /\ \E k, l \in 0 .. Len(Value(o)) : Value(h)' = SubSeq(Value(o), k + 1, l)
           /\ Kept({h})
        \/ Value(h)' = Value(o) /\ Value(o)' = <<>> /\ Kept({h, o})
        \/ Value(h)' = Value(o) /\ Value(o)' = Value(h) /\ Kept({h, o})
        \/ /\ IsPrefix(Value(o), Value(h)') \/ IsPrefix(Value(h)', Value(o))
           /\ Kept({h})
  BY DEF ValuesStep
<1>5. CASE Value(h) = <<>> /\ Kept({h})
  BY <1>1, <1>2, <1>5 DEF Abstract!Next, Abstract!Fill
<1>6. CASE Value(h)' = <<>> /\ Kept({h})
  BY <1>1, <1>2, <1>6 DEF Abstract!Next, Abstract!Reset
<1>7. CASE /\ \E k, l \in 0 .. Len(Value(o)) : Value(h)' = SubSeq(Value(o), k + 1, l)
           /\ Kept({h})
  BY <1>1, <1>2, <1>7 DEF Abstract!Next, Abstract!Take
<1>8. CASE Value(h)' = Value(o) /\ Value(o)' = <<>> /\ Kept({h, o})
  BY <1>1, <1>2, <1>8 DEF Abstract!Next, Abstract!Move
<1>9. CASE Value(h)' = Value(o) /\ Value(o)' = Value(h) /\ Kept({h, o})
  BY <1>1, <1>2, <1>9 DEF Abstract!Next, Abstract!Swap
<1>10. CASE /\ IsPrefix(Value(o), Value(h)') \/ IsPrefix(Value(h)', Value(o))
            /\ Kept({h})
  BY <1>1, <1>2, <1>3, <1>10 DEF Abstract!Next, Abstract!Resize
<1> QED
  BY <1>4, <1>5, <1>6, <1>7, <1>8, <1>9, <1>10

\* Handles that share memory behave as if every handle had a value of its own, as
\* long as the program appends to no misfit: swap(), slice(), moves and copies of
\* mutable_buffers make them, and they are free to.
THEOREM BuffersImplementValues == Spec => ImplementsValues
<1> DEFINE val == [h \in Handles |-> Value(h)]
<1>1. BuffersInv /\ [Next]_vars => [Abstract!Next]_val
  <2> SUFFICES ASSUME BuffersInv, [Next]_vars
               PROVE  Abstract!Next \/ val' = val
    OBVIOUS
  <2>1. CASE Next
    BY <2>1, StepOfBuffers, StepOfValues
  <2>2. CASE UNCHANGED vars
    BY <2>2, StutterOfBuffers
  <2> QED
    BY <2>1, <2>2
<1>2. ImplementsValues <=> Abstract!Init /\ [][Abstract!Next]_val
  BY DEF ImplementsValues, Abstract!Spec
<1> HIDE DEF val
<1> QED
  BY <1>1, <1>2, InitOfValues, InvBuffers, PTL DEF Spec

\* The memory of the buffers is safe, for any number of handles, blocks and bytes,
\* any width of size_t and any program that keeps the rules of the module: it may
\* swap and slice mutable_buffers but appends to no misfit.
THEOREM BuffersAreSafe == Spec => BuffersSafe
  BY BuffersTypeOK, BufferCountExact, BufferInBounds, BufferSpareIsPrivate,
     BufferAppendExact, PTL DEF BuffersSafe

=============================================================================
