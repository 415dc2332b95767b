------------------------------- MODULE Buffers -------------------------------
(***************************************************************************)
(* node::buffer and node::mutable_buffer (buffer/buffer.cc,                *)
(* buffer/mutable_buffer.cc): handles that share reference counted memory. *)
(* A buffer is immutable; a mutable_buffer appends to the memory behind    *)
(* its end without asking who else refers to it.                           *)
(*                                                                         *)
(* A mutable_buffer can come by a capacity that its memory does not have:  *)
(* it keeps its own when it is moved from and when the swap() it inherits  *)
(* gives it other memory; its copies and mutable slices get it along with  *)
(* memory they share; and slice() computes it without a sign, so that the  *)
(* slice of one that was moved from a buffer, with capacity 0, gets almost *)
(* 2^64.  misfit is the set of these.  What an append in place to one of   *)
(* them writes to is somebody else's memory, so the program has to keep    *)
(* these rules, which the classes need but do not check:                   *)
(*  - a misfit is assigned, reset or swapped away before it is appended to *)
(*    or resized (Usable), unless it is empty and a buffer is appended;    *)
(*  - a mutable_buffer that shares memory is not made shorter (Alone);     *)
(*  - no handle is assigned, moved, swapped or appended to itself;         *)
(*  - append(buffer, pos, count) with pos > 0 and append(buffer_view) are  *)
(*    not called on an empty mutable_buffer: the first takes the wrong     *)
(*    section, the second does nothing.                                    *)
(***************************************************************************)
EXTENDS Integers, Sequences, FiniteSets, SequencesExt

CONSTANTS
    Buffers,      \* node::buffer objects
    Mutables,     \* node::mutable_buffer objects
    Blocks,       \* addresses malloc() can return
    Static,       \* the address of a literal string
    None,         \* nullptr
    Bytes,        \* values of a byte
    SizeT,        \* the number of values of std::size_t
    MinCapacity,  \* the least capacity a growing mutable_buffer asks for: 16
    MaxSize       \* bound: sizes of memory blocks

ASSUME HandlesAssumption == Buffers \intersect Mutables = {}
                            /\ IsFiniteSet(Buffers \union Mutables)
ASSUME AddressesAssumption ==
    /\ None \notin Blocks /\ Static \notin Blocks /\ Static # None
ASSUME SizesAssumption == MinCapacity \in Nat /\ MaxSize \in Nat \ {0}
ASSUME SizeTAssumption == SizeT \in Nat \ {0}
ASSUME BytesAssumption == Bytes # {}

Handles == Buffers \union Mutables

VARIABLES
    buf,    \* the handles: _p (block), _data - base (off), _size, _capacity
    mem,    \* address -> its bytes, <<>> when it is not allocated
    count,  \* address -> use_count
    misfit  \* history: mutable_buffers whose spare capacity is not their own

vars == <<buf, mem, count, misfit>>

Empty == [block |-> None, off |-> 0, size |-> 0, cap |-> 0]

Uninitialised == CHOOSE b \in Bytes : TRUE

Init ==
    /\ buf = [h \in Handles |-> Empty]
    /\ mem = [b \in Blocks \union {Static} |->
                  IF b = Static THEN [i \in 1..MaxSize |-> Uninitialised] ELSE <<>>]
    /\ count = [b \in Blocks |-> 0]
    /\ misfit = {}

MinOf(a, b) == IF a < b THEN a ELSE b
MaxOf(a, b) == IF a < b THEN b ELSE a

\* data() .. data() + size()
Value(h) ==
    IF buf[h].block = None THEN <<>>
    ELSE SubSeq(mem[buf[h].block], buf[h].off + 1, buf[h].off + buf[h].size)

-----------------------------------------------------------------------------
(* Memory *)

Retained(c, b) == IF b \in Blocks THEN [c EXCEPT ![b] = @ + 1] ELSE c
Released(c, b) == IF b \in Blocks THEN [c EXCEPT ![b] = @ - 1] ELSE c

\* control_base::release() frees the memory with the last reference.
Freed(b) == IF b \in Blocks /\ count[b] = 1 THEN [mem EXCEPT ![b] = <<>>] ELSE mem

Free == {b \in Blocks : mem[b] = <<>>}

\* h gives up what it had and refers, as r says, to the memory of another
\* handle (which may be the same memory).
Share(h, r) ==
    /\ buf' = [buf EXCEPT ![h] = r]
    /\ count' = Retained(Released(count, buf[h].block), r.block)
    /\ mem' = IF r.block = buf[h].block THEN mem ELSE Freed(buf[h].block)

\* h gives up what it had for new memory with the bytes s.
Own(h, s, size, cap) ==
    /\ Len(s) \in 1..MaxSize
    /\ \E b \in Free :
          /\ buf' = [buf EXCEPT ![h] = [block |-> b, off |-> 0, size |-> size,
                                        cap |-> cap]]
          /\ count' = [Released(count, buf[h].block) EXCEPT ![b] = 1]
          /\ mem' = [Freed(buf[h].block) EXCEPT ![b] = s]

\* copy(): the bytes of h, cut or filled up to n bytes
Resized(h, n) ==
    [i \in 1..n |-> IF i <= buf[h].size THEN Value(h)[i] ELSE Uninitialised]

\* The memory a mutable_buffer asks for when it needs n bytes.
Grown(m, n) == MaxOf(MaxOf(MinCapacity, n), buf[m].cap + buf[m].cap \div 2)

\* memcpy()
Written(data, at, s) ==
    [i \in DOMAIN data |-> IF i \in at + 1..at + Len(s) THEN s[i - at] ELSE data[i]]

-----------------------------------------------------------------------------
(* The rules of the program *)

Fresh(h) == buf[h] = Empty
Usable(h) == h \notin misfit
Alone(m) == buf[m].block # None => buf[m].block \in Blocks /\ count[buf[m].block] = 1
NoSpare(r) == r.cap <= r.size
Spare(h) == h \notin misfit /\ ~NoSpare(buf[h])

\* h has memory it shares, and the capacity of r: without a spare one it will be
\* copied before anything is appended.
Borrows(h, r) == misfit' = IF NoSpare(r) THEN misfit \ {h} ELSE misfit \union {h}

-----------------------------------------------------------------------------
(* Constructors, assignments and the operations of node::buffer *)

\* buffer(size), mutable_buffer(capacity)
New(h, n) ==
    /\ Fresh(h)
    /\ LET s == [i \in 1..n |-> Uninitialised]
       IN  IF h \in Mutables THEN Own(h, s, 0, n) ELSE Own(h, s, n, 0)
    /\ UNCHANGED misfit

\* buffer(const literal_string&): a weak reference
Literal(h, n) ==
    /\ h \in Buffers
    /\ Fresh(h)
    /\ buf' = [buf EXCEPT ![h] = [block |-> Static, off |-> 0, size |-> n, cap |-> 0]]
    /\ UNCHANGED <<mem, count, misfit>>

\* Copy constructors and copy assignments; a mutable_buffer takes the capacity
\* of another one and the size of a buffer.
CopyTo(h, o) ==
    /\ h # o
    /\ LET r == [buf[o] EXCEPT !.cap = IF h \in Buffers THEN 0
                                       ELSE IF o \in Mutables THEN buf[o].cap
                                       ELSE buf[o].size]
       IN  Share(h, r) /\ Borrows(h, r)

\* Move constructors and move assignments.  The capacity of a mutable_buffer
\* stays with it, and that of a buffer is read after it was reset.
MoveTo(h, o) ==
    /\ h # o
    /\ buf' = [buf EXCEPT
                   ![h] = [buf[o] EXCEPT !.cap = IF h \in Mutables THEN @ ELSE 0],
                   ![o] = [Empty EXCEPT !.cap = buf[o].cap]]
    /\ count' = Released(count, buf[h].block)
    /\ mem' = Freed(buf[h].block)
    /\ misfit' = (misfit \ {h, o}) \union (IF o \in misfit THEN {h} \ Buffers ELSE {})
                                     \union (IF buf[o].cap > 0 THEN {o} ELSE {})

\* Mutant: the capacity of the mutable_buffer that is passed is not set.
SwapKeepsCapacity(h, o) ==
    /\ h # o
    /\ buf' = [buf EXCEPT ![h] = [buf[o] EXCEPT !.cap = buf[h].cap],
                          ![o] = [buf[h] EXCEPT !.cap = buf[o].cap]]
    /\ Borrows(h, buf'[h])
    /\ UNCHANGED <<mem, count>>

\* h.swap(o), buffer::swap(buffer&) or buffer::swap(mutable_buffer&), which sets
\* the capacity of o; that of a mutable_buffer h, which inherits both, stays.
Swap(h, o) ==
    /\ h # o
    /\ LET r == [buf[o] EXCEPT !.cap = buf[h].cap]
           q == [buf[h] EXCEPT !.cap = IF o \in Mutables THEN buf[h].size ELSE 0]
       IN  /\ buf' = [buf EXCEPT ![h] = r, ![o] = q]
           /\ misfit' = IF NoSpare(r) THEN misfit \ {h, o}
                        ELSE (misfit \ {o}) \union {h}
    /\ UNCHANGED <<mem, count>>

\* reset() and the destructor
Reset(h) == Share(h, Empty) /\ misfit' = misfit \ {h}

\* Copy construction from o.copy(n)
Copy(h, o, n) ==
    /\ Fresh(h) /\ h # o
    /\ LET size == IF n = 0 THEN buf[o].size ELSE n
       IN  Own(h, Resized(o, size), size, 0)
    /\ UNCHANGED misfit

\* The reference o.slice(beg, end) is, Empty when there is nothing in it
Section(o, beg, end) ==
    LET cbeg == MinOf(beg, buf[o].size)
        cend == MinOf(end, buf[o].size)
    IN  IF buf[o].block # None /\ cend > cbeg
        THEN [block |-> buf[o].block, off |-> buf[o].off + cbeg, size |-> cend - cbeg,
              cap |-> 0]
        ELSE Empty

\* Construction from o.slice(beg, end).  The slice of a mutable_buffer gets what
\* is left of its capacity, in the arithmetic of size_t.
Slice(h, o, beg, end) ==
    /\ Fresh(h) /\ h # o
    /\ LET r == Section(o, beg, end)
           left == (buf[o].cap - (r.off - buf[o].off)) % SizeT
           q == [r EXCEPT !.cap = IF {h, o} \subseteq Mutables THEN left ELSE 0]
       IN  r # Empty /\ Share(h, q) /\ Borrows(h, q)

-----------------------------------------------------------------------------
(* The operations of node::mutable_buffer *)

\* _expand_size() and the memcpy() of append(): the bytes go behind the end of
\* m, where nobody is asked whether they are in use.
AppendBytes(m, s) ==
    /\ m \in Mutables
    /\ Usable(m)
    /\ s # <<>>
    /\ LET r == buf[m]
           n == r.size + Len(s)
       IN  IF n > r.cap
           THEN Own(m, Written(Resized(m, Grown(m, n)), r.size, s), n,
                    Grown(m, n))
           ELSE /\ buf' = [buf EXCEPT ![m].size = n]
                /\ mem' = [mem EXCEPT ![r.block] = Written(@, r.off + r.size, s)]
                /\ UNCHANGED count
    /\ UNCHANGED misfit

\* Mutant: the memory behind the section is taken too.
AppendBufferTakesSpare(m, o, pos, n) ==
    /\ m \in Mutables
    /\ m # o
    /\ n > 0
    /\ pos < buf[o].size
    /\ IF buf[m].size > 0
       THEN AppendBytes(m, SubSeq(Value(o), pos + 1, MinOf(pos + n, buf[o].size)))
       ELSE /\ pos = 0
            /\ LET r == Section(o, pos, n)
               IN  Share(m, [r EXCEPT !.cap = Len(mem[r.block]) - r.off])
            /\ misfit' = misfit \ {m}

\* append(buffer, pos, count): an empty mutable_buffer refers to the buffer
\* instead of copying it.
AppendBuffer(m, o, pos, n) ==
    /\ m \in Mutables
    /\ m # o
    /\ n > 0
    /\ pos < buf[o].size
    /\ IF buf[m].size > 0
       THEN AppendBytes(m, SubSeq(Value(o), pos + 1, MinOf(pos + n, buf[o].size)))
       ELSE /\ pos = 0
            /\ LET r == Section(o, pos, n)
               IN  Share(m, [r EXCEPT !.cap = r.size])
            /\ misfit' = misfit \ {m}

\* set_size(n); set_capacity(n), when keep holds, sets the size back if it grew.
SetSize(m, n, keep) ==
    /\ m \in Mutables
    /\ Usable(m)
    /\ n < buf[m].size => Alone(m)
    /\ LET r == buf[m]
           Size(cap) == IF keep THEN MinOf(r.size, MinOf(cap, n)) ELSE MinOf(cap, n)
           cap == IF n > r.cap THEN Grown(m, n) ELSE MaxOf(MinCapacity, n)
       IN  IF n > r.cap \/ n + n \div 2 <= r.cap
           THEN Own(m, Resized(m, cap), Size(cap), cap)
           ELSE /\ buf' = [buf EXCEPT ![m].size = Size(r.cap)]
                /\ UNCHANGED <<mem, count>>
    /\ UNCHANGED misfit

Clear(m) ==
    /\ m \in Mutables
    /\ Usable(m)
    /\ Alone(m)
    /\ buf' = [buf EXCEPT ![m].size = 0]
    /\ UNCHANGED <<mem, count, misfit>>

Next ==
    \/ \E h \in Handles, n \in 1..MaxSize : New(h, n) \/ Literal(h, n)
    \/ \E h, o \in Handles : CopyTo(h, o) \/ MoveTo(h, o) \/ Swap(h, o)
    \/ \E h \in Handles : Reset(h)
    \/ \E h, o \in Handles, n \in 0..MaxSize : Copy(h, o, n)
    \/ \E h, o \in Handles, beg \in 0..MaxSize - 1, end \in 1..MaxSize :
          Slice(h, o, beg, end)
    \/ \E m \in Mutables, b \in Bytes : AppendBytes(m, <<b>>)
    \/ \E m \in Mutables, o \in Handles, pos \in 0..MaxSize - 1, n \in 1..MaxSize :
          AppendBuffer(m, o, pos, n)
    \/ \E m \in Mutables, n \in 0..MaxSize, keep \in BOOLEAN : SetSize(m, n, keep)
    \/ \E m \in Mutables : Clear(m)

Spec == Init /\ [][Next]_vars

-----------------------------------------------------------------------------
Handle == [block : Blocks \union {Static, None}, off : Nat, size : Nat, cap : Nat]

TypeOK ==
    /\ buf \in [Handles -> Handle]
    /\ mem \in [Blocks \union {Static} -> Seq(Bytes)]
    /\ count \in [Blocks -> Nat]
    /\ misfit \subseteq Mutables

Abstract == INSTANCE BufferValues WITH val <- [h \in Handles |-> Value(h)]

\* Sharing memory cannot be observed: every handle has the value its own
\* operations gave it, whatever happens to the handles it shares memory with, as
\* long as no misfit is appended to (buffer.h, mutable_buffer.cc:30-205).
ImplementsValues == Abstract!Spec

Users(b) == {h \in Handles : buf[h].block = b}

\* The reference count of a memory block is the number of handles that refer to
\* it, through copies, slices, moves, swaps and reallocations; the memory is
\* there exactly as long as it has a user (buffer.cc:152-191).
CountExact ==
    \A b \in Blocks : /\ count[b] = Cardinality(Users(b))
                      /\ mem[b] # <<>> <=> Users(b) # {}

\* The size and the capacity of a handle end inside of its memory, so that an
\* append in place does not write behind it; the capacity of a misfit need not
\* (mutable_buffer.cc:187-205).
InBounds ==
    \A h \in Handles : buf[h].block # None =>
        /\ buf[h].off + buf[h].size <= Len(mem[buf[h].block])
        /\ h \notin misfit => buf[h].off + buf[h].cap <= Len(mem[buf[h].block])

\* The memory into which a mutable_buffer appends in place lies behind the end
\* of every other handle, and nothing but a misfit could append to it too.
SpareIsPrivate ==
    \A m \in Mutables, h \in Handles :
        /\ h # m
        /\ buf[m].block # None
        /\ buf[h].block = buf[m].block
        /\ Spare(m)
        => /\ buf[h].off + buf[h].size <= buf[m].off + buf[m].size
           /\ ~Spare(h)

\* append() leaves what was there and adds exactly the bytes it was given,
\* whether it writes in place, reallocates or refers to the other buffer.
AppendExact ==
    [][\A m \in Mutables : buf'[m].size > buf[m].size =>
          /\ \A b \in Bytes : AppendBytes(m, <<b>>) => Value(m)' = Value(m) \o <<b>>
          /\ \A o \in Handles, pos \in 0..MaxSize - 1, n \in 1..MaxSize :
                AppendBuffer(m, o, pos, n) =>
                    Value(m)' = Value(m) \o
                        SubSeq(Value(o), pos + 1, MinOf(pos + n, buf[o].size))]_vars

\* The memory below the handles is never freed too early, leaked or written past
\* its end, whoever shares it, as long as the program keeps the rules above
\* (buffer.cc:20-191, mutable_buffer.cc:20-205).
BuffersSafe ==
    /\ [](TypeOK /\ CountExact /\ InBounds /\ SpareIsPrivate)
    /\ AppendExact

=============================================================================
