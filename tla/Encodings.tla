------------------------------ MODULE Encodings ------------------------------
(***************************************************************************)
(* The pure algorithms of the utilities: the printing of numbers           *)
(* (util/math.cc, mutable_buffer::append_number), URI components           *)
(* (util/uri.cc), base64 (util/base64.cc), the padding of SHA-1            *)
(* (util/sha1.cc) and CRC32C (util/crc32c.cc).                             *)
(*                                                                         *)
(* The state is only an input that grows: bytes, which lie in memory at an *)
(* address that is align modulo 8.                                         *)
(***************************************************************************)
EXTENDS Naturals, Sequences, SequencesExt

CONSTANTS
    InputBytes, \* the values the first bytes of an input take
    FreeBytes,  \* the length of the inputs that have any of them
    MaxInput,   \* bound: the length of an input
    Bases,      \* the bases numbers are printed in
    LogBelow,   \* <<n, base>>: the powers whose logarithm is rounded down
    MaxDigits,  \* the digits digits() counts in base 10: its table ends there
    BlockSize   \* the size of a block of SHA-1: 64

PowersOf2 == {2, 4, 8, 16, 32}

\* Digest writes the number of bits with its two lowest bytes only.
ASSUME InputAssumption ==
    /\ Bases \subseteq 2..36 /\ MaxDigits \in Nat
    /\ InputBytes \subseteq 0..255
    /\ MaxInput \in 0..8191
    /\ BlockSize \in Nat /\ BlockSize > 8

VARIABLES bytes, align

inputVars == <<bytes, align>>

InputInit == bytes = <<>> /\ align \in 0..7

\* Every short input, and long ones that follow a pattern
Grow ==
    /\ Len(bytes) < FreeBytes
    /\ \E b \in InputBytes : bytes' = Append(bytes, b)
    /\ UNCHANGED align

GrowLong ==
    /\ Len(bytes) \in FreeBytes..MaxInput - 1
    /\ \A i \in 1..FreeBytes : bytes[i] = bytes[1]
    /\ bytes' = Append(bytes, (73 * Len(bytes)) % 256)
    /\ UNCHANGED align

InputNext == Grow \/ GrowLong

InputSpec == InputInit /\ [][InputNext]_inputVars

CeilDiv(a, b) == (a + b - 1) \div b

Joined(seqs) == FoldLeft(LAMBDA all, s : all \o s, <<>>, seqs)

Zeros(n) == [i \in 1..n |-> 0]

-----------------------------------------------------------------------------
(* Numbers *)

\* ipow()
Power(base, n) == FoldLeft(LAMBDA p, b : p * b, 1, [i \in 1..n |-> base])

\* digits2(): the position of the highest bit, counted from one
Digits2(n) == CHOOSE d \in 0..30 : n < Power(2, d) /\ (d > 0 => Power(2, d - 1) <= n)

\* The quotient of two logarithms, as a whole number. It is inexact: for a power
\* of the base it may come out below, by what the floating point unit makes of it.
FloorLog(n, base) ==
    LET k == CHOOSE k \in 0..n : Power(base, k) <= n /\ n < Power(base, k + 1)
    IN  IF k > 1 /\ n = Power(base, k) /\ <<n, base>> \in LogBelow THEN k - 1 ELSE k

\* Mutant: a digit too many for powers of the base
DigitsRoundedUp(n, base) ==
    IF base = 10
    THEN CHOOSE d \in 1..MaxDigits : (d < MaxDigits => n < Power(10, d))
                                     /\ (d > 1 => Power(10, d - 1) <= n)
    ELSE IF base \in PowersOf2
    THEN (Digits2(n) + Digits2(base) - 1) \div (Digits2(base) - 1)
    ELSE FloorLog(n, base)

\* digits(): base 10 has a table, which ends, and powers of 2 have a rule; for any
\* other base it is the logarithm, which is one digit less than the number has.
Digits(n, base) ==
    IF base = 10
    THEN CHOOSE d \in 1..MaxDigits : (d < MaxDigits => n < Power(10, d))
                                     /\ (d > 1 => Power(10, d - 1) <= n)
    ELSE IF base \in PowersOf2
    THEN (Digits2(n) + Digits2(base) - 2) \div (Digits2(base) - 1)
    ELSE FloorLog(n, base)

\* append_number(), for a length above zero. For length zero, it divides by
\* base^(2^64 - 1): by zero, or it writes digits into memory it did not ask for.
Printed(n, base, length) ==
    [i \in 1..length |-> (n \div Power(base, length - i)) % base]

AppendNumber(n, base) == Printed(n, base, Digits(n, base))

ValueOf(digits, base) ==
    FoldLeft(LAMBDA v, d : v + d, 0,
             [i \in DOMAIN digits |-> digits[i] * Power(base, Len(digits) - i)])

-----------------------------------------------------------------------------
(* URI components *)

Percent == 37
Plus == 43
Space == 32

HexDigits == 48..57 \union 65..70 \union 97..102

HexToInt(c) == IF c \div 16 = 3 THEN c % 16 ELSE 9 + (c % 16)

\* A turn of the loop of component_decode(), for the bytes from the next one on:
\* an escape takes the two that follow it away (skip), and its first digit is
\* taken for the lower half of the byte.
UriStep(s, rest) ==
    LET c == rest[1]
    IN  IF s.bad THEN s
        ELSE IF s.skip > 0 THEN [s EXCEPT !.skip = @ - 1]
        ELSE IF c < 32 \/ c >= 127 THEN [s EXCEPT !.bad = TRUE]
        ELSE IF s.urlencoded /\ c = Plus THEN [s EXCEPT !.out = Append(@, Space)]
        ELSE IF c = Percent /\ Len(rest) > 2
        THEN IF rest[2] \in HexDigits /\ rest[3] \in HexDigits
             THEN [s EXCEPT !.out = Append(@, HexToInt(rest[3]) * 16 + HexToInt(rest[2])),
                            !.skip = 2]
             ELSE [s EXCEPT !.bad = TRUE]
        ELSE [s EXCEPT !.out = Append(@, c)]

ComponentDecode(urlencoded) ==
    LET r == FoldLeft(UriStep, [out |-> <<>>, skip |-> 0, bad |-> FALSE,
                                urlencoded |-> urlencoded],
                      [i \in 1..Len(bytes) |-> SubSeq(bytes, i, Len(bytes))])
    IN  IF r.bad THEN <<>> ELSE r.out

-----------------------------------------------------------------------------
(* base64; a character is its sextet, Pad is "=" or any invalid character *)

Pad == 64

\* The bytes encode() has read when its loops are done: the first one reaches
\* an aligned address, the second takes 12 bytes at a time and the third 3.
UnalignedEnd(len) == IF len >= 12 THEN 3 * (align % 4) ELSE 0
AlignedEnd(len) ==
    UnalignedEnd(len) + (IF len >= 12 THEN 12 * CeilDiv(len - 11, 12) ELSE 0)
GroupsEnd(len) ==
    LET base == AlignedEnd(len)
    IN  IF base < len - 2 THEN base + 3 * CeilDiv(len - 2 - base, 3) ELSE base

Sextets(a, b, c) ==
    <<a \div 4, (a % 4) * 16 + b \div 16, (b % 16) * 4 + c \div 64, c % 64>>

Encode ==
    LET len == Len(bytes)
        end == GroupsEnd(len)
        Group(i) == Sextets(bytes[3 * i - 2], bytes[3 * i - 1], bytes[3 * i])
    IN  Joined([i \in 1..end \div 3 |-> Group(i)])
        \o CASE len - end = 1 -> SubSeq(Sextets(bytes[len], 0, 0), 1, 2)
                                 \o <<Pad, Pad>>
             [] len - end = 2 -> SubSeq(Sextets(bytes[len - 1], bytes[len], 0), 1, 3)
                                 \o <<Pad>>
             [] OTHER -> <<>>

\* What one group of decode() writes: s are its latest sextets, of which n are
\* new; with another number than 2, 3 or 4 nothing is written.
Triple(s, n) ==
    LET k == Len(s) - n
    IN  CASE n = 2 -> <<s[k + 1] * 4 + s[k + 2] \div 16>>
          [] n = 3 -> <<s[k + 1] * 4 + s[k + 2] \div 16,
                        (s[k + 2] % 16) * 16 + s[k + 3] \div 4>>
          [] n = 4 -> <<s[k + 1] * 4 + s[k + 2] \div 16,
                        (s[k + 2] % 16) * 16 + s[k + 3] \div 4,
                        (s[k + 3] % 4) * 64 + s[k + 4]>>
          [] OTHER -> <<>>

\* The macro shift6(), for some characters
Valid(chars) ==
    FoldLeft(LAMBDA s, x : IF x < Pad THEN Append(s, x) ELSE s, <<>>, chars)

\* One turn of the loop of decode(): ri is what it counts in a byte.
DecodeGroup(d, group) ==
    LET valid == Valid(group)
        n == (d.ri + Len(valid)) % 256
    IN  [r |-> d.r \o valid,
         ri |-> IF n \in {2, 3} THEN 1 ELSE IF n = 4 THEN 0 ELSE n,
         out |-> d.out \o Triple(d.r \o valid, n)]

Decoded(chars) ==
    FoldLeft(DecodeGroup, [r |-> <<>>, ri |-> 0, out |-> <<>>],
             [i \in 1..Len(chars) \div 4 |-> SubSeq(chars, 4 * i - 3, 4 * i)])

\* What is left after the last group of four is written behind the result, and
\* not part of it.
Tail4(chars) ==
    LET left == Valid(SubSeq(chars, 4 * (Len(chars) \div 4) + 1, Len(chars)))
        d == Decoded(chars)
    IN  Triple(d.r \o left, (d.ri + Len(left)) % 256)

Decode(chars) == Decoded(chars).out

-----------------------------------------------------------------------------
(* SHA-1: which blocks are processed *)

\* push_impl()
PushImpl(s, b) ==
    IF Len(s.block) + 1 = BlockSize
    THEN [block |-> <<>>, blocks |-> Append(s.blocks, Append(s.block, b))]
    ELSE [s EXCEPT !.block = Append(@, b)]

PushAll(s, data) == FoldLeft(PushImpl, s, data)

\* get_digest(): the padding, and the number of bits as a 64-bit integer
Digest ==
    LET room == BlockSize - 8
        s == PushImpl(PushAll([block |-> <<>>, blocks |-> <<>>], bytes), 128)
        t == IF Len(s.block) > room
             THEN PushAll(s, Zeros(BlockSize - Len(s.block)))
             ELSE s
        bits == 8 * Len(bytes)
    IN  PushAll(t, Zeros(room - Len(t.block))
                   \o Zeros(6) \o <<bits \div 256, bits % 256>>)

-----------------------------------------------------------------------------
(* CRC32C; a word is the set of its bits *)

Bits(n) == {i \in 0..7 : (n \div 2^i) % 2 = 1}
Xor(a, b) == (a \ b) \union (b \ a)
Shr(a, n) == {i - n : i \in {j \in a : j >= n}}
Low(a) == a \intersect 0..7

Polynomial == {3, 4, 5, 6, 8, 9, 11, 12, 13, 17, 18, 20, 21, 22, 23, 25, 31}

ShiftBit(c) == IF 0 \in c THEN Xor(Shr(c, 1), Polynomial) ELSE Shr(c, 1)
ShiftByte(c) == FoldLeft(LAMBDA w, i : ShiftBit(w), c, Zeros(8))

\* crc32c_8x256_tables.cc: o32 is the remainder of a byte, and each other table
\* that of a byte with one more byte of zeros behind it.
o32 == [s \in SUBSET (0..7) |-> ShiftByte(s)]
o40 == [s \in SUBSET (0..7) |-> ShiftByte(o32[s])]
o48 == [s \in SUBSET (0..7) |-> ShiftByte(o40[s])]
o56 == [s \in SUBSET (0..7) |-> ShiftByte(o48[s])]
o64 == [s \in SUBSET (0..7) |-> ShiftByte(o56[s])]
o72 == [s \in SUBSET (0..7) |-> ShiftByte(o64[s])]
o80 == [s \in SUBSET (0..7) |-> ShiftByte(o72[s])]
o88 == [s \in SUBSET (0..7) |-> ShiftByte(o80[s])]

XorAll(words) == FoldLeft(Xor, {}, words)

PushByte(crc, b) == Xor(o32[Low(Xor(crc, Bits(b)))], Shr(crc, 8))

\* Mutant: the first two tables are swapped
PushWordsSwapped(crc, b) ==
    LET c(i) == Xor(Low(Shr(crc, 8 * (i - 1))), Bits(b[i]))
    IN  XorAll(<<o80[c(1)], o88[c(2)], o72[c(3)], o64[c(4)],
                 o56[Bits(b[5])], o48[Bits(b[6])], o40[Bits(b[7])], o32[Bits(b[8])]>>)

\* Eight bytes at once, the first four of which meet the register
PushWords(crc, b) ==
    LET c(i) == Xor(Low(Shr(crc, 8 * (i - 1))), Bits(b[i]))
    IN  XorAll(<<o88[c(1)], o80[c(2)], o72[c(3)], o64[c(4)],
                 o56[Bits(b[5])], o48[Bits(b[6])], o40[Bits(b[7])], o32[Bits(b[8])]>>)

Ones == 0..31

\* div8start: where the addresses that are a multiple of 8 begin
AlignedStart(beg, end) ==
    LET start == CeilDiv(beg, 8) * 8 IN IF start > end THEN end ELSE start

\* crc32c::push() of the bytes first..last
Push(crc, first, last) ==
    LET beg == align + first - 1
        end == align + last
        start == AlignedStart(beg, end)
        stop == (end \div 8) * 8
        n == IF stop > start THEN (stop - start) \div 8 ELSE 0
        Sub(from, to) == SubSeq(bytes, from - align + 1, to - align)
        c1 == FoldLeft(PushByte, crc, Sub(beg, start))
        c2 == FoldLeft(PushWords, c1,
                       [i \in 1..n |-> Sub(start + 8 * (i - 1), start + 8 * i)])
    IN  IF first > last THEN Ones
        ELSE FoldLeft(PushByte, c2, Sub(start + 8 * n, end))

-----------------------------------------------------------------------------
(* Properties *)

Number == IF Len(bytes) = 2 THEN bytes[1] * 256 + bytes[2] ELSE 0

\* append_number() prints the number, with as many digits as it needs and no more,
\* in the bases whose digits are counted exactly, as long as the table is right.
NumberExact ==
    \A base \in Bases \intersect ({10} \union PowersOf2) :
        Number > 0 /\ (base = 10 => Number < Power(10, MaxDigits))
        => LET printed == AppendNumber(Number, base)
           IN  ValueOf(printed, base) = Number /\ printed[1] # 0

\* In every other base the highest digits of the number are missing, and for a
\* number below the base no digit is left: length is zero then.
NumberShort ==
    \A base \in Bases \ ({10} \union PowersOf2) :
        Number > 0 =>
            IF Number < base THEN Digits(Number, base) = 0
            ELSE \E d \in 1..Number :
                    /\ Power(base, d) <= Number
                    /\ ValueOf(AppendNumber(Number, base), base) = Number % Power(base, d)

\* What stands for a byte that is not part of an escape
Unescaped(urlencoded, c) == IF urlencoded /\ c = Plus THEN Space ELSE c

\* A component without escapes is decoded to itself, with spaces for "+" if it is
\* urlencoded, and nothing that is not printable comes through without one.
UriPlain ==
    \A urlencoded \in BOOLEAN :
        (\A i \in DOMAIN bytes : bytes[i] # Percent) =>
            ComponentDecode(urlencoded) =
                IF \A i \in DOMAIN bytes : bytes[i] \in 32..126
                THEN [i \in DOMAIN bytes |-> Unescaped(urlencoded, bytes[i])]
                ELSE <<>>

\* One escape becomes one byte and leaves the others alone, but the byte is the
\* one of its digits in reverse order: "%41" is decoded to 0x14 and not to "A".
UriEscape ==
    \A urlencoded \in BOOLEAN, e \in 1..Len(bytes) - 2 :
        /\ \A i \in DOMAIN bytes : bytes[i] \in 32..126 /\ (bytes[i] = Percent <=> i = e)
        /\ bytes[e + 1] \in HexDigits /\ bytes[e + 2] \in HexDigits
        => ComponentDecode(urlencoded) =
               [i \in 1..Len(bytes) - 2 |->
                  IF i = e THEN 16 * HexToInt(bytes[e + 2]) + HexToInt(bytes[e + 1])
                  ELSE Unescaped(urlencoded, bytes[IF i < e THEN i ELSE i + 2])]

\* An escape becomes one byte, and an incomplete one at the end stays as it is:
\* a component that is accepted loses two bytes for each escape.
UriLength ==
    \A urlencoded \in BOOLEAN :
        ComponentDecode(urlencoded) # <<>> =>
            \E escapes \in 0..Len(bytes) \div 3 :
                /\ Len(ComponentDecode(urlencoded)) + 2 * escapes = Len(bytes)
                /\ escapes <= Cardinality({i \in DOMAIN bytes : bytes[i] = Percent})

ByteAt(i) == IF i <= Len(bytes) THEN bytes[i] ELSE 0

\* The encoding of data at an aligned address, by the bits of each three bytes.
EncodeExact ==
    align % 4 = 0 =>
        /\ GroupsEnd(Len(bytes)) <= Len(bytes)
        /\ Encode = [k \in 1..4 * CeilDiv(Len(bytes), 3) |->
                       LET i == 3 * ((k - 1) \div 4)
                           word == (ByteAt(i + 1) * 256 + ByteAt(i + 2)) * 256 + ByteAt(i + 3)
                           j == (k - 1) % 4
                       IN  IF i + j > Len(bytes) THEN Pad
                           ELSE (word \div Power(64, 3 - j)) % 64]

\* Decoding gives back what was encoded.
RoundTrip == GroupsEnd(Len(bytes)) <= Len(bytes) => Decode(Encode) = bytes

\* Whatever the characters are, padded or not, the decoder writes no more bytes
\* than it asked for, as long as at most one character follows the groups.
DecodeInBounds ==
    LET chars == [i \in DOMAIN bytes |-> bytes[i] % 80]
    IN  Len(chars) % 4 <= 1 =>
            Len(Decode(chars)) + Len(Tail4(chars)) <= 3 * (Len(chars) \div 4)

\* The blocks of SHA-1 are the message, one bit, zeros and the length, with no
\* block more than that takes.
PaddingExact ==
    LET done == Digest
        all == Joined(done.blocks)
        n == Len(all)
        bits == 8 * Len(bytes)
    IN  /\ done.block = <<>>
        /\ n = BlockSize * CeilDiv(Len(bytes) + 9, BlockSize)
        /\ all = bytes \o <<128>> \o Zeros(n - Len(bytes) - 3)
                 \o <<bits \div 256, bits % 256>>

\* The checksum does not depend on where the data lies, nor on how it was cut
\* into pieces that are not empty.
ChecksumExact ==
    LET whole == FoldLeft(PushByte, Ones, bytes)
    IN  /\ bytes # <<>> => Push(Ones, 1, Len(bytes)) = whole
        /\ \A cut \in 1..Len(bytes) - 1 :
              Push(Push(Ones, 1, cut), cut + 1, Len(bytes)) = whole

\* What the conversions to and from text return, at every boundary of their
\* loops: what they are defined to, but for the numbers in other bases and the
\* digits of an escape (math.cc:118-170, uri.cc:29-60, base64.cc:27-307).
TextExact ==
    /\ NumberExact /\ NumberShort
    /\ UriPlain /\ UriEscape /\ UriLength
    /\ EncodeExact /\ RoundTrip /\ DecodeInBounds

\* The digests read every byte once, in order, however the input was divided
\* (sha1.cc:110-142, crc32c.cc:24-70).
DigestExact == PaddingExact /\ ChecksumExact

=============================================================================
