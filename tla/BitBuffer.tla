----------------------------- MODULE BitBuffer -----------------------------
(***************************************************************************)
(* BitBuffer: bits of any number are written behind each other into bytes, *)
(* lowest bit first, and read in the same order.  Whole bytes at a byte    *)
(* boundary are copied; everything else goes through shifts and masks over *)
(* a machine word, which a value that is not aligned may not fit.          *)
(*                                                                         *)
(* A byte or word is the set of its bits that are 1, so shifts move the    *)
(* elements, & is an intersection and | a union; ByteBits and WordBytes    *)
(* stand for 8 and 8.  buffer["frame"] and buffer["payload"] are the two   *)
(* that persistent snapshots copy into each other.  Arguments the code     *)
(* refuses with an exception change nothing and are left out.              *)
(***************************************************************************)
EXTENDS Integers, Sequences

LOCAL INSTANCE SequencesExt

CONSTANTS ByteBits, WordBytes

ASSUME WidthAssumption == ByteBits \in Nat \ {0} /\ WordBytes \in Nat \ {0}

VARIABLE buffer    \* per buffer: bytes_, bit_size_, read_bit_

WordBits == ByteBits * WordBytes

Byte == SUBSET (0 .. ByteBits - 1)
Word == SUBSET (0 .. WordBits - 1)

Low(v, n)   == v \cap 0 .. n - 1
Left(v, k)  == {x + k : x \in v}
Right(v, k) == {x - k : x \in {y \in v : y >= k}}

(* The conversion of a word to a byte, after a shift. *)
ByteAt(v, k) == Low(Right(v, k * ByteBits), ByteBits)

ByteCount(n) == (n + ByteBits - 1) \div ByteBits
Aligned(n)   == n % ByteBits = 0

Empty == [bytes |-> <<>>, bit_size |-> 0, read_bit |-> 0]

remaining_bits(b) == b.bit_size - b.read_bit

-----------------------------------------------------------------------------
(* Cutting. *)

(* clear_unused_tail_bits works on the last byte there is. *)
ClearTail(b) ==
    IF Aligned(b.bit_size) \/ b.bytes = <<>> THEN b
    ELSE [b EXCEPT !.bytes[Len(b.bytes)] = Low(@, b.bit_size % ByteBits)]

assign_bytes(bytes, n) == ClearTail([bytes |-> bytes, bit_size |-> n, read_bit |-> 0])

(* Mistake: the bits behind the end stay in the last byte. *)
truncate_dirty(b, n) ==
    [bytes |-> SubSeq(b.bytes, 1, ByteCount(n)), bit_size |-> n,
     read_bit |-> IF b.read_bit > n THEN n ELSE b.read_bit]

truncate_bits(b, n) ==
    ClearTail([bytes |-> SubSeq(b.bytes, 1, ByteCount(n)), bit_size |-> n,
               read_bit |-> IF b.read_bit > n THEN n ELSE b.read_bit])

-----------------------------------------------------------------------------
(* Writing. *)

write_bool(b, value) ==
    LET at    == b.bit_size \div ByteBits + 1
        bit   == {b.bit_size % ByteBits}
        bytes == IF Aligned(b.bit_size) THEN Append(b.bytes, {}) ELSE b.bytes
    IN  [b EXCEPT !.bytes = [bytes EXCEPT ![at] = IF value THEN @ \cup bit ELSE @ \ bit],
                  !.bit_size = @ + 1]

(* The part of v, written from bit `shift' of byte 0, that lies in byte k. *)
Source(v, shift, k) ==
    LET start == k * ByteBits - shift
    IN  Low(IF start >= 0 THEN Right(v, start) ELSE Left(v, -start), ByteBits)

Mask(n, shift, k) ==
    {x \in 0 .. ByteBits - 1 : k * ByteBits - shift + x \in 0 .. n - 1}

write_unsigned_bits(b, v, n) ==
    LET shift   == b.bit_size % ByteBits
        first   == b.bit_size \div ByteBits + 1
        touched == ByteCount(shift + n)
        size    == ByteCount(b.bit_size + n)
        grown   == [k \in 1 .. IF size > Len(b.bytes) THEN size ELSE Len(b.bytes) |->
                       IF k <= Len(b.bytes) THEN b.bytes[k] ELSE {}]
        bytes   == IF shift = 0 /\ Aligned(n)
                   THEN b.bytes \o [k \in 1 .. n \div ByteBits |-> ByteAt(v, k - 1)]
                   ELSE [k \in DOMAIN grown |->
                           IF k \notin first .. first + touched - 1 THEN grown[k]
                           ELSE (grown[k] \ Mask(n, shift, k - first))
                                \cup (Source(v, shift, k - first) \cap Mask(n, shift, k - first))]
    IN  IF n = 0 THEN b ELSE [b EXCEPT !.bytes = bytes, !.bit_size = @ + n]

(* write_bytes, of a sequence of bytes. *)
write_bytes(b, data) ==
    IF Aligned(b.bit_size)
    THEN [b EXCEPT !.bytes = @ \o data, !.bit_size = @ + Len(data) * ByteBits]
    ELSE FoldLeft(LAMBDA c, x : write_unsigned_bits(c, x, ByteBits), b, data)

(* How the host keeps an unsigned number of n bytes in memory, and         *)
(* detail::little_endian_value.                                            *)
InMemory(v, n, little) ==
    LET low_first == [k \in 1 .. n |-> ByteAt(v, k - 1)]
    IN  IF little THEN low_first ELSE Reverse(low_first)

Number(data, little) ==
    LET low_first == IF little THEN data ELSE Reverse(data)
    IN  UNION {Left(low_first[k], (k - 1) * ByteBits) : k \in DOMAIN data}

little_endian_value(v, n, little) ==
    IF little THEN v
    ELSE UNION {Left(ByteAt(v, k), (n - 1 - k) * ByteBits) : k \in 0 .. n - 1}

(* The fixed-width integers; floats are written as the integer of the same *)
(* bits, signed numbers as unsigned ones.                                  *)
write_little_endian(b, v, n, little) ==
    write_bytes(b, InMemory(little_endian_value(v, n, little), n, little))

(* The bit loop that overwrite_unsigned_bits falls back to where the bytes *)
(* it touches do not fit in a word.                                        *)
OverwriteEach(b, offset, v, n) ==
    [k \in DOMAIN b.bytes |->
        {x \in 0 .. ByteBits - 1 :
            LET bit == (k - 1) * ByteBits + x - offset
            IN  IF bit \in 0 .. n - 1 THEN bit \in v ELSE x \in b.bytes[k]}]

overwrite_unsigned_bits(b, offset, v, n) ==
    LET shift   == offset % ByteBits
        first   == offset \div ByteBits + 1
        touched == ByteCount(shift + n)
        window  == UNION {Left(b.bytes[first + k], k * ByteBits) : k \in 0 .. touched - 1}
        mask    == Left(0 .. n - 1, shift)
        merged  == (window \ mask) \cup Left(Low(v, n), shift)
        bytes   ==
          IF shift = 0 /\ Aligned(n)
          THEN [k \in DOMAIN b.bytes |-> IF k \in first .. first + n \div ByteBits - 1
                                         THEN ByteAt(v, k - first) ELSE b.bytes[k]]
          ELSE IF touched <= WordBytes
          THEN [k \in DOMAIN b.bytes |-> IF k \in first .. first + touched - 1
                                         THEN ByteAt(merged, k - first) ELSE b.bytes[k]]
          ELSE OverwriteEach(b, offset, v, n)
    IN  IF n = 0 THEN b ELSE [b EXCEPT !.bytes = bytes]

BitAt(b, i) == (i % ByteBits) \in b.bytes[i \div ByteBits + 1]

write_buffer_bits(b, source) ==
    IF source.bit_size = 0 THEN b
    ELSE IF Aligned(b.bit_size)
    THEN [b EXCEPT !.bytes = @ \o source.bytes, !.bit_size = @ + source.bit_size]
    ELSE FoldLeft(write_bool, b, [k \in 1 .. source.bit_size |-> BitAt(source, k - 1)])

-----------------------------------------------------------------------------
(* Reading. *)

(* Mistake: a value that reaches into the byte behind the word loses that. *)
read_window_only(b, n) ==
    LET shift  == b.read_bit % ByteBits
        first  == b.read_bit \div ByteBits + 1
        behind == Len(b.bytes) - first + 1
        window == UNION {Left(b.bytes[first + k], k * ByteBits) :
                            k \in 0 .. (IF behind < WordBytes THEN behind ELSE WordBytes) - 1}
    IN  Low(Right(window, shift), n)

(* What read_unsigned_bits returns. *)
read_unsigned_bits(b, n) ==
    LET shift  == b.read_bit % ByteBits
        first  == b.read_bit \div ByteBits + 1
        behind == Len(b.bytes) - first + 1
        window == UNION {Left(b.bytes[first + k], k * ByteBits) :
                            k \in 0 .. (IF behind < WordBytes THEN behind ELSE WordBytes) - 1}
        value  == Right(window, shift) \cup
                    IF n > WordBits - shift
                    THEN Low(Left(b.bytes[first + WordBytes], WordBits - shift), WordBits)
                    ELSE {}
    IN  IF n = 0 THEN {}
        ELSE IF shift = 0 /\ Aligned(n)
        THEN UNION {Left(b.bytes[first + k], k * ByteBits) : k \in 0 .. n \div ByteBits - 1}
        ELSE Low(value, n)

skip_bits(b, n) == [b EXCEPT !.read_bit = @ + n]

(* What read_bytes stores. *)
read_bytes(b, count) ==
    LET first == b.read_bit \div ByteBits + 1
    IN  IF Aligned(b.read_bit) THEN SubSeq(b.bytes, first, first + count - 1)
        ELSE [k \in 1 .. count |->
                 read_unsigned_bits(skip_bits(b, (k - 1) * ByteBits), ByteBits)]

read_little_endian(b, n, little) ==
    little_endian_value(Number(read_bytes(b, n), little), n, little)

(* What read_buffer_bits makes of its other buffer. *)
read_buffer_bits(b, out, n) ==
    IF Aligned(b.read_bit) /\ Aligned(out.bit_size) /\ Aligned(n)
    THEN write_bytes(out, read_bytes(b, n \div ByteBits))
    ELSE FoldLeft(write_bool, out, [k \in 1 .. n |-> BitAt(b, b.read_bit + k - 1)])

-----------------------------------------------------------------------------
Name == {"frame", "payload"}

BufferInit == buffer = [x \in Name |-> Empty]

Becomes(x, b) == buffer' = [buffer EXCEPT ![x] = b]

Clear(x) == Becomes(x, Empty)

(* read_frame assigns as many bytes as the bits take; what they hold       *)
(* behind the last bit is anybody's.                                       *)
Assign(x, bytes, n) == Len(bytes) = ByteCount(n) /\ Becomes(x, assign_bytes(bytes, n))

Truncate(x, n) == n <= buffer[x].bit_size /\ Becomes(x, truncate_bits(buffer[x], n))

WriteBool(x, value) == Becomes(x, write_bool(buffer[x], value))

Write(x, v, n) == Becomes(x, write_unsigned_bits(buffer[x], v, n))

Overwrite(x, offset, v, n) ==
    /\ offset + n <= buffer[x].bit_size
    /\ Becomes(x, overwrite_unsigned_bits(buffer[x], offset, v, n))

WriteBytes(x, data) == Becomes(x, write_bytes(buffer[x], data))

WriteScalar(x, v, n, little) == Becomes(x, write_little_endian(buffer[x], v, n, little))

AppendBuffer(x, y) == Becomes(x, write_buffer_bits(buffer[x], buffer[y]))

(* read_buffer_bits reads here and writes there. *)
Extract(x, y, n) ==
    /\ n <= remaining_bits(buffer[x])
    /\ buffer' = [buffer EXCEPT ![x] = skip_bits(@, n),
                                ![y] = read_buffer_bits(buffer[x], @, n)]

(* skip_bits, and every other read. *)
Skip(x, n) == n <= remaining_bits(buffer[x]) /\ Becomes(x, skip_bits(buffer[x], n))

ResetRead(x) == Becomes(x, [buffer[x] EXCEPT !.read_bit = 0])

-----------------------------------------------------------------------------
(* The reference: a buffer is a sequence of bits and a position in it. *)

Content(b) == [k \in 1 .. b.bit_size |-> BitAt(b, k - 1)]

Digits(v, n) == [k \in 1 .. n |-> k - 1 \in v]

DigitsOf(data) ==
    [k \in 1 .. Len(data) * ByteBits |->
        ((k - 1) % ByteBits) \in data[(k - 1) \div ByteBits + 1]]

Ahead(b, n) == SubSeq(Content(b), b.read_bit + 1, b.read_bit + n)

(* Values are appended low bit first, whichever path the alignment takes,  *)
(* and the order of bytes is that of the wire on every host.               *)
WritesExact(b) ==
    /\ \A n \in 0 .. WordBits, v \in Word :
          Content(write_unsigned_bits(b, v, n)) = Content(b) \o Digits(v, n)
    /\ \A x, y \in Byte :
          Content(write_bytes(b, <<x, y>>)) = Content(b) \o DigitsOf(<<x, y>>)
    /\ \A v \in Word, little \in BOOLEAN :
          Content(write_little_endian(b, v, WordBytes, little))
             = Content(b) \o Digits(v, WordBits)
    /\ \A offset, n \in 0 .. b.bit_size, v \in Word :
          n <= WordBits /\ offset + n <= b.bit_size =>
             Content(overwrite_unsigned_bits(b, offset, v, n))
                = [k \in 1 .. b.bit_size |->
                      IF k - 1 - offset \in 0 .. n - 1 THEN k - 1 - offset \in v
                      ELSE Content(b)[k]]

(* Every read returns the bits that are next, and no others. *)
ReadsExact(b) ==
    /\ \A n \in 0 .. remaining_bits(b) :
          n <= WordBits =>
             /\ read_unsigned_bits(b, n) \subseteq 0 .. n - 1
             /\ Digits(read_unsigned_bits(b, n), n) = Ahead(b, n)
    /\ \A count \in 0 .. remaining_bits(b) \div ByteBits :
          DigitsOf(read_bytes(b, count)) = Ahead(b, count * ByteBits)
    /\ remaining_bits(b) >= WordBits =>
          \A little \in BOOLEAN :
             Digits(read_little_endian(b, WordBytes, little), WordBits) = Ahead(b, WordBits)

CopiesExact(b, c) ==
    /\ b.read_bit = 0 => Content(write_buffer_bits(b, c)) = Content(b) \o Content(c)
    /\ \A n \in 0 .. remaining_bits(b) :
          Content(read_buffer_bits(b, c, n)) = Content(c) \o Ahead(b, n)

(* operator== compares the bytes, so equal contents must be equal bytes:   *)
(* none too many, and 0 behind the last bit.                               *)
Packed(b) ==
    b.bytes = [k \in 1 .. ByteCount(b.bit_size) |->
                  {x \in 0 .. ByteBits - 1 : (k - 1) * ByteBits + x < b.bit_size
                                             /\ BitAt(b, (k - 1) * ByteBits + x)}]

(* Whatever was written, cut, overwritten and read before, at whatever bit *)
(* of a byte, a buffer acts as the sequence of bits that was put in.       *)
CarriesBits ==
    /\ \A x \in Name : Packed(buffer[x]) /\ remaining_bits(buffer[x]) >= 0
    /\ buffer["payload"] = Empty =>
          /\ ReadsExact(buffer["frame"])
          /\ buffer["frame"].read_bit = 0 => WritesExact(buffer["frame"])
    /\ CopiesExact(buffer["frame"], buffer["payload"])
    /\ CopiesExact(buffer["payload"], buffer["frame"])
=============================================================================
