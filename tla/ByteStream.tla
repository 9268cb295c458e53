------------------------------ MODULE ByteStream ------------------------------
(***************************************************************************)
(* ByteWriter and ByteReader (Global/Serialize), as operators on sequences *)
(* of bytes.  A byte has ByteBits bits, 8 in the code: TLC's integers hold *)
(* a 64-bit value only of smaller bytes, and no operator depends on 8.     *)
(*                                                                         *)
(* A reader is a record: its source, the index of the next byte, the bits  *)
(* it has read ahead, and ok, which is "no" once a read has thrown a       *)
(* ByteError.  A read yields the reader with the value read in field v.    *)
(***************************************************************************)
EXTENDS Integers, Sequences, SequencesExt

CONSTANTS
    ByteBits,     \* bits of a byte
    Base,         \* values of a byte
    UuidBytes,    \* bytes of a UUID, 16 in the code
    MaxGroups     \* groups of a varint the reader accepts: 6, for shifts up to 35

\* Exponentiation as a recursive function, for the proofs.
Power(b, n) == LET p[k \in 0..n] == IF k = 0 THEN 1 ELSE b * p[k - 1] IN p[n]

Half == Base \div 2
U32 == Power(Base, 4)

\* The groups that a reader accepts hold every uint32_t.
ASSUME StreamAssumption ==
    /\ ByteBits \in Nat \ {0, 1} /\ Base = Power(2, ByteBits) /\ UuidBytes \in Nat
    /\ MaxGroups \in 1..32 /\ U32 <= Power(Half, MaxGroups)

-----------------------------------------------------------------------------
(* ByteWriter: each operator is what the call appends to buf. *)

\* push_be, for u16 to u64 and, through a conversion to unsigned, i8 to i64; the floats and
\* enums are written as the integers of their bits.
PushBe(w, v) == [k \in 1..w |-> (v \div Power(Base, w - k)) % Base]

\* var_u32: groups of ByteBits - 1 bits, the lowest first.
Groups(v) ==
    CHOOSE n \in 1..32 : v < Power(Half, n) /\ (n > 1 => v >= Power(Half, n - 1))
VarU32(v) ==
    [k \in 1..Groups(v) |-> ((v \div Power(Half, k - 1)) % Half) + (IF k < Groups(v) THEN Half ELSE 0)]

\* The int32_t v as a uint32_t, and var_i32: (v << 1) ^ (v >> 31).
Unsigned(v) == v % U32
ZigZag(v) == Unsigned(IF v >= 0 THEN 2 * v ELSE -2 * v - 1)
VarI32(v) == VarU32(ZigZag(v))

\* str and blob; tlv.
Blob(b) == VarU32(Len(b)) \o b
Tlv(tag, b) == PushBe(2, tag) \o Blob(b)

\* quat writes x, y, z, w.
Quat(q) == PushBe(4, q.x) \o PushBe(4, q.y) \o PushBe(4, q.z) \o PushBe(4, q.w)

\* bits and flush_bits: the value is put above the bitPos bits that wait in bitBuffer, and
\* whole bytes leave the buffer.  The callers pass values of at most count bits.
Bits(w, value, count) ==
    LET buffer == w.bitBuffer + value * Power(2, w.bitPos)
        full == (w.bitPos + count) \div ByteBits
    IN  [buf |-> w.buf \o [k \in 1..full |-> (buffer \div Power(Base, k - 1)) % Base],
         bitBuffer |-> buffer \div Power(Base, full),
         bitPos |-> (w.bitPos + count) % ByteBits]
FinalizeBits(w) == IF w.bitPos > 0 THEN Append(w.buf, w.bitBuffer % Base) ELSE w.buf

WriteBits(fields) ==
    LET w[k \in 0..Len(fields)] == IF k = 0 THEN [buf |-> <<>>, bitBuffer |-> 0, bitPos |-> 0]
                                   ELSE Bits(w[k - 1], fields[k].value, fields[k].count)
    IN  FinalizeBits(w[Len(fields)])

-----------------------------------------------------------------------------
(* ByteReader. *)

Reader(source) == [source |-> source, i |-> 1, ok |-> "yes", v |-> 0, bitBuffer |-> 0, bitPos |-> 0]
Remaining(r) == Len(r.source) - r.i + 1
Throw(r) == [r EXCEPT !.ok = "no"]

\* read, and the checks before the copies of uuid, str and blob.
ReadRaw_Late(r, n) ==
    IF r.ok = "no" \/ r.i > Len(r.source) THEN Throw(r)
    ELSE [r EXCEPT !.i = @ + n, !.v = [k \in 1..n |-> IF r.i + k - 1 \in 1..Len(r.source)
                                                      THEN r.source[r.i + k - 1] ELSE 0]]
ReadRaw(r, n) ==
    IF r.ok = "no" \/ Remaining(r) < n THEN Throw(r)
    ELSE [r EXCEPT !.i = @ + n, !.v = SubSeq(r.source, r.i, r.i + n - 1)]

\* read_be and read_int.
FromBytes(b) ==
    LET v[k \in 0..Len(b)] == IF k = 0 THEN 0 ELSE v[k - 1] * Base + b[k] IN v[Len(b)]
ReadInt(r, w) ==
    LET raw == ReadRaw(r, w) IN
    IF raw.ok = "no" THEN raw ELSE [raw EXCEPT !.v = FromBytes(@)]

\* A value of w bytes as a signed integer: i8 to i64.
Signed(v, w) == IF 2 * v >= Power(Base, w) THEN v - Power(Base, w) ELSE v

\* var_u32 reads up to a byte below Half; the group after the last admissible one throws.
FromGroups(b) ==
    LET v[k \in 1..Len(b) + 1] == IF k > Len(b) THEN 0 ELSE v[k + 1] * Half + (b[k] % Half) IN v[1]
ReadVarU32(r) ==
    LET last == {n \in 1..Remaining(r) : r.source[r.i + n - 1] < Half}
        n == CHOOSE n \in last : \A x \in last : n <= x
        raw == ReadRaw(r, n)
    IN  IF r.ok = "no" \/ last = {} THEN Throw(r)
        ELSE IF n > MaxGroups THEN Throw(r)
        ELSE [raw EXCEPT !.v = FromGroups(@) % U32]

ReadVarI32_Even(r) ==
    LET u == ReadVarU32(r) IN
    IF u.ok = "no" THEN u
    ELSE [u EXCEPT !.v = IF u.v % 2 = 0 THEN u.v \div 2 ELSE -(u.v \div 2)]
ReadVarI32(r) ==
    LET u == ReadVarU32(r) IN
    IF u.ok = "no" THEN u
    ELSE [u EXCEPT !.v = IF u.v % 2 = 0 THEN u.v \div 2 ELSE -(u.v \div 2) - 1]

ReadBlob(r) ==
    LET len == ReadVarU32(r) IN
    IF len.ok = "no" THEN len ELSE ReadRaw(len, len.v)

\* next_tlv, on a source that is not at its end.
ReadTlv(r) ==
    LET tag == ReadInt(r, 2)
        value == ReadBlob(tag)
    IN  IF value.ok = "no" THEN value ELSE [value EXCEPT !.v = [tag |-> tag.v, value |-> value.v]]

\* quat reads a vec4 and gives glm::quat its w first.
ReadQuat(r) ==
    LET x == ReadInt(r, 4)  y == ReadInt(x, 4)  z == ReadInt(y, 4)  w == ReadInt(z, 4) IN
    IF w.ok = "no" THEN w ELSE [w EXCEPT !.v = [x |-> x.v, y |-> y.v, z |-> z.v, w |-> w.v]]

\* bits takes whole bytes, the lowest first, until there are count bits in bitBuffer.
ReadBits(r, count) ==
    LET missing == IF r.bitPos >= count THEN 0 ELSE (count - r.bitPos + ByteBits - 1) \div ByteBits
        raw == ReadRaw(r, missing)
        buffer == r.bitBuffer + Power(2, r.bitPos) * FromBytes(Reverse(raw.v))
    IN  IF raw.ok = "no" THEN raw
        ELSE [raw EXCEPT !.v = buffer % Power(2, count), !.bitBuffer = buffer \div Power(2, count),
                         !.bitPos = r.bitPos + missing * ByteBits - count]
ThenBits(s, count) ==
    LET x == ReadBits(s.r, count) IN [r |-> x, values |-> Append(s.values, x.v)]
ReadAllBits(r, counts) ==
    LET s[k \in 0..Len(counts)] == IF k = 0 THEN [r |-> r, values |-> <<>>]
                                   ELSE ThenBits(s[k - 1], counts[k])
    IN  s[Len(counts)]
=============================================================================
