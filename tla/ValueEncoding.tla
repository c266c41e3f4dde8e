--------------------------- MODULE ValueEncoding ---------------------------
(***************************************************************************)
(* Rows of values that are not sorted (pkg/util/encoding: encoding.go from *)
(* line 1702, decimal.go from 466): each value has a tag with its column   *)
(* and its type, from which a reader knows how long it is.                 *)
(*                                                                         *)
(* Bytes have 256 values here as in the code; numbers stay below 2^31, and *)
(* the words of bit arrays have two bytes.                                 *)
(***************************************************************************)
EXTENDS Integers, Sequences, FiniteSets

CONSTANTS
  Columns,   \* the numbers a column may have
  Payloads,  \* for each type, the values it may have
  MaxValues  \* how many values a row has

VARIABLES row, bytes

vars == <<row, bytes>>

\* The exponent of a decimal is encoded as in a key.
K == INSTANCE KeyBytes WITH Base <- 256, Width <- 2, Radix <- 10, MaxMedium <- 10,
                            NanoDay <- 1, DaysPerMonth <- 30
Drop(b, n) == SubSeq(b, n + 1, Len(b))

\* The numbers of the types.
T == [Null |-> 1, NotNull |-> 2, Int |-> 3, Float |-> 4, Decimal |-> 5, Bytes |-> 6,
      Time |-> 8, Duration |-> 9, True |-> 10, False |-> 11, UUID |-> 12, Array |-> 13,
      IPAddr |-> 14, JSON |-> 15, Tuple |-> 16, BitArray |-> 17, TimeTZ |-> 19]
SentinelType == 15
NoColumnID == 0
-----------------------------------------------------------------------------
(* Numbers, seven bits to a byte; the eighth says that another byte follows.  *)

\* The most significant bits first.
RECURSIVE Sevens(_)
Sevens(x) == IF x < 128 THEN <<x>> ELSE Append(Sevens(x \div 128), x % 128)
EncodeNonsortingUvarint(x) ==
  LET s == Sevens(x) IN [i \in 1 .. Len(s) |-> IF i = Len(s) THEN s[i] ELSE 128 + s[i]]

\* The number, how many bytes it has, and the rest; nothing if it does not end.
DecodeNonsortingUvarint(b) ==
  LET ends == {i \in 1 .. Len(b) : b[i] < 128}
      n == K!MinOf(ends)
      V[i \in 0 .. n] == IF i = 0 THEN 0 ELSE V[i - 1] * 128 + (b[i] % 128)
  IN  IF ends = {} THEN [v |-> 0, n |-> 0, rest |-> b]
      ELSE [v |-> V[n], n |-> n, rest |-> Drop(b, n)]

\* encoding/binary has the least significant bits first, and the sign in the
\* lowest of all.
PutUvarint(x) ==
  LET s == Sevens(x) IN [i \in 1 .. Len(s) |-> s[Len(s) + 1 - i] + (IF i = Len(s) THEN 0 ELSE 128)]
Uvarint(b) ==
  LET n == K!MinOf({i \in 1 .. Len(b) : b[i] < 128})
      V[i \in 0 .. n] == IF i = 0 THEN 0 ELSE V[i - 1] * 128 + (b[n + 1 - i] % 128)
  IN  [v |-> V[n], n |-> n, rest |-> Drop(b, n)]
EncodeNonsortingStdlibVarint(x) == PutUvarint(IF x >= 0 THEN 2 * x ELSE -2 * x - 1)
DecodeNonsortingStdlibVarint(b) ==
  LET r == Uvarint(b) IN [r EXCEPT !.v = IF @ % 2 = 0 THEN @ \div 2 ELSE -(@ \div 2) - 1]

\* A sequence of them.
Varints(s) ==
  LET E[i \in 0 .. Len(s)] == IF i = 0 THEN <<>> ELSE E[i - 1] \o EncodeNonsortingStdlibVarint(s[i])
  IN  E[Len(s)]
RECURSIVE DecodeVarints(_, _)
DecodeVarints(b, n) ==
  IF n = 0 THEN <<>>
  ELSE LET r == DecodeNonsortingStdlibVarint(b) IN <<r.v>> \o DecodeVarints(r.rest, n - 1)
RECURSIVE getMultiNonsortingVarintLen(_, _)
getMultiNonsortingVarintLen(b, n) ==
  IF n = 0 \/ b = <<>> THEN 0
  ELSE LET r == DecodeNonsortingStdlibVarint(b) IN r.n + getMultiNonsortingVarintLen(r.rest, n - 1)
-----------------------------------------------------------------------------
(* Tags. *)

\* A type has four bits; from 15 on it follows as a number of its own.
EncodeValueTag(col, typ) ==
  CASE typ >= SentinelType ->
         EncodeNonsortingUvarint(col * 16 + SentinelType) \o EncodeNonsortingUvarint(typ)
    [] typ < SentinelType /\ col = NoColumnID -> <<typ>>
    [] OTHER -> EncodeNonsortingUvarint(col * 16 + typ)

\* Mutant: JSON, whose number is the sentinel, is taken for a small type.
EncodeValueTagPastSentinel(col, typ) ==
  CASE typ > SentinelType ->
         EncodeNonsortingUvarint(col * 16 + SentinelType) \o EncodeNonsortingUvarint(typ)
    [] typ <= SentinelType /\ col = NoColumnID -> <<typ>>
    [] OTHER -> EncodeNonsortingUvarint(col * 16 + typ)

DecodeValueTag(b) ==
  LET tag  == DecodeNonsortingUvarint(b)
      next == DecodeNonsortingUvarint(tag.rest)
      far  == tag.v % 16 = SentinelType
  IN  [typeOffset |-> tag.n - 1, col |-> tag.v \div 16,
       typ |-> IF far THEN next.v ELSE tag.v % 16,
       dataOffset |-> tag.n + (IF far THEN next.n ELSE 0)]
-----------------------------------------------------------------------------
(* Decimals: a marker for the signs of the number and of its exponent, the    *)
(* exponent, and the bytes of the coefficient without leading zeros.           *)

RECURSIVE NatBytes(_)
NatBytes(n) == IF n = 0 THEN <<>> ELSE Append(NatBytes(n \div 256), n % 256)
NumDigits(n) == Len(K!Digits(n))

EncodeNonsortingDecimal(d) ==
  LET e == NumDigits(d.coeff) + d.exp
      marker == CASE e < 0 -> IF d.neg THEN K!decimalNegSmall ELSE K!decimalPosSmall
                  [] e = 0 -> IF d.neg THEN K!decimalNegMedium ELSE K!decimalPosMedium
                  [] e > 0 -> IF d.neg THEN K!decimalNegLarge ELSE K!decimalPosLarge
      exp == CASE e < 0 -> K!EncodeUvarintAscending(-e) [] e = 0 -> <<>>
               [] e > 0 -> K!EncodeUvarintAscending(e)
  IN  CASE d.form = "nan" -> <<K!decimalNaN>>
        [] d.form = "infinite" -> <<IF d.neg THEN K!decimalNegativeInfinity ELSE K!decimalInfinity>>
        [] d = K!NoDecimal -> <<K!decimalZero>>
        [] OTHER -> <<marker>> \o exp \o NatBytes(d.coeff)

DecodeNonsortingDecimal(b) ==
  LET m    == b[1]
      has  == m \notin {K!decimalNegMedium, K!decimalPosMedium}
      r    == K!DecodeUvarintAscending(Tail(b))
      e    == IF ~has THEN 0 ELSE IF m \in {K!decimalNegSmall, K!decimalPosSmall} THEN -r.v ELSE r.v
      rest == IF has THEN r.rest ELSE Tail(b)
      C[i \in 0 .. Len(rest)] == IF i = 0 THEN 0 ELSE C[i - 1] * 256 + rest[i]
  IN  CASE m = K!decimalNaN -> K!Decimal("nan", FALSE, 0, 0)
        [] m \in {K!decimalNegativeInfinity, K!decimalInfinity} ->
             K!Decimal("infinite", m = K!decimalNegativeInfinity, 0, 0)
        [] m = K!decimalZero -> K!NoDecimal
        [] OTHER -> K!Decimal("finite", m <= K!decimalNegSmall, C[Len(rest)], e - NumDigits(C[Len(rest)]))
-----------------------------------------------------------------------------
(* Values. *)

WordBits == 16
WordBytes(len) == 2 * ((len + WordBits - 1) \div WordBits)

Counted(data) == EncodeNonsortingUvarint(Len(data)) \o data

\* A value without its tag: data of a fixed length, counted data, or numbers. A
\* tuple, which only readers here know, counts its values, each with its tag.
RECURSIVE Untagged(_, _), Tuple(_)
Untagged(typ, v) ==
  CASE typ \in {T.Null, T.NotNull, T.True, T.False} -> <<>>
    [] typ \in {T.Float, T.UUID, T.IPAddr} -> v
    [] typ \in {T.Bytes, T.Array, T.JSON} -> Counted(v)
    [] typ = T.Int -> EncodeNonsortingStdlibVarint(v)
    [] typ \in {T.Time, T.TimeTZ, T.Duration} -> Varints(v)
    [] typ = T.Decimal -> LET b == EncodeNonsortingDecimal(v) IN PutUvarint(Len(b)) \o b
    [] typ = T.BitArray -> EncodeNonsortingUvarint(v.len) \o v.words
    [] typ = T.Tuple -> EncodeNonsortingUvarint(Len(v)) \o Tuple(v)
Tuple(v) ==
  IF v = <<>> THEN <<>>
  ELSE EncodeValueTag(NoColumnID, Head(v).typ) \o Untagged(Head(v).typ, Head(v).v) \o Tuple(Tail(v))

EncodeValue(c) == EncodeValueTag(c.col, c.typ) \o Untagged(c.typ, c.v)

Decode(typ, b) ==
  LET n == DecodeNonsortingUvarint(b)
      d == Uvarint(b)
  IN  CASE typ \in {T.Null, T.NotNull, T.True, T.False} -> <<>>
        [] typ = T.Float -> SubSeq(b, 1, 8)
        [] typ = T.UUID -> SubSeq(b, 1, 16)
        [] typ = T.IPAddr -> SubSeq(b, 1, IF b[1] = 0 THEN 6 ELSE 18)
        [] typ \in {T.Bytes, T.Array, T.JSON} -> SubSeq(n.rest, 1, n.v)
        [] typ = T.Int -> DecodeNonsortingStdlibVarint(b).v
        [] typ \in {T.Time, T.TimeTZ} -> DecodeVarints(b, 2)
        [] typ = T.Duration -> DecodeVarints(b, 3)
        [] typ = T.Decimal -> DecodeNonsortingDecimal(SubSeq(d.rest, 1, d.v))
        [] typ = T.BitArray -> [len |-> n.v, words |-> SubSeq(n.rest, 1, WordBytes(n.v))]

\* How long a value is with its tag. (The type NotNull has no length.)
RECURSIVE PeekValueLength(_), TupleLength(_, _)
PeekValueLength(b) ==
  LET tag == DecodeValueTag(b)
      data == Drop(b, tag.dataOffset)
      n == DecodeNonsortingUvarint(data)
      d == Uvarint(data)
      length ==
        CASE tag.typ \in {T.Null, T.True, T.False} -> 0
          [] tag.typ = T.Float -> 8
          [] tag.typ = T.UUID -> 16
          [] tag.typ = T.IPAddr -> IF data[1] = 0 THEN 6 ELSE 18
          [] tag.typ \in {T.Bytes, T.Array, T.JSON} -> n.n + n.v
          [] tag.typ = T.Int -> d.n
          [] tag.typ = T.Decimal -> d.n + d.v
          [] tag.typ \in {T.Time, T.TimeTZ} -> getMultiNonsortingVarintLen(data, 2)
          [] tag.typ = T.Duration -> getMultiNonsortingVarintLen(data, 3)
          [] tag.typ = T.BitArray -> n.n + WordBytes(n.v)
          [] tag.typ = T.Tuple -> n.n + TupleLength(n.rest, n.v)
  IN  IF b = <<>> THEN 0 ELSE tag.dataOffset + length
TupleLength(b, n) ==
  IF n = 0 THEN 0 ELSE PeekValueLength(b) + TupleLength(Drop(b, PeekValueLength(b)), n - 1)
-----------------------------------------------------------------------------
Init == row = <<>> /\ bytes = <<>>

Next ==
  /\ Len(row) < MaxValues
  /\ \E col \in Columns, typ \in DOMAIN Payloads : \E v \in Payloads[typ] :
       LET c == [col |-> col, typ |-> typ, v |-> v]
       IN  row' = Append(row, c) /\ bytes' = bytes \o EncodeValue(c)

Spec == Init /\ [][Next]_vars

\* A row is read from its bytes alone: each value's tag gives its column and its
\* type, its length leads to the next value, and it reads back. All of this also
\* holds when the bytes with the column's number are dropped (encoding.go
\* 2018-2035, 2323-2329).
RECURSIVE ReadsBack(_, _)
ReadsBack(vals, b) ==
  IF vals = <<>> THEN b = <<>>
  ELSE LET c   == Head(vals)
           tag == DecodeValueTag(b)
           cut == Drop(b, tag.typeOffset)
       IN  /\ tag.col = c.col /\ tag.typ = c.typ /\ DecodeValueTag(cut).typ = c.typ
           /\ c.typ # T.Tuple => Decode(c.typ, Drop(b, tag.dataOffset)) = c.v
           /\ PeekValueLength(cut) = PeekValueLength(b) - tag.typeOffset
           /\ ReadsBack(Tail(vals), Drop(b, PeekValueLength(b)))

ValuesReadBack == ReadsBack(row, bytes)
=============================================================================
