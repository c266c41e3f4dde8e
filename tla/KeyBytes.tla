------------------------------ MODULE KeyBytes ------------------------------
(***************************************************************************)
(* The encodings of values in keys (pkg/util/encoding: encoding.go,        *)
(* decimal.go, float.go): every value is encoded so that keys sort, byte   *)
(* by byte, as the values do, up or down, and says where it ends.          *)
(*                                                                         *)
(* A value is an integer (int, uint, and float by its bits), a sequence    *)
(* (bytes, time, timetz, duration), a record of the words of a bit array,  *)
(* or a decimal.  The number of bytes of an integer, the values of a byte  *)
(* and the radix of decimals are constants, so that TLC can go through all *)
(* boundaries.                                                             *)
(***************************************************************************)
EXTENDS Integers, Sequences, FiniteSets

CONSTANTS
  Base,            \* how many values a byte has, 256 in the code
  Width,           \* the number of bytes of an integer, 8
  Radix,           \* of the digits of a decimal, 10
  MaxMedium,       \* the largest exponent with a marker of its own, 10
  NanoDay,         \* nanoseconds of a day
  DaysPerMonth
-----------------------------------------------------------------------------
(* The first byte of a value. *)

encodedNull    == 0
encodedNotNull == 1
floatNaN       == 2
floatNeg       == 3
floatZero      == 4
floatPos       == 5
floatNaNDesc   == 6
bytesMarker       == 7
bytesDescMarker   == 8
timeMarker        == 9
durationMarker    == 10
decimalNaN        == 11
decimalNegativeInfinity == 12
decimalNegLarge   == 13
decimalNegMedium  == decimalNegLarge + MaxMedium + 1
decimalNegSmall   == decimalNegMedium + 1
decimalZero       == decimalNegSmall + 1
decimalPosSmall   == decimalZero + 1
decimalPosMedium  == decimalPosSmall + 1
decimalPosLarge   == decimalPosMedium + MaxMedium + 1
decimalInfinity   == decimalPosLarge + 1
decimalNaNDesc    == decimalInfinity + 1
bitArrayMarker     == decimalNaNDesc + 1
bitArrayDescMarker == bitArrayMarker + 1
timeTZMarker       == bitArrayDescMarker + 1
IntMin   == timeTZMarker + 1
IntMax   == Base - 3
intZero  == IntMin + Width
intSmall == IntMax - intZero - Width
encodedNotNullDesc == Base - 2
encodedNullDesc    == Base - 1

\* The mantissa of a decimal has no 0 and no 0 when it is complemented; small
\* integers have a byte of their own.
KeyAssumption ==
  /\ Base \in Nat /\ Base % 2 = 0 /\ Width \in Nat \ {0} /\ Radix \in Nat \ {0, 1} /\ MaxMedium \in Nat
  /\ 2 * Radix * Radix < Base /\ intSmall > 0
  /\ NanoDay \in Nat \ {0} /\ DaysPerMonth \in Nat \ {0}
-----------------------------------------------------------------------------
(* Integers. *)

Max64 == Base ^ Width
MaxInt64 == Max64 \div 2 - 1
MinOf(S) == CHOOSE n \in S : \A m \in S : n <= m

\* The last k bytes of v, a negative number in two's complement.
BigEndian(v, k) == [i \in 1 .. k |-> ((v % Max64) \div Base ^ (k - i)) % Base]
onesComplement(b) == [i \in 1 .. Len(b) |-> Base - 1 - b[i]]
NumBytes(v) == MinOf({k \in 1 .. Width : k = Width \/ v < Base ^ k})

EncodeUvarintAscending(v) ==
  IF v <= intSmall THEN <<intZero + v>>
  ELSE <<IntMax - Width + NumBytes(v)>> \o BigEndian(v, NumBytes(v))

EncodeUvarintDescending(v) ==
  IF v = 0 THEN <<IntMin + Width>>
  ELSE <<IntMin + Width - NumBytes(v)>> \o onesComplement(BigEndian(v, NumBytes(v)))

EncodeVarintAscending(v) ==
  IF v >= 0 THEN EncodeUvarintAscending(v)
  ELSE <<IntMin + Width - NumBytes(-v)>> \o BigEndian(v, NumBytes(-v))

EncodeVarintDescending(v) == EncodeVarintAscending(-v - 1)

\* What a decoder returns: the value and what is left of the key.
Got(v, rest) == [ok |-> TRUE, v |-> v, rest |-> rest]
Bad(v)       == [ok |-> FALSE, v |-> v, rest |-> <<>>]
Drop(b, n)   == SubSeq(b, n + 1, Len(b))
Number(b)    == LET N[i \in 0 .. Len(b)] == IF i = 0 THEN 0 ELSE N[i - 1] * Base + b[i] IN N[Len(b)]

DecodeUvarintAscending(b) ==
  LET n == b[1] - intZero
      length == n - intSmall
  IN  CASE b = <<>> -> Bad(0)
        [] b # <<>> /\ n <= intSmall -> Got(n, Tail(b))
        [] OTHER -> IF length > Width \/ Len(b) <= length THEN Bad(0)
                    ELSE Got(Number(SubSeq(b, 2, 1 + length)), Drop(b, 1 + length))

DecodeUvarintDescending(b) ==
  LET length == intZero - b[1]
  IN  IF b = <<>> THEN Bad(0)
      ELSE IF length \notin 0 .. Width \/ Len(b) <= length THEN Bad(0)
      ELSE Got(Number(onesComplement(SubSeq(b, 2, 1 + length))), Drop(b, 1 + length))

DecodeVarintAscending(b) ==
  LET length == intZero - b[1]
  IN  CASE b = <<>> -> Bad(0)
        [] b # <<>> /\ length > 0 ->
             IF Len(b) <= length THEN Bad(0)
             ELSE Got(-Number(onesComplement(SubSeq(b, 2, 1 + length))) - 1, Drop(b, 1 + length))
        [] OTHER -> LET r == DecodeUvarintAscending(b) IN IF r.v > MaxInt64 THEN Bad(0) ELSE r

Complemented(r) == IF r.ok THEN [r EXCEPT !.v = -@ - 1] ELSE r
DecodeVarintDescending(b) == Complemented(DecodeVarintAscending(b))

\* 0: the varint does not end in b.
getVarintLen(b) ==
  LET n == b[1] - intZero
      length == IF n < 0 THEN 1 - n ELSE IF n <= intSmall THEN 1 ELSE 1 + n - intSmall
  IN  IF length > Len(b) THEN 0 ELSE length

\* The given number of varints, one after another.
RECURSIVE DecodeVarints(_, _, _)
DecodeVarints(b, n, desc) ==
  LET first == IF desc THEN DecodeVarintDescending(b) ELSE DecodeVarintAscending(b)
      more  == DecodeVarints(first.rest, n - 1, desc)
  IN  CASE n = 0 -> Got(<<>>, b)
        [] n > 0 /\ ~first.ok -> Bad(<<>>)
        [] OTHER -> IF more.ok THEN Got(<<first.v>> \o more.v, more.rest) ELSE more

RECURSIVE GetMultiVarintLen(_, _)
GetMultiVarintLen(b, n) ==
  IF n = 0 \/ b = <<>> THEN 0
  ELSE getVarintLen(b) + GetMultiVarintLen(Drop(b, getVarintLen(b)), n - 1)
-----------------------------------------------------------------------------
(* Bytes: 0 is escaped, and ends the value when it is followed by 1. *)

escape      == 0
escapedTerm == 1
escaped00   == Base - 1

IndexByte(b, c) == LET I == {i \in 1 .. Len(b) : b[i] = c} IN IF I = {} THEN 0 ELSE MinOf(I)

\* Mutant: only the first 0 is escaped.
EscapedOnce(data) ==
  LET i == IndexByte(data, escape)
  IN  IF i = 0 THEN data ELSE SubSeq(data, 1, i) \o <<escaped00>> \o Drop(data, i)

RECURSIVE Escaped(_)
Escaped(data) ==
  LET i == IndexByte(data, escape)
  IN  IF i = 0 THEN data ELSE SubSeq(data, 1, i) \o <<escaped00>> \o Escaped(Drop(data, i))

EncodeBytesAscending(data) == <<bytesMarker>> \o Escaped(data) \o <<escape, escapedTerm>>
EncodeBytesDescending(data) ==
  <<bytesDescMarker>> \o onesComplement(Tail(EncodeBytesAscending(data)))

\* decodeBytesInternal without the marker, on bytes complemented back if the
\* value sorts down.
RECURSIVE Unescape(_)
Unescape(b) ==
  LET i == IndexByte(b, escape)
      more == Unescape(Drop(b, i + 1))
  IN  CASE i \in {0, Len(b)} -> Bad(<<>>)
        [] i \notin {0, Len(b)} /\ b[i + 1] = escapedTerm -> Got(SubSeq(b, 1, i - 1), Drop(b, i + 1))
        [] OTHER -> IF b[i + 1] # escaped00 \/ ~more.ok THEN Bad(<<>>)
                    ELSE Got(SubSeq(b, 1, i) \o more.v, more.rest)

DecodeBytes(b, desc) ==
  LET r == Unescape(IF desc THEN onesComplement(Tail(b)) ELSE Tail(b))
  IN  IF b = <<>> \/ b[1] # (IF desc THEN bytesDescMarker ELSE bytesMarker) THEN Bad(<<>>)
      ELSE IF desc /\ r.ok THEN [r EXCEPT !.rest = onesComplement(@)] ELSE r

RECURSIVE BytesLengthFrom(_, _, _)
BytesLengthFrom(b, skipped, desc) ==
  LET Esc(c) == IF desc THEN Base - 1 - c ELSE c
      i    == IndexByte(Drop(b, skipped), Esc(escape))
      next == skipped + i + 1
  IN  IF i = 0 THEN 0 ELSE IF b[next] = Esc(escapedTerm) THEN next ELSE BytesLengthFrom(b, next, desc)
getBytesLength(b, desc) == BytesLengthFrom(b, 1, desc)
-----------------------------------------------------------------------------
(* Bit arrays: the words, a terminator, and how many bits of the last count. *)

Terminator(desc) == IF desc THEN Base - 1 ELSE 0
EncodeUvarint(v, desc) == IF desc THEN EncodeUvarintDescending(v) ELSE EncodeUvarintAscending(v)
DecodeUvarint(b, desc) == IF desc THEN DecodeUvarintDescending(b) ELSE DecodeUvarintAscending(b)

RECURSIVE EncodeWords(_, _)
EncodeWords(words, desc) ==
  IF words = <<>> THEN <<>> ELSE EncodeUvarint(Head(words), desc) \o EncodeWords(Tail(words), desc)

EncodeBitArray(d, desc) ==
  <<IF desc THEN bitArrayDescMarker ELSE bitArrayMarker>> \o EncodeWords(d.words, desc)
    \o <<Terminator(desc)>> \o EncodeUvarint(d.last, desc)

\* The length in bytes of the words; -1 if they do not end in b.
RECURSIVE WordsLen(_, _)
WordsLen(b, desc) ==
  CASE b = <<>> -> -1
    [] b # <<>> /\ b[1] = Terminator(desc) -> 0
    [] OTHER -> LET n == getVarintLen(b)
                    more == WordsLen(Drop(b, n), desc)
                IN  IF n = 0 \/ more < 0 THEN -1 ELSE n + more

RECURSIVE DecodeWords(_, _)
DecodeWords(b, desc) ==
  IF b = <<>> THEN <<>>
  ELSE LET r == DecodeUvarint(b, desc) IN <<r.v>> \o DecodeWords(r.rest, desc)

DecodeBitArray(b, desc) ==
  LET none == [words |-> <<>>, last |-> 0]
      n    == WordsLen(Tail(b), desc)
      last == DecodeUvarint(Drop(b, n + 2), desc)
  IN  IF n < 0 THEN Bad(none)
      ELSE IF ~last.ok THEN Bad(none)
      ELSE Got([words |-> DecodeWords(SubSeq(b, 2, n + 1), desc), last |-> last.v], last.rest)
-----------------------------------------------------------------------------
(* Decimals: an exponent of the radix squared and a mantissa in it, each digit *)
(* X as 2X + 1, the last one as 2X.                                            *)

RECURSIVE Digits(_)
Digits(n) == IF n < Radix THEN <<n>> ELSE Append(Digits(n \div Radix), n % Radix)

RECURSIVE NoTrailingZeros(_)
NoTrailingZeros(s) == IF s[Len(s)] # 0 THEN s ELSE NoTrailingZeros(SubSeq(s, 1, Len(s) - 1))

EvenLength(s) == IF Len(s) % 2 = 0 THEN s ELSE s \o <<0>>
Mantissa(s) ==
  LET n == Len(s) \div 2
  IN  [i \in 1 .. n |-> 2 * (Radix * s[2 * i - 1] + s[2 * i]) + (IF i = n THEN 0 ELSE 1)]
EandM(e10, e100, s) ==
  [e |-> e100, m |-> Mantissa(EvenLength(IF e100 * 2 = e10 THEN s ELSE <<0>> \o s))]

\* Mutant: the exponent is rounded down, not towards 0.
decimalEandMFloor(d) ==
  LET e10 == d.exp + Len(Digits(d.coeff))
  IN  EandM(e10, IF e10 >= 0 THEN (e10 + 1) \div 2 ELSE e10 \div 2, NoTrailingZeros(Digits(d.coeff)))

\* The quotient in Go has no fraction: -1 / 2 is 0.
decimalEandM(d) ==
  LET e10 == d.exp + Len(Digits(d.coeff))
  IN  EandM(e10, IF e10 >= 0 THEN (e10 + 1) \div 2 ELSE -((-e10) \div 2), NoTrailingZeros(Digits(d.coeff)))

encodeEandM(neg, e, m) ==
  LET mantissa == (IF neg THEN onesComplement(m) ELSE m) \o <<0>>
      sign == IF neg THEN -1 ELSE 1
  IN  CASE e < 0 -> <<IF neg THEN decimalNegSmall ELSE decimalPosSmall>>
                      \o EncodeUvarint(-e, ~neg) \o mantissa
        [] e \in 0 .. MaxMedium -> <<(IF neg THEN decimalNegMedium ELSE decimalPosMedium) + sign * e>>
                      \o mantissa
        [] e > MaxMedium -> <<IF neg THEN decimalNegLarge ELSE decimalPosLarge>>
                      \o EncodeUvarint(e, neg) \o mantissa

\* Zero has no sign in a key.
EncodeDecimal(d, desc) ==
  LET neg == d.neg # desc
  IN  CASE d.form = "finite" /\ d.coeff = 0 -> <<decimalZero>>
        [] d.form = "finite" /\ d.coeff # 0 -> LET em == decimalEandM(d) IN encodeEandM(neg, em.e, em.m)
        [] d.form = "infinite" -> <<IF neg THEN decimalNegativeInfinity ELSE decimalInfinity>>
        [] d.form = "nan" -> <<IF desc THEN decimalNaNDesc ELSE decimalNaN>>

Decimal(form, neg, coeff, exp) == [form |-> form, neg |-> neg, coeff |-> coeff, exp |-> exp]
NoDecimal == Decimal("finite", FALSE, 0, 0)

\* makeDecimalFromMandE: a last digit that is 0 was there for the parity.
makeDecimalFromMandE(neg, e, m) ==
  LET C[i \in 0 .. Len(m)] == IF i = 0 THEN 0 ELSE C[i - 1] * Radix * Radix + m[i] \div 2
      padded == C[Len(m)] % Radix = 0
  IN  Decimal("finite", neg, IF padded THEN C[Len(m)] \div Radix ELSE C[Len(m)],
              2 * e - 2 * Len(m) + (IF padded THEN 1 ELSE 0))

\* The mantissa after the exponent, which ends with a 0.
DecodeMantissa(c, exp, desc) ==
  LET idx == IndexByte(exp.rest, 0)
      m   == SubSeq(exp.rest, 1, idx - 1)
      neg == c <= decimalNegSmall
      e   == IF c \in {decimalNegSmall, decimalPosSmall} THEN -exp.v ELSE exp.v
  IN  IF ~exp.ok \/ idx \in {0, 1} THEN Bad(NoDecimal)
      ELSE Got(makeDecimalFromMandE(neg # desc, e, IF neg THEN onesComplement(m) ELSE m),
               Drop(exp.rest, idx))

DecodeDecimal(b, desc) ==
  LET c == b[1]
  IN  CASE c \in {decimalNaN, decimalNaNDesc} -> Got(Decimal("nan", FALSE, 0, 0), Tail(b))
        [] c \in {decimalInfinity, decimalNegativeInfinity} ->
             Got(Decimal("infinite", (c = decimalInfinity) = desc, 0, 0), Tail(b))
        [] c = decimalZero -> Got(NoDecimal, Tail(b))
        [] c \in {decimalNegLarge, decimalNegSmall, decimalPosSmall, decimalPosLarge} ->
             DecodeMantissa(c, DecodeUvarint(Tail(b), c \in {decimalNegLarge, decimalPosSmall}), desc)
        [] OTHER ->
             DecodeMantissa(c, Got(IF c <= decimalNegMedium THEN decimalNegMedium - c
                                   ELSE c - decimalPosMedium, Tail(b)), desc)

getDecimalLen(b) ==
  LET l == IF b[1] \in {decimalNegLarge, decimalNegSmall, decimalPosSmall, decimalPosLarge}
           THEN getVarintLen(Tail(b)) ELSE 0
  IN  IF b[1] \in {decimalNaN, decimalNegativeInfinity, decimalNaNDesc, decimalInfinity, decimalZero} THEN 1
      ELSE 1 + l + IndexByte(Drop(b, 1 + l), 0)
-----------------------------------------------------------------------------
(* Floats: their bits, complemented if they are negative. Those larger than   *)
(* the bits of infinity are no numbers.                                        *)

SignBit     == Max64 \div 2
Infinity    == SignBit - 3
IsNaN(u)    == u % SignBit > Infinity
Negated(u)  == (u + SignBit) % Max64

EncodeFloat(f, desc) ==
  LET u == IF desc THEN Negated(f) ELSE f
  IN  CASE IsNaN(f) -> <<IF desc THEN floatNaNDesc ELSE floatNaN>>
        [] ~IsNaN(f) /\ f % SignBit = 0 -> <<floatZero>>
        [] OTHER -> IF u >= SignBit THEN <<floatNeg>> \o BigEndian(Max64 - 1 - u, Width)
                    ELSE <<floatPos>> \o BigEndian(u, Width)

DecodeFloat(b, desc) ==
  LET bits == Number(SubSeq(b, 2, 1 + Width))
      u == CASE b[1] \in {floatNaN, floatNaNDesc} -> Infinity + 1
             [] b[1] = floatZero -> 0
             [] b[1] = floatNeg -> Max64 - 1 - bits
             [] b[1] = floatPos -> bits
      n == IF b[1] \in {floatNeg, floatPos} THEN 1 + Width ELSE 1
  IN  IF Len(b) < n THEN Bad(0) ELSE Got(IF desc THEN Negated(u) ELSE u, Drop(b, n))
-----------------------------------------------------------------------------
(* Times and durations, as varints. *)

\* Months, days and nanoseconds; Encode puts their sum first.
SumNanos(d) == (d[1] * DaysPerMonth + d[2]) * NanoDay + d[3]

Varints(s, desc) ==
  LET E[i \in 0 .. Len(s)] ==
        IF i = 0 THEN <<>>
        ELSE E[i - 1] \o (IF desc THEN EncodeVarintDescending(s[i]) ELSE EncodeVarintAscending(s[i]))
  IN  E[Len(s)]

EncodeTime(t, desc) == <<timeMarker>> \o Varints(t, desc)

\* The time of day and the offset from UTC: the instant comes first.
EncodeTimeTZ(t, desc) == <<timeTZMarker>> \o Varints(<<t[1] + t[2], t[2]>>, desc)
EncodeDuration(d, desc) == <<durationMarker>> \o Varints(<<SumNanos(d), d[1], d[2]>>, desc)

DecodeTime(b, desc) == DecodeVarints(Tail(b), 2, desc)
DecodeTimeTZ(b, desc) ==
  LET r == DecodeVarints(Tail(b), 2, desc)
  IN  IF r.ok THEN Got(<<r.v[1] - r.v[2], r.v[2]>>, r.rest) ELSE r
DecodeDuration(b, desc) ==
  LET r == DecodeVarints(Tail(b), 3, desc)
  IN  IF r.ok THEN Got(<<r.v[2], r.v[3], r.v[1] - SumNanos(<<r.v[2], r.v[3], 0>>)>>, r.rest) ELSE r
-----------------------------------------------------------------------------
(* Any value. *)

PeekType(b) ==
  CASE b = <<>> -> "Unknown"
    [] b # <<>> /\ b[1] \in {encodedNull, encodedNullDesc} -> "Null"
    [] b # <<>> /\ b[1] \in {encodedNotNull, encodedNotNullDesc} -> "NotNull"
    [] OTHER -> "Value"

Encode(type, v, desc) ==
  CASE type = "int"   -> IF desc THEN EncodeVarintDescending(v) ELSE EncodeVarintAscending(v)
    [] type = "uint"  -> EncodeUvarint(v, desc)
    [] type = "bytes" -> IF desc THEN EncodeBytesDescending(v) ELSE EncodeBytesAscending(v)
    [] type = "bits"  -> EncodeBitArray(v, desc)
    [] type = "decimal"  -> EncodeDecimal(v, desc)
    [] type = "float"    -> EncodeFloat(v, desc)
    [] type = "time"     -> EncodeTime(v, desc)
    [] type = "timetz"   -> EncodeTimeTZ(v, desc)
    [] type = "duration" -> EncodeDuration(v, desc)

Decode(type, b, desc) ==
  CASE type = "int"   -> IF desc THEN DecodeVarintDescending(b) ELSE DecodeVarintAscending(b)
    [] type = "uint"  -> DecodeUvarint(b, desc)
    [] type = "bytes" -> DecodeBytes(b, desc)
    [] type = "bits"  -> DecodeBitArray(b, desc)
    [] type = "decimal"  -> DecodeDecimal(b, desc)
    [] type = "float"    -> DecodeFloat(b, desc)
    [] type = "time"     -> DecodeTime(b, desc)
    [] type = "timetz"   -> DecodeTimeTZ(b, desc)
    [] type = "duration" -> DecodeDuration(b, desc)

\* 0 for an error.
PeekLength(b) ==
  LET m == b[1]
      n == WordsLen(Tail(b), m = bitArrayDescMarker)
  IN  CASE m \in {encodedNull, encodedNullDesc, encodedNotNull, encodedNotNullDesc,
                  floatNaN, floatNaNDesc, floatZero, decimalZero} -> 1
        [] m \in {bitArrayMarker, bitArrayDescMarker} ->
             IF n < 0 THEN 0 ELSE n + 2 + getVarintLen(Drop(b, n + 2))
        [] m \in {bytesMarker, bytesDescMarker} -> getBytesLength(b, m = bytesDescMarker)
        [] m \in {timeMarker, timeTZMarker} -> 1 + GetMultiVarintLen(Tail(b), 2)
        [] m = durationMarker -> 1 + GetMultiVarintLen(Tail(b), 3)
        [] m \in {floatNeg, floatPos} -> 1 + Width
        [] m \in IntMin .. IntMax -> getVarintLen(b)
        [] m \in decimalNaN .. decimalNaNDesc \ {decimalZero} -> getDecimalLen(b)

RECURSIVE DecomposeKeyTokens(_)
CutAt(b, n) == IF n = 0 THEN <<>> ELSE <<SubSeq(b, 1, n)>> \o DecomposeKeyTokens(Drop(b, n))
DecomposeKeyTokens(b) == IF b = <<>> THEN <<>> ELSE CutAt(b, PeekLength(b))
=============================================================================
