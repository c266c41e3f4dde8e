----------------------------- MODULE BitArray -----------------------------
(***************************************************************************)
(* Bit strings packed into words, of pkg/util/bitarray.  A step makes one  *)
(* of the one there is, and of another; `bits` undergoes the same as a     *)
(* plain sequence of 0s and 1s.                                            *)
(*                                                                         *)
(* A word is an integer below 2^WordBits, and an int64 one of WordBits     *)
(* bits with a sign.  Arrays are immutable, so that memory shared by       *)
(* ToWidth and Next, whose spare words are 0, is not told from copied.     *)
(***************************************************************************)
EXTENDS Integers, Sequences

CONSTANTS
  WordBits,  \* numBitsPerWord
  BitStrs,   \* the sequences of bits to begin with
  Operands,  \* those they are combined with
  Shifts,    \* the counts of shifts
  MaxBits    \* bounds the length of an array

BitAssumption == WordBits \in Nat \ {0} /\ MaxBits \in Nat

VARIABLES
  d,         \* the array
  bits,      \* its bits
  number,    \* what the last conversion to or from an integer gave, and
  integer    \* what it should have given

vars == <<d, bits, number, integer>>

Pow2[n \in Nat] == IF n = 0 THEN 1 ELSE 2 * Pow2[n - 1]
AllOnes == Pow2[WordBits] - 1

\* word(x) of any integer, and int64(w) of any word.
Word(x)   == x % (AllOnes + 1)
Signed(w) == IF w >= Pow2[WordBits - 1] THEN w - (AllOnes + 1) ELSE w

\* Shifts as Go has them, by any count.
Shl(w, n) == IF n >= WordBits THEN 0 ELSE Word(w * Pow2[n])
Shr(w, n) == IF n >= WordBits THEN 0 ELSE w \div Pow2[n]

\* The bit of a word with the value 2^k, and words combined bit by bit.
Bit(w, k) == (w \div Pow2[k]) % 2
Combined(v, w, Op(_, _)) ==
  LET S[k \in 0..WordBits] ==
        IF k = 0 THEN 0 ELSE S[k - 1] + Op(Bit(v, k - 1), Bit(w, k - 1)) * Pow2[k - 1]
  IN  S[WordBits]
AndBit(x, y) == x * y
OrBit(x, y)  == x + y - x * y
XorBit(x, y) == (x + y) % 2
NotBit(x)    == 1 - x

Array(words, lastBitsUsed) == [words |-> words, lastBitsUsed |-> lastBitsUsed]
EmptyArray == Array(<<>>, 0)
NoArray    == Array(<<-1>>, 0)    \* an error

Zeros(n) == [i \in 1..n |-> 0]
Last(s)  == s[Len(s)]
-----------------------------------------------------------------------------
BitLen(a)  == IF a.words = <<>> THEN 0 ELSE (Len(a.words) - 1) * WordBits + a.lastBitsUsed
NumWords(n) == (n + WordBits - 1) \div WordBits
LastBits(n) == IF n % WordBits = 0 THEN WordBits ELSE n % WordBits
MakeZeroBitArray(n) == IF n = 0 THEN EmptyArray ELSE Array(Zeros(NumWords(n)), LastBits(n))

\* The last word without the bits that are not used.
Padded(a) ==
  IF a.words = <<>> THEN a
  ELSE LET unused == Pow2[WordBits - a.lastBitsUsed]
       IN  [a EXCEPT !.words[Len(a.words)] = (@ \div unused) * unused]

\* Mutant: the bits cut off stay in the last word.
ToWidthUnpadded(a, n) ==
  IF n = 0 THEN EmptyArray
  ELSE IF n < BitLen(a) THEN Array(SubSeq(a.words, 1, NumWords(n)), LastBits(n))
  ELSE Array(a.words \o Zeros(NumWords(n) - Len(a.words)), LastBits(n))

ToWidth(a, n) ==
  IF n = BitLen(a) THEN a
  ELSE IF n = 0 THEN EmptyArray
  ELSE IF n < BitLen(a) THEN Padded(Array(SubSeq(a.words, 1, NumWords(n)), LastBits(n)))
  ELSE Array(a.words \o Zeros(NumWords(n) - Len(a.words)), LastBits(n))

\* All words but the last two are those of the sign.
MakeBitArrayFromInt64(n, val, valWidth) ==
  IF n = 0 THEN EmptyArray
  ELSE IF n < valWidth THEN Array(<<Shl(Word(val), WordBits - n)>>, n)
  ELSE LET a     == MakeZeroBitArray(n)
           k     == Len(a.words)
           value == Signed(Shl(Word(val), WordBits - valWidth)) \div Pow2[WordBits - valWidth]
           sign  == IF Bit(Word(val), valWidth - 1) = 1 THEN AllOnes ELSE 0
       IN  [a EXCEPT !.words =
              [i \in 1..k |->
                 CASE i = k -> Shl(Word(value), WordBits - a.lastBitsUsed)
                   [] i = k - 1 /\ valWidth > a.lastBitsUsed -> Word(value \div Pow2[a.lastBitsUsed])
                   [] OTHER -> sign]]

AsInt64(a, nbits) ==
  IF a.lastBitsUsed = 0 THEN 0
  ELSE LET k    == Len(a.words)
           low  == Shr(a.words[k], WordBits - a.lastBitsUsed)
           high == IF nbits > a.lastBitsUsed /\ k > 1 THEN Shl(a.words[k - 1], a.lastBitsUsed) ELSE 0
       IN  Signed(Shl(Combined(low, high, OrBit), WordBits - nbits)) \div Pow2[WordBits - nbits]

\* Each word has the end of one and the beginning of the next; a word that is
\* not there is 0.
WordOf(a, i) == IF i \in DOMAIN a.words THEN a.words[i] ELSE 0
LeftShifted(a, n) ==
  LET far  == n \div WordBits
      near == n % WordBits
  IN  [a EXCEPT !.words = [i \in DOMAIN @ |->
         Combined(Shl(WordOf(a, i + far), near), Shr(WordOf(a, i + far + 1), WordBits - near), OrBit)]]
RightShifted(a, n) ==
  LET far  == n \div WordBits
      near == n % WordBits
  IN  [a EXCEPT !.words = [i \in DOMAIN @ |->
         Combined(Shr(WordOf(a, i - far), near), Shl(WordOf(a, i - far - 1), WordBits - near), OrBit)]]
LeftShiftAny(a, n) ==
  IF n = 0 \/ BitLen(a) = 0 THEN a
  ELSE IF n > BitLen(a) \/ -n > BitLen(a) THEN MakeZeroBitArray(BitLen(a))
  ELSE IF n > 0 THEN LeftShifted(a, n) ELSE Padded(RightShifted(a, -n))

\* Format, and Parse of what it may be given.
Format(a) == [i \in 1..BitLen(a) |-> Bit(a.words[1 + (i - 1) \div WordBits], WordBits - 1 - ((i - 1) % WordBits))]
ParsedWord(s, first) ==
  LET W[k \in 0..WordBits] ==
        IF k = 0 THEN 0
        ELSE W[k - 1] + IF first + k - 1 > Len(s) THEN 0 ELSE s[first + k - 1] * Pow2[WordBits - k]
  IN  W[WordBits]
Parse(s) ==
  IF s = <<>> THEN EmptyArray
  ELSE Array([i \in 1..NumWords(Len(s)) |-> ParsedWord(s, 1 + (i - 1) * WordBits)], LastBits(Len(s)))

\* Mutant: the bits that did not fit into the last word are lost when the rest
\* fills it.
ConcatShiftedStrict(l, r) ==
  LET k    == Len(l.words)
      n    == BitLen(l) + BitLen(r)
      Tl(i) == Shl(WordOf(r, i), WordBits - l.lastBitsUsed)
  IN  Array([i \in 1..NumWords(n) |->
               IF i < k THEN l.words[i]
               ELSE IF i = k THEN Combined(l.words[k], Shr(r.words[1], l.lastBitsUsed), OrBit)
               ELSE IF i = NumWords(n) /\ LastBits(n) = WordBits THEN Shr(WordOf(r, i - k + 1), l.lastBitsUsed)
               ELSE Combined(Tl(i - k), Shr(WordOf(r, i - k + 1), l.lastBitsUsed), OrBit)],
            LastBits(n))

\* The words of r are shifted into the room the last one of l has.
ConcatShifted(l, r) ==
  LET k     == Len(l.words)
      n     == BitLen(l) + BitLen(r)
      Hd(i) == Shr(WordOf(r, i), l.lastBitsUsed)
      Tl(i) == Shl(WordOf(r, i), WordBits - l.lastBitsUsed)
  IN  Array([i \in 1..NumWords(n) |->
               CASE i < k -> l.words[i]
                 [] i = k -> Combined(l.words[k], Hd(1), OrBit)
                 [] OTHER -> Combined(Tl(i - k), Hd(i - k + 1), OrBit)],
            LastBits(n))
Concat(l, r) ==
  CASE l.lastBitsUsed = 0 -> r
    [] l.lastBitsUsed # 0 /\ r.lastBitsUsed = 0 -> l
    [] l.lastBitsUsed = WordBits /\ r.lastBitsUsed # 0 -> Array(l.words \o r.words, r.lastBitsUsed)
    [] OTHER -> ConcatShifted(l, r)

Not(a) == Padded([a EXCEPT !.words = [i \in DOMAIN @ |-> AllOnes - @[i]]])
And(l, r) == [l EXCEPT !.words = [i \in DOMAIN @ |-> Combined(@[i], r.words[i], AndBit)]]
Or(l, r)  == [l EXCEPT !.words = [i \in DOMAIN @ |-> Combined(@[i], r.words[i], OrBit)]]
Xor(l, r) == [l EXCEPT !.words = [i \in DOMAIN @ |-> Combined(@[i], r.words[i], XorBit)]]

\* The first word that differs decides, then the number of words and of bits.
Sign(x) == IF x < 0 THEN -1 ELSE IF x > 0 THEN 1 ELSE 0
FirstSign(s) ==
  LET other == {i \in DOMAIN s : s[i] # 0}
  IN  IF other = {} THEN 0 ELSE Sign(s[CHOOSE i \in other : \A k \in other : i <= k])
Compare(l, r) ==
  LET n == IF Len(l.words) < Len(r.words) THEN Len(l.words) ELSE Len(r.words)
  IN  FirstSign([i \in 1..n |-> l.words[i] - r.words[i]]
                \o <<Len(l.words) - Len(r.words), l.lastBitsUsed - r.lastBitsUsed>>)

NextArray(a) ==
  CASE a.lastBitsUsed = 0 -> Array(<<0>>, 1)
    [] a.lastBitsUsed \in 1..WordBits - 1 -> [a EXCEPT !.lastBitsUsed = @ + 1]
    [] OTHER -> Array(Append(a.words, 0), 1)

InRange(a, index) == index \in 0..BitLen(a) - 1
GetBitAtIndex(a, index) ==
  IF ~InRange(a, index) THEN -1
  ELSE Bit(a.words[1 + index \div WordBits], WordBits - 1 - (index % WordBits))
SetBitAtIndex(a, index, toSet) ==
  IF ~InRange(a, index) THEN NoArray
  ELSE [a EXCEPT !.words[1 + index \div WordBits] =
          @ + (toSet - GetBitAtIndex(a, index)) * Pow2[WordBits - 1 - (index % WordBits)]]
-----------------------------------------------------------------------------
(* Steps.  What the bits of a result should be is said of bits alone. *)

Becomes(a, s) == d' = a /\ bits' = s
Keeps         == UNCHANGED <<number, integer>>

Widen ==
  \E n \in 0..MaxBits :
    Becomes(ToWidth(d, n), [i \in 1..n |-> IF i <= Len(bits) THEN bits[i] ELSE 0]) /\ Keeps

Shift ==
  \E n \in Shifts :
    Becomes(LeftShiftAny(d, n), [i \in DOMAIN bits |-> IF i + n \in DOMAIN bits THEN bits[i + n] ELSE 0])
    /\ Keeps

Append2 ==
  \E s \in Operands :
    /\ Len(bits) + Len(s) <= MaxBits
    /\ \/ Becomes(Concat(d, Parse(s)), bits \o s)
       \/ Becomes(Concat(Parse(s), d), s \o bits)
    /\ Keeps

Combine ==
  \E s \in Operands :
    /\ Len(s) = Len(bits)
    /\ \/ Becomes(And(d, Parse(s)), [i \in DOMAIN bits |-> AndBit(bits[i], s[i])])
       \/ Becomes(Or(d, Parse(s)), [i \in DOMAIN bits |-> OrBit(bits[i], s[i])])
       \/ Becomes(Xor(d, Parse(s)), [i \in DOMAIN bits |-> XorBit(bits[i], s[i])])
    /\ Keeps

Complement == Becomes(Not(d), [i \in DOMAIN bits |-> NotBit(bits[i])]) /\ Keeps

Successor == Len(bits) < MaxBits /\ Becomes(NextArray(d), Append(bits, 0)) /\ Keeps

SetBit ==
  \E index \in 0..MaxBits, toSet \in {0, 1} :
    /\ index < Len(bits)
    /\ Becomes(SetBitAtIndex(d, index, toSet), [bits EXCEPT ![index + 1] = toSet])
    /\ Keeps

\* The value of the rightmost bits, with a sign, of n bits.
BitFromRight(s, k) == IF k < Len(s) THEN s[Len(s) - k] ELSE 0
ValueOf(s, n) ==
  LET V[k \in 0..n - 1] == IF k = 0 THEN 0 ELSE V[k - 1] + BitFromRight(s, k - 1) * Pow2[k - 1]
  IN  V[n - 1] - BitFromRight(s, n - 1) * Pow2[n - 1]

ToInteger ==
  \E n \in 1..WordBits :
    number' = AsInt64(d, n) /\ integer' = ValueOf(bits, n) /\ UNCHANGED <<d, bits>>

\* The k-th bit of a number, and that of its sign beyond valWidth bits.  It does
\* not matter which array is left for it.
FromInteger ==
  /\ bits = <<>>
  /\ \E n \in 0..MaxBits, val \in -Pow2[WordBits - 1]..Pow2[WordBits - 1] - 1, valWidth \in 1..WordBits :
       Becomes(MakeBitArrayFromInt64(n, val, valWidth),
               [i \in 1..n |-> Bit(Word(val), IF n - i < valWidth THEN n - i ELSE valWidth - 1)])
  /\ Keeps

Init == bits \in BitStrs /\ d = Parse(bits) /\ number = 0 /\ integer = 0

Next ==
  \/ Widen \/ Shift \/ Append2 \/ Combine \/ Complement \/ Successor \/ SetBit
  \/ ToInteger \/ FromInteger

Spec == Init /\ [][Next]_vars
-----------------------------------------------------------------------------
\* Less in the order of dictionaries.
Precedes(s, t) ==
  \E n \in 0..Len(s) :
    /\ n < Len(t) /\ \A i \in 1..n : s[i] = t[i]
    /\ n = Len(s) \/ s[n + 1] < t[n + 1]

\* Every operation does to the packed bits what it does to the sequence, leaves
\* no bit set after the last one, and compares as the sequences do, so that
\* there is none between an array and the next one.
BitsAreSequence ==
  /\ Format(d) = bits
  /\ d = Parse(bits)
  /\ number = integer
  /\ \A i \in 0..MaxBits : GetBitAtIndex(d, i) = IF i < Len(bits) THEN bits[i + 1] ELSE -1
  /\ \A s \in Operands :
       /\ (Compare(d, Parse(s)) = -1) = Precedes(bits, s)
       /\ (Compare(d, Parse(s)) = 1) = Precedes(s, bits)
  /\ Compare(d, NextArray(d)) = -1
  /\ \A s \in Operands : Compare(d, Parse(s)) = -1 => Compare(NextArray(d), Parse(s)) <= 0
=============================================================================
