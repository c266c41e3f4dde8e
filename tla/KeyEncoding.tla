---------------------------- MODULE KeyEncoding ----------------------------
(***************************************************************************)
(* Two rows are encoded as keys, column by column (pkg/util/encoding).  A  *)
(* cell is a value of KeyBytes, or one of the markers NULL and not-NULL.   *)
(***************************************************************************)
EXTENDS KeyBytes

CONSTANTS
  Columns,         \* the types and directions the columns may have, in their order
  Cells            \* for each column, the cells it may have if it has some type

VARIABLES columns, left, right, leftKey, rightKey

vars == <<columns, left, right, leftKey, rightKey>>

EncodeCell(col, c) ==
  CASE c.mark = "null" -> <<IF col.desc THEN encodedNullDesc ELSE encodedNull>>
    [] c.mark = "notnull" -> <<IF col.desc THEN encodedNotNullDesc ELSE encodedNotNull>>
    [] c.mark = "" -> Encode(col.type, c.v, col.desc)

Init == columns = <<>> /\ left = <<>> /\ right = <<>> /\ leftKey = <<>> /\ rightKey = <<>>

\* Another column, with a cell for each row.
Next ==
  /\ Len(columns) < Len(Columns)
  /\ \E col \in Columns[Len(columns) + 1] :
       \E c, d \in Cells[Len(columns) + 1][col.type] :
         /\ columns' = Append(columns, col)
         /\ left'  = Append(left, c)
         /\ right' = Append(right, d)
         /\ leftKey'  = leftKey \o EncodeCell(col, c)
         /\ rightKey' = rightKey \o EncodeCell(col, d)

Spec == Init /\ [][Next]_vars
-----------------------------------------------------------------------------
(* The order of values: bytes.Compare, Compare of bit arrays, durations and    *)
(* decimals, Before of times.                                                  *)

Lex(s, t) ==
  LET D == {i \in 1 .. Len(s) : i <= Len(t) /\ s[i] # t[i]}
  IN  IF D = {} THEN Len(s) - Len(t) ELSE s[MinOf(D)] - t[MinOf(D)]

Quot(a, b) == IF a >= 0 THEN a \div b ELSE -((-a) \div b)
ShiftDays(d) == <<d[1] + Quot(d[2], DaysPerMonth), d[2] - Quot(d[2], DaysPerMonth) * DaysPerMonth, d[3]>>
ShiftNanos(d) == <<d[1], d[2] + Quot(d[3], NanoDay), d[3] - Quot(d[3], NanoDay) * NanoDay>>
normalize(d) == ShiftDays(ShiftNanos(ShiftDays(d)))

\* A decimal as a multiple of the smaller exponent's power.
CompareDecimals(a, b) ==
  LET Class(d) == CASE d.form = "nan" -> 0 [] d.form = "infinite" /\ d.neg -> 1
                    [] d.form = "finite" -> 2 [] OTHER -> 3
      Scaled(d) == (IF d.neg THEN -1 ELSE 1) * d.coeff * Radix ^ (d.exp - MinOf({a.exp, b.exp}))
  IN  IF Class(a) # Class(b) \/ Class(a) # 2 THEN Class(a) - Class(b) ELSE Scaled(a) - Scaled(b)

\* A float as the integer its bits count up or down from 0.
Rank(u) == IF IsNaN(u) THEN -Max64 ELSE IF u >= SignBit THEN SignBit - u ELSE u

Compare(type, a, b) ==
  CASE type \in {"int", "uint"} -> a - b
    [] type = "float" -> Rank(a) - Rank(b)
    [] type \in {"bytes", "time"} -> Lex(a, b)
    [] type = "timetz" -> Lex(<<a[1] + a[2], a[2]>>, <<b[1] + b[2], b[2]>>)
    [] type = "bits" -> IF a.words = b.words THEN a.last - b.last ELSE Lex(a.words, b.words)
    [] type = "duration" -> Lex(normalize(a), normalize(b))
    [] type = "decimal" -> CompareDecimals(a, b)

\* NULL is before everything, the marker not-NULL before every value.
CompareCells(col, c, d) ==
  LET Class(x) == CASE x.mark = "null" -> 0 [] x.mark = "notnull" -> 1 [] OTHER -> 2
      up == IF Class(c) # Class(d) \/ Class(c) # 2 THEN Class(c) - Class(d) ELSE Compare(col.type, c.v, d.v)
  IN  IF col.desc THEN -up ELSE up

Sign(n) == IF n < 0 THEN -1 ELSE IF n > 0 THEN 1 ELSE 0

\* Keys compare as their rows do, column by column, whatever the types and the
\* directions; keys are equal only if all values are (encoding.go 865-869,
\* 954-957, 1023-1026, 1108-1111).
KeysInOrder ==
  LET C == [i \in 1 .. Len(columns) |-> Sign(CompareCells(columns[i], left[i], right[i]))]
      D == {i \in 1 .. Len(columns) : C[i] # 0}
  IN  Sign(Lex(leftKey, rightKey)) = (IF D = {} THEN 0 ELSE C[MinOf(D)])

\* The cells that a key is decoded to.
Cell(v) == [mark |-> "", v |-> v]
DecodeCell(col, b) ==
  CASE PeekType(b) = "Null"    -> Got([mark |-> "null", v |-> 0], Tail(b))
    [] PeekType(b) = "NotNull" -> Got([mark |-> "notnull", v |-> 0], Tail(b))
    [] OTHER -> LET r == Decode(col.type, b, col.desc) IN [r EXCEPT !.v = Cell(@)]

ComesBack(col, c, from) ==
  /\ from.ok /\ from.rest = rightKey
  /\ CompareCells(col, from.v, c) = 0
  /\ col.type = "duration" /\ c.mark = "" => from.v = c
ReadBack(tokens) ==
  /\ DecomposeKeyTokens(leftKey) = tokens
  /\ \A i \in 1 .. Len(columns) :
       /\ ComesBack(columns[i], left[i], DecodeCell(columns[i], tokens[i] \o rightKey))
       /\ \A n \in 1 .. Len(tokens[i]) - 1 : ~DecodeCell(columns[i], SubSeq(tokens[i], 1, n)).ok

\* A key is taken apart where its values end, every value comes back from it
\* with what follows it untouched, and a part of a value's encoding is none.
KeysReadBack == ReadBack([i \in 1 .. Len(columns) |-> EncodeCell(columns[i], left[i])])
=============================================================================
