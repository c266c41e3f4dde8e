-------------------------------- MODULE Lex --------------------------------
(***************************************************************************)
(* The character classes and name normalisation the scanner and the        *)
(* formatter share (pkg/sql/lex/predicates.go, normalize.go).              *)
(*                                                                         *)
(* A character is one byte of input.  ASCII characters are themselves; a   *)
(* byte above 127 is named by its hexadecimal code.  Three of those are    *)
(* enough: c3 89 is a capital and c3 a9 a small letter e with acute, and   *)
(* any other combination of the three is invalid UTF-8.  Control bytes are *)
(* named the same way: 07 is BEL.                                          *)
(***************************************************************************)
EXTENDS Integers, Sequences

Nul == "NUL"   \* the byte whose code is 0
Eof == "EOF"   \* what peek returns past the end: -1, not a byte

Digit    == {"0", "1", "2", "3", "4", "5", "6", "7", "8", "9"}
HexDigit == Digit \cup {"a", "b", "c", "d", "e", "f", "A", "B", "C", "D", "E", "F"}

UpperSeq == <<"A", "B", "C", "D", "E", "F", "G", "H", "I", "J", "K", "L", "M",
              "N", "O", "P", "Q", "R", "S", "T", "U", "V", "W", "X", "Y", "Z">>
LowerSeq == <<"a", "b", "c", "d", "e", "f", "g", "h", "i", "j", "k", "l", "m",
              "n", "o", "p", "q", "r", "s", "t", "u", "v", "w", "x", "y", "z">>
Upper == {UpperSeq[i] : i \in 1 .. 26}
Lower == {LowerSeq[i] : i \in 1 .. 26}

Lead  == "c3"
Trail == {"89", "a9"}
\* "fffd" is the replacement character strings.Map writes for invalid bytes.
HighByte == Trail \cup {Lead, "fffd"}

IsIdentStart(ch)  == ch \in Upper \cup Lower \cup HighByte \cup {"_"}
IsIdentMiddle(ch) == IsIdentStart(ch) \/ ch \in Digit \cup {"$"}

ToLower(ch) ==
  IF ch \in Upper THEN LowerSeq[CHOOSE i \in 1 .. 26 : UpperSeq[i] = ch] ELSE ch

ToLowerSeq(s) == [i \in 1 .. Len(s) |-> ToLower(s[i])]

\* A byte's name and its two hexadecimal digits (stringencoding.HexMap).
NamedByte ==
  {<<"c3", "c", "3">>, <<"a9", "a", "9">>, <<"89", "8", "9">>, <<"07", "0", "7">>,
   <<"08", "0", "8">>, <<"0b", "0", "b">>, <<Nul, "0", "0">>, <<"a", "6", "1">>,
   <<"\n", "0", "a">>, <<"'", "2", "7">>, <<"\\", "5", "c">>}

\* Byte i of s belongs to a complete UTF-8 sequence.
WellFormedAt(s, i) ==
  /\ s[i] = Lead => i < Len(s) /\ s[i + 1] \in Trail
  /\ s[i] \in Trail => i > 1 /\ s[i - 1] = Lead

\* utf8.Valid
Valid(s) == \A i \in 1 .. Len(s) : WellFormedAt(s, i)

\* NormalizeName: lower case, by code point, with U+FFFD for invalid bytes.
\* These letters are composed already, so NFC leaves the result alone.
NormalizeName(s) ==
  [i \in 1 .. Len(s) |->
     IF ~WellFormedAt(s, i) THEN "fffd" ELSE IF s[i] = "89" THEN "a9" ELSE ToLower(s[i])]
=============================================================================
