------------------------------- MODULE MCScan -------------------------------
(***************************************************************************)
(* The scanner over every input of the families a run chooses, against     *)
(* reference definitions of the lexical rules that look at the whole text  *)
(* of a token at once.                                                     *)
(***************************************************************************)
EXTENDS Scanner, SequencesExt

CONSTANT Chosen   \* the families of inputs a run scans

\* At most len characters of chars, between before and after.
Family(chars, len) == [chars |-> chars, len |-> len, before |-> <<>>, after |-> <<>>]
Families ==
  [comments  |-> Family({"/", "*"}, 10),
   lines     |-> Family({"-", "/", "*", "\n"}, 5),
   operators |-> Family({"<", "=", "-", ">", ":", "*", "\n", "|"}, 4),
   numbers   |-> Family({"0", "1", ".", "e", "x", "-"}, 5),
   words     |-> [chars |-> {"x", "_", "a", "A", "$", "1", " "}, len |-> 4,
                  before |-> <<"x">>, after |-> <<>>],
   clients   |-> Family({";", "'", "-", "\n", "a9"}, 5),
   strings   |-> Family({"'", "\n", " ", "a"}, 6),
   names     |-> Family({"\"", "'", "\n", "\\", "a"}, 5),
   escapes   |-> [chars |-> {"\\", "x", "c", "3", "a9", "u", "'", "0"}, len |-> 4,
                  before |-> <<"e", "'">>, after |-> <<"'">>],
   bits      |-> Family({"B", "x", "'", "0", "\n", "g"}, 5),
   hex       |-> [chars |-> {"'", "0", "a", "\n"}, len |-> 6,
                  before |-> <<"x", "'">>, after |-> <<>>],
   dollar    |-> Family({"$", "a", "1"}, 8),
   unicode   |-> Family({"c3", "89", "A"}, 3)]

Texts(f) == {f.before \o s \o f.after : s \in UNION {[1 .. n -> f.chars] : n \in 0 .. f.len}}
\* Only the family of statements is read by the other clients too.
TextFamilies(c) ==
  {Texts(Families[name]) : name \in IF c = "Tokens" THEN Chosen ELSE Chosen \cap {"clients"}}
MCTexts  == [c \in Clients |-> TextFamilies(c)]
MCChar   == Lower \cup Upper \cup Digit \cup Trail \cup {Lead} \cup
              {Nul, "07", "08", "0b", "\n", "\r", "\t", "\f", " ", "!", "\"", "#", "$", "%", "&",
               "'", "(", ")", "*", "+", ",", "-", ".", "/", ":", ";", "<", "=", ">", "?", "@",
               "[", "\\", "]", "^", "_", "{", "|", "}", "~"}
MCWords  == {<<"a">>}
MCPrefix == {<<"x", "_">>}

\* The tokens of a call that has returned.
Toks      == IF pc = "done" THEN {toks[i] : i \in 1 .. Len(toks)} ELSE {}
TextOf(t) == Text(t.pos, t.end)
Has(s, sub) == \E i \in 0 .. Len(s) - Len(sub) : SubSeq(s, i + 1, i + Len(sub)) = sub

Digits(s) == s # <<>> /\ \A i \in 1 .. Len(s) : s[i] \in Digit
DigitsOrNone(s) == s = <<>> \/ Digits(s)
\* One of the ways to cut s at a character of C: what precedes and what follows.
Cuts(s, C) == {<<SubSeq(s, 1, i - 1), SubSeq(s, i + 1, Len(s))>> :
                 i \in {k \in 1 .. Len(s) : s[k] \in C}}
IsHexNumber(s) == Len(s) > 2 /\ s[1] = "0" /\ s[2] \in {"x", "X"}
                    /\ \A i \in 3 .. Len(s) : s[i] \in HexDigit
IsMantissa(s) ==
  \E c \in Cuts(s, {"."}) : DigitsOrNone(c[1]) /\ DigitsOrNone(c[2]) /\ Len(s) > 1
IsExponent(s) == Digits(s) \/ (s # <<>> /\ s[1] \in {"+", "-"} /\ Digits(Tail(s)))
IsFloat(s) ==
  \/ IsMantissa(s)
  \/ \E c \in Cuts(s, {"e", "E"}) : (Digits(c[1]) \/ IsMantissa(c[1])) /\ IsExponent(c[2])

\* A numeric token is a whole numeral of the kind its identifier says, no
\* digit that could extend it is left to the next token, and a range never
\* takes a dot from its dots (scan.go 579-675).
NumbersAreNumerals ==
  \A t \in Toks :
    /\ t.id = "ICONST" => Digits(TextOf(t)) \/ IsHexNumber(TextOf(t))
    /\ t.id = "FCONST" => IsFloat(TextOf(t))
    /\ t.id \in {"ICONST", "FCONST"} =>
         /\ t.end < Len(in) => in[t.end + 1] \notin Digit
         /\ in[t.end] = "." /\ t.end < Len(in) => in[t.end + 1] # "."

\* What a quoted text stands for, read from its first character on: q is the
\* quote; the text starts after the opening one.
RECURSIVE Unquoted(_, _)
Unquoted(s, q) ==
  LET blanks == {n \in 1 .. Len(s) : \A i \in 2 .. n : s[i] \in Blank}
      n == CHOOSE m \in blanks : \A k \in blanks : k <= m
  IN  CASE s = <<>> -> <<>>
        [] s # <<>> /\ s[1] # q -> <<s[1]>> \o Unquoted(Tail(s), q)
        [] s # <<>> /\ s[1] = q /\ Len(s) > 1 /\ s[2] = q ->
             <<q>> \o Unquoted(SubSeq(s, 3, Len(s)), q)
        [] OTHER -> IF n < Len(s) /\ \E i \in 2 .. n : s[i] = "\n"
                    THEN Unquoted(SubSeq(s, n + 2, Len(s)), q)
                    ELSE <<>>

\* A quoted token stands for its text: doubled quotes are quotes, literals
\* separated by a newline are one literal, everything else is verbatim
\* (scan.go 790-884).
StringValues ==
  \A t \in Toks :
    t.id \in {"SCONST", "IDENT"} /\ in[t.pos + 1] \in {"'", "\""} =>
      t.str = Unquoted(Tail(TextOf(t)), in[t.pos + 1])

\* The first n characters of s are a tag with its dollars.
IsTag(s, n) == n > 1 /\ s[1] = "$" /\ s[n] = "$" /\ ~Has(SubSeq(s, 2, n - 1), <<"$">>)

\* A dollar-quoted string ends at the first repetition of its tag, and stands
\* for what is between them; one is unterminated only if its tag is not
\* repeated (scan.go 886-961).
DollarValues ==
  \A t \in Toks :
    LET rest == SubSeq(in, t.pos + 1, Len(in))
    IN  /\ t.id = "SCONST" /\ rest[1] = "$" =>
             \E n \in 2 .. Len(TextOf(t)) :
               LET tag == SubSeq(rest, 1, n)
               IN  /\ IsTag(rest, n)
                   /\ TextOf(t) = tag \o t.str \o tag
                   /\ ~Has(SubSeq(t.str \o tag, 1, Len(t.str) + n - 1), tag)
        /\ t.id = "ERROR" /\ rest[1] = "$" /\ rest[2] \notin Digit =>
             \A n \in 2 .. Len(rest) : IsTag(rest, n) =>
               ~Has(SubSeq(rest, n + 1, Len(rest)), SubSeq(rest, 1, n))

\* The bytes of a string or a quoted name are well-formed UTF-8 (scan.go 876).
OnlyValidStrings ==
  \A t \in Toks : t.id = "SCONST" \/ (t.id = "IDENT" /\ in[t.pos + 1] = "\"") =>
    \A i \in 1 .. Len(t.str) : WellFormedAt(t.str, i)

\* The digits of a hexadecimal or bit string, its parts run together.
RECURSIVE DigitsOf(_)
DigitsOf(s) ==
  IF s = <<>> THEN <<>>
  ELSE (IF s[1] \in HexDigit THEN <<s[1]>> ELSE <<>>) \o DigitsOf(Tail(s))

\* A hexadecimal string has an even number of digits and stands for the bytes
\* they spell two by two, a pair split between two adjacent literals included;
\* a bit string stands for its digits (scan.go 694-785).
DigitStringValues ==
  \A t \in Toks :
    LET digits == DigitsOf(Tail(TextOf(t)))
    IN  /\ t.id = "BCONST" /\ in[t.pos + 1] \in {"x", "X"} =>
             /\ Len(digits) = 2 * Len(t.str)
             /\ \A i \in 1 .. Len(t.str) :
                  t.str[i] = ByteOf(<<digits[2 * i - 1], digits[2 * i]>>)
        /\ t.id = "BITCONST" => t.str = digits

\* Every literal and quoted name stands for what its text spells.
LiteralValues ==
  NumbersAreNumerals /\ StringValues /\ DollarValues /\ OnlyValidStrings /\ DigitStringValues
=============================================================================
