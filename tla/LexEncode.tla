----------------------------- MODULE LexEncode -----------------------------
(***************************************************************************)
(* How names, strings and byte arrays are written back as SQL              *)
(* (pkg/sql/lex/encode.go, predicates.go, util/stringencoding).            *)
(***************************************************************************)
EXTENDS Lex, SequencesExt

CONSTANT Reserved   \* reservedOrLookaheadKeywords

\* EncodeMap: the escapes that have a letter of their own.
EncodeMap == {<<"08", "b">>, <<"\f", "f">>, <<"\n", "n">>, <<"\r", "r">>, <<"\t", "t">>,
              <<"\\", "\\">>}
\* Mutant: a backslash is not escaped.
NeedEscapeNoBackslash(ch) == ch # "\\" /\ \E m \in EncodeMap : m[1] = ch
NeedEscape(ch) == \E m \in EncodeMap : m[1] = ch
Control == {Nul, "07", "08", "0b", "\n", "\r", "\t", "\f"}
MustQuote == {" ", ",", "{", "}"}

HexEscape2(ch) == <<"\\", "x">> \o Tail(CHOOSE b \in NamedByte : b[1] = ch)

\* The escape of an ASCII character inside quotes.
EscapedASCII(ch, quote) ==
  CASE NeedEscape(ch) -> <<"\\", (CHOOSE m \in EncodeMap : m[1] = ch)[2]>>
    [] ch = quote     -> <<"\\", quote>>
    [] OTHER          -> HexEscape2(ch)

\* The rune range decodes at byte i: its width, and what utf8.RuneLen makes of
\* it, which is 3 for the U+FFFD that stands for an invalid byte.
IsRune2(s, i)    == s[i] = Lead /\ i < Len(s) /\ s[i + 1] \in Trail
IsBadByte(s, i)  == s[i] \in HighByte /\ ~IsRune2(s, i)
RuneWidth(s, i)  == IF IsRune2(s, i) THEN 2 ELSE 1
RuneLen(s, i)    == IF IsBadByte(s, i) THEN 3 ELSE RuneWidth(s, i)
Printable(s, i)  == s[i] \notin Control \cup HighByte

\* EncodeEscapedChar: a bad byte takes the next two bytes with it.
EncodeEscapedChar(s, i, quote) ==
  CASE IsBadByte(s, i) ->
         FlattenSeq([k \in 1 .. (IF i + 2 <= Len(s) THEN 3 ELSE Len(s) - i + 1) |->
                       HexEscape2(s[i + k - 1])])
    [] IsRune2(s, i) -> <<"\\", "u", "0", "0">> \o (IF s[i + 1] = "89" THEN <<"C", "9">>
                                                                     ELSE <<"E", "9">>)
    [] OTHER -> EscapedASCII(s[i], quote)

\* EncodeSQLStringWithFlags from rune i on: start is the first byte not yet
\* written, escaped says that the e' is.
RECURSIVE EncodeFrom(_, _, _, _, _)
EncodeFrom(s, i, start, escaped, bare) ==
  IF i > Len(s)
  THEN LET quote == ~escaped /\ ~bare
       IN  (IF quote THEN <<"'">> ELSE <<>>) \o SubSeq(s, start, Len(s))
             \o (IF escaped \/ quote THEN <<"'">> ELSE <<>>)
  ELSE LET next == i + RuneWidth(s, i)
       IN  CASE i < start -> EncodeFrom(s, next, start, escaped, bare)
             [] i >= start /\ Printable(s, i) /\ ~NeedEscape(s[i]) /\ s[i] # "'" ->
                  EncodeFrom(s, next, start, escaped, bare /\ s[i] \notin MustQuote)
             [] OTHER -> (IF escaped THEN <<>> ELSE <<"e", "'">>) \o SubSeq(s, start, i - 1)
                           \o EncodeEscapedChar(s, i, "'")
                           \o EncodeFrom(s, next, i + RuneLen(s, i), TRUE, bare)

EncodeSQLString(s) == EncodeFrom(s, 1, 1, FALSE, FALSE)

ByteEscape(ch) ==
  IF NeedEscape(ch) \/ ch = "'" \/ ch \in Control \cup HighByte
  THEN EscapedASCII(ch, "'")
  ELSE <<ch>>

\* EncodeSQLBytes
EncodeSQLBytes(s) ==
  <<"b", "'">> \o FlattenSeq([i \in 1 .. Len(s) |-> ByteEscape(s[i])]) \o <<"'">>

\* isBareIdentifier
IsBareIdentifier(s) ==
  /\ s # <<>>
  /\ IsIdentStart(s[1]) /\ s[1] \notin Upper
  /\ \A i \in 2 .. Len(s) : IsIdentMiddle(s[i]) /\ s[i] \notin Upper
  /\ (\A i \in 1 .. Len(s) : s[i] \notin HighByte) \/ NormalizeName(s) = s

EncodeEscapedSQLIdent(s) ==
  <<"\"">> \o FlattenSeq([i \in 1 .. Len(s) |->
                            IF s[i] = "\"" THEN <<"\"", "\"">> ELSE <<s[i]>>]) \o <<"\"">>

EncodeUnrestrictedSQLIdent(s) ==
  IF IsBareIdentifier(s) THEN s ELSE EncodeEscapedSQLIdent(s)

\* Mutant: reserved words are written bare.
EncodeRestrictedNoReserved(s) == EncodeUnrestrictedSQLIdent(s)

EncodeRestrictedSQLIdent(s) ==
  IF s \notin Reserved /\ IsBareIdentifier(s) THEN s ELSE EncodeEscapedSQLIdent(s)
=============================================================================
