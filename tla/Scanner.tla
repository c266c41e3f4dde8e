------------------------------ MODULE Scanner ------------------------------
(***************************************************************************)
(* The SQL scanner (pkg/sql/parser/scan.go) and the functions that drive   *)
(* it over a whole input: Tokens, SplitFirstStatement, LastLexicalToken.   *)
(*                                                                         *)
(* pc names the loop the scanner is in, loc holds that loop's Go locals,   *)
(* and one action is one iteration.  Positions are 0-based byte offsets,   *)
(* as in the code.  Token identifiers are strings: the character itself    *)
(* for a single-character token, so that the token of a NUL byte and the   *)
(* end-of-input token are both the number 0.                               *)
(***************************************************************************)
EXTENDS Lex

CONSTANTS
  Char,               \* the characters of the inputs
  Clients,            \* the functions that call scan: a subset of AllClients
  Inputs,             \* what each reads: families of sequences of characters
  Keyword,            \* the words GetKeywordID knows
  ExpPrefix,          \* the prefixes scanIdent strips: experimental_, testing_
  AllowedExp,         \* lex.AllowedExperimental
  MaxPlaceholderIdx   \* tree.MaxPlaceholderIdx

AllClients == {"Tokens", "Split", "Last"}

\* No character is called like a token of several characters.
NotCharacters == {Eof, "ERROR", "IDENT", "KEYWORD", "ICONST", "FCONST", "PLACEHOLDER",
                  "SCONST", "BCONST", "BITCONST"}

ASSUME ScannerAssumption ==
  /\ Char \cap NotCharacters = {}
  /\ Clients \subseteq AllClients
  /\ \A c \in Clients : \A family \in Inputs[c] : \A s \in family : s \in Seq(Char)
  /\ ExpPrefix \subseteq Seq(Char)
  /\ MaxPlaceholderIdx \in Nat

VARIABLES
  client,   \* the function that scans the input
  in, pos,  \* the scanner
  pc, loc,  \* where it is, and the locals of the loop it is in
  lval,     \* the token scan fills in
  toks,     \* every token returned so far, with the position after it
  res       \* what the client returned

vars == <<client, in, pos, pc, loc, lval, toks, res>>

EofId == Nul   \* lval.id = 0
Blank == {"\n", " ", "\t", "\r", "\f"}
Semicolon == ";"
NoLoc == [none |-> TRUE]
NoRes == [ok |-> FALSE, val |-> 0]

\* Mutant: the last character is taken for the end.
PeekNShort(n) == IF pos + n + 1 >= Len(in) THEN Eof ELSE in[pos + n + 1]

PeekN(n)   == IF pos + n >= Len(in) THEN Eof ELSE in[pos + n + 1]
Peek       == PeekN(0)
Text(a, b) == SubSeq(in, a + 1, b)   \* in[a:b]

\* One more iteration of the current loop, at position p with locals l.
Go(p, l) ==
  /\ pos' = p
  /\ loc' = l
  /\ UNCHANGED <<client, in, pc, lval, toks, res>>

\* Enter the loop named to.
Enter(to, p, l) ==
  /\ pc' = to
  /\ pos' = p
  /\ loc' = l
  /\ UNCHANGED <<client, in, lval, toks, res>>

\* scan returns token t to its client, leaving the scanner at p.
Return(t, p) ==
  /\ lval' = t
  /\ pos' = p
  /\ pc' = "ret"
  /\ loc' = NoLoc
  /\ UNCHANGED <<client, in, toks, res>>

Token(id, p, str) == [id |-> id, pos |-> p, str |-> str]
Error             == [lval EXCEPT !.id = "ERROR", !.str = <<>>]

Init ==
  /\ client \in Clients
  /\ \E family \in Inputs[client] : in \in family
  /\ pos = 0
  /\ pc = "scan"
  /\ loc = NoLoc
  /\ lval = Token(EofId, 0, <<>>)
  /\ toks = <<>>
  /\ res = NoRes

\* The client calls scan.
Scan ==
  /\ pc = "scan"
  /\ pc' = "ws"
  /\ lval' = Token(EofId, pos, <<>>)
  /\ UNCHANGED <<client, in, pos, loc, toks, res>>
-----------------------------------------------------------------------------
(* skipWhitespace and scanComment. *)

BlockCommentAhead == Peek = "/" /\ PeekN(1) = "*"
LineCommentAhead  == Peek = "-" /\ PeekN(1) = "-"

SkipBlank ==
  /\ pc = "ws"
  /\ Peek \in Blank
  /\ Go(pos + 1, loc)

EnterBlockComment ==
  /\ pc = "ws"
  /\ BlockCommentAhead
  /\ Enter("block", pos + 2, [start |-> pos, depth |-> 1])

\* The first dash; the loop consumes the second.
EnterLineComment ==
  /\ pc = "ws"
  /\ LineCommentAhead
  /\ Enter("line", pos + 1, NoLoc)

\* Mutant: the closing mark ends the comment whatever the nesting.
CloseBlockUnnested ==
  /\ pc = "block"
  /\ Peek = "*" /\ PeekN(1) = "/"
  /\ Enter("ws", pos + 2, NoLoc)

\* Mutant: the outermost closing mark is counted like the others.
CloseBlockCount ==
  /\ pc = "block"
  /\ Peek = "*" /\ PeekN(1) = "/"
  /\ Go(pos + 2, [loc EXCEPT !.depth = loc.depth - 1])

CloseBlock ==
  /\ pc = "block"
  /\ Peek = "*" /\ PeekN(1) = "/"
  /\ IF loc.depth = 1 THEN Enter("ws", pos + 2, NoLoc)
                      ELSE Go(pos + 2, [loc EXCEPT !.depth = loc.depth - 1])

OpenBlock ==
  /\ pc = "block"
  /\ BlockCommentAhead
  /\ Go(pos + 2, [loc EXCEPT !.depth = loc.depth + 1])

BlockChar ==
  /\ pc = "block"
  /\ Peek # Eof
  /\ ~BlockCommentAhead
  /\ ~(Peek = "*" /\ PeekN(1) = "/")
  /\ Go(pos + 1, loc)

\* Mutant: the end of the input is not noticed.
BlockEofLoop ==
  /\ pc = "block"
  /\ Peek = Eof
  /\ Go(pos, loc)

BlockEof ==
  /\ pc = "block"
  /\ Peek = Eof
  /\ Return(Token("ERROR", loc.start, <<>>), pos)

LineChar ==
  /\ pc = "line"
  /\ CASE Peek = Eof  -> Enter("ws", pos, NoLoc)
       [] Peek = "\n" -> Enter("ws", pos + 1, NoLoc)
       [] OTHER       -> Go(pos + 1, loc)
-----------------------------------------------------------------------------
(* scan: the first character of a token decides what it is. *)

AtToken == pc = "ws" /\ Peek \notin Blank /\ ~BlockCommentAhead /\ ~LineCommentAhead

Here == Token(Peek, pos, <<Peek>>)   \* what scan puts in lval before the switch

\* Start the loop named to.
Begin(to, p, l) ==
  /\ lval' = Here
  /\ pos' = p
  /\ pc' = to
  /\ loc' = l
  /\ UNCHANGED <<client, in, toks, res>>

ScanEof ==
  /\ AtToken
  /\ Peek = Eof
  /\ Return(Token(EofId, pos, <<>>), pos)

\* Operators of two and three characters; a three-character one starts with a
\* two-character one.
Operator2 ==
  [DOT_DOT |-> <<".", ".">>, NOT_EQUALS |-> <<"!", "=">>, NOT_REGMATCH |-> <<"!", "~">>,
   HELPTOKEN |-> <<"?", "?">>, JSON_SOME_EXISTS |-> <<"?", "|">>,
   JSON_ALL_EXISTS |-> <<"?", "&">>, LSHIFT |-> <<"<", "<">>, LESS_GREATER |-> <<"<", ">">>,
   LESS_EQUALS |-> <<"<", "=">>, CONTAINED_BY |-> <<"<", "@">>, RSHIFT |-> <<">", ">">>,
   GREATER_EQUALS |-> <<">", "=">>, TYPECAST |-> <<":", ":">>, CONCAT |-> <<"|", "|">>,
   FLOORDIV |-> <<"/", "/">>, REGIMATCH |-> <<"~", "*">>, CONTAINS |-> <<"@", ">">>,
   AND_AND |-> <<"&", "&">>, FETCHVAL |-> <<"-", ">">>, FETCHVAL_PATH |-> <<"#", ">">>,
   REMOVE_PATH |-> <<"#", "-">>]
Operator3 ==
  [NOT_REGIMATCH |-> <<"!", "~", "*">>, INET_CONTAINED_BY_OR_EQUALS |-> <<"<", "<", "=">>,
   INET_CONTAINS_OR_EQUALS |-> <<">", ">", "=">>, TYPEANNOTATE |-> <<":", ":", ":">>,
   FETCHTEXT |-> <<"-", ">", ">">>, FETCHTEXT_PATH |-> <<"#", ">", ">">>]

Ahead2 == <<Peek, PeekN(1)>>
Ahead3 == <<Peek, PeekN(1), PeekN(2)>>

\* Both spellings of "not equal" are one token.
OperatorId(op) == IF op = "LESS_GREATER" THEN "NOT_EQUALS" ELSE op

ScanOperator ==
  /\ AtToken
  /\ \/ \E op \in DOMAIN Operator3 :
          /\ Operator3[op] = Ahead3
          /\ Return(Token(op, pos, <<Peek>>), pos + 3)
     \/ \E op \in DOMAIN Operator2 :
          /\ Operator2[op] = Ahead2
          /\ \A op3 \in DOMAIN Operator3 : Operator3[op3] # Ahead3
          /\ Return(Token(OperatorId(op), pos, <<Peek>>), pos + 2)

IsOperator2 == \E op \in DOMAIN Operator2 : Operator2[op] = Ahead2

NumberLoc(dot) ==
  [start |-> pos, isHex |-> FALSE, hasDecimal |-> dot, hasExponent |-> FALSE]

BeginNumber ==
  /\ AtToken
  /\ \/ Peek \in Digit
     \/ Peek = "." /\ PeekN(1) \in Digit
  /\ Begin("number", pos + 1, NumberLoc(Peek = "."))

BeginPlaceholder ==
  /\ AtToken
  /\ Peek = "$" /\ PeekN(1) \in Digit
  /\ Begin("placeholder", pos + 1, [start |-> pos + 1])

BeginDollar ==
  /\ AtToken
  /\ Peek = "$" /\ PeekN(1) \notin Digit
  /\ Begin("dollar", pos + 1,
           [start |-> pos + 1, found |-> FALSE, possible |-> FALSE, index |-> -1, tag |-> <<>>])

\* The locals of scanString, scanHexString and scanBitString.
LiteralLoc(kind, id, quote, escapes, utf8, start) ==
  [kind |-> kind, id |-> id, quote |-> quote, escapes |-> escapes, utf8 |-> utf8,
   start |-> start, buf |-> <<>>, half |-> "", newline |-> FALSE]

BeginQuoted ==
  /\ AtToken
  /\ \/ Peek = "\"" /\ Begin("literal", pos + 1,
                             LiteralLoc("string", "IDENT", "\"", FALSE, TRUE, pos + 1))
     \/ Peek = "'"  /\ Begin("literal", pos + 1,
                             LiteralLoc("string", "SCONST", "'", FALSE, TRUE, pos + 1))

\* A letter that announces a literal when a quote follows it.
LiteralPrefix == [b |-> "BCONST", e |-> "SCONST", E |-> "SCONST",
                  B |-> "BITCONST", x |-> "BCONST", X |-> "BCONST"]

BeginPrefixed ==
  /\ AtToken
  /\ Peek \in DOMAIN LiteralPrefix
  /\ PeekN(1) = "'"
  /\ LET kind == CASE Peek = "B" -> "bit" [] Peek \in {"x", "X"} -> "hex" [] OTHER -> "string"
     IN  Begin("literal", pos + 2,
               LiteralLoc(kind, LiteralPrefix[Peek], "'", kind = "string",
                          Peek \in {"e", "E"}, pos + 2))

\* scanIdent backs up over the character scan consumed.
BeginIdent ==
  /\ AtToken
  /\ IsIdentStart(Peek)
  /\ ~(Peek \in DOMAIN LiteralPrefix /\ PeekN(1) = "'")
  /\ Begin("ident", pos, [start |-> pos, isASCII |-> TRUE, isLower |-> TRUE])

\* Mutant: the character looked at to rule an operator out is consumed.
ScanSingleEatsNext ==
  /\ AtToken
  /\ Peek \notin {Eof, "$", "'", "\""} \cup Digit
  /\ ~IsIdentStart(Peek)
  /\ ~IsOperator2
  /\ ~(Peek = "." /\ PeekN(1) \in Digit)
  /\ Return(Here, IF Peek = "<" /\ PeekN(1) # Eof THEN pos + 2 ELSE pos + 1)

\* Everything else is a single character token.
ScanSingle ==
  /\ AtToken
  /\ Peek \notin {Eof, "$", "'", "\""} \cup Digit
  /\ ~IsIdentStart(Peek)
  /\ ~IsOperator2
  /\ ~(Peek = "." /\ PeekN(1) \in Digit)
  /\ Return(Here, pos + 1)
-----------------------------------------------------------------------------
(* scanIdent. *)

IdentChar ==
  /\ pc = "ident"
  /\ IsIdentMiddle(Peek)
  /\ Go(pos + 1, [loc EXCEPT !.isASCII = @ /\ Peek \notin HighByte,
                             !.isLower = @ /\ Peek \notin Upper])

\* Mutant: an ASCII name keeps its capitals.
IdentNameKeepCase(text) == IF loc.isASCII THEN text ELSE NormalizeName(text)

\* The name an identifier stands for.  isLower says that it has no ASCII
\* capital, and is tested first.
IdentName(text) ==
  CASE loc.isLower -> text
    [] ~loc.isLower /\ loc.isASCII -> ToLowerSeq(text)
    [] OTHER -> NormalizeName(text)

KeywordId(word) == IF word \in Keyword THEN "KEYWORD" ELSE "IDENT"

HasPrefix(name, prefix) ==
  Len(prefix) <= Len(name) /\ SubSeq(name, 1, Len(prefix)) = prefix

\* The keyword, if any, that name abbreviates once an experimental prefix is
\* stripped and the rest is on the white list.
Stripped(name) ==
  {kw \in {SubSeq(name, Len(prefix) + 1, Len(name)) :
             prefix \in {p \in ExpPrefix : HasPrefix(name, p)}} :
     kw \in Keyword /\ kw \in AllowedExp}

\* Mutant: a digit or a dollar sign ends the word.
IdentEndAny ==
  /\ pc = "ident"
  /\ ~IsIdentStart(Peek)
  /\ LET name == IdentName(Text(loc.start, pos))
     IN  Return(Token(KeywordId(name), lval.pos, name), pos)

IdentEnd ==
  /\ pc = "ident"
  /\ ~IsIdentMiddle(Peek)
  /\ LET name == IdentName(Text(loc.start, pos))
     IN  IF Stripped(name) # {}
         THEN Return(Token("KEYWORD", lval.pos, CHOOSE kw \in Stripped(name) : TRUE), pos)
         ELSE Return(Token(KeywordId(name), lval.pos, name), pos)
-----------------------------------------------------------------------------
(* scanNumber. *)

NumberDigit ==
  /\ pc = "number"
  /\ Peek \in Digit \/ (loc.isHex /\ Peek \in HexDigit)
  /\ Go(pos + 1, loc)

\* 0x is only legal as the first two characters.
NumberX ==
  /\ pc = "number"
  /\ Peek \in {"x", "X"}
  /\ IF loc.isHex \/ in[loc.start + 1] # "0" \/ pos # loc.start + 1
     THEN Return(Error, pos)
     ELSE Go(pos + 1, [loc EXCEPT !.isHex = TRUE])

DotAhead == Peek = "." /\ ~loc.hasDecimal /\ ~loc.hasExponent

\* Mutant: the first dot of a range belongs to the number.
NumberDotGreedy ==
  /\ pc = "number"
  /\ ~loc.isHex
  /\ DotAhead
  /\ Go(pos + 1, [loc EXCEPT !.hasDecimal = TRUE])

\* A dot belongs to the number unless another one follows it.
NumberDot ==
  /\ pc = "number"
  /\ ~loc.isHex
  /\ DotAhead
  /\ PeekN(1) # "."
  /\ Go(pos + 1, [loc EXCEPT !.hasDecimal = TRUE])

NumberExponent ==
  /\ pc = "number"
  /\ ~loc.isHex
  /\ Peek \in {"e", "E"}
  /\ ~loc.hasExponent
  /\ LET sign == IF PeekN(1) \in {"-", "+"} THEN 1 ELSE 0
     IN  IF PeekN(1 + sign) \in Digit
         THEN Go(pos + 1 + sign, [loc EXCEPT !.hasExponent = TRUE])
         ELSE Return(Error, pos + 1 + sign)

NumberGoesOn ==
  \/ Peek \in Digit \cup {"x", "X"}
  \/ loc.isHex /\ Peek \in HexDigit
  \/ ~loc.isHex /\ DotAhead /\ PeekN(1) # "."
  \/ ~loc.isHex /\ Peek \in {"e", "E"} /\ ~loc.hasExponent

\* A decimal literal without its leading zeros, which Go would read as octal.
TrimZeros(text) ==
  LET keep == {i \in 1 .. Len(text) : i = Len(text) \/ text[i] # "0"}
      from == CHOOSE i \in keep : \A j \in keep : i <= j
  IN  SubSeq(text, from, Len(text))

\* MakeFromLiteral rejects a float only for an exponent beyond its range.
NumberEnd ==
  /\ pc = "number"
  /\ ~NumberGoesOn
  /\ LET text == Text(loc.start, pos)
     IN  CASE loc.hasDecimal \/ loc.hasExponent ->
                \/ Return(Token("FCONST", lval.pos, text), pos)
                \/ loc.hasExponent /\ Return(Error, pos)
           [] ~(loc.hasDecimal \/ loc.hasExponent) /\ loc.isHex ->
                IF pos = loc.start + 2
                THEN Return(Error, pos)
                ELSE Return(Token("ICONST", lval.pos, text), pos)
           [] OTHER -> Return(Token("ICONST", lval.pos, TrimZeros(text)), pos)
-----------------------------------------------------------------------------
(* scanPlaceholder. *)

PlaceholderDigit ==
  /\ pc = "placeholder"
  /\ Peek \in Digit
  /\ Go(pos + 1, loc)

DigitValue == [d \in Digit |-> CHOOSE n \in 0 .. 9 :
                 d = <<"0", "1", "2", "3", "4", "5", "6", "7", "8", "9">>[n + 1]]

\* strconv.ParseUint
Decimal(text) ==
  LET f[i \in 0 .. Len(text)] ==
        IF i = 0 THEN 0 ELSE 10 * f[i - 1] + DigitValue[text[i]]
  IN  f[Len(text)]

\* NewPlaceholder numbers placeholders from 1 and stores them from 0.
PlaceholderEnd ==
  /\ pc = "placeholder"
  /\ Peek \notin Digit
  /\ LET text == Text(loc.start, pos)
     IN  IF Decimal(text) = 0 \/ Decimal(text) > MaxPlaceholderIdx + 1
         THEN Return(Error, pos)
         ELSE Return(Token("PLACEHOLDER", lval.pos, text), pos)
-----------------------------------------------------------------------------
(* scanString, scanHexString, scanBitString. *)

InLiteral(kind) == pc = "literal" /\ loc.kind = kind

\* buf with the characters scanned since start appended to it.
Flushed == loc.buf \o Text(loc.start, pos)

\* Two quotes are one quote of the string: the second starts the next chunk.
DoubledQuote ==
  /\ InLiteral("string")
  /\ Peek = loc.quote /\ PeekN(1) = loc.quote
  /\ Go(pos + 2, [loc EXCEPT !.buf = Flushed, !.start = pos + 1])

\* Mutant: a digit without its second half is forgotten.
CloseQuoteDropHalf ==
  /\ pc = "literal"
  /\ Peek = loc.quote
  /\ loc.kind = "string" => PeekN(1) # loc.quote
  /\ Enter("joint", pos + 1,
           [loc EXCEPT !.buf = IF loc.kind = "string" THEN Flushed ELSE loc.buf,
                       !.newline = FALSE, !.half = ""])

CloseQuote ==
  /\ pc = "literal"
  /\ Peek = loc.quote
  /\ loc.kind = "string" => PeekN(1) # loc.quote
  /\ Enter("joint", pos + 1,
           [loc EXCEPT !.buf = IF loc.kind = "string" THEN Flushed ELSE loc.buf,
                       !.newline = FALSE])

\* skipWhitespace, without comments.
JointBlank ==
  /\ pc = "joint"
  /\ Peek \in Blank
  /\ Go(pos + 1, [loc EXCEPT !.newline = @ \/ Peek = "\n"])

\* Mutant: any white space joins adjacent literals.
JoinAnyBlank ==
  /\ pc = "joint"
  /\ Peek = loc.quote
  /\ Enter("literal", pos + 1, [loc EXCEPT !.start = pos + 1])

\* Adjacent literals join if a newline separates them.
Join ==
  /\ pc = "joint"
  /\ Peek = loc.quote /\ loc.newline
  /\ Enter("literal", pos + 1, [loc EXCEPT !.start = pos + 1])

\* Mutant: the check is dropped.
ValidAlways(buf) == {TRUE}

\* utf8.Valid of the buffer, when it has a byte the model does not name.
ValidChoice(buf) ==
  IF \E i \in 1 .. Len(buf) : buf[i] = "hi" THEN BOOLEAN ELSE {Valid(buf)}

LiteralEnd ==
  /\ pc = "joint"
  /\ Peek \notin Blank
  /\ ~(Peek = loc.quote /\ loc.newline)
  /\ IF loc.half # ""
     THEN Return(Error, pos)
     ELSE \E valid \in IF loc.utf8 THEN ValidChoice(loc.buf) ELSE {TRUE} :
            Return(IF valid THEN Token(loc.id, lval.pos, loc.buf) ELSE Error, pos)

StringEof ==
  /\ InLiteral("string")
  /\ Peek = Eof
  /\ Return(Error, pos)

StringChar ==
  /\ InLiteral("string")
  /\ Peek \notin {Eof, loc.quote}
  /\ Peek = "\\" => ~loc.escapes
  /\ Go(pos + 1, loc)

EscapeAhead == InLiteral("string") /\ Peek = "\\" /\ loc.escapes

EscapedQuote ==
  /\ EscapeAhead
  /\ PeekN(1) = loc.quote
  /\ Go(pos + 2, [loc EXCEPT !.buf = Flushed, !.start = pos + 1])

OctDigit == Digit \ {"8", "9"}
SimpleEscape ==
  [a |-> "07", b |-> "08", f |-> "\f", n |-> "\n", r |-> "\r", t |-> "\t", v |-> "0b"]
HexEscape == [x |-> 2, X |-> 2, u |-> 4, U |-> 8]   \* how many digits follow

\* The n characters after the escape's letter.
EscapeDigits(n) == [i \in 1 .. n |-> PeekN(1 + i)]

\* The byte two hexadecimal digits stand for: lo and hi are the bytes below
\* and above 128 the model has no name for.
ByteOf(d) ==
  LET named == {b \in NamedByte : Tail(b) = ToLowerSeq(d)}
  IN  IF named # {} THEN (CHOOSE b \in named : TRUE)[1]
      ELSE IF d[1] \in OctDigit THEN "lo" ELSE "hi"

\* The bytes a code point stands for: rune is any other multi-byte sequence.
RuneOf(d) ==
  LET low == ToLowerSeq(SubSeq(d, Len(d) - 1, Len(d)))
  IN  IF \E i \in 1 .. Len(d) - 2 : d[i] # "0" THEN <<"rune">>
      ELSE CASE low = <<"c", "9">> -> <<Lead, "89">>
             [] low = <<"e", "9">> -> <<Lead, "a9">>
             [] low \notin {<<"c", "9">>, <<"e", "9">>} /\ low[1] \in OctDigit -> <<ByteOf(low)>>
             [] OTHER -> <<"rune">>

\* At most utf8.MaxRune, 0010ffff.
RuneInRange(d) ==
  \/ Len(d) = 4
  \/ d[1] = "0" /\ d[2] = "0" /\ (d[3] = "0" \/ (d[3] = "1" /\ d[4] = "0"))

\* strconv.UnquoteChar: the escape that starts at pos is n characters long
\* after its backslash and stands for bytes.
Unquotes(n, bytes) ==
  LET t == PeekN(1)
  IN  \/ t = "\\" /\ n = 1 /\ bytes = <<"\\">>
      \/ t \in DOMAIN SimpleEscape /\ n = 1 /\ bytes = <<SimpleEscape[t]>>
      \/ /\ t \in OctDigit /\ n = 3
         /\ {PeekN(2), PeekN(3)} \subseteq OctDigit
         /\ t \in {"0", "1", "2", "3"}
         /\ bytes = <<IF t \in {"0", "1"} THEN "lo" ELSE "hi">>
      \/ /\ t \in DOMAIN HexEscape /\ n = 1 + HexEscape[t]
         /\ \A i \in 1 .. HexEscape[t] : PeekN(1 + i) \in HexDigit
         /\ LET d == EscapeDigits(HexEscape[t])
            IN  IF Len(d) = 2 THEN bytes = <<ByteOf(d)>>
                              ELSE RuneInRange(d) /\ bytes = RuneOf(d)

EscapeLength == {1, 3, 5, 9}
EscapeValues ==
  {<<"\\">>, <<"lo">>, <<"hi">>, <<"rune">>, <<Lead, "89">>, <<Lead, "a9">>} \cup
  {<<SimpleEscape[t]>> : t \in DOMAIN SimpleEscape} \cup {<<b[1]>> : b \in NamedByte}

Escape ==
  /\ EscapeAhead
  /\ PeekN(1) \in DOMAIN SimpleEscape \cup DOMAIN HexEscape \cup OctDigit \cup {"\\"}
  /\ \/ \E n \in EscapeLength, bytes \in EscapeValues :
          /\ Unquotes(n, bytes)
          /\ Go(pos + 1 + n, [loc EXCEPT !.buf = Flushed \o bytes, !.start = pos + 1 + n])
     \/ /\ ~\E n \in EscapeLength, bytes \in EscapeValues : Unquotes(n, bytes)
        /\ Return(Error, pos + 1)

\* A redundant escape: the backslash is dropped.
DropBackslash ==
  /\ EscapeAhead
  /\ PeekN(1) \notin DOMAIN SimpleEscape \cup DOMAIN HexEscape \cup OctDigit \cup {"\\", loc.quote}
  /\ Go(pos + 1, [loc EXCEPT !.buf = Flushed, !.start = pos + 1])

\* Every second hexadecimal digit completes a byte.
HexStringDigit ==
  /\ InLiteral("hex")
  /\ Peek \in HexDigit
  /\ Go(pos + 1, IF loc.half = "" THEN [loc EXCEPT !.half = Peek]
                 ELSE [loc EXCEPT !.buf = Append(@, ByteOf(<<loc.half, Peek>>)), !.half = ""])

BitStringDigit ==
  /\ InLiteral("bit")
  /\ Peek \in {"0", "1"}
  /\ Go(pos + 1, [loc EXCEPT !.buf = Append(@, Peek)])

\* next() consumed the offending character, unless it was the end.
DigitStringError ==
  /\ pc = "literal"
  /\ \/ loc.kind = "hex" /\ Peek \notin HexDigit \cup {loc.quote}
     \/ loc.kind = "bit" /\ Peek \notin {"0", "1", loc.quote}
  /\ Return(Error, IF Peek = Eof THEN pos ELSE pos + 1)
-----------------------------------------------------------------------------
(* scanDollarQuotedString. *)

\* Mutant: the dollar that ends the tag may already start the end tag.
DollarTagMarks ==
  /\ pc = "dollar"
  /\ Peek = "$" /\ ~loc.found
  /\ Go(pos + 1, [loc EXCEPT !.found = TRUE, !.tag = Text(loc.start, pos),
                             !.possible = TRUE, !.index = 0])

DollarTag ==
  /\ pc = "dollar"
  /\ Peek = "$" /\ ~loc.found
  /\ Go(pos + 1, [loc EXCEPT !.found = TRUE, !.tag = Text(loc.start, pos)])

\* Mutant: a dollar that does not complete the end tag never starts one.
DollarMarkOnce ==
  /\ pc = "dollar"
  /\ Peek = "$" /\ loc.found
  /\ ~(loc.possible /\ loc.index = Len(loc.tag))
  /\ Go(pos + 1, [loc EXCEPT !.possible = ~loc.possible, !.index = 0])

\* This dollar may start the end tag.
DollarMark ==
  /\ pc = "dollar"
  /\ Peek = "$" /\ loc.found
  /\ ~(loc.possible /\ loc.index = Len(loc.tag))
  /\ Go(pos + 1, [loc EXCEPT !.possible = TRUE, !.index = 0])

DollarEnd ==
  /\ pc = "dollar"
  /\ Peek = "$" /\ loc.found
  /\ loc.possible /\ loc.index = Len(loc.tag)
  /\ LET body == Text(loc.start + Len(loc.tag) + 1, pos - Len(loc.tag) - 1)
     IN  \E valid \in ValidChoice(body) :
           Return(IF valid THEN Token("SCONST", lval.pos, body) ELSE Error, pos + 1)

\* Without a tag this is not a dollar-quoted string: back to after the dollar.
DollarEof ==
  /\ pc = "dollar"
  /\ Peek = Eof
  /\ IF loc.found THEN Return(Error, pos) ELSE Return(lval, loc.start)

\* A character no tag can have: the token is the dollar, the position stays.
DollarNoTag ==
  /\ pc = "dollar"
  /\ Peek \notin {Eof, "$"}
  /\ ~loc.found /\ ~IsIdentStart(Peek)
  /\ Return(lval, pos)

DollarChar ==
  /\ pc = "dollar"
  /\ Peek \notin {Eof, "$"}
  /\ loc.found \/ IsIdentStart(Peek)
  /\ LET matches == loc.index < Len(loc.tag) /\ Peek = loc.tag[loc.index + 1]
     IN  Go(pos + 1,
            CASE ~loc.possible           -> loc
              [] loc.possible /\ matches -> [loc EXCEPT !.index = @ + 1]
              [] OTHER                   -> [loc EXCEPT !.possible = FALSE, !.index = -1])
-----------------------------------------------------------------------------
(* The callers of scan.  toks is what the scanner handed out so far. *)

Taken == Append(toks, [id |-> lval.id, pos |-> lval.pos, str |-> lval.str, end |-> pos])

\* Mutant: the tokens so far are dropped.
AgainForgets ==
  /\ pc' = "scan"
  /\ toks' = SubSeq(Taken, Len(Taken), Len(Taken))
  /\ UNCHANGED <<client, in, pos, loc, lval, res>>

Again ==
  /\ pc' = "scan"
  /\ toks' = Taken
  /\ UNCHANGED <<client, in, pos, loc, lval, res>>

Finish(r) ==
  /\ pc' = "done"
  /\ res' = r
  /\ toks' = IF lval.id = EofId THEN toks ELSE Taken
  /\ UNCHANGED <<client, in, pos, loc, lval>>

Tokens ==
  /\ pc = "ret" /\ client = "Tokens"
  /\ CASE lval.id = "ERROR" -> Finish([ok |-> FALSE, val |-> 0])
       [] lval.id = EofId   -> Finish([ok |-> TRUE, val |-> Len(toks)])
       [] OTHER             -> Again

SplitFirstStatement ==
  /\ pc = "ret" /\ client = "Split"
  /\ CASE lval.id \in {EofId, "ERROR"} -> Finish([ok |-> FALSE, val |-> 0])
       [] lval.id = Semicolon          -> Finish([ok |-> TRUE, val |-> pos])
       [] OTHER                        -> Again

\* The previous token's id, or 0; an ERROR token does not stop it.
LastId == IF toks = <<>> THEN EofId ELSE toks[Len(toks)].id

\* Mutant: an ERROR token ends the scan.
LastStopsAtError ==
  /\ pc = "ret" /\ client = "Last"
  /\ IF lval.id \in {EofId, "ERROR"} THEN Finish([ok |-> LastId # EofId, val |-> Len(toks)])
                                     ELSE Again

LastLexicalToken ==
  /\ pc = "ret" /\ client = "Last"
  /\ IF lval.id = EofId THEN Finish([ok |-> LastId # EofId, val |-> Len(toks)])
                        ELSE Again

Next ==
  \/ Scan \/ Tokens \/ SplitFirstStatement \/ LastLexicalToken
  \/ SkipBlank \/ EnterBlockComment \/ EnterLineComment
  \/ CloseBlock \/ OpenBlock \/ BlockChar \/ BlockEof \/ LineChar
  \/ ScanEof \/ ScanOperator \/ ScanSingle
  \/ BeginNumber \/ BeginPlaceholder \/ BeginDollar
  \/ BeginQuoted \/ BeginPrefixed \/ BeginIdent
  \/ IdentChar \/ IdentEnd
  \/ NumberDigit \/ NumberX \/ NumberDot \/ NumberExponent \/ NumberEnd
  \/ PlaceholderDigit \/ PlaceholderEnd
  \/ DoubledQuote \/ CloseQuote \/ JointBlank \/ Join \/ LiteralEnd
  \/ StringEof \/ StringChar \/ EscapedQuote \/ Escape \/ DropBackslash
  \/ HexStringDigit \/ BitStringDigit \/ DigitStringError
  \/ DollarTag \/ DollarMark \/ DollarEnd \/ DollarEof \/ DollarNoTag \/ DollarChar

\* A call runs to its end: the scanner is one sequential function.
Spec == Init /\ [][Next]_vars /\ WF_vars(Next)
-----------------------------------------------------------------------------
LastEnd == IF toks = <<>> THEN 0 ELSE toks[Len(toks)].end

\* The characters a token may stand for: those of its text, and those scan writes
\* itself, in lower case or for an escape.
ScanWrites ==
  {"lo", "hi", "rune", "\\"} \cup Lower \cup HighByte
    \cup {SimpleEscape[t] : t \in DOMAIN SimpleEscape} \cup {b[1] : b \in NamedByte}
Byte == Char \cup ScanWrites
TokenId == Char \cup (NotCharacters \ {Eof}) \cup {EofId}
             \cup {OperatorId(op) : op \in DOMAIN Operator2} \cup DOMAIN Operator3

NumberLocs  == [start : Nat, isHex : BOOLEAN, hasDecimal : BOOLEAN, hasExponent : BOOLEAN]
LiteralLocs == [kind : {"string", "hex", "bit"}, id : {"IDENT", "SCONST", "BCONST", "BITCONST"},
                quote : {"'", "\""}, escapes : BOOLEAN, utf8 : BOOLEAN, start : Nat,
                buf : Seq(Byte), half : Char \cup {""}, newline : BOOLEAN]
DollarLocs  == [start : Nat, found : BOOLEAN, possible : BOOLEAN, index : Nat \cup {-1},
                tag : Seq(Char)]
TokenLoops  == {"ident", "number", "placeholder", "literal", "joint", "dollar"}

LocOK ==
  /\ pc = "block" => loc \in [start : Nat, depth : Nat \ {0}]
  /\ pc = "ident" => loc \in [start : Nat, isASCII : BOOLEAN, isLower : BOOLEAN]
  /\ pc = "number" => loc \in NumberLocs
  /\ pc = "placeholder" => loc \in [start : Nat]
  /\ pc \in {"literal", "joint"} => loc \in LiteralLocs
  /\ pc = "dollar" => loc \in DollarLocs

\* Go panics on a slice expression whose bounds are out of order or out of
\* range.  These are the bounds every slice of the input has when the loop
\* that takes it takes it: in[start:pos] of the five literal scanners, the tag
\* and the body of a dollar-quoted string, and startTag[startTagIndex].
SlicesInBounds ==
  /\ pc \in TokenLoops => loc.start <= pos
  /\ pc = "number" => loc.start < pos /\ loc.start < Len(in)
  /\ pc = "dollar" /\ loc.found => loc.start + Len(loc.tag) + 1 <= pos
  /\ pc = "dollar" /\ loc.possible =>
       /\ loc.index \in 0 .. Len(loc.tag)
       /\ loc.start + Len(loc.tag) + 1 <= pos - loc.index - 1

\* Types, and the order the scanner relies on: the position stays in the
\* input and past the tokens returned, and no slice it takes is out of bounds.
TypeOK ==
  /\ client \in AllClients
  /\ pos \in 0 .. Len(in)
  /\ pc \in {"scan", "ws", "block", "line", "ret", "done"} \cup TokenLoops
  /\ lval \in [id : TokenId, pos : Nat, str : Seq(Byte)]
  /\ toks \in Seq([id : TokenId, pos : Nat, str : Seq(Byte), end : Nat])
  /\ res \in [ok : BOOLEAN, val : Nat]
  /\ LocOK
  /\ SlicesInBounds

\* A single-character token covers its character and nothing else: the text
\* after it is scanned again as tokens of its own (scan.go 388).
SingleCharTokens ==
  \A i \in 1 .. Len(toks) :
    toks[i].id # "$" /\ toks[i].str = <<toks[i].id>> => toks[i].end = toks[i].pos + 1

\* End of input is only reported at the end of the input.
EofAtEnd == pc = "ret" /\ lval.id = EofId => pos = Len(in)

\* An identifier's name is the lower-case, normalised form of its text, when
\* its text is UTF-8 (scan.go 503-508).
IdentNormalized ==
  \A i \in 1 .. Len(toks) :
    toks[i].id = "IDENT" /\ in[toks[i].pos + 1] # "\"" /\ Valid(Text(toks[i].pos, toks[i].end)) =>
      toks[i].str = NormalizeName(Text(toks[i].pos, toks[i].end))

\* An unquoted word takes every character that can continue it, digits and
\* dollar signs included, so that no two tokens glue into one when they are
\* read again (scan.go 511-526).
WordsAreWhole ==
  \A i \in 1 .. Len(toks) :
    /\ toks[i].id \in {"IDENT", "KEYWORD"}
    /\ IsIdentStart(in[toks[i].pos + 1])
    /\ toks[i].end < Len(in)
    => ~IsIdentMiddle(in[toks[i].end + 1])

\* Where a token ends: a character that is a token of its own is one, a word
\* is as long as it can be, and the end is the end (scan.go 388, 511-526).
TokensEndRight == SingleCharTokens /\ WordsAreWhole /\ EofAtEnd

\* A reader of comment marks after one more character: how many comments are
\* open, and the character that may be the first of a mark.
Read(reader, ch) ==
  CASE reader.half = "/" /\ ch = "*" -> [depth |-> reader.depth + 1, half |-> ""]
    [] reader.half = "*" /\ ch = "/" -> [depth |-> reader.depth - 1, half |-> ""]
    [] OTHER -> [depth |-> reader.depth, half |-> ch]

\* The reader at each position of text s after a, where it started.
Readers(s, a) ==
  LET reader[n \in a .. Len(s)] ==
        IF n = a THEN [depth |-> 0, half |-> ""] ELSE Read(reader[n - 1], s[n])
  IN  reader

IsBlank(s, a, b) == b = a + 1 /\ s[b] \in Blank
IsBlockComment(s, a, b) ==
  /\ a + 2 < b /\ Readers(s, a)[b].depth = 0
  /\ \A n \in a + 2 .. b - 1 : Readers(s, a)[n].depth > 0
IsLineComment(s, a, b) ==
  /\ a + 2 <= b /\ s[a + 1] = "-" /\ s[a + 2] = "-"
  /\ \A n \in a + 3 .. b - 1 : s[n] # "\n"
  /\ b = Len(s) \/ s[b] = "\n"
IsSkipped(s, a, b) == IsBlank(s, a, b) \/ IsBlockComment(s, a, b) \/ IsLineComment(s, a, b)

\* The positions blanks and comments lead to from a, one after another.
Reached(s, a) ==
  LET reached[n \in a .. Len(s)] ==
        IF n = a THEN {a}
        ELSE LET before == reached[n - 1]
             IN  IF \E m \in before : IsSkipped(s, m, n) THEN before \cup {n} ELSE before
  IN  reached

\* From a to b there are only blanks and whole comments.
IsGap(s, a, b) == b \in Reached(s, a)[b]

\* The start of the gap before token i.
GapStart(i) == IF i = 1 THEN 0 ELSE toks[i - 1].end

\* Nothing is lost between tokens: what the scanner skips is white space and
\* complete comments, block comments nesting as deep as they like (scan.go
\* 415-495).
OnlyBlankSkipped ==
  pc = "done" =>
    /\ \A i \in 1 .. Len(toks) : IsGap(in, GapStart(i), toks[i].pos)
    /\ lval.id = EofId => IsGap(in, LastEnd, pos)

\* The tokens and the gaps between them are the input, cut where it should be.
TokensCutRight == OnlyBlankSkipped /\ TokensEndRight

\* A client stops where it should and its result is about the tokens it read:
\* Tokens fails on the first ERROR, SplitFirstStatement stops after the first
\* semicolon that is a token of its own, LastLexicalToken sees them all
\* (scan.go 963-1021).
ClientResults ==
  pc = "done" =>
    LET before == 1 .. Len(toks) - 1
        all    == 1 .. Len(toks)
    IN  /\ client = "Tokens" =>
             /\ \A i \in before : toks[i].id # "ERROR"
             /\ res.ok => pos = Len(in) /\ \A i \in all : toks[i].id # "ERROR"
             /\ ~res.ok => \E i \in all : toks[i].id = "ERROR"
        /\ client = "Split" =>
             /\ \A i \in before : toks[i].id \notin {"ERROR", Semicolon}
             /\ res.ok => in[res.val] = Semicolon /\ res.val = LastEnd
             /\ ~res.ok => \A i \in all : toks[i].id # Semicolon
        /\ client = "Last" => pos = Len(in)

\* Every call returns, whatever the input.
Returns == <>(pc = "done")

\* The scanner implements a token stream: the spans are those of toks, and the
\* stream is open until the client returns.
Stream == INSTANCE TokenStream WITH
  size  <- Len(in),
  at    <- LastEnd,
  spans <- [i \in 1 .. Len(toks) |-> [pos |-> toks[i].pos, end |-> toks[i].end]],
  open  <- pc # "done"

\* The refinement, as a property of the scanner.
CutsInput == Stream!Spec
=============================================================================
