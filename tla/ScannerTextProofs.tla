------------------------- MODULE ScannerTextProofs -------------------------
(***************************************************************************)
(* Proofs about the text the scanner reads, for every input: what each     *)
(* token is made of, and that between two tokens there is nothing but      *)
(* blanks and whole comments.                                              *)
(***************************************************************************)
EXTENDS ScannerProofs, Induction

(* What tokens are made of *)

\* What scan writes is no name of a token of several characters.
LEMMA ScanWritesBytes ==
  /\ Lower \subseteq Byte
  /\ {"fffd", "a9", "lo", "hi", "rune", Lead, "89", "\\"} \subseteq Byte
  /\ \A e \in DOMAIN SimpleEscape : SimpleEscape[e] \in Byte
  /\ \A b \in NamedByte : b[1] \in Byte
  /\ Char \subseteq Byte
BY DEF Byte, ScanWrites, HighByte, Trail

LEMMA BytesAreBytes == Byte \cap NotCharacters = {}
<1>1. Lower \cap NotCharacters = {}
  BY Letters DEF NotCharacters, Eof
<1>2. ({"lo", "hi", "rune", "\\"} \cup HighByte) \cap NotCharacters = {}
  BY DEF NotCharacters, Eof, HighByte, Trail, Lead
<1>3. \A e \in DOMAIN SimpleEscape : SimpleEscape[e] \notin NotCharacters
  BY DEF SimpleEscape, NotCharacters, Eof
<1>4. \A b \in NamedByte : b[1] \notin NotCharacters
  BY DEF NamedByte, NotCharacters, Eof, Nul
<1> QED
  BY <1>1, <1>2, <1>3, <1>4, ScannerAssumption DEF Byte, ScanWrites

\* The lower case of a character.
LEMMA LowerIsByte ==
  ASSUME NEW ch \in Byte
  PROVE  ToLower(ch) \in Byte
<1>1. CASE ch \in Upper
  <2> DEFINE i == CHOOSE i \in 1 .. 26 : UpperSeq[i] = ch
  <2>1. i \in 1 .. 26
    BY <1>1 DEF Upper
  <2>2. ToLower(ch) = LowerSeq[i]
    BY <1>1 DEF ToLower
  <2> HIDE DEF i
  <2>3. LowerSeq[i] \in Lower
    BY <2>1 DEF Lower
  <2> QED
    BY <2>2, <2>3, ScanWritesBytes
<1>2. CASE ch \notin Upper
  BY <1>2 DEF ToLower
<1> QED
  BY <1>1, <1>2

\* A function on 1 .. n is a sequence.
LEMMA FunctionIsSequence ==
  ASSUME NEW S, NEW n \in Nat, NEW f \in [1 .. n -> S]
  PROVE  f \in Seq(S)
BY SeqDef

\* The name a word is given is made of characters (scan.go 503-545).
LEMMA NameIsText ==
  ASSUME NEW s \in Seq(Byte)
  PROVE  ToLowerSeq(s) \in Seq(Byte) /\ NormalizeName(s) \in Seq(Byte) /\ IdentName(s) \in Seq(Byte)
<1>1. Len(s) \in Nat /\ \A i \in 1 .. Len(s) : s[i] \in Byte
  BY LenProperties, ElementOfSeq
<1>2. \A i \in 1 .. Len(s) : ToLower(s[i]) \in Byte
  BY <1>1, LowerIsByte
<1>3. ToLowerSeq(s) \in [1 .. Len(s) -> Byte]
  BY <1>2 DEF ToLowerSeq
<1>4. NormalizeName(s) \in [1 .. Len(s) -> Byte]
  <2>1. "fffd" \in Byte /\ "a9" \in Byte
    BY ScanWritesBytes
  <2> QED
    BY <1>2, <2>1 DEF NormalizeName
<1>5. ToLowerSeq(s) \in Seq(Byte) /\ NormalizeName(s) \in Seq(Byte)
  BY <1>1, <1>3, <1>4, FunctionIsSequence
<1> QED
  BY <1>5 DEF IdentName

\* A part of a text is a text.
LEMMA PartOfText ==
  ASSUME NEW s \in Seq(Byte), NEW a \in Nat, NEW b \in Nat, 1 <= a, b <= Len(s)
  PROVE  SubSeq(s, a, b) \in Seq(Byte)
<1>1. Len(s) \in Nat
  BY LenProperties
<1>2. \A i \in a .. b : s[i] \in Byte
  BY <1>1, ElementOfSeq
<1> QED
  BY <1>2, SubSeqProperties

\* The keyword a stripped name is.
LEMMA StrippedIsText ==
  ASSUME NEW name \in Seq(Byte), NEW kw \in Stripped(name)
  PROVE  kw \in Seq(Byte)
<1>1. PICK prefix \in ExpPrefix : HasPrefix(name, prefix) /\ kw = SubSeq(name, Len(prefix) + 1, Len(name))
  BY DEF Stripped
<1>2. Len(prefix) \in Nat /\ Len(name) \in Nat
  BY ScannerAssumption, LenProperties
<1>3. Len(prefix) + 1 \in Nat /\ 1 <= Len(prefix) + 1 /\ Len(name) <= Len(name)
  BY <1>2
<1> QED
  BY <1>1, <1>2, <1>3, PartOfText

\* A number loses its leading zeros, and keeps its last digit.
LEMMA TrimmedIsText ==
  ASSUME NEW s \in Seq(Byte), s # <<>>
  PROVE  TrimZeros(s) \in Seq(Byte)
<1> DEFINE keep == {i \in 1 .. Len(s) : i = Len(s) \/ s[i] # "0"}
           from == CHOOSE i \in keep : \A j \in keep : i <= j
<1>1. Len(s) \in Nat \ {0}
  BY EmptySeq
<1>2. keep \in SUBSET Nat /\ keep # {}
  BY <1>1
<1>3. from \in 1 .. Len(s)
  <2>1. \E i \in keep : \A j \in keep : i <= j
    <3> HIDE DEF keep
    <3> QED
      BY <1>2, LeastNumber
  <2> QED
    BY <2>1
<1>4. TrimZeros(s) = SubSeq(s, from, Len(s))
  BY DEF TrimZeros
<1> HIDE DEF from
<1> QED
  BY <1>1, <1>3, <1>4, PartOfText

\* Two hexadecimal digits are a byte.
LEMMA PairIsByte ==
  ASSUME NEW d
  PROVE  ByteOf(d) \in Byte
<1> DEFINE named == {b \in NamedByte : Tail(b) = ToLowerSeq(d)}
<1>1. CASE named # {}
  <2>1. (CHOOSE b \in named : TRUE) \in NamedByte
    BY <1>1
  <2>2. ByteOf(d) = (CHOOSE b \in named : TRUE)[1]
    BY <1>1 DEF ByteOf
  <2> QED
    BY <2>1, <2>2, ScanWritesBytes
<1>2. CASE named = {}
  <2>1. ByteOf(d) \in {"lo", "hi"}
    BY <1>2 DEF ByteOf
  <2> QED
    BY <2>1, ScanWritesBytes
<1> QED
  BY <1>1, <1>2

\* One or two characters are a text.
LEMMA ShortText ==
  ASSUME NEW a \in Byte, NEW b \in Byte
  PROVE  <<>> \in Seq(Byte) /\ <<a>> \in Seq(Byte) /\ <<a, b>> \in Seq(Byte)
OBVIOUS

\* An escape stands for characters.
LEMMA EscapeIsText == EscapeValues \subseteq Seq(Byte)
<1> SUFFICES ASSUME NEW v \in EscapeValues PROVE v \in Seq(Byte)
  OBVIOUS
<1>1. CASE v \in {<<"\\">>, <<"lo">>, <<"hi">>, <<"rune">>, <<Lead, "89">>, <<Lead, "a9">>}
  BY <1>1, ScanWritesBytes, ShortText
<1>2. CASE \E t \in DOMAIN SimpleEscape : v = <<SimpleEscape[t]>>
  BY <1>2, ScanWritesBytes, ShortText
<1>3. CASE \E b \in NamedByte : v = <<b[1]>>
  BY <1>3, ScanWritesBytes, ShortText
<1> QED
  BY <1>1, <1>2, <1>3 DEF EscapeValues
-----------------------------------------------------------------------------
TokenType == [id : TokenId, pos : Nat, str : Seq(Byte)]
TakenType == [id : TokenId, pos : Nat, str : Seq(Byte), end : Nat]

\* Types, but for those CursorInv gives.
TypesInv ==
  /\ client \in AllClients
  /\ lval \in TokenType
  /\ toks \in Seq(TakenType)
  /\ res \in [ok : BOOLEAN, val : Nat]
  /\ LocOK

\* A token that stands for the character it is called after covers it, and the end
\* covers nothing.
Alone(t, e) ==
  /\ t.id # "$" /\ t.str = <<t.id>> => e = t.pos + 1
  /\ t.id = EofId /\ NoNul => e = t.pos

\* The tokens handed out and the one on its way are made as they should be.
TextInv ==
  /\ TypesInv
  /\ SingleCharTokens
  /\ pc = "ret" => Alone(lval, pos)

\* A character seen ahead is one.
LEMMA PeekIsByte ==
  ASSUME CursorInv, NEW n \in Nat, PeekN(n) # Eof
  PROVE  PeekN(n) \in Char
<1>1. in \in Seq(Char) /\ Len(in) \in Nat /\ pos \in Nat /\ pos + n + 1 <= Len(in)
  BY CursorFacts, PeekBounds DEF CursorInv, InputInv
<1>2. PeekN(n) = in[pos + n + 1] /\ pos + n + 1 \in 1 .. Len(in)
  BY <1>1 DEF PeekN
<1> QED
  BY <1>1, <1>2, ElementOfSeq

\* The text of a span is made of characters.
LEMMA SpanIsText ==
  ASSUME CursorInv, NEW a \in Nat, NEW b \in Nat, a <= b, b <= Len(in)
  PROVE  /\ Text(a, b) \in Seq(Char) /\ Text(a, b) \in Seq(Byte)
         /\ a < b => Text(a, b) # <<>>
<1>1. in \in Seq(Char)
  BY DEF CursorInv, InputInv
<1>2. Text(a, b) \in Seq(Char) /\ Len(Text(a, b)) = b - a
  BY <1>1, TextIs
<1>3. Text(a, b) \in Seq(Byte)
  BY <1>2, ScanWritesBytes, SeqMonotonic
<1> QED
  BY <1>2, <1>3, EmptySeq

\* The names of the tokens of several characters are token identifiers.
LEMMA TokenIds ==
  /\ Char \subseteq TokenId
  /\ {"ERROR", "IDENT", "KEYWORD", "ICONST", "FCONST", "PLACEHOLDER", "SCONST", "BCONST", "BITCONST",
      EofId} \subseteq TokenId
  /\ \A op \in DOMAIN Operator2 : OperatorId(op) \in TokenId
  /\ \A op \in DOMAIN Operator3 : op \in TokenId
<1>1. {"ERROR", "IDENT", "KEYWORD", "ICONST", "FCONST", "PLACEHOLDER", "SCONST", "BCONST", "BITCONST"}
        \subseteq NotCharacters \ {Eof}
  BY DEF NotCharacters, Eof
<1> QED
  BY <1>1, Zenon DEF TokenId

\* None of them is the text of its token, or the end.
LEMMA NamesAreNoText ==
  ASSUME NEW id \in NotCharacters, NEW str \in Seq(Byte)
  PROVE  str # <<id>> /\ id # EofId
<1>0. id # EofId
  BY DEF NotCharacters, Eof, EofId, Nul
<1> SUFFICES ASSUME str = <<id>> PROVE FALSE
  BY <1>0
<1>1. Len(str) = 1 /\ str[1] = id
  OBVIOUS
<1>2. str[1] \in Byte
  BY <1>1, ElementOfSeq
<1> QED
  BY <1>1, <1>2, BytesAreBytes

\* An operator is called otherwise than its first character.
LEMMA OperatorsStart ==
  /\ \A op \in DOMAIN Operator2 : Operator2[op][1] # Eof /\ OperatorId(op) # Operator2[op][1]
  /\ \A op \in DOMAIN Operator3 : Operator3[op][1] # Eof /\ op # Operator3[op][1]
  /\ \A op \in DOMAIN Operator2 : OperatorId(op) # EofId
  /\ \A op \in DOMAIN Operator3 : op # EofId
<1>1. \A op \in DOMAIN Operator2 : Operator2[op][1] # Eof /\ OperatorId(op) # Operator2[op][1]
  BY DEF Operator2, OperatorId, Eof
<1>2. \A op \in DOMAIN Operator3 : Operator3[op][1] # Eof /\ op # Operator3[op][1]
  BY DEF Operator3, Eof
<1>3. /\ \A op \in DOMAIN Operator2 : OperatorId(op) # EofId
      /\ \A op \in DOMAIN Operator3 : op # EofId
  BY Unmarked DEF Marked
<1> QED
  BY <1>1, <1>2, <1>3

\* Returning a token made as it should be keeps the invariant.
LEMMA ReturnText ==
  ASSUME TextInv, NEW t \in TokenType, NEW p, Return(t, p), Alone(t, p)
  PROVE  TextInv'
<1>1. /\ client' = client /\ toks' = toks /\ res' = res /\ lval' = t /\ pos' = p /\ pc' = "ret"
  BY DEF Return
<1>2. TypesInv'
  BY <1>1 DEF TextInv, TypesInv, LocOK
<1>3. SingleCharTokens'
  BY <1>1 DEF TextInv, SingleCharTokens
<1>4. Alone(lval, pos)'
  <2>1. in' = in
    BY DEF Return
  <2> QED
    BY <1>1, <2>1 DEF Alone, NoNul
<1> QED
  BY <1>1, <1>2, <1>3, <1>4 DEF TextInv

\* So does one of the tokens of several characters, whatever its text.
LEMMA ReturnNamed ==
  ASSUME CursorInv, TextInv, NEW id \in NotCharacters \cap TokenId, NEW q \in Nat, NEW str \in Seq(Byte), NEW p,
         Return(Token(id, q, str), p)
  PROVE  TextInv'
<1>1. Token(id, q, str) \in TokenType /\ Token(id, q, str).id = id /\ Token(id, q, str).str = str
  BY DEF Token, TokenType
<1>2. str # <<id>> /\ id # EofId
  BY NamesAreNoText
<1>3. Alone(Token(id, q, str), p)
  BY <1>1, <1>2 DEF Alone
<1> QED
  BY <1>1, <1>3, ReturnText

\* So does an error.
LEMMA ReturnError ==
  ASSUME CursorInv, TextInv, NEW p, Return(Error, p)
  PROVE  TextInv'
<1>1. lval \in TokenType /\ <<>> \in Seq(Byte)
  BY EmptySeq DEF TextInv, TypesInv
<1>2. "ERROR" \in TokenId
  BY TokenIds
<1>3. Error \in TokenType /\ Error.str = <<>> /\ Error.id = "ERROR"
  BY <1>1, <1>2 DEF Error, TokenType
<1>4. <<>> # <<"ERROR">> /\ "ERROR" # EofId
  BY <1>1, NamesAreNoText DEF NotCharacters
<1>5. Alone(Error, p)
  BY <1>3, <1>4 DEF Alone
<1> QED
  BY <1>3, <1>5, ReturnText

\* So does a step of a loop that keeps the types of its locals.
LEMMA StayText ==
  ASSUME TextInv, client' = client, toks' = toks, res' = res, lval' \in TokenType, pc' # "ret", LocOK'
  PROVE  TextInv'
<1>1. TypesInv'
  BY DEF TextInv, TypesInv
<1>2. SingleCharTokens'
  BY DEF TextInv, SingleCharTokens
<1> QED
  BY <1>1, <1>2 DEF TextInv

\* Blanks and comments (scan.go 415-495).
LEMMA BlankText ==
  ASSUME CursorInv, TextInv,
         Scan \/ SkipBlank \/ EnterBlockComment \/ EnterLineComment \/ CloseBlock \/ OpenBlock
           \/ BlockChar \/ LineChar
  PROVE  TextInv'
<1>1. /\ pos \in Nat /\ <<>> \in Seq(Byte) /\ EofId \in TokenId /\ lval \in TokenType
      /\ pc = "block" => loc \in [start : Nat, depth : Nat \ {0}]
  BY CursorFacts, TokenIds, EmptySeq DEF TextInv, TypesInv, LocOK
<1>2. ASSUME client' = client, toks' = toks, res' = res, lval' \in TokenType,
             pc' \in {"scan", "ws", "line"} \/ (pc' = "block" /\ loc' \in [start : Nat, depth : Nat \ {0}])
      PROVE  TextInv'
  <2>1. LocOK' /\ pc' # "ret"
    BY <1>2 DEF LocOK
  <2> QED
    BY <1>2, <2>1, StayText
<1>3. CASE Scan
  <2>1. lval' \in TokenType
    BY <1>1, <1>3 DEF Scan, Token, TokenType
  <2> QED
    BY <1>2, <1>3, <2>1 DEF Scan
<1>4. CASE SkipBlank
  BY <1>1, <1>2, <1>4 DEF SkipBlank, Go
<1>5. CASE EnterBlockComment
  BY <1>1, <1>2, <1>5 DEF EnterBlockComment, Enter
<1>6. CASE EnterLineComment
  BY <1>1, <1>2, <1>6 DEF EnterLineComment, Enter
<1>7. CASE CloseBlock
  <2>1. CASE loc.depth = 1
    BY <1>1, <1>2, <1>7, <2>1 DEF CloseBlock, Enter
  <2>2. CASE loc.depth # 1
    <3>1. loc.depth - 1 \in Nat \ {0}
      BY <1>1, <1>7, <2>2 DEF CloseBlock
    <3> QED
      BY <1>1, <1>2, <1>7, <2>2, <3>1 DEF CloseBlock, Go
  <2> QED
    BY <2>1, <2>2
<1>8. CASE OpenBlock
  <2>1. loc.depth + 1 \in Nat \ {0}
    BY <1>1, <1>8 DEF OpenBlock
  <2> QED
    BY <1>1, <1>2, <1>8, <2>1 DEF OpenBlock, Go
<1>9. CASE BlockChar
  BY <1>1, <1>2, <1>9 DEF BlockChar, Go
<1>10. CASE LineChar
  <2>1. CASE Peek = Eof
    BY <1>1, <1>2, <1>10, <2>1 DEF LineChar, Enter, Eof
  <2>2. CASE Peek = "\n"
    BY <1>1, <1>2, <1>10, <2>2 DEF LineChar, Enter, Eof
  <2>3. CASE Peek # Eof /\ Peek # "\n"
    BY <1>1, <1>2, <1>10, <2>3 DEF LineChar, Go
  <2> QED
    BY <2>1, <2>2, <2>3
<1> QED
  BY <1>3, <1>4, <1>5, <1>6, <1>7, <1>8, <1>9, <1>10

\* The tokens that need no loop (scan.go 101-105, 189-390, 471-475).
LEMMA FoundText ==
  ASSUME CursorInv, TextInv, BlockEof \/ ScanEof \/ ScanOperator \/ ScanSingle
  PROVE  TextInv'
<1>1. /\ pos \in Nat /\ <<>> \in Seq(Byte)
      /\ Peek # Eof => Peek \in Char /\ Peek \in Byte /\ <<Peek>> \in Seq(Byte)
  <2>1. Peek # Eof => Peek \in Char
    BY PeekIsByte DEF Peek
  <2>2. Peek # Eof => Peek \in Byte
    BY <2>1, ScanWritesBytes
  <2> QED
    BY <2>1, <2>2, CursorFacts, EmptySeq, ShortText
<1>2. CASE BlockEof
  <2>1. loc.start \in Nat
    BY <1>2 DEF BlockEof, TextInv, TypesInv, LocOK
  <2>2. "ERROR" \in NotCharacters \cap TokenId
    BY TokenIds DEF NotCharacters
  <2> QED
    BY <1>1, <1>2, <2>1, <2>2, ReturnNamed DEF BlockEof
<1>3. CASE ScanEof
  <2> DEFINE t == Token(EofId, pos, <<>>)
  <2>1. t \in TokenType /\ t.str = <<>> /\ t.id = EofId
    BY <1>1, TokenIds DEF Token, TokenType
  <2>2. Alone(t, pos)
    <3>1. <<>> # <<EofId>> /\ t.pos = pos
      BY DEF Token
    <3> HIDE DEF t
    <3>2. t.str # <<t.id>>
      BY <2>1, <3>1
    <3> QED
      BY <3>1, <3>2, Zenon DEF Alone
  <2> HIDE DEF t
  <2>3. Return(t, pos)
    BY <1>3 DEF ScanEof, t
  <2> QED
    BY <2>1, <2>2, <2>3, ReturnText
<1>4. ASSUME NEW id \in TokenId, id # Peek, id # EofId, Peek # Eof, NEW p, Return(Token(id, pos, <<Peek>>), p)
      PROVE  TextInv'
  <2> DEFINE t == Token(id, pos, <<Peek>>)
  <2>1. t \in TokenType /\ t.str = <<Peek>> /\ t.id = id
    BY <1>1, <1>4 DEF Token, TokenType
  <2>2. Alone(t, p)
    <3>1. <<Peek>> # <<id>>
      BY <1>4
    <3> HIDE DEF t
    <3>2. t.str # <<t.id>> /\ t.id # EofId
      BY <1>4, <2>1, <3>1
    <3> QED
      BY <3>2, Zenon DEF Alone
  <2> HIDE DEF t
  <2>3. Return(t, p)
    BY <1>4 DEF t
  <2> QED
    BY <2>1, <2>2, <2>3, ReturnText
<1>5. CASE ScanOperator
  <2>1. CASE \E op \in DOMAIN Operator3 :
               Operator3[op] = Ahead3 /\ Return(Token(op, pos, <<Peek>>), pos + 3)
    <3>1. PICK op \in DOMAIN Operator3 :
            Operator3[op] = Ahead3 /\ Return(Token(op, pos, <<Peek>>), pos + 3)
      BY <2>1
    <3>2. Peek = Operator3[op][1]
      BY <3>1 DEF Ahead3
    <3> QED
      BY <1>4, <3>1, <3>2, OperatorsStart, TokenIds
  <2>2. CASE \E op \in DOMAIN Operator2 :
               Operator2[op] = Ahead2 /\ Return(Token(OperatorId(op), pos, <<Peek>>), pos + 2)
    <3>1. PICK op \in DOMAIN Operator2 :
            Operator2[op] = Ahead2 /\ Return(Token(OperatorId(op), pos, <<Peek>>), pos + 2)
      BY <2>2
    <3>2. Peek = Operator2[op][1]
      BY <3>1 DEF Ahead2
    <3> QED
      BY <1>4, <3>1, <3>2, OperatorsStart, TokenIds
  <2> QED
    BY <1>5, <2>1, <2>2, Zenon DEF ScanOperator
<1>6. CASE ScanSingle
  <2> DEFINE t == Token(Peek, pos, <<Peek>>)
  <2>1. Peek # Eof /\ Return(t, pos + 1)
    BY <1>6, Zenon DEF ScanSingle, Here
  <2>2. t \in TokenType /\ t.pos = pos
    BY <1>1, <2>1, TokenIds DEF Token, TokenType
  <2>3. NoNul => Peek # EofId
    <3>1. Peek = in[pos + 1] /\ pos + 1 \in 1 .. Len(in)
      BY <2>1, CursorFacts DEF Peek, PeekN
    <3> QED
      BY <3>1 DEF NoNul, EofId
  <2>4. Alone(t, pos + 1)
    <3>1. t.id = Peek
      BY DEF Token
    <3> QED
      BY <2>2, <2>3, <3>1 DEF Alone
  <2> HIDE DEF t
  <2> QED
    BY <2>1, <2>2, <2>4, ReturnText
<1> QED
  BY <1>2, <1>3, <1>5, <1>6

\* The locals of the literal scanners, when one or two of them change.
LEMMA LiteralLocals ==
  ASSUME NEW l \in LiteralLocs, NEW b \in Seq(Byte), NEW s \in Nat, NEW h \in Char \cup {""},
         NEW n \in BOOLEAN
  PROVE  /\ [l EXCEPT !.buf = b, !.start = s] \in LiteralLocs
         /\ [l EXCEPT !.buf = b, !.newline = n] \in LiteralLocs
         /\ [l EXCEPT !.newline = n] \in LiteralLocs
         /\ [l EXCEPT !.start = s] \in LiteralLocs
         /\ [l EXCEPT !.half = h] \in LiteralLocs
         /\ [l EXCEPT !.buf = b, !.half = h] \in LiteralLocs
         /\ [l EXCEPT !.buf = b] \in LiteralLocs
BY DEF LiteralLocs

\* The first character of a loop (scan.go 112-187, 377-381, 497-503, 886-895).
LEMMA BeginText ==
  ASSUME CursorInv, TextInv,
         BeginNumber \/ BeginPlaceholder \/ BeginDollar \/ BeginQuoted \/ BeginPrefixed \/ BeginIdent
  PROVE  TextInv'
<1>1. /\ pos \in Nat
      /\ Peek # Eof => Here \in TokenType
  <2>1. Peek # Eof => Peek \in Char
    BY PeekIsByte DEF Peek
  <2>2. Peek # Eof => Peek \in Byte
    BY <2>1, ScanWritesBytes
  <2> QED
    BY <2>1, <2>2, CursorFacts, ShortText, TokenIds DEF Here, Token, TokenType
<1>2. ASSUME NEW to \in TokenLoops, NEW p, NEW l, Begin(to, p, l), Peek # Eof, LocOK'
      PROVE  TextInv'
  <2>1. client' = client /\ toks' = toks /\ res' = res /\ lval' = Here /\ pc' = to
    BY <1>2 DEF Begin
  <2>2. pc' # "ret"
    BY <2>1 DEF TokenLoops
  <2> QED
    BY <1>1, <1>2, <2>1, <2>2, StayText
<1>3. CASE BeginNumber
  <2>1. Begin("number", pos + 1, NumberLoc(Peek = ".")) /\ Peek # Eof
    BY <1>3, EofIsNoByte DEF BeginNumber, Eof
  <2>2. NumberLoc(Peek = ".") \in NumberLocs
    BY <1>1 DEF NumberLoc, NumberLocs
  <2>3. LocOK'
    BY <2>1, <2>2 DEF Begin, LocOK
  <2> QED
    BY <1>2, <2>1, <2>3 DEF TokenLoops
<1>4. CASE BeginPlaceholder
  <2>1. Begin("placeholder", pos + 1, [start |-> pos + 1]) /\ Peek # Eof
    BY <1>4 DEF BeginPlaceholder, Eof
  <2>2. LocOK'
    BY <1>1, <2>1 DEF Begin, LocOK
  <2> QED
    BY <1>2, <2>1, <2>2 DEF TokenLoops
<1>5. CASE BeginDollar
  <2> DEFINE l == [start |-> pos + 1, found |-> FALSE, possible |-> FALSE, index |-> -1, tag |-> <<>>]
  <2>1. Begin("dollar", pos + 1, l) /\ Peek # Eof
    BY <1>5 DEF BeginDollar, Eof
  <2>2. l \in DollarLocs
    BY <1>1, EmptySeq DEF DollarLocs
  <2> HIDE DEF l
  <2>3. LocOK'
    BY <2>1, <2>2 DEF Begin, LocOK
  <2> QED
    BY <1>2, <2>1, <2>3 DEF TokenLoops
<1>6. ASSUME NEW kind \in {"string", "hex", "bit"}, NEW id \in {"IDENT", "SCONST", "BCONST", "BITCONST"},
             NEW quote \in {"'", "\""}, NEW escapes \in BOOLEAN, NEW utf8 \in BOOLEAN, NEW p \in Nat,
             Begin("literal", p, LiteralLoc(kind, id, quote, escapes, utf8, p)), Peek # Eof
      PROVE  TextInv'
  <2> DEFINE l == LiteralLoc(kind, id, quote, escapes, utf8, p)
  <2>1. l \in LiteralLocs
    BY <1>6, EmptySeq DEF LiteralLoc, LiteralLocs
  <2> HIDE DEF l
  <2>2. Begin("literal", p, l)
    BY <1>6 DEF l
  <2>3. LocOK'
    BY <2>1, <2>2 DEF Begin, LocOK
  <2> QED
    BY <1>2, <1>6, <2>2, <2>3 DEF TokenLoops
<1>7. CASE BeginQuoted
  <2>1. Peek # Eof
    BY <1>7, Quotes, Zenon DEF BeginQuoted
  <2>2. pos + 1 \in Nat
    BY <1>1
  <2> QED
    BY <1>6, <1>7, <2>1, <2>2, Zenon DEF BeginQuoted
<1>8. CASE BeginPrefixed
  <2> DEFINE kind == CASE Peek = "B" -> "bit" [] Peek \in {"x", "X"} -> "hex" [] OTHER -> "string"
  <2>1. Peek \in DOMAIN LiteralPrefix
    BY <1>8 DEF BeginPrefixed
  <2>2. Peek # Eof /\ LiteralPrefix[Peek] \in {"IDENT", "SCONST", "BCONST", "BITCONST"}
    BY <2>1 DEF LiteralPrefix, Eof
  <2>3. kind \in {"string", "hex", "bit"}
    <3>1. CASE Peek = "B"
      BY <3>1
    <3>2. CASE Peek # "B" /\ Peek \in {"x", "X"}
      BY <3>2
    <3>3. CASE Peek # "B" /\ Peek \notin {"x", "X"}
      BY <3>3
    <3> QED
      BY <3>1, <3>2, <3>3
  <2>4. pos + 2 \in Nat /\ (kind = "string") \in BOOLEAN /\ (Peek \in {"e", "E"}) \in BOOLEAN
    BY <1>1
  <2>5. Begin("literal", pos + 2, LiteralLoc(kind, LiteralPrefix[Peek], "'", kind = "string",
                                             Peek \in {"e", "E"}, pos + 2))
    BY <1>8, Zenon DEF BeginPrefixed
  <2> DEFINE id == LiteralPrefix[Peek]
             utf8 == kind = "string"
             escapes == Peek \in {"e", "E"}
             q == pos + 2
  <2>6. Begin("literal", q, LiteralLoc(kind, id, "'", utf8, escapes, q))
    BY <2>5
  <2>7. id \in {"IDENT", "SCONST", "BCONST", "BITCONST"} /\ q \in Nat
    BY <2>2, <2>4
  <2>8. utf8 \in BOOLEAN /\ escapes \in BOOLEAN /\ "'" \in {"'", "\""}
    BY <2>4
  <2> HIDE DEF kind, id, utf8, escapes, q
  <2> QED
    BY <1>6, <2>2, <2>3, <2>6, <2>7, <2>8
<1>9. CASE BeginIdent
  <2> DEFINE l == [start |-> pos, isASCII |-> TRUE, isLower |-> TRUE]
  <2>1. Begin("ident", pos, l) /\ Peek # Eof
    BY <1>9, EofIsNoByte DEF BeginIdent, IsIdentMiddle
  <2>2. LocOK'
    BY <1>1, <2>1 DEF Begin, LocOK
  <2> QED
    BY <1>2, <2>1, <2>2 DEF TokenLoops
<1> QED
  BY <1>3, <1>4, <1>5, <1>7, <1>8, <1>9

\* Identifiers and keywords (scan.go 497-577).
LEMMA WordText ==
  ASSUME CursorInv, TextInv, IdentChar \/ IdentEnd
  PROVE  TextInv'
<1>1. pc = "ident" /\ loc \in [start : Nat, isASCII : BOOLEAN, isLower : BOOLEAN]
  BY DEF TextInv, TypesInv, LocOK, IdentChar, IdentEnd
<1>2. CASE IdentChar
  <2> DEFINE a == loc.isASCII /\ Peek \notin HighByte
             b == loc.isLower /\ Peek \notin Upper
  <2>1. Go(pos + 1, [loc EXCEPT !.isASCII = a, !.isLower = b])
    BY <1>2, Zenon DEF IdentChar
  <2>2. a \in BOOLEAN /\ b \in BOOLEAN
    OBVIOUS
  <2> HIDE DEF a, b
  <2>3. /\ client' = client /\ toks' = toks /\ res' = res /\ lval' = lval /\ pc' = "ident"
        /\ loc' \in [start : Nat, isASCII : BOOLEAN, isLower : BOOLEAN]
    BY <1>1, <2>1, <2>2 DEF Go
  <2>4. LocOK' /\ lval' \in TokenType
    BY <2>3 DEF LocOK, TextInv, TypesInv
  <2> QED
    BY <2>3, <2>4, StayText
<1>3. CASE IdentEnd
  <2> DEFINE name == IdentName(Text(loc.start, pos))
  <2>1. /\ loc.start \in Nat /\ pos \in Nat /\ lval.pos \in Nat /\ loc.start <= pos /\ pos <= Len(in)
    BY <1>1, CursorFacts DEF CursorInv, LoopInv, TokenLoops
  <2>2. name \in Seq(Byte)
    BY <2>1, SpanIsText, NameIsText
  <2>3. \/ \E kw \in Stripped(name) : Return(Token("KEYWORD", lval.pos, kw), pos)
        \/ Return(Token(KeywordId(name), lval.pos, name), pos)
    <3>1. CASE Stripped(name) # {}
      <4>1. Return(Token("KEYWORD", lval.pos, CHOOSE kw \in Stripped(name) : TRUE), pos)
        BY <1>3, <3>1, Zenon DEF IdentEnd
      <4>2. (CHOOSE kw \in Stripped(name) : TRUE) \in Stripped(name)
        BY <3>1
      <4> QED
        BY <4>1, <4>2
    <3>2. CASE Stripped(name) = {}
      BY <1>3, <3>2, Zenon DEF IdentEnd
    <3> QED
      BY <3>1, <3>2
  <2> HIDE DEF name
  <2>4. {"IDENT", "KEYWORD"} \subseteq NotCharacters \cap TokenId
    BY TokenIds DEF NotCharacters
  <2>5. KeywordId(name) \in {"IDENT", "KEYWORD"}
    BY DEF KeywordId
  <2>6. CASE \E kw \in Stripped(name) : Return(Token("KEYWORD", lval.pos, kw), pos)
    <3>1. PICK kw \in Stripped(name) : Return(Token("KEYWORD", lval.pos, kw), pos)
      BY <2>6
    <3>2. kw \in Seq(Byte)
      BY <2>2, StrippedIsText
    <3> QED
      BY <2>1, <2>4, <3>1, <3>2, ReturnNamed
  <2>7. CASE Return(Token(KeywordId(name), lval.pos, name), pos)
    BY <2>1, <2>2, <2>4, <2>5, <2>7, ReturnNamed
  <2> QED
    BY <2>3, <2>6, <2>7
<1> QED
  BY <1>2, <1>3

\* Numbers and placeholders (scan.go 579-692).
LEMMA NumberText ==
  ASSUME CursorInv, TextInv,
         NumberDigit \/ NumberX \/ NumberDot \/ NumberExponent \/ NumberEnd
           \/ PlaceholderDigit \/ PlaceholderEnd
  PROVE  TextInv'
<1>1. pc \in {"number", "placeholder"}
  BY Zenon DEF NumberDigit, NumberX, NumberDot, NumberExponent, NumberEnd, PlaceholderDigit,
               PlaceholderEnd
<1>2. /\ lval \in TokenType
      /\ pc = "number" => loc \in NumberLocs
      /\ pc = "placeholder" => loc \in [start : Nat]
  BY DEF TextInv, TypesInv, LocOK
<1>3. ASSUME NEW p, NEW l, Go(p, l),
             pc = "number" => l \in NumberLocs, pc = "placeholder" => l \in [start : Nat]
      PROVE  TextInv'
  <2>1. /\ client' = client /\ toks' = toks /\ res' = res /\ lval' = lval /\ pc' = pc /\ loc' = l
    BY <1>3 DEF Go
  <2>2. LocOK' /\ pc' # "ret"
    BY <1>1, <1>3, <2>1 DEF LocOK
  <2> QED
    BY <1>2, <2>1, <2>2, StayText
<1>4. ASSUME NEW id \in {"FCONST", "ICONST", "PLACEHOLDER"}, NEW str \in Seq(Byte), NEW p,
             Return(Token(id, lval.pos, str), p)
      PROVE  TextInv'
  <2>1. id \in NotCharacters \cap TokenId
    BY TokenIds DEF NotCharacters
  <2> QED
    BY <1>4, <2>1, CursorFacts, ReturnNamed
<1>5. Text(loc.start, pos) \in Seq(Byte) /\ (pc = "number" => Text(loc.start, pos) # <<>>)
  <2>1. /\ loc.start \in Nat /\ pos \in Nat /\ loc.start <= pos /\ pos <= Len(in) /\ lval.pos < pos
    BY <1>1, LoopFacts
  <2>2. pc = "number" => loc.start < pos
    BY <2>1 DEF CursorInv, LoopInv
  <2> QED
    BY <2>1, <2>2, SpanIsText
<1>6. NumberDigit \/ PlaceholderDigit => TextInv'
  BY <1>2, <1>3, Zenon DEF NumberDigit, PlaceholderDigit
<1>7. CASE NumberX
  <2>1. pc = "number" /\ [loc EXCEPT !.isHex = TRUE] \in NumberLocs
    BY <1>2, <1>7 DEF NumberX, NumberLocs
  <2>2. pc # "placeholder"
    BY <2>1
  <2> QED
    BY <1>3, <1>7, <2>1, <2>2, ReturnError, Zenon DEF NumberX
<1>8. CASE NumberDot
  <2>1. pc = "number" /\ [loc EXCEPT !.hasDecimal = TRUE] \in NumberLocs
    BY <1>2, <1>8 DEF NumberDot, NumberLocs
  <2>2. pc # "placeholder"
    BY <2>1
  <2> QED
    BY <1>3, <1>8, <2>1, <2>2, Zenon DEF NumberDot
<1>9. CASE NumberExponent
  <2>1. pc = "number" /\ [loc EXCEPT !.hasExponent = TRUE] \in NumberLocs
    BY <1>2, <1>9 DEF NumberExponent, NumberLocs
  <2>2. pc # "placeholder"
    BY <2>1
  <2> QED
    BY <1>3, <1>9, <2>1, <2>2, ReturnError, Zenon DEF NumberExponent
<1>10. CASE PlaceholderEnd
  <2> DEFINE text == Text(loc.start, pos)
  <2>1. Return(Error, pos) \/ Return(Token("PLACEHOLDER", lval.pos, text), pos)
    BY <1>10, Zenon DEF PlaceholderEnd
  <2> QED
    BY <1>4, <1>5, <2>1, ReturnError
<1>11. CASE NumberEnd
  <2> DEFINE text == Text(loc.start, pos)
  <2>1. \/ Return(Error, pos)
        \/ Return(Token("FCONST", lval.pos, text), pos)
        \/ Return(Token("ICONST", lval.pos, text), pos)
        \/ Return(Token("ICONST", lval.pos, TrimZeros(text)), pos)
    <3>1. CASE loc.hasDecimal \/ loc.hasExponent
      BY <1>11, <3>1, Zenon DEF NumberEnd
    <3>2. CASE ~(loc.hasDecimal \/ loc.hasExponent) /\ loc.isHex
      BY <1>11, <3>2, Zenon DEF NumberEnd
    <3>3. CASE ~(loc.hasDecimal \/ loc.hasExponent) /\ ~loc.isHex
      BY <1>11, <3>3, Zenon DEF NumberEnd
    <3> QED
      BY <3>1, <3>2, <3>3, Zenon
  <2>2. pc = "number"
    BY <1>11 DEF NumberEnd
  <2>3. text \in Seq(Byte) /\ TrimZeros(text) \in Seq(Byte)
    BY <1>5, <2>2, TrimmedIsText
  <2> HIDE DEF text
  <2> QED
    BY <1>4, <2>1, <2>3, ReturnError
<1> QED
  BY <1>6, <1>7, <1>8, <1>9, <1>10, <1>11

\* Quoted literals (scan.go 694-884).
LEMMA LiteralText ==
  ASSUME CursorInv, TextInv,
         DoubledQuote \/ CloseQuote \/ JointBlank \/ Join \/ LiteralEnd \/ StringEof \/ StringChar
           \/ EscapedQuote \/ Escape \/ DropBackslash \/ HexStringDigit \/ BitStringDigit
           \/ DigitStringError
  PROVE  TextInv'
<1>1. pc \in {"literal", "joint"}
  BY Zenon DEF DoubledQuote, CloseQuote, JointBlank, Join, LiteralEnd, StringEof, StringChar,
               EscapedQuote, Escape, DropBackslash, HexStringDigit, BitStringDigit,
               DigitStringError, EscapeAhead, InLiteral
<1>2. /\ lval \in TokenType /\ loc \in LiteralLocs
      /\ loc.buf \in Seq(Byte) /\ loc.half \in Char \cup {""} /\ loc.newline \in BOOLEAN
  BY <1>1 DEF TextInv, TypesInv, LocOK, LiteralLocs
<1>3. /\ pos \in Nat /\ Flushed \in Seq(Byte)
      /\ Peek # Eof => Peek \in Char /\ Peek \in Byte
  <2>1. loc.start \in Nat /\ pos \in Nat /\ loc.start <= pos /\ pos <= Len(in)
    BY <1>1, LoopFacts
  <2>2. Text(loc.start, pos) \in Seq(Byte)
    BY <2>1, SpanIsText
  <2>3. Flushed \in Seq(Byte)
    BY <1>2, <2>2, ConcatProperties DEF Flushed
  <2>4. Peek # Eof => Peek \in Char
    BY PeekIsByte DEF Peek
  <2> QED
    BY <2>1, <2>3, <2>4, ScanWritesBytes
<1>4. ASSUME NEW l \in LiteralLocs, NEW p, Go(p, l) \/ Enter("literal", p, l) \/ Enter("joint", p, l)
      PROVE  TextInv'
  <2>1. /\ client' = client /\ toks' = toks /\ res' = res /\ lval' = lval /\ loc' = l
        /\ pc' \in {"literal", "joint"}
    BY <1>1, <1>4 DEF Go, Enter
  <2>2. LocOK' /\ pc' # "ret"
    BY <2>1 DEF LocOK
  <2> QED
    BY <1>2, <2>1, <2>2, StayText
<1>5. CASE DoubledQuote \/ EscapedQuote
  <2>1. Go(pos + 2, [loc EXCEPT !.buf = Flushed, !.start = pos + 1])
    BY <1>5, Zenon DEF DoubledQuote, EscapedQuote
  <2>2. pos + 1 \in Nat
    BY <1>3
  <2>3. [loc EXCEPT !.buf = Flushed, !.start = pos + 1] \in LiteralLocs
    BY <1>2, <1>3, <2>2, LiteralLocals
  <2> QED
    BY <1>4, <2>1, <2>3
<1>6. CASE DropBackslash
  <2>1. Go(pos + 1, [loc EXCEPT !.buf = Flushed, !.start = pos + 1])
    BY <1>6, Zenon DEF DropBackslash
  <2>2. pos + 1 \in Nat
    BY <1>3
  <2>3. [loc EXCEPT !.buf = Flushed, !.start = pos + 1] \in LiteralLocs
    BY <1>2, <1>3, <2>2, LiteralLocals
  <2> QED
    BY <1>4, <2>1, <2>3
<1>7. CASE CloseQuote
  <2> DEFINE b == IF loc.kind = "string" THEN Flushed ELSE loc.buf
             l == [loc EXCEPT !.buf = b, !.newline = FALSE]
  <2>1. Enter("joint", pos + 1, l)
    BY <1>7, Zenon DEF CloseQuote
  <2>2. b \in Seq(Byte)
    BY <1>2, <1>3
  <2> HIDE DEF b
  <2>3. l \in LiteralLocs
    BY <1>2, <2>2, LiteralLocals
  <2> QED
    BY <1>4, <2>1, <2>3
<1>8. CASE JointBlank
  <2> DEFINE b == loc.newline \/ Peek = "\n"
             l == [loc EXCEPT !.newline = b]
  <2>1. Go(pos + 1, l)
    BY <1>8, Zenon DEF JointBlank
  <2>2. b \in BOOLEAN
    OBVIOUS
  <2> HIDE DEF b
  <2>3. l \in LiteralLocs
    BY <1>2, <2>2, LiteralLocals
  <2> QED
    BY <1>4, <2>1, <2>3
<1>9. CASE Join
  <2>1. Enter("literal", pos + 1, [loc EXCEPT !.start = pos + 1])
    BY <1>9 DEF Join
  <2>2. pos + 1 \in Nat
    BY <1>3
  <2>3. [loc EXCEPT !.start = pos + 1] \in LiteralLocs
    BY <1>2, <2>2, LiteralLocals
  <2> QED
    BY <1>4, <2>1, <2>3
<1>10. CASE LiteralEnd
  <2>1. ASSUME Return(Token(loc.id, lval.pos, loc.buf), pos)
        PROVE  TextInv'
    <3>1. loc.id \in NotCharacters \cap TokenId
      <4>1. loc.id \in {"IDENT", "SCONST", "BCONST", "BITCONST"}
        BY <1>2 DEF LiteralLocs
      <4> QED
        BY <4>1, TokenIds DEF NotCharacters
    <3>2. lval.pos \in Nat
      BY CursorFacts
    <3> QED
      BY <1>2, <2>1, <3>1, <3>2, ReturnNamed
  <2>2. CASE loc.half # ""
    BY <1>10, <2>2, ReturnError, Zenon DEF LiteralEnd
  <2>3. CASE loc.half = ""
    <3>1. PICK valid : Return(IF valid THEN Token(loc.id, lval.pos, loc.buf) ELSE Error, pos)
      BY <1>10, <2>3, Zenon DEF LiteralEnd
    <3>2. CASE valid
      BY <2>1, <3>1, <3>2, Zenon
    <3>3. CASE ~valid
      BY <3>1, <3>3, ReturnError, Zenon
    <3> QED
      BY <3>2, <3>3
  <2> QED
    BY <2>2, <2>3
<1>11. CASE StringEof \/ DigitStringError
  BY <1>11, ReturnError, Zenon DEF StringEof, DigitStringError
<1>12. CASE StringChar
  BY <1>2, <1>4, <1>12, Zenon DEF StringChar
<1>13. CASE Escape
  <2>1. CASE \E n \in EscapeLength, bytes \in EscapeValues :
               /\ Unquotes(n, bytes)
               /\ Go(pos + 1 + n, [loc EXCEPT !.buf = Flushed \o bytes, !.start = pos + 1 + n])
    <3>1. PICK n \in EscapeLength, bytes \in EscapeValues :
            Go(pos + 1 + n, [loc EXCEPT !.buf = Flushed \o bytes, !.start = pos + 1 + n])
      BY <2>1
    <3>2. pos + 1 + n \in Nat
      BY <1>3 DEF EscapeLength
    <3>3. Flushed \o bytes \in Seq(Byte)
      BY <1>3, EscapeIsText, ConcatProperties
    <3>4. [loc EXCEPT !.buf = Flushed \o bytes, !.start = pos + 1 + n] \in LiteralLocs
      BY <1>2, <3>2, <3>3, LiteralLocals
    <3> QED
      BY <1>4, <3>1, <3>4
  <2>2. CASE Return(Error, pos + 1)
    BY <2>2, ReturnError
  <2> QED
    BY <1>13, <2>1, <2>2, Zenon DEF Escape
<1>14. CASE HexStringDigit
  <2>1. Peek \in Char
    BY <1>3, <1>14, EofIsNoByte DEF HexStringDigit
  <2>2. CASE loc.half = ""
    <3>1. Go(pos + 1, [loc EXCEPT !.half = Peek])
      BY <1>14, <2>2, Zenon DEF HexStringDigit
    <3>2. [loc EXCEPT !.half = Peek] \in LiteralLocs
      BY <1>2, <2>1, LiteralLocals
    <3> QED
      BY <1>4, <3>1, <3>2
  <2>3. CASE loc.half # ""
    <3> DEFINE b == Append(loc.buf, ByteOf(<<loc.half, Peek>>))
    <3>1. Go(pos + 1, [loc EXCEPT !.buf = b, !.half = ""])
      BY <1>14, <2>3, Zenon DEF HexStringDigit
    <3>2. b \in Seq(Byte)
      BY <1>2, PairIsByte, AppendProperties
    <3> HIDE DEF b
    <3>3. [loc EXCEPT !.buf = b, !.half = ""] \in LiteralLocs
      BY <1>2, <3>2, LiteralLocals
    <3> QED
      BY <1>4, <3>1, <3>3
  <2> QED
    BY <2>2, <2>3
<1>15. CASE BitStringDigit
  <2> DEFINE b == Append(loc.buf, Peek)
  <2>1. Peek \in Byte
    BY <1>3, <1>15 DEF BitStringDigit, Eof
  <2>2. Go(pos + 1, [loc EXCEPT !.buf = b])
    BY <1>15, Zenon DEF BitStringDigit
  <2>3. b \in Seq(Byte)
    BY <1>2, <2>1, AppendProperties
  <2> HIDE DEF b
  <2>4. [loc EXCEPT !.buf = b] \in LiteralLocs
    BY <1>2, <2>3, LiteralLocals
  <2> QED
    BY <1>4, <2>2, <2>4
<1> QED
  BY <1>5, <1>6, <1>7, <1>8, <1>9, <1>10, <1>11, <1>12, <1>13, <1>14, <1>15

\* Dollar-quoted strings (scan.go 886-960).
LEMMA DollarText ==
  ASSUME CursorInv, WordInv, TextInv,
         DollarTag \/ DollarMark \/ DollarEnd \/ DollarEof \/ DollarNoTag \/ DollarChar
  PROVE  TextInv'
<1>1. pc = "dollar"
  BY DEF DollarTag, DollarMark, DollarEnd, DollarEof, DollarNoTag, DollarChar
<1>2. /\ lval \in TokenType /\ loc \in DollarLocs
      /\ loc.start \in Nat /\ loc.found \in BOOLEAN /\ loc.possible \in BOOLEAN
      /\ loc.index \in Nat \cup {-1} /\ loc.tag \in Seq(Char) /\ Len(loc.tag) \in Nat
  BY <1>1 DEF TextInv, TypesInv, LocOK, DollarLocs
<1>3. pos \in Nat /\ Len(in) \in Nat /\ pos <= Len(in) /\ loc.start <= pos /\ lval.pos \in Nat
  <2>1. pos \in Nat /\ Len(in) \in Nat /\ pos <= Len(in) /\ lval.pos \in Nat
    BY CursorFacts
  <2>2. loc.start \in lval.pos .. pos
    BY <1>1 DEF CursorInv, LoopInv, TokenLoops
  <2> QED
    BY <2>1, <2>2
<1>4. ASSUME NEW l \in DollarLocs, NEW p, Go(p, l)
      PROVE  TextInv'
  <2>1. /\ client' = client /\ toks' = toks /\ res' = res /\ lval' = lval /\ pc' = "dollar" /\ loc' = l
    BY <1>1, <1>4 DEF Go
  <2>2. LocOK' /\ lval' \in TokenType
    BY <1>2, <2>1 DEF LocOK
  <2> QED
    BY <2>1, <2>2, StayText
<1>5. ASSUME NEW p, Return(lval, p)
      PROVE  TextInv'
  <2>1. lval.id = "$"
    BY <1>1 DEF WordInv, QuotedInv
  <2>2. Alone(lval, p)
    BY <2>1, Unmarked DEF Alone, Marked
  <2> QED
    BY <1>2, <1>5, <2>2, ReturnText
<1>6. CASE DollarTag
  <2> DEFINE tag == Text(loc.start, pos)
  <2>1. Go(pos + 1, [loc EXCEPT !.found = TRUE, !.tag = tag])
    BY <1>6, Zenon DEF DollarTag
  <2>2. tag \in Seq(Char)
    BY <1>2, <1>3, SpanIsText
  <2> HIDE DEF tag
  <2>3. [loc EXCEPT !.found = TRUE, !.tag = tag] \in DollarLocs
    BY <1>2, <2>2 DEF DollarLocs
  <2> QED
    BY <1>4, <2>1, <2>3
<1>7. CASE DollarMark
  <2>1. Go(pos + 1, [loc EXCEPT !.possible = TRUE, !.index = 0])
    BY <1>7, Zenon DEF DollarMark
  <2>2. [loc EXCEPT !.possible = TRUE, !.index = 0] \in DollarLocs
    BY <1>2 DEF DollarLocs
  <2> QED
    BY <1>4, <2>1, <2>2
<1>8. CASE DollarChar
  <2>1. \/ Go(pos + 1, loc)
        \/ loc.possible /\ Go(pos + 1, [loc EXCEPT !.index = loc.index + 1])
        \/ Go(pos + 1, [loc EXCEPT !.possible = FALSE, !.index = -1])
    <3> DEFINE matches == loc.index < Len(loc.tag) /\ Peek = loc.tag[loc.index + 1]
    <3>1. CASE ~loc.possible
      BY <1>8, <3>1, Zenon DEF DollarChar
    <3>2. CASE loc.possible /\ matches
      BY <1>8, <3>2, Zenon DEF DollarChar
    <3>3. CASE loc.possible /\ ~matches
      BY <1>8, <3>3, Zenon DEF DollarChar
    <3> HIDE DEF matches
    <3> QED
      BY <3>1, <3>2, <3>3
  <2>2. loc.possible => loc.index + 1 \in Nat
    BY <1>1, <1>2 DEF CursorInv, DollarInv
  <2>3. /\ loc.possible => [loc EXCEPT !.index = loc.index + 1] \in DollarLocs
        /\ [loc EXCEPT !.possible = FALSE, !.index = -1] \in DollarLocs
    BY <1>2, <2>2 DEF DollarLocs
  <2> QED
    BY <1>2, <1>4, <2>1, <2>3
<1>9. CASE DollarEof \/ DollarNoTag
  BY <1>5, <1>9, ReturnError, Zenon DEF DollarEof, DollarNoTag
<1>10. CASE DollarEnd
  <2> DEFINE body == Text(loc.start + Len(loc.tag) + 1, pos - Len(loc.tag) - 1)
             t == Token("SCONST", lval.pos, body)
  <2>1. PICK valid : Return(IF valid THEN t ELSE Error, pos + 1)
    BY <1>10, Zenon DEF DollarEnd
  <2>2. loc.possible /\ loc.index = Len(loc.tag)
    BY <1>10 DEF DollarEnd
  <2>3. loc.start + Len(loc.tag) + 1 <= pos - Len(loc.tag) - 1
    BY <1>1, <2>2 DEF CursorInv, DollarInv
  <2>4. body \in Seq(Byte)
    <3>1. /\ loc.start + Len(loc.tag) + 1 \in Nat /\ pos - Len(loc.tag) - 1 \in Nat
          /\ pos - Len(loc.tag) - 1 <= Len(in)
      <4>1. ASSUME NEW a \in Nat, NEW n \in Nat, NEW b \in Nat, NEW m \in Nat, b <= m,
                   a + n + 1 <= b - n - 1
            PROVE  a + n + 1 \in Nat /\ b - n - 1 \in Nat /\ b - n - 1 <= m
        BY <4>1
      <4>2. loc.start \in Nat /\ Len(loc.tag) \in Nat
        BY <1>2
      <4> QED
        BY <1>3, <2>3, <4>1, <4>2
    <3> QED
      BY <2>3, <3>1, SpanIsText
  <2>5. "SCONST" \in NotCharacters \cap TokenId
    BY TokenIds DEF NotCharacters
  <2> HIDE DEF body
  <2>6. CASE valid
    BY <1>3, <2>1, <2>4, <2>5, <2>6, ReturnNamed
  <2>7. CASE ~valid
    <3>1. Return(Error, pos + 1)
      BY <2>1, <2>7
    <3> QED
      BY <3>1, ReturnError
  <2> QED
    BY <2>6, <2>7
<1> QED
  BY <1>6, <1>7, <1>8, <1>9, <1>10

\* What a client does with the token scan returned (scan.go 963-1021).
LEMMA ClientTakes ==
  ASSUME Tokens \/ SplitFirstStatement \/ LastLexicalToken
  PROVE  /\ pc = "ret" /\ client' = client /\ in' = in /\ pos' = pos /\ lval' = lval
         /\ pc' \in {"scan", "done"}
         /\ \/ toks' = Taken /\ lval.id # EofId
            \/ toks' = toks /\ lval.id = EofId /\ pc' = "done"
         /\ \/ res' = res
            \/ \E ok \in BOOLEAN, val \in {0, Len(toks), pos} : res' = [ok |-> ok, val |-> val]
<1> DEFINE result == \E ok \in BOOLEAN, val \in {0, Len(toks), pos} : Finish([ok |-> ok, val |-> val])
<1>1. "ERROR" # EofId /\ Semicolon # EofId
  BY DEF EofId, Nul, Semicolon
<1> HIDE DEF result
<1>2. pc = "ret" /\ ((Again /\ lval.id # EofId) \/ result)
  <2>1. CASE Tokens
    <3>1. CASE lval.id = "ERROR"
      BY <2>1, <3>1, <1>1, Zenon DEF Tokens, result
    <3>2. CASE lval.id # "ERROR" /\ lval.id = EofId
      BY <2>1, <3>2, <1>1, Zenon DEF Tokens, result
    <3>3. CASE lval.id # "ERROR" /\ lval.id # EofId
      BY <2>1, <3>3, <1>1, Zenon DEF Tokens
    <3> QED
      BY <3>1, <3>2, <3>3, Zenon
  <2>2. CASE SplitFirstStatement
    <3>1. CASE lval.id \in {EofId, "ERROR"}
      BY <2>2, <3>1, <1>1, Zenon DEF SplitFirstStatement, result
    <3>2. CASE lval.id \notin {EofId, "ERROR"} /\ lval.id = Semicolon
      BY <2>2, <3>2, <1>1, Zenon DEF SplitFirstStatement, result
    <3>3. CASE lval.id \notin {EofId, "ERROR"} /\ lval.id # Semicolon
      BY <2>2, <3>3, <1>1, Zenon DEF SplitFirstStatement
    <3> QED
      BY <3>1, <3>2, <3>3, Zenon
  <2>3. CASE LastLexicalToken
    <3>1. (LastId # EofId) \in BOOLEAN
      OBVIOUS
    <3> QED
      BY <2>3, <3>1, Zenon DEF LastLexicalToken, result
  <2> QED
    BY <2>1, <2>2, <2>3, Zenon
<1>3. CASE Again /\ lval.id # EofId
  <2>1. /\ pc' = "scan" /\ toks' = Taken
        /\ client' = client /\ in' = in /\ pos' = pos /\ lval' = lval /\ res' = res
    BY <1>3 DEF Again
  <2> QED
    BY <1>2, <1>3, <2>1
<1>4. CASE result
  <2>1. PICK ok \in BOOLEAN, val \in {0, Len(toks), pos} : Finish([ok |-> ok, val |-> val])
    BY <1>4 DEF result
  <2> DEFINE r == [ok |-> ok, val |-> val]
  <2>2. Finish(r)
    BY <2>1
  <2>3. res' = r
    BY <2>2 DEF Finish
  <2>4. client' = client /\ in' = in /\ pos' = pos /\ lval' = lval /\ pc' = "done"
    BY <2>2 DEF Finish
  <2>5. \/ toks' = Taken /\ lval.id # EofId
        \/ toks' = toks /\ lval.id = EofId
    <3> HIDE DEF r
    <3> QED
      BY <2>2 DEF Finish
  <2> QED
    BY <1>2, <2>3, <2>4, <2>5, Zenon
<1> QED
  BY <1>2, <1>3, <1>4

\* A client hands out the token as scan returned it.
LEMMA ClientText ==
  ASSUME CursorInv, TextInv, Tokens \/ SplitFirstStatement \/ LastLexicalToken
  PROVE  TextInv'
<1> DEFINE n == Len(toks)
           t == [id |-> lval.id, pos |-> lval.pos, str |-> lval.str, end |-> pos]
<1>1. pos \in Nat /\ toks \in Seq(TakenType) /\ n \in Nat /\ Alone(lval, pos) /\ lval \in TokenType
  BY CursorFacts, ClientTakes, LenProperties DEF TextInv, TypesInv
<1>2. t \in TakenType
  BY <1>1 DEF TokenType, TakenType
<1>3. Taken \in Seq(TakenType)
  <2> HIDE DEF t
  <2>1. Taken = Append(toks, t)
    BY DEF Taken, t
  <2> QED
    BY <1>1, <1>2, <2>1, AppendProperties
<1>4. TypesInv'
  <2>1. toks' \in Seq(TakenType)
    BY <1>1, <1>3, ClientTakes
  <2>2. res' \in [ok : BOOLEAN, val : Nat]
    <3>1. CASE res' = res
      BY <3>1 DEF TextInv, TypesInv
    <3>2. CASE \E ok \in BOOLEAN, val \in {0, Len(toks), pos} : res' = [ok |-> ok, val |-> val]
      BY <1>1, <3>2
    <3> QED
      BY <3>1, <3>2, ClientTakes
  <2>3. client' = client /\ lval' = lval /\ pc' \in {"scan", "done"}
    BY ClientTakes
  <2>4. LocOK'
    BY <2>3 DEF LocOK
  <2> QED
    BY <2>1, <2>2, <2>3, <2>4 DEF TextInv, TypesInv
<1>5. SingleCharTokens'
  <2>1. CASE toks' = toks
    BY <2>1 DEF TextInv, SingleCharTokens
  <2>2. CASE toks' = Taken
    <3>1. /\ Len(Taken) = n + 1
          /\ \A i \in 1 .. n : Taken[i] = toks[i]
          /\ Taken[n + 1] = t
      BY TakenAppends
    <3>2. t.id # "$" /\ t.str = <<t.id>> => t.end = t.pos + 1
      BY <1>1 DEF Alone
    <3> HIDE DEF t
    <3>3. ASSUME NEW i \in 1 .. n + 1
          PROVE  Taken[i].id # "$" /\ Taken[i].str = <<Taken[i].id>> => Taken[i].end = Taken[i].pos + 1
      <4>1. CASE i \in 1 .. n
        BY <3>1, <4>1 DEF TextInv, SingleCharTokens
      <4>2. CASE i = n + 1
        BY <3>1, <3>2, <4>2
      <4> QED
        BY <1>1, <4>1, <4>2
    <3> QED
      BY <2>2, <3>1, <3>3 DEF SingleCharTokens
  <2> QED
    BY <2>1, <2>2, ClientTakes
<1> QED
  BY <1>4, <1>5, ClientTakes DEF TextInv

\* Every step keeps the types and the tokens of one character.
LEMMA TextStep ==
  ASSUME CursorInv, WordInv, TextInv, [Next]_vars
  PROVE  TextInv'
<1>1. CASE UNCHANGED vars
  BY <1>1 DEF vars, TextInv, TypesInv, SingleCharTokens, LocOK, Alone, NoNul
<1>2. CASE Next
  BY <1>2, BlankText, FoundText, BeginText, WordText, NumberText, LiteralText, DollarText, ClientText,
     Zenon DEF Next
<1> QED
  BY <1>1, <1>2

\* A call begins without tokens.
LEMMA TextBegins == Init => TextInv
<1> SUFFICES ASSUME Init PROVE TextInv
  OBVIOUS
<1>1. toks = <<>> /\ pc = "scan" /\ client \in AllClients /\ lval = Token(EofId, 0, <<>>) /\ res = NoRes
  BY ScannerAssumption DEF Init
<1>2. lval \in TokenType
  BY <1>1, TokenIds, EmptySeq DEF Token, TokenType
<1>3. toks \in Seq(TakenType) /\ Len(toks) = 0 /\ res \in [ok : BOOLEAN, val : Nat] /\ LocOK
  BY <1>1, EmptySeq DEF LocOK, NoRes
<1>4. SingleCharTokens
  BY <1>3 DEF SingleCharTokens
<1> QED
  BY <1>1, <1>2, <1>3, <1>4 DEF TextInv, TypesInv

LEMMA TextInvariant == Spec => []TextInv
<1>1. CursorInv /\ WordInv /\ TextInv /\ [Next]_vars => TextInv'
  BY TextStep
<1> QED
  BY <1>1, TextBegins, CursorInvariant, WordInvariant, PTL DEF Spec

\* Tokens, locals and results have their types at every step, tokens are made of
\* characters of the input and what scan writes, and no slice is out of bounds
\* (scan.go 92-1021).
THEOREM TypesHold == Spec => []TypeOK
<1>1. CursorInv /\ TextInv /\ SlicesInBounds => TypeOK
  BY DEF CursorInv, InputInv, LoopInv, TextInv, TypesInv, TokenType, TakenType, TypeOK
<1> QED
  BY <1>1, CursorInvariant, TextInvariant, SlicesStayInBounds, PTL
-----------------------------------------------------------------------------
(* What is between tokens *)

\* Two characters that are a mark.
Opens(h, c)  == h = "/" /\ c = "*"
Closes(h, c) == h = "*" /\ c = "/"
Marks(h, c)  == Opens(h, c) \/ Closes(h, c)

\* What the reader does with a character.
LEMMA ReadIs ==
  ASSUME NEW reader, NEW ch
  PROVE  /\ ~Marks(reader.half, ch) => Read(reader, ch).depth = reader.depth /\ Read(reader, ch).half = ch
         /\ Opens(reader.half, ch) =>
              Read(reader, ch).depth = reader.depth + 1 /\ Read(reader, ch).half = ""
         /\ Closes(reader.half, ch) =>
              Read(reader, ch).depth = reader.depth - 1 /\ Read(reader, ch).half = ""
<1> DEFINE up == reader.depth + 1
           down == reader.depth - 1
<1>1. /\ ~Marks(reader.half, ch) => Read(reader, ch) = [depth |-> reader.depth, half |-> ch]
      /\ Opens(reader.half, ch) => Read(reader, ch) = [depth |-> up, half |-> ""]
      /\ Closes(reader.half, ch) => Read(reader, ch) = [depth |-> down, half |-> ""]
  <2>1. CASE Opens(reader.half, ch)
    BY <2>1 DEF Opens, Closes, Marks, Read
  <2>2. CASE Closes(reader.half, ch)
    BY <2>2 DEF Opens, Closes, Marks, Read
  <2>3. CASE ~Marks(reader.half, ch)
    BY <2>3 DEF Opens, Closes, Marks, Read
  <2> QED
    BY <2>1, <2>2, <2>3 DEF Opens, Closes, Marks
<1>2. \A d, h : [depth |-> d, half |-> h].depth = d /\ [depth |-> d, half |-> h].half = h
  OBVIOUS
<1> HIDE DEF up, down
<1>3. /\ ~Marks(reader.half, ch) => Read(reader, ch).depth = reader.depth /\ Read(reader, ch).half = ch
      /\ Opens(reader.half, ch) => Read(reader, ch).depth = up /\ Read(reader, ch).half = ""
      /\ Closes(reader.half, ch) => Read(reader, ch).depth = down /\ Read(reader, ch).half = ""
  BY <1>1, <1>2, Zenon
<1> QED
  BY <1>3 DEF up, down

\* No mark has its first half missing.
LEMMA NothingMarks == \A ch : ~Marks("", ch)
BY DEF Marks, Opens, Closes

\* How many comments are open, and half a mark.
ReaderType == [depth : Int, half : Char \cup {""}]

LEMMA ReadIsReader ==
  ASSUME NEW reader \in ReaderType, NEW ch \in Char
  PROVE  Read(reader, ch) \in ReaderType
<1>1. reader.depth \in Int /\ reader.half \in Char \cup {""}
  BY DEF ReaderType
<1>2. reader.depth + 1 \in Int /\ reader.depth - 1 \in Int
  <2>1. reader.depth \in Int
    BY <1>1
  <2> QED
    BY <2>1
<1>3. \A d \in Int : [depth |-> d, half |-> ch] \in ReaderType /\ [depth |-> d, half |-> ""] \in ReaderType
  BY DEF ReaderType
<1>4. \/ Read(reader, ch) = [depth |-> reader.depth + 1, half |-> ""]
      \/ Read(reader, ch) = [depth |-> reader.depth - 1, half |-> ""]
      \/ Read(reader, ch) = [depth |-> reader.depth, half |-> ch]
  BY Zenon DEF Read
<1> QED
  BY <1>1, <1>2, <1>3, <1>4, Zenon

\* The reader of comment marks, character by character.
LEMMA ReadersAre ==
  ASSUME NEW s \in Seq(Char), NEW a \in 0 .. Len(s)
  PROVE  /\ Readers(s, a)[a].depth = 0 /\ Readers(s, a)[a].half = ""
         /\ \A n \in a + 1 .. Len(s) : Readers(s, a)[n] = Read(Readers(s, a)[n - 1], s[n])
<1> DEFINE N == Len(s)
           S == ReaderType
           start == [depth |-> 0, half |-> ""]
           step == [p \in S \X (a + 1 .. N) |-> Read(p[1], s[p[2]])]
           IsReaders(f) == f = [n \in a .. N |-> IF n = a THEN start ELSE Read(f[n - 1], s[n])]
<1>0. N \in Nat /\ a \in Nat /\ a <= N
  BY LenProperties
<1>10. start \in S
  BY DEF ReaderType
<1>11. start.depth = 0 /\ start.half = ""
  BY Zenon
<1>1. ASSUME NEW reader \in S, NEW n \in a + 1 .. N
      PROVE  step[<<reader, n>>] = Read(reader, s[n]) /\ Read(reader, s[n]) \in S
  <2>1. s[n] \in Char
    <3>1. n \in 1 .. Len(s)
      BY <1>0
    <3> QED
      BY <3>1, ElementOfSeq
  <2> QED
    BY <2>1, ReadIsReader
<1>2. IsRangeStep(step, a, N, S)
  <2>1. \A p \in S \X (a + 1 .. N) : Read(p[1], s[p[2]]) \in S
    <3> SUFFICES ASSUME NEW p \in S \X (a + 1 .. N) PROVE Read(p[1], s[p[2]]) \in S
      OBVIOUS
    <3>1. p[1] \in S /\ p[2] \in a + 1 .. N
      OBVIOUS
    <3> HIDE DEF S, N
    <3> QED
      BY <1>1, <3>1
  <2> HIDE DEF S, N
  <2> QED
    BY <2>1 DEF IsRangeStep
<1> HIDE DEF S, start, step
<1>3. PICK h : RangeIterates(h, a, N, S, start, step)
  BY <1>0, <1>10, <1>2, RangeIterationExists
<1>4. IsReaders(h)
  <2>1. \A n \in a .. N : n # a => n - 1 \in a .. N /\ n \in a + 1 .. N
    BY <1>0
  <2>2. \A n \in a .. N : n # a => step[<<h[n - 1], n>>] = Read(h[n - 1], s[n])
    BY <1>1, <1>3, <2>1 DEF RangeIterates
  <2> QED
    BY <1>3, <2>2 DEF RangeIterates
<1>5. Readers(s, a) = CHOOSE f : IsReaders(f)
  BY DEF Readers, start
<1>6. IsReaders(Readers(s, a))
  <2> HIDE DEF IsReaders
  <2> QED
    BY <1>4, <1>5
<1> HIDE DEF N
<1>7. a \in a .. N /\ \A n \in a + 1 .. N : n \in a .. N /\ n # a
  BY <1>0
<1>8. Readers(s, a)[a] = start
  BY <1>6, <1>7
<1>9. \A n \in a + 1 .. N : Readers(s, a)[n] = Read(Readers(s, a)[n - 1], s[n])
  BY <1>6, <1>7
<1> HIDE DEF IsReaders
<1> QED
  BY <1>8, <1>9, <1>11, Zenon DEF N

\* The positions reached from a, one by one.
LEMMA ReachedAre ==
  ASSUME NEW s \in Seq(Char), NEW a \in 0 .. Len(s)
  PROVE  /\ Reached(s, a)[a] = {a}
         /\ \A n \in a + 1 .. Len(s) :
              Reached(s, a)[n] = IF \E m \in Reached(s, a)[n - 1] : IsSkipped(s, m, n)
                                 THEN Reached(s, a)[n - 1] \cup {n} ELSE Reached(s, a)[n - 1]
<1> DEFINE N == Len(s)
           S == SUBSET (a .. N)
           More(before, n) == IF \E m \in before : IsSkipped(s, m, n) THEN before \cup {n} ELSE before
           step == [p \in S \X (a + 1 .. N) |-> More(p[1], p[2])]
           IsReached(f) == f = [n \in a .. N |-> IF n = a THEN {a} ELSE More(f[n - 1], n)]
<1>0. N \in Nat /\ a \in Nat /\ a <= N /\ {a} \in S
  BY LenProperties
<1>1. ASSUME NEW before \in S, NEW n \in a + 1 .. N
      PROVE  step[<<before, n>>] = More(before, n) /\ More(before, n) \in S
  <2>1. n \in a .. N
    BY <1>0
  <2>2. before \cup {n} \in S
    BY <2>1
  <2>3. More(before, n) \in S
    BY <2>2, Zenon
  <2> HIDE DEF More, S
  <2> QED
    BY <2>3
<1>2. IsRangeStep(step, a, N, S)
  <2>1. \A p \in S \X (a + 1 .. N) : More(p[1], p[2]) \in S
    <3> SUFFICES ASSUME NEW p \in S \X (a + 1 .. N) PROVE More(p[1], p[2]) \in S
      OBVIOUS
    <3> HIDE DEF S, More
    <3>1. p[1] \in S /\ p[2] \in a + 1 .. N
      OBVIOUS
    <3> QED
      BY <1>1, <3>1
  <2> HIDE DEF S, N, More
  <2> QED
    BY <2>1 DEF IsRangeStep
<1> HIDE DEF S, step, More
<1>3. PICK h : RangeIterates(h, a, N, S, {a}, step)
  BY <1>0, <1>2, RangeIterationExists
<1>4. IsReached(h)
  <2>1. \A n \in a .. N : n # a => n - 1 \in a .. N /\ n \in a + 1 .. N
    BY <1>0
  <2>2. \A n \in a .. N : n # a => step[<<h[n - 1], n>>] = More(h[n - 1], n)
    BY <1>1, <1>3, <2>1 DEF RangeIterates
  <2> QED
    BY <1>3, <2>2 DEF RangeIterates
<1>5. Reached(s, a) = CHOOSE f : IsReached(f)
  BY DEF Reached, More
<1>6. IsReached(Reached(s, a))
  <2> HIDE DEF IsReached
  <2> QED
    BY <1>4, <1>5
<1> HIDE DEF N
<1>7. a \in a .. N /\ \A n \in a + 1 .. N : n \in a .. N /\ n # a
  BY <1>0
<1>8. /\ Reached(s, a)[a] = {a}
      /\ \A n \in a + 1 .. N : Reached(s, a)[n] = More(Reached(s, a)[n - 1], n)
  BY <1>6, <1>7
<1> QED
  BY <1>8, Zenon DEF More, N

\* A gap may be empty, and goes on with every blank and every comment.
LEMMA GapNil ==
  ASSUME NEW s \in Seq(Char), NEW a \in 0 .. Len(s)
  PROVE  IsGap(s, a, a)
BY ReachedAre DEF IsGap

LEMMA GapGrows ==
  ASSUME NEW s \in Seq(Char), NEW a \in 0 .. Len(s), NEW m \in a .. Len(s), NEW n \in m + 1 .. Len(s),
         IsGap(s, a, m), IsSkipped(s, m, n)
  PROVE  IsGap(s, a, n)
<1> DEFINE T == {k \in m .. n - 1 : m \in Reached(s, a)[k]}
<1>0. Len(s) \in Nat /\ a \in Nat /\ m \in Nat /\ n \in Nat
  BY LenProperties
<1>1. m \in T
  BY <1>0 DEF IsGap
<1>2. ASSUME NEW k \in m .. (n - 1) - 1, k \in T
      PROVE  k + 1 \in T
  <2>1. k + 1 \in a + 1 .. Len(s) /\ (k + 1) - 1 = k /\ k + 1 \in m .. n - 1
    BY <1>0
  <2>2. Reached(s, a)[k] \subseteq Reached(s, a)[k + 1]
    <3>1. \/ Reached(s, a)[k + 1] = Reached(s, a)[(k + 1) - 1] \cup {k + 1}
          \/ Reached(s, a)[k + 1] = Reached(s, a)[(k + 1) - 1]
      BY <2>1, ReachedAre, Zenon
    <3> QED
      BY <2>1, <3>1
  <2> QED
    BY <1>2, <2>1, <2>2
<1>3. n - 1 \in Nat /\ n - 1 \in m .. n - 1 /\ n \in a + 1 .. Len(s)
  BY <1>0
<1>4. n - 1 \in T
  <2> HIDE DEF T
  <2>1. \A k \in m .. n - 1 : k \in T
    BY <1>0, <1>1, <1>2, <1>3, RangeInduction
  <2> QED
    BY <1>3, <2>1
<1>5. m \in Reached(s, a)[n - 1]
  BY <1>4
<1>6. Reached(s, a)[n] = Reached(s, a)[n - 1] \cup {n}
  BY <1>3, <1>5, ReachedAre, Zenon
<1> QED
  BY <1>6 DEF IsGap

\* In text s, a block comment that began at a is still open at p, d deep; what comes
\* next completes no mark that began before.
InBlock(s, a, p, d) ==
  /\ p \in a + 2 .. Len(s)
  /\ Readers(s, a)[p].depth = d
  /\ p < Len(s) => ~Marks(Readers(s, a)[p].half, s[p + 1])
  /\ \A n \in a + 2 .. p : Readers(s, a)[n].depth > 0

\* The mark that opens a block comment.
LEMMA BlockBegins ==
  ASSUME NEW s \in Seq(Char), NEW a \in Nat, a + 2 <= Len(s), Opens(s[a + 1], s[a + 2])
  PROVE  InBlock(s, a, a + 2, 1)
<1>1. Len(s) \in Nat /\ a \in 0 .. Len(s) /\ a + 1 \in a + 1 .. Len(s) /\ a + 2 \in a + 1 .. Len(s)
      /\ (a + 1) - 1 = a /\ (a + 2) - 1 = a + 1
  BY LenProperties
<1> DEFINE r0 == Readers(s, a)[a]
           r1 == Readers(s, a)[a + 1]
           r2 == Readers(s, a)[a + 2]
<1>2. r0.depth = 0
  BY <1>1, ReadersAre
<1>3. r0.half = ""
  BY <1>1, ReadersAre, Zenon
<1>4. r1 = Read(r0, s[a + 1]) /\ r2 = Read(r1, s[a + 2])
  BY <1>1, ReadersAre
<1> HIDE DEF r0, r1, r2
<1>5. ~Marks(r0.half, s[a + 1])
  BY <1>3, NothingMarks, Zenon
<1>6. r1.depth = r0.depth /\ r1.half = s[a + 1]
  BY <1>4, <1>5, ReadIs, Zenon
<1>7. r2.depth = r1.depth + 1 /\ r2.half = ""
  <2>1. Opens(r1.half, s[a + 2])
    BY <1>6
  <2> QED
    BY <1>4, <2>1, ReadIs, Zenon
<1>8. r2.depth = 1
  <2>1. r2.depth = r1.depth + 1 /\ r1.depth = r0.depth
    BY <1>6, <1>7, Zenon
  <2> QED
    BY <1>2, <2>1
<1>9. ~Marks(r2.half, s[(a + 2) + 1])
  BY <1>7, NothingMarks, Zenon
<1>10. a + 2 \in a + 2 .. Len(s) /\ a + 2 .. a + 2 = {a + 2}
  BY <1>1
<1> QED
  BY <1>8, <1>9, <1>10 DEF InBlock, r2

\* Within a comment, a character that begins no mark, and the two marks.
LEMMA BlockGoesOn ==
  ASSUME NEW s \in Seq(Char), NEW a \in Nat, NEW p \in Nat, NEW d \in Nat, InBlock(s, a, p, d), p + 1 <= Len(s)
  PROVE  /\ Readers(s, a)[p + 1].depth = d /\ Readers(s, a)[p + 1].half = s[p + 1]
         /\ (p + 2 <= Len(s) => ~Marks(s[p + 1], s[p + 2])) => InBlock(s, a, p + 1, d)
<1>1. /\ Len(s) \in Nat /\ a \in 0 .. Len(s) /\ p + 1 \in a + 1 .. Len(s) /\ (p + 1) - 1 = p
      /\ p \in a + 2 .. Len(s) /\ p + 1 \in a + 2 .. Len(s)
      /\ a + 2 .. p + 1 = (a + 2 .. p) \cup {p + 1}
  BY LenProperties DEF InBlock
<1>2. Readers(s, a)[p + 1] = Read(Readers(s, a)[p], s[p + 1])
  BY <1>1, ReadersAre
<1>3. Readers(s, a)[p + 1].depth = d /\ Readers(s, a)[p + 1].half = s[p + 1]
  <2> DEFINE r0 == Readers(s, a)[p]
             r1 == Readers(s, a)[p + 1]
  <2>1. r0.depth = d /\ ~Marks(r0.half, s[p + 1])
    BY <1>1 DEF InBlock
  <2>2. r1 = Read(r0, s[p + 1])
    BY <1>2
  <2> HIDE DEF r0, r1
  <2>3. r1.depth = d /\ r1.half = s[p + 1]
    BY <2>1, <2>2, ReadIs, Zenon
  <2> QED
    BY <2>3 DEF r1
<1>4. d > 0
  BY <1>1 DEF InBlock
<1>5. ASSUME p + 2 <= Len(s) => ~Marks(s[p + 1], s[p + 2])
      PROVE  InBlock(s, a, p + 1, d)
  <2>1. \A n \in a + 2 .. p + 1 : Readers(s, a)[n].depth > 0
    BY <1>1, <1>3, <1>4 DEF InBlock
  <2>2. p + 1 < Len(s) => ~Marks(Readers(s, a)[p + 1].half, s[(p + 1) + 1])
    <3>1. (p + 1) + 1 = p + 2 /\ (p + 1 < Len(s) => p + 2 <= Len(s))
      BY <1>1
    <3> QED
      BY <1>3, <1>5, <3>1
  <2> QED
    BY <1>1, <1>3, <2>1, <2>2 DEF InBlock
<1> QED
  BY <1>3, <1>5

LEMMA BlockMarks ==
  ASSUME NEW s \in Seq(Char), NEW a \in Nat, NEW p \in Nat, NEW d \in Nat, InBlock(s, a, p, d), p + 2 <= Len(s)
  PROVE  /\ Opens(s[p + 1], s[p + 2]) => InBlock(s, a, p + 2, d + 1)
         /\ Closes(s[p + 1], s[p + 2]) /\ d > 1 => InBlock(s, a, p + 2, d - 1)
         /\ Closes(s[p + 1], s[p + 2]) /\ d = 1 => IsBlockComment(s, a, p + 2)
<1>1. /\ Len(s) \in Nat /\ a \in 0 .. Len(s) /\ p + 2 \in a + 1 .. Len(s) /\ (p + 2) - 1 = p + 1
      /\ p \in a + 2 .. Len(s) /\ p + 1 <= Len(s) /\ p + 2 \in a + 2 .. Len(s) /\ a + 2 < p + 2
      /\ a + 2 .. p + 2 = (a + 2 .. p) \cup {p + 1, p + 2}
      /\ a + 2 .. (p + 2) - 1 = (a + 2 .. p) \cup {p + 1}
  BY LenProperties DEF InBlock
<1>2. Readers(s, a)[p + 1].depth = d /\ Readers(s, a)[p + 1].half = s[p + 1]
  BY <1>1, BlockGoesOn
<1>3. /\ Opens(s[p + 1], s[p + 2]) => Readers(s, a)[p + 2].depth = d + 1
      /\ Closes(s[p + 1], s[p + 2]) => Readers(s, a)[p + 2].depth = d - 1
      /\ Marks(s[p + 1], s[p + 2]) => Readers(s, a)[p + 2].half = ""
  <2> DEFINE r1 == Readers(s, a)[p + 1]
             r2 == Readers(s, a)[p + 2]
  <2>1. r2 = Read(r1, s[p + 2])
    BY <1>1, ReadersAre
  <2> HIDE DEF r1, r2
  <2>2. r1.depth = d /\ r1.half = s[p + 1]
    BY <1>2 DEF r1
  <2>3. /\ Opens(s[p + 1], s[p + 2]) => Opens(r1.half, s[p + 2])
        /\ Closes(s[p + 1], s[p + 2]) => Closes(r1.half, s[p + 2])
    BY <2>2
  <2>4. /\ Opens(s[p + 1], s[p + 2]) => r2.depth = r1.depth + 1
        /\ Closes(s[p + 1], s[p + 2]) => r2.depth = r1.depth - 1
    BY <2>1, <2>3, ReadIs, Zenon
  <2>5. Marks(s[p + 1], s[p + 2]) => r2.half = ""
    BY <2>1, <2>3, ReadIs, Zenon DEF Marks
  <2>6. r1.depth = d
    BY <2>2
  <2>7. /\ Opens(s[p + 1], s[p + 2]) => r2.depth = d + 1
        /\ Closes(s[p + 1], s[p + 2]) => r2.depth = d - 1
    BY <2>4, <2>6
  <2> QED
    BY <2>5, <2>7, Zenon DEF r2
<1>4. d > 0
  BY <1>1 DEF InBlock
<1>5. \A n \in a + 2 .. (p + 2) - 1 : Readers(s, a)[n].depth > 0
  BY <1>1, <1>2, <1>4 DEF InBlock
<1>6. ASSUME NEW e \in Nat, e > 0, Readers(s, a)[p + 2].depth = e, Readers(s, a)[p + 2].half = ""
      PROVE  InBlock(s, a, p + 2, e)
  <2>1. Readers(s, a)[p + 2].depth = e
    BY <1>6
  <2>2. \A n \in a + 2 .. p + 2 : n \in a + 2 .. (p + 2) - 1 \/ n = p + 2
    BY <1>1
  <2>3. \A n \in a + 2 .. p + 2 : Readers(s, a)[n].depth > 0
    BY <1>5, <1>6, <2>1, <2>2
  <2>4. ~Marks(Readers(s, a)[p + 2].half, s[(p + 2) + 1])
    BY <1>6, NothingMarks, Zenon
  <2> QED
    BY <1>1, <2>1, <2>3, <2>4 DEF InBlock
<1>7. CASE Opens(s[p + 1], s[p + 2])
  <2>1. Readers(s, a)[p + 2].depth = d + 1 /\ Readers(s, a)[p + 2].half = ""
    BY <1>3, <1>7, Zenon DEF Marks
  <2>2. ~Closes(s[p + 1], s[p + 2]) /\ d + 1 \in Nat /\ d + 1 > 0
    BY <1>7 DEF Opens, Closes
  <2> QED
    BY <1>6, <2>1, <2>2
<1>8. CASE Closes(s[p + 1], s[p + 2])
  <2>1. Readers(s, a)[p + 2].depth = d - 1 /\ Readers(s, a)[p + 2].half = ""
    BY <1>3, <1>8, Zenon DEF Marks
  <2>2. ~Opens(s[p + 1], s[p + 2])
    BY <1>8 DEF Opens, Closes
  <2>3. d > 1 => InBlock(s, a, p + 2, d - 1)
    <3>1. d > 1 => d - 1 \in Nat /\ d - 1 > 0
      OBVIOUS
    <3> QED
      BY <1>6, <2>1, <3>1
  <2>4. d = 1 => IsBlockComment(s, a, p + 2)
    <3>1. d = 1 => Readers(s, a)[p + 2].depth = 0
      <4>1. Readers(s, a)[p + 2].depth = d - 1
        BY <2>1, Zenon
      <4> QED
        BY <4>1
    <3> QED
      BY <1>1, <1>5, <3>1 DEF IsBlockComment
  <2> QED
    BY <2>2, <2>3, <2>4
<1> QED
  BY <1>7, <1>8

\* In text s, a line comment that began at a goes on at p.
InLine(s, a, p) ==
  /\ a + 2 <= Len(s) /\ s[a + 1] = "-" /\ s[a + 2] = "-"
  /\ p \in a + 1 .. Len(s)
  /\ \A n \in a + 3 .. p : s[n] # "\n"

LEMMA LineGoesOn ==
  ASSUME NEW s \in Seq(Char), NEW a \in Nat, NEW p \in Nat, InLine(s, a, p)
  PROVE  /\ p + 1 <= Len(s) /\ s[p + 1] # "\n" => InLine(s, a, p + 1)
         /\ p + 1 <= Len(s) /\ s[p + 1] = "\n" => IsLineComment(s, a, p + 1)
         /\ p = Len(s) => IsLineComment(s, a, p)
<1>1. /\ Len(s) \in Nat /\ p \in a + 1 .. Len(s) /\ a + 2 <= Len(s)
      /\ \A n \in a + 3 .. p + 1 : n \in a + 3 .. p \/ n = p + 1
      /\ a + 3 .. (p + 1) - 1 = a + 3 .. p
      /\ \A n \in a + 3 .. p - 1 : n \in a + 3 .. p
  BY LenProperties DEF InLine
<1>2. s[p + 1] = "\n" => p + 1 # a + 2
  <2>1. s[a + 2] # "\n"
    BY DEF InLine
  <2> QED
    BY <2>1
<1>3. p + 1 <= Len(s) => p + 1 \in a + 1 .. Len(s)
  BY <1>1
<1>4. s[p + 1] = "\n" => a + 2 <= p + 1
  BY <1>1, <1>2
<1>5. p + 1 <= Len(s) /\ s[p + 1] # "\n" => InLine(s, a, p + 1)
  BY <1>1, <1>3 DEF InLine
<1>6. p + 1 <= Len(s) /\ s[p + 1] = "\n" => IsLineComment(s, a, p + 1)
  BY <1>1, <1>4 DEF InLine, IsLineComment
<1>7. p = Len(s) => IsLineComment(s, a, p)
  BY <1>1 DEF InLine, IsLineComment
<1> QED
  BY <1>5, <1>6, <1>7

\* What peek returns, in the text.
LEMMA PeekIs ==
  ASSUME CursorInv
  PROVE  /\ Peek = Eof <=> pos = Len(in)
         /\ Peek # Eof => pos + 1 <= Len(in) /\ Peek = in[pos + 1]
         /\ PeekN(1) # Eof => pos + 2 <= Len(in)
         /\ pos + 2 <= Len(in) => PeekN(1) = in[pos + 2]
<1>1. Len(in) \in Nat /\ pos \in Nat /\ pos <= Len(in) /\ in \in Seq(Char)
  BY CursorFacts DEF CursorInv, InputInv
<1>2. pos + 1 <= Len(in) => in[pos + 1] # Eof
  <2>1. pos + 1 <= Len(in) => pos + 1 \in 1 .. Len(in)
    BY <1>1
  <2>2. pos + 1 <= Len(in) => in[pos + 1] \in Char
    BY <1>1, <2>1, ElementOfSeq
  <2> QED
    BY <2>2, ScannerAssumption DEF NotCharacters
<1>3. /\ pos + 0 >= Len(in) <=> pos = Len(in)
      /\ pos + 0 + 1 = pos + 1 /\ (pos # Len(in) => pos + 1 <= Len(in))
      /\ pos + 1 >= Len(in) <=> ~(pos + 2 <= Len(in))
      /\ pos + 1 + 1 = pos + 2
  BY <1>1
<1>4. Peek = IF pos = Len(in) THEN Eof ELSE in[pos + 1]
  BY <1>3 DEF Peek, PeekN
<1>5. PeekN(1) = IF ~(pos + 2 <= Len(in)) THEN Eof ELSE in[pos + 2]
  BY <1>3 DEF PeekN
<1> QED
  BY <1>2, <1>3, <1>4, <1>5, Zenon

\* Before the cursor, back to the end of the last token, there is a gap, and a
\* comment that is still open or a token that is not handed out yet.
GapInv ==
  /\ \A i \in 1 .. Len(toks) : IsGap(in, GapStart(i), toks[i].pos)
  /\ pc \in {"scan", "ws"} => IsGap(in, LastEnd, pos)
  /\ pc = "block" => IsGap(in, LastEnd, loc.start) /\ InBlock(in, loc.start, pos, loc.depth)
  /\ pc = "line" => \E a \in LastEnd .. Len(in) : IsGap(in, LastEnd, a) /\ InLine(in, a, pos)
  /\ pc \in TokenLoops \cup {"ret"} => IsGap(in, LastEnd, lval.pos)
  /\ pc = "done" /\ lval.id = EofId /\ NoNul => IsGap(in, LastEnd, pos)

\* The gaps between the tokens handed out stay.
LEMMA OldGaps ==
  ASSUME GapInv, in' = in, toks' = toks
  PROVE  (\A i \in 1 .. Len(toks) : IsGap(in, GapStart(i), toks[i].pos))' /\ LastEnd' = LastEnd
<1>1. LastEnd' = LastEnd
  BY SameLastEnd
<1>2. \A i : GapStart(i)' = GapStart(i)
  BY DEF GapStart
<1> QED
  BY <1>1, <1>2 DEF GapInv

\* A blank or a comment that ends makes the gap longer.
LEMMA GapLengthens ==
  ASSUME CursorInv, GapInv, NEW a \in LastEnd .. Len(in), IsGap(in, LastEnd, a),
         NEW b \in a + 1 .. Len(in), IsSkipped(in, a, b),
         in' = in, toks' = toks, pc' = "ws", pos' = b
  PROVE  GapInv'
<1>1. Len(in) \in Nat /\ LastEnd \in 0 .. Len(in) /\ in \in Seq(Char)
  BY CursorFacts DEF CursorInv, InputInv
<1>2. IsGap(in, LastEnd, b)
  BY <1>1, GapGrows
<1> QED
  BY <1>2, OldGaps DEF GapInv, TokenLoops

\* Blanks and comments (scan.go 415-495).
LEMMA BlankGap ==
  ASSUME CursorInv, TextInv, GapInv,
         Scan \/ SkipBlank \/ EnterBlockComment \/ EnterLineComment \/ CloseBlock \/ OpenBlock
           \/ BlockChar \/ LineChar
  PROVE  GapInv'
<1>1. in' = in /\ toks' = toks
  BY WorkIsQuiet DEF Working
<1>2. /\ Len(in) \in Nat /\ pos \in Nat /\ LastEnd \in Nat /\ LastEnd <= pos /\ pos <= Len(in)
      /\ in \in Seq(Char) /\ LastEnd' = LastEnd
  BY <1>1, CursorFacts, SameLastEnd DEF CursorInv, InputInv
<1>3. CASE Scan
  <2>1. pos' = pos /\ pc' = "ws" /\ IsGap(in, LastEnd, pos)
    BY <1>3 DEF Scan, GapInv
  <2> QED
    BY <1>1, <1>2, <2>1, OldGaps DEF GapInv, TokenLoops
<1>4. CASE SkipBlank
  <2>1. pc = "ws" /\ pos' = pos + 1 /\ pc' = "ws" /\ Peek \in Blank /\ IsGap(in, LastEnd, pos)
    BY <1>4 DEF SkipBlank, Go, GapInv
  <2>2. Peek = in[pos + 1] /\ pos + 1 <= Len(in)
    BY <2>1, PeekIs, EofIsNoByte
  <2>3. IsSkipped(in, pos, pos + 1)
    BY <2>1, <2>2 DEF IsSkipped, IsBlank
  <2>4. pos \in LastEnd .. Len(in) /\ pos + 1 \in pos + 1 .. Len(in)
    BY <1>2, <2>2
  <2> QED
    BY <1>1, <2>1, <2>3, <2>4, GapLengthens
<1>5. CASE EnterBlockComment
  <2>1. /\ pc = "ws" /\ pos' = pos + 2 /\ pc' = "block" /\ loc' = [start |-> pos, depth |-> 1]
        /\ Opens(Peek, PeekN(1))
    BY <1>5 DEF EnterBlockComment, Enter, BlockCommentAhead, Opens
  <2>2. Peek # Eof /\ PeekN(1) # Eof
    BY <2>1 DEF Opens, Eof
  <2>3. pos + 2 <= Len(in) /\ Opens(in[pos + 1], in[pos + 2])
    BY <2>1, <2>2, PeekIs, Zenon
  <2>4. InBlock(in, pos, pos + 2, 1)
    BY <1>2, <2>3, BlockBegins
  <2>5. IsGap(in, LastEnd, pos)
    BY <2>1 DEF GapInv
  <2>6. loc'.start = pos /\ loc'.depth = 1
    BY <2>1
  <2> QED
    BY <1>1, <1>2, <2>1, <2>4, <2>5, <2>6, OldGaps DEF GapInv, TokenLoops
<1>6. CASE EnterLineComment
  <2>1. pc = "ws" /\ pos' = pos + 1 /\ pc' = "line" /\ Peek = "-" /\ PeekN(1) = "-"
    BY <1>6 DEF EnterLineComment, Enter, LineCommentAhead
  <2>2. Peek # Eof /\ PeekN(1) # Eof
    BY <2>1 DEF Eof
  <2>3. pos + 2 <= Len(in) /\ in[pos + 1] = "-" /\ in[pos + 2] = "-"
    BY <2>1, <2>2, PeekIs, Zenon
  <2>4. pos + 1 \in pos + 1 .. Len(in) /\ pos + 3 .. pos + 1 = {} /\ pos \in LastEnd .. Len(in)
    BY <1>2, <2>3
  <2>5. InLine(in, pos, pos + 1) /\ IsGap(in, LastEnd, pos)
    BY <2>1, <2>3, <2>4 DEF InLine, GapInv
  <2> QED
    BY <1>1, <1>2, <2>1, <2>4, <2>5, OldGaps DEF GapInv, TokenLoops
<1>7. ASSUME pc = "block"
      PROVE  /\ loc.start \in Nat /\ loc.depth \in Nat \ {0} /\ loc.start \in LastEnd .. Len(in)
             /\ loc.start < pos /\ IsGap(in, LastEnd, loc.start) /\ InBlock(in, loc.start, pos, loc.depth)
  <2>1. loc.start \in LastEnd .. pos - 1
    BY <1>7 DEF CursorInv, LoopInv
  <2>2. loc.start \in Nat /\ loc.depth \in Nat \ {0}
    BY <1>7 DEF TextInv, TypesInv, LocOK
  <2>3. loc.start \in LastEnd .. Len(in) /\ loc.start < pos
    BY <1>2, <2>1, <2>2
  <2> QED
    BY <1>7, <2>2, <2>3 DEF GapInv
<1>8. ASSUME pc' = "block", loc'.start = loc.start, IsGap(in, LastEnd, loc.start),
             InBlock(in, loc.start, pos', loc'.depth)
      PROVE  GapInv'
  BY <1>1, <1>2, <1>8, OldGaps DEF GapInv, TokenLoops
<1>9. CASE BlockChar
  <2>1. /\ pc = "block" /\ pos' = pos + 1 /\ pc' = "block" /\ loc' = loc
        /\ Peek # Eof /\ ~Marks(Peek, PeekN(1))
    BY <1>9 DEF BlockChar, Go, BlockCommentAhead, Marks, Opens, Closes
  <2>2. /\ pos + 1 <= Len(in) /\ Peek = in[pos + 1]
        /\ pos + 2 <= Len(in) => ~Marks(in[pos + 1], in[pos + 2])
    BY <2>1, PeekIs
  <2>3. InBlock(in, loc.start, pos + 1, loc.depth)
    BY <1>2, <1>7, <2>1, <2>2, BlockGoesOn
  <2> QED
    BY <1>7, <1>8, <2>1, <2>3
<1>10. CASE OpenBlock
  <2>1. pc = "block" /\ pos' = pos + 2 /\ pc' = "block" /\ loc' = [loc EXCEPT !.depth = loc.depth + 1]
    BY <1>10 DEF OpenBlock, Go
  <2>2. Opens(Peek, PeekN(1)) /\ Peek # Eof /\ PeekN(1) # Eof
    BY <1>10 DEF OpenBlock, BlockCommentAhead, Opens, Eof
  <2>3. pos + 2 <= Len(in) /\ Opens(in[pos + 1], in[pos + 2])
    BY <2>2, PeekIs, Zenon
  <2>4. InBlock(in, loc.start, pos + 2, loc.depth + 1)
    BY <1>2, <1>7, <2>1, <2>3, BlockMarks
  <2>5. loc'.start = loc.start /\ loc'.depth = loc.depth + 1
    <3>1. loc \in [start : Nat, depth : Nat \ {0}]
      BY <2>1 DEF TextInv, TypesInv, LocOK
    <3> QED
      BY <2>1, <3>1
  <2> QED
    BY <1>7, <1>8, <2>1, <2>4, <2>5
<1>11. CASE CloseBlock
  <2>1. pc = "block" /\ Closes(Peek, PeekN(1)) /\ Peek # Eof /\ PeekN(1) # Eof
    BY <1>11 DEF CloseBlock, Closes, Eof
  <2>2. pos + 2 <= Len(in) /\ Closes(in[pos + 1], in[pos + 2])
    BY <2>1, PeekIs, Zenon
  <2>3. CASE loc.depth = 1
    <3>1. pc' = "ws" /\ pos' = pos + 2
      BY <1>11, <2>3 DEF CloseBlock, Enter
    <3>2. IsBlockComment(in, loc.start, pos + 2)
      BY <1>2, <1>7, <2>1, <2>2, <2>3, BlockMarks
    <3>3. pos + 2 \in loc.start + 1 .. Len(in)
      BY <1>2, <1>7, <2>1, <2>2
    <3> QED
      BY <1>1, <1>7, <2>1, <3>1, <3>2, <3>3, GapLengthens DEF IsSkipped
  <2>4. CASE loc.depth # 1
    <3>1. pc' = "block" /\ pos' = pos + 2 /\ loc' = [loc EXCEPT !.depth = loc.depth - 1]
      BY <1>11, <2>4 DEF CloseBlock, Go
    <3>2. loc.depth > 1
      BY <1>7, <2>1, <2>4
    <3>3. InBlock(in, loc.start, pos + 2, loc.depth - 1)
      BY <1>2, <1>7, <2>1, <2>2, <3>2, BlockMarks
    <3>4. loc'.start = loc.start /\ loc'.depth = loc.depth - 1
      <4>1. loc \in [start : Nat, depth : Nat \ {0}]
        BY <2>1 DEF TextInv, TypesInv, LocOK
      <4> QED
        BY <3>1, <4>1
    <3> QED
      BY <1>7, <1>8, <2>1, <3>1, <3>3, <3>4
  <2> QED
    BY <2>3, <2>4
<1>12. CASE LineChar
  <2>1. pc = "line"
    BY <1>12 DEF LineChar
  <2>2. PICK a \in LastEnd .. Len(in) : IsGap(in, LastEnd, a) /\ InLine(in, a, pos)
    BY <2>1 DEF GapInv
  <2>3. a \in Nat /\ pos \in a + 1 .. Len(in)
    BY <1>2, <2>2 DEF InLine
  <2>4. CASE Peek = Eof
    <3>1. pc' = "ws" /\ pos' = pos
      BY <1>12, <2>4 DEF LineChar, Enter, Eof
    <3>2. IsLineComment(in, a, pos)
      BY <1>2, <2>2, <2>3, <2>4, PeekIs, LineGoesOn
    <3> QED
      BY <1>1, <2>2, <2>3, <3>1, <3>2, GapLengthens DEF IsSkipped
  <2>5. CASE Peek = "\n"
    <3>1. pc' = "ws" /\ pos' = pos + 1
      BY <1>12, <2>5 DEF LineChar, Enter, Eof
    <3>2. pos + 1 <= Len(in) /\ in[pos + 1] = "\n"
      BY <2>5, PeekIs DEF Eof
    <3>3. IsLineComment(in, a, pos + 1)
      BY <1>2, <2>2, <2>3, <3>2, LineGoesOn
    <3>4. pos + 1 \in a + 1 .. Len(in)
      BY <1>2, <2>3, <3>2
    <3> QED
      BY <1>1, <2>2, <3>1, <3>3, <3>4, GapLengthens DEF IsSkipped
  <2>6. CASE Peek # Eof /\ Peek # "\n"
    <3>1. pc' = "line" /\ pos' = pos + 1
      BY <1>12, <2>1, <2>6 DEF LineChar, Go
    <3>2. pos + 1 <= Len(in) /\ in[pos + 1] # "\n"
      BY <2>6, PeekIs
    <3>3. InLine(in, a, pos + 1)
      BY <1>2, <2>2, <2>3, <3>2, LineGoesOn
    <3> QED
      BY <1>1, <1>2, <2>2, <3>1, <3>3, OldGaps DEF GapInv, TokenLoops
  <2> QED
    BY <2>4, <2>5, <2>6
<1> QED
  BY <1>3, <1>4, <1>5, <1>6, <1>9, <1>10, <1>11, <1>12

\* A token begins where the gap ends.
LEMMA TokenGap ==
  ASSUME GapInv, in' = in, toks' = toks, pc' \in TokenLoops \cup {"ret"}, IsGap(in, LastEnd, lval'.pos)
  PROVE  GapInv'
BY OldGaps DEF GapInv, TokenLoops

\* The first character of a token (scan.go 101-390, 471-475).
LEMMA FirstGap ==
  ASSUME CursorInv, TextInv, GapInv,
         BlockEof \/ ScanEof \/ ScanOperator \/ ScanSingle
           \/ BeginNumber \/ BeginPlaceholder \/ BeginDollar \/ BeginQuoted \/ BeginPrefixed \/ BeginIdent
  PROVE  GapInv'
<1>1. in' = in /\ toks' = toks
  BY WorkIsQuiet DEF Working
<1>2. ASSUME NEW id, NEW p, NEW str, NEW q, Return(Token(id, q, str), p), IsGap(in, LastEnd, q)
      PROVE  GapInv'
  <2>1. pc' = "ret" /\ lval'.pos = q
    BY <1>2 DEF Return, Token
  <2> QED
    BY <1>1, <1>2, <2>1, TokenGap
<1>3. ASSUME NEW to \in TokenLoops, NEW p, NEW l, Begin(to, p, l), pc = "ws"
      PROVE  GapInv'
  <2>1. pc' = to /\ lval'.pos = pos
    BY <1>3 DEF Begin, Here, Token
  <2>2. IsGap(in, LastEnd, pos)
    BY <1>3 DEF GapInv
  <2> QED
    BY <1>1, <2>1, <2>2, TokenGap
<1>4. CASE BlockEof
  <2>1. IsGap(in, LastEnd, loc.start)
    BY <1>4 DEF BlockEof, GapInv
  <2> QED
    BY <1>2, <1>4, <2>1 DEF BlockEof
<1>5. AtToken => pc = "ws" /\ IsGap(in, LastEnd, pos)
  BY DEF AtToken, GapInv
<1>6. ScanEof \/ ScanOperator \/ ScanSingle => GapInv'
  BY <1>2, <1>5, Zenon DEF ScanEof, ScanOperator, ScanSingle, Here
<1>7. BeginNumber \/ BeginPlaceholder \/ BeginDollar \/ BeginQuoted \/ BeginPrefixed \/ BeginIdent => GapInv'
  BY <1>3, <1>5, Zenon DEF BeginNumber, BeginPlaceholder, BeginDollar, BeginQuoted, BeginPrefixed, BeginIdent,
                           TokenLoops
<1> QED
  BY <1>4, <1>6, <1>7

\* A loop leaves the start of its token alone (scan.go 503-960).
LEMMA LoopGap ==
  ASSUME CursorInv, TextInv, GapInv,
         \/ IdentChar \/ IdentEnd
         \/ NumberDigit \/ NumberX \/ NumberDot \/ NumberExponent \/ NumberEnd
         \/ PlaceholderDigit \/ PlaceholderEnd
         \/ DoubledQuote \/ CloseQuote \/ JointBlank \/ Join \/ LiteralEnd
         \/ StringEof \/ StringChar \/ EscapedQuote \/ Escape \/ DropBackslash
         \/ HexStringDigit \/ BitStringDigit \/ DigitStringError
         \/ DollarTag \/ DollarMark \/ DollarEnd \/ DollarEof \/ DollarNoTag \/ DollarChar
  PROVE  GapInv'
<1>1. in' = in /\ toks' = toks
  BY WorkIsQuiet, Zenon DEF Working
<1>2. lval \in TokenType
  BY DEF TextInv, TypesInv
<1>3. ASSUME pc \in TokenLoops, NEW p, NEW l, NEW to \in TokenLoops, Go(p, l) \/ Enter(to, p, l)
      PROVE  GapInv'
  <2>1. pc' \in TokenLoops /\ lval' = lval /\ IsGap(in, LastEnd, lval.pos)
    BY <1>3 DEF Go, Enter, GapInv
  <2> QED
    BY <1>1, <2>1, TokenGap
<1>4. ASSUME pc \in TokenLoops, NEW t, t.pos = lval.pos, NEW p, Return(t, p)
      PROVE  GapInv'
  <2>1. pc' = "ret" /\ lval' = t /\ IsGap(in, LastEnd, lval.pos)
    BY <1>4 DEF Return, GapInv
  <2> QED
    BY <1>1, <1>4, <2>1, TokenGap
<1>5. ASSUME pc \in TokenLoops, NEW p, NEW id, NEW str, Return(Token(id, lval.pos, str), p)
      PROVE  GapInv'
  <2>1. Token(id, lval.pos, str).pos = lval.pos
    BY DEF Token
  <2> QED
    BY <1>4, <1>5, <2>1
<1>6. ASSUME pc \in TokenLoops, NEW p, Return(Error, p)
      PROVE  GapInv'
  <2>1. Error.pos = lval.pos
    BY <1>2 DEF Error, TokenType
  <2> QED
    BY <1>4, <1>6, <2>1
<1>7. IdentChar \/ IdentEnd => GapInv'
  BY <1>3, <1>5, Zenon DEF IdentChar, IdentEnd, TokenLoops
<1>8. NumberDigit \/ NumberX \/ NumberDot \/ NumberExponent => GapInv'
  BY <1>3, <1>6, Zenon DEF NumberDigit, NumberX, NumberDot, NumberExponent, TokenLoops
<1>9. NumberEnd => GapInv'
  <2>1. NumberEnd => pc \in TokenLoops /\ \E id, str : Return(Token(id, lval.pos, str), pos) \/ Return(Error, pos)
    BY Zenon DEF NumberEnd, TokenLoops
  <2> QED
    BY <1>5, <1>6, <2>1, Zenon
<1>10. PlaceholderDigit \/ PlaceholderEnd => GapInv'
  BY <1>3, <1>5, <1>6, Zenon DEF PlaceholderDigit, PlaceholderEnd, TokenLoops
<1>11. DoubledQuote \/ CloseQuote \/ JointBlank \/ Join \/ StringChar \/ EscapedQuote \/ DropBackslash
         \/ HexStringDigit \/ BitStringDigit => GapInv'
  BY <1>3, Zenon DEF DoubledQuote, CloseQuote, JointBlank, Join, StringChar, EscapedQuote, DropBackslash,
                     HexStringDigit, BitStringDigit, EscapeAhead, InLiteral, TokenLoops
<1>12. StringEof \/ DigitStringError => GapInv'
  BY <1>6, Zenon DEF StringEof, DigitStringError, InLiteral, TokenLoops
<1>13. Escape => GapInv'
  BY <1>3, <1>6, Zenon DEF Escape, EscapeAhead, InLiteral, TokenLoops
<1>14. ASSUME pc \in TokenLoops, NEW valid, NEW p, NEW str, NEW id,
              Return(IF valid THEN Token(id, lval.pos, str) ELSE Error, p)
       PROVE  GapInv'
  BY <1>5, <1>6, <1>14
<1>15. LiteralEnd \/ DollarEnd => GapInv'
  BY <1>6, <1>14, Zenon DEF LiteralEnd, DollarEnd, TokenLoops
<1>16. DollarTag \/ DollarMark \/ DollarChar => GapInv'
  BY <1>3, Zenon DEF DollarTag, DollarMark, DollarChar, TokenLoops
<1>17. DollarEof \/ DollarNoTag => GapInv'
  BY <1>4, <1>6, Zenon DEF DollarEof, DollarNoTag, TokenLoops
<1> QED
  BY <1>7, <1>8, <1>9, <1>10, <1>11, <1>12, <1>13, <1>15, <1>16, <1>17, Zenon

\* A client starts a new gap behind the token it takes.
LEMMA ClientGap ==
  ASSUME CursorInv, TextInv, GapInv, Tokens \/ SplitFirstStatement \/ LastLexicalToken
  PROVE  GapInv'
<1>1. /\ pc = "ret" /\ in' = in /\ pos' = pos /\ lval' = lval /\ pc' \in {"scan", "done"}
      /\ \/ toks' = Taken /\ lval.id # EofId
         \/ toks' = toks /\ lval.id = EofId /\ pc' = "done"
  BY ClientTakes
<1>2. IsGap(in, LastEnd, lval.pos) /\ Alone(lval, pos)
  BY <1>1 DEF GapInv, TextInv
<1>3. in \in Seq(Char) /\ pos \in 0 .. Len(in)
  BY DEF CursorInv, InputInv
<1>4. CASE toks' = toks /\ lval.id = EofId /\ pc' = "done"
  <2>1. NoNul => IsGap(in, LastEnd, pos)
    BY <1>2, <1>4 DEF Alone
  <2>2. NoNul' <=> NoNul
    BY <1>1 DEF NoNul
  <2> QED
    BY <1>1, <1>4, <2>1, <2>2, OldGaps DEF GapInv, TokenLoops
<1>5. CASE toks' = Taken /\ lval.id # EofId
  <2> DEFINE n == Len(toks)
             t == [id |-> lval.id, pos |-> lval.pos, str |-> lval.str, end |-> pos]
  <2>1. /\ n \in Nat /\ Len(Taken) = n + 1 /\ Taken # <<>>
        /\ \A i \in 1 .. n : Taken[i] = toks[i]
        /\ Taken[n + 1] = t
    BY TakenAppends
  <2>2. t.pos = lval.pos /\ t.end = pos
    OBVIOUS
  <2> HIDE DEF t
  <2>3. LastEnd' = pos
    BY <1>5, <2>1, <2>2 DEF LastEnd
  <2>4. IsGap(in, pos, pos)
    BY <1>3, GapNil
  <2>5. ASSUME NEW i \in 1 .. n + 1
        PROVE  IsGap(in, GapStart(i)', Taken[i].pos)
    <3>1. CASE i \in 1 .. n
      <4>1. i - 1 \in 1 .. n \/ i = 1
        BY <3>1
      <4>2. GapStart(i)' = GapStart(i)
        BY <1>5, <2>1, <4>1 DEF GapStart
      <4> QED
        BY <2>1, <3>1, <4>2 DEF GapInv
    <3>2. CASE i = n + 1
      <4>1. toks \in Seq(TakenType)
        BY DEF TextInv, TypesInv
      <4>2. toks = <<>> <=> n = 0
        BY <4>1, EmptySeq
      <4>3. n # 0 => i # 1 /\ i - 1 = n /\ n \in 1 .. n
        BY <2>1, <3>2
      <4>4. n = 0 => i = 1
        BY <3>2
      <4>5. GapStart(i)' = LastEnd
        BY <1>5, <2>1, <4>2, <4>3, <4>4 DEF GapStart, LastEnd
      <4> QED
        BY <1>2, <2>1, <2>2, <3>2, <4>5
    <3> QED
      BY <2>1, <3>1, <3>2
  <2> QED
    BY <1>1, <1>5, <2>1, <2>3, <2>4, <2>5 DEF GapInv, TokenLoops
<1> QED
  BY <1>1, <1>4, <1>5

\* Every step keeps what is between tokens a gap.
LEMMA GapStep ==
  ASSUME CursorInv, TextInv, GapInv, [Next]_vars
  PROVE  GapInv'
<1>1. CASE UNCHANGED vars
  <2>1. UNCHANGED <<client, in, pos, pc, loc, lval, toks, res>>
    BY <1>1 DEF vars
  <2>2. NoNul' <=> NoNul
    BY <2>1 DEF NoNul
  <2> QED
    BY <2>1, <2>2, OldGaps DEF GapInv
<1>2. CASE Next
  BY <1>2, BlankGap, FirstGap, LoopGap, ClientGap, Zenon DEF Next
<1> QED
  BY <1>1, <1>2

LEMMA GapInvariant == Spec => []GapInv
<1>1. Init => GapInv
  <2> SUFFICES ASSUME Init PROVE GapInv
    OBVIOUS
  <2>1. toks = <<>> /\ pc = "scan" /\ pos = 0 /\ LastEnd = 0
    BY DEF Init, LastEnd
  <2>2. in \in Seq(Char) /\ Len(in) \in Nat
    BY InputIs, LenProperties
  <2>3. IsGap(in, 0, 0)
    BY <2>2, GapNil
  <2> QED
    BY <2>1, <2>3 DEF GapInv, TokenLoops
<1>2. CursorInv /\ TextInv /\ GapInv /\ [Next]_vars => GapInv'
  BY GapStep
<1> QED
  BY <1>1, <1>2, CursorInvariant, TextInvariant, PTL DEF Spec

\* The tokens and the gaps between them are the input, cut where it should be: only
\* blanks and whole comments are skipped, a character that is a token of its own is
\* one, a word is as long as it can be and the end is the end, unless a NUL byte is
\* taken for it (scan.go 92-577).
THEOREM InputCutRight == NoNulByte /\ Spec => []TokensCutRight
<1>1. GapInv /\ NoNul => OnlyBlankSkipped
  BY DEF GapInv, OnlyBlankSkipped
<1>2. TextInv => SingleCharTokens
  BY DEF TextInv
<1>3. GapInv /\ TextInv /\ NoNul /\ WordsAreWhole /\ EofAtEnd => TokensCutRight
  BY <1>1, <1>2 DEF TokensCutRight, TokensEndRight
<1> QED
  BY <1>3, GapInvariant, TextInvariant, NoNulStays, WordsTakenWhole, EndIsTheEnd, PTL DEF Spec
=============================================================================
