--------------------------- MODULE ScannerProofs ---------------------------
(***************************************************************************)
(* Proofs about the scanner, for every input and every set of keywords.    *)
(*                                                                         *)
(* CursorInv is inductive: the cursor stays in the input and past the      *)
(* tokens handed out, the start of a token behind the cursor, and the      *)
(* counters of a dollar-quoted string in step with it.  No slice is out of *)
(* bounds then, and each step cuts a span off the input or cuts none: the  *)
(* scanner implements TokenStream.  WordInv adds what the text of a word   *)
(* is, ClientInv which tokens a client has gone on over.                   *)
(***************************************************************************)
EXTENDS Scanner, SequenceTheorems, TLAPS

\* What peek returns past the end is in no class of characters (scan.go 392-405).
LEMMA EofIsNoByte ==
  /\ Eof \notin Digit
  /\ Eof \notin HexDigit
  /\ Eof \notin OctDigit
  /\ Eof \notin Blank
  /\ ~IsIdentMiddle(Eof)
<1>1. Eof \notin Digit
  BY DEF Eof, Digit
<1>2. Eof \notin HexDigit
  BY DEF Eof, HexDigit, Digit
<1>3. Eof \notin OctDigit
  BY <1>1 DEF OctDigit
<1>4. Eof \notin Blank
  BY DEF Eof, Blank
<1>5. Eof \notin Upper
  BY DEF Eof, Upper, UpperSeq
<1>6. Eof \notin Lower
  BY DEF Eof, Lower, LowerSeq
<1>7. Eof \notin HighByte /\ Eof # "_" /\ Eof # "$"
  BY DEF Eof, HighByte, Trail, Lead
<1> QED
  BY <1>1, <1>2, <1>3, <1>4, <1>5, <1>6, <1>7 DEF IsIdentMiddle, IsIdentStart

\* No operator of two or three characters has the end as its last one.
LEMMA OperatorsHaveNoEnd ==
  /\ \A op \in DOMAIN Operator2 : Operator2[op][2] # Eof
  /\ \A op \in DOMAIN Operator3 : Operator3[op][3] # Eof
<1>1. \A op \in DOMAIN Operator2 : Operator2[op][2] # Eof
  BY DEF Operator2, Eof
<1>2. \A op \in DOMAIN Operator3 : Operator3[op][3] # Eof
  BY DEF Operator3, Eof
<1> QED
  BY <1>1, <1>2

\* No escape begins with the end.
LEMMA EscapeCheck ==
  /\ Eof \notin DOMAIN SimpleEscape
  /\ Eof \notin DOMAIN HexEscape
  /\ Eof # "\\"
  BY DEF SimpleEscape, HexEscape, Eof

\* No quote is the end.
LEMMA Quotes == Eof # "\"" /\ Eof # "'"
  BY DEF Eof

-----------------------------------------------------------------------------
\* A sequence over its own elements, whatever they are: an element need not be
\* known to be a token.
IsSequence(s) == s \in Seq({s[i] : i \in 1 .. Len(s)})

\* The input is a sequence of bytes and the cursor is in it or at its end.
InputInv ==
  /\ in \in Seq(Char)
  /\ pos \in 0 .. Len(in)

\* The tokens handed out lie before the cursor.
TokensInv ==
  /\ IsSequence(toks)
  /\ LastEnd \in 0 .. pos
  /\ {"id", "pos"} \subseteq DOMAIN lval
  /\ lval.pos \in Nat

\* In a loop of scan the token began between the last one and the cursor, and
\* before the cursor, so that it is not empty; an identifier that has not moved
\* yet stands before a letter.
LoopInv ==
  /\ pc \in {"scan", "ws", "block", "line", "ret", "done"} \cup TokenLoops
  /\ pc = "block" => loc.start \in LastEnd .. pos - 1
  /\ pc \in TokenLoops =>
       /\ "start" \in DOMAIN loc
       /\ lval.pos \in LastEnd .. pos
       /\ loc.start \in lval.pos .. pos
       /\ pc # "ident" => lval.pos < pos
  /\ pc = "ident" => (lval.pos = pos => IsIdentStart(Peek))
  /\ pc \in {"ident", "number"} => loc.start = lval.pos

\* In a dollar-quoted string: once the tag is known, it and its two dollars lie
\* before the cursor, and a possible closing tag lies behind the opening one
\* (scan.go 898-950).
DollarInv ==
  pc = "dollar" =>
    /\ {"found", "possible", "index", "tag"} \subseteq DOMAIN loc
    /\ loc.start = lval.pos + 1
    /\ loc.found => Len(loc.tag) \in Nat /\ loc.start + Len(loc.tag) + 1 <= pos
    /\ loc.possible =>
         /\ loc.found
         /\ loc.index \in 0 .. Len(loc.tag)
         /\ loc.start + Len(loc.tag) + 1 <= pos - loc.index - 1

\* The end is not taken for a closing quote (scan.go 798).
QuoteInv == pc \in {"literal", "joint"} => loc.quote # Eof

\* A token scan returns is not empty, unless it is the end.
ReturnInv == pc = "ret" /\ lval.id # EofId => lval.pos \in LastEnd .. pos - 1

\* Where the cursor is, at every step of scan.
CursorInv == InputInv /\ TokensInv /\ LoopInv /\ DollarInv /\ QuoteInv /\ ReturnInv

\* A character seen ahead is a character of the input.
LEMMA PeekBounds ==
  ASSUME InputInv, NEW n \in Nat
  PROVE  /\ PeekN(n) # Eof => pos + n + 1 <= Len(in)
         /\ PeekN(n) # Eof => pos + n < Len(in)
<1>1. Len(in) \in Nat
  BY LenProperties DEF InputInv
<1> QED
  BY <1>1 DEF InputInv, PeekN

\* The end of the last token is a function of the tokens.
LEMMA SameLastEnd ==
  ASSUME toks' = toks
  PROVE  LastEnd' = LastEnd
  BY DEF LastEnd

\* The cursor may move anywhere within the input.
LEMMA GoKeepsInput ==
  ASSUME CursorInv, NEW p, p \in 0 .. Len(in), pos' = p, in' = in
  PROVE  InputInv'
  BY DEF CursorInv, InputInv

\* Returning a nonempty token, or the end, keeps the invariant.
LEMMA ReturnKeeps ==
  ASSUME CursorInv, NEW t, NEW p, Return(t, p),
         p \in LastEnd .. Len(in),
         {"id", "pos"} \subseteq DOMAIN t, t.pos \in Nat,
         t.id # EofId => t.pos \in LastEnd .. p - 1
  PROVE  CursorInv'
<1>1. LastEnd' = LastEnd
  BY SameLastEnd DEF Return
<1>2. Len(in) \in Nat /\ LastEnd \in Nat
  BY LenProperties DEF CursorInv, InputInv, TokensInv
<1>3. p \in Nat /\ p \in 0 .. Len(in)
  BY <1>2
<1>4. InputInv'
  BY <1>3, GoKeepsInput DEF Return
<1>5. IsSequence(toks)'
  BY DEF Return, IsSequence, CursorInv, TokensInv
<1>6. TokensInv'
  BY <1>1, <1>2, <1>3, <1>5 DEF Return, TokensInv
<1>7. LoopInv'
  BY DEF Return, LoopInv, TokenLoops
<1>8. DollarInv' /\ QuoteInv'
  BY DEF Return, DollarInv, QuoteInv
<1>9. ReturnInv'
  BY <1>1 DEF Return, ReturnInv
<1> QED
  BY <1>4, <1>6, <1>7, <1>8, <1>9 DEF CursorInv

\* So does skipping what is no token.
LEMMA SkipKeeps ==
  ASSUME CursorInv, NEW p, p \in LastEnd .. Len(in), pos' = p, in' = in, toks' = toks,
         {"id", "pos"} \subseteq DOMAIN lval', lval'.pos \in Nat,
         pc' \in {"scan", "ws", "line", "block"},
         pc' = "block" => loc'.start \in LastEnd .. p - 1
  PROVE  CursorInv'
<1>1. LastEnd' = LastEnd
  BY SameLastEnd
<1>2. Len(in) \in Nat /\ LastEnd \in Nat
  BY LenProperties DEF CursorInv, InputInv, TokensInv
<1>3. p \in Nat /\ p \in 0 .. Len(in)
  BY <1>2
<1>4. InputInv'
  BY <1>3, GoKeepsInput
<1>5. IsSequence(toks)'
  BY DEF IsSequence, CursorInv, TokensInv
<1>6. TokensInv'
  BY <1>1, <1>2, <1>3, <1>5 DEF TokensInv, CursorInv
<1>7. LoopInv'
  BY <1>1 DEF LoopInv, TokenLoops
<1>8. DollarInv' /\ QuoteInv' /\ ReturnInv'
  BY DEF DollarInv, QuoteInv, ReturnInv
<1> QED
  BY <1>4, <1>6, <1>7, <1>8 DEF CursorInv

\* So does a loop that keeps what LoopInv, DollarInv and QuoteInv say of it.
LEMMA LoopKeeps ==
  ASSUME CursorInv, NEW p, p \in LastEnd .. Len(in), pos' = p, in' = in, toks' = toks,
         {"id", "pos"} \subseteq DOMAIN lval', lval'.pos \in Nat,
         pc' \in TokenLoops, LoopInv', DollarInv', QuoteInv'
  PROVE  CursorInv'
<1>1. LastEnd' = LastEnd
  BY SameLastEnd
<1>2. Len(in) \in Nat /\ LastEnd \in Nat
  BY LenProperties DEF CursorInv, InputInv, TokensInv
<1>3. p \in Nat /\ p \in 0 .. Len(in)
  BY <1>2
<1>4. InputInv'
  BY <1>3, GoKeepsInput
<1>5. IsSequence(toks)'
  BY DEF IsSequence, CursorInv, TokensInv
<1>6. TokensInv'
  BY <1>1, <1>2, <1>3, <1>5 DEF TokensInv
<1>7. ReturnInv'
  BY DEF ReturnInv, TokenLoops
<1> QED
  BY <1>4, <1>6, <1>7 DEF CursorInv

\* A loop of a literal, a number, a placeholder: neither a word nor a dollar.
LEMMA GoKeeps ==
  ASSUME CursorInv, NEW p, NEW l, p \in pos .. Len(in), pos' = p, loc' = l, in' = in, toks' = toks,
         lval' = lval, pc \in {"number", "placeholder", "literal", "joint"},
         pc' \in {"number", "placeholder", "literal", "joint"},
         pc' = "number" => pc = "number",
         "start" \in DOMAIN l, l.start \in loc.start .. p,
         pc = "number" => l.start = loc.start,
         pc \in {"literal", "joint"} => l.quote # Eof,
         pc' \in {"literal", "joint"} => pc \in {"literal", "joint"}
  PROVE  CursorInv'
<1>1. LastEnd' = LastEnd
  BY SameLastEnd
<1>2. Len(in) \in Nat /\ LastEnd \in Nat /\ pos \in Nat /\ LastEnd <= pos
  BY LenProperties DEF CursorInv, InputInv, TokensInv
<1>3. /\ lval.pos \in LastEnd .. pos
      /\ lval.pos < pos
      /\ loc.start \in lval.pos .. pos
      /\ pc = "number" => loc.start = lval.pos
  BY DEF CursorInv, LoopInv, TokenLoops
<1>4. lval.pos \in Nat /\ loc.start \in Nat /\ p \in Nat
  BY <1>2, <1>3
<1>5. /\ p \in LastEnd .. Len(in)
      /\ lval.pos \in LastEnd .. p
      /\ lval.pos < p
      /\ l.start \in lval.pos .. p
  BY <1>2, <1>3, <1>4
<1>6. LoopInv'
  BY <1>1, <1>3, <1>5 DEF LoopInv, TokenLoops
<1>7. DollarInv' /\ QuoteInv'
  BY DEF DollarInv, QuoteInv
<1>8. {"id", "pos"} \subseteq DOMAIN lval' /\ lval'.pos \in Nat
  BY DEF CursorInv, TokensInv
<1> QED
  BY <1>5, <1>6, <1>7, <1>8, LoopKeeps DEF TokenLoops

\* So does a loop that returns the token it has read.
LEMMA TokenKeeps ==
  ASSUME CursorInv, pc \in TokenLoops,
         NEW p, p \in pos .. Len(in), lval.pos < p,
         NEW t, t = Error \/ \E id, str : t = Token(id, lval.pos, str),
         Return(t, p)
  PROVE  CursorInv'
<1>1. /\ Len(in) \in Nat /\ LastEnd \in Nat /\ pos \in Nat /\ LastEnd <= pos
      /\ {"id", "pos"} \subseteq DOMAIN lval
      /\ lval.pos \in Nat
  BY LenProperties DEF CursorInv, InputInv, TokensInv
<1>2. lval.pos \in LastEnd .. pos
  BY DEF CursorInv, LoopInv
<1>3. {"id", "pos"} \subseteq DOMAIN t /\ t.pos = lval.pos
  <2>1. CASE t = Error
    BY <1>1, <2>1 DEF Error
  <2>2. CASE \E id, str : t = Token(id, lval.pos, str)
    BY <2>2 DEF Token
  <2> QED
    BY <2>1, <2>2
<1>4. p \in LastEnd .. Len(in) /\ t.pos \in Nat /\ t.pos \in LastEnd .. p - 1
  BY <1>1, <1>2, <1>3
<1> QED
  BY <1>3, <1>4, ReturnKeeps

\* So does the first character of a number, a placeholder or a literal.
LEMMA BeginKeeps ==
  ASSUME CursorInv, pc = "ws", NEW to, NEW p, NEW l, Begin(to, p, l),
         to \in {"number", "placeholder", "literal"},
         p \in pos + 1 .. Len(in), "start" \in DOMAIN l, l.start \in pos .. p,
         to = "number" => l.start = pos,
         to = "literal" => l.quote # Eof
  PROVE  CursorInv'
<1>1. Len(in) \in Nat /\ LastEnd \in Nat /\ pos \in Nat /\ LastEnd <= pos
  BY LenProperties DEF CursorInv, InputInv, TokensInv
<1>2. {"id", "pos"} \subseteq DOMAIN lval' /\ lval'.pos = pos
  BY DEF Begin, Here, Token
<1>3. LastEnd' = LastEnd
  BY SameLastEnd DEF Begin
<1>4. LoopInv'
  BY <1>1, <1>2, <1>3 DEF Begin, LoopInv, TokenLoops
<1>5. DollarInv' /\ QuoteInv'
  BY DEF DollarInv, QuoteInv, Begin
<1>6. p \in LastEnd .. Len(in)
  BY <1>1
<1> QED
  BY <1>1, <1>2, <1>4, <1>5, <1>6, LoopKeeps DEF Begin, TokenLoops

\* What CursorInv says in numbers.
LEMMA CursorFacts ==
  ASSUME CursorInv
  PROVE  /\ Len(in) \in Nat /\ pos \in Nat /\ LastEnd \in Nat /\ lval.pos \in Nat
         /\ LastEnd <= pos /\ pos <= Len(in)
         /\ {"id", "pos"} \subseteq DOMAIN lval
         /\ Peek # Eof => pos + 1 <= Len(in)
         /\ PeekN(1) # Eof => pos + 2 <= Len(in)
         /\ PeekN(2) # Eof => pos + 3 <= Len(in)
<1>1. InputInv /\ TokensInv
  BY DEF CursorInv
<1>2. Len(in) \in Nat /\ pos \in Nat /\ LastEnd \in Nat /\ LastEnd <= pos /\ pos <= Len(in)
  BY <1>1, LenProperties DEF InputInv, TokensInv
<1>3. (Peek # Eof => pos + 0 + 1 <= Len(in)) /\ (PeekN(1) # Eof => pos + 1 + 1 <= Len(in))
      /\ (PeekN(2) # Eof => pos + 2 + 1 <= Len(in))
  BY <1>1, PeekBounds DEF Peek
<1> QED
  BY <1>1, <1>2, <1>3 DEF TokensInv

\* Blanks and comments (scan.go 415-495).
LEMMA BlanksSkipped ==
  ASSUME CursorInv,
         Scan \/ SkipBlank \/ EnterBlockComment \/ EnterLineComment \/ CloseBlock \/ OpenBlock
           \/ BlockChar \/ LineChar
  PROVE  CursorInv'
<1>1. /\ Len(in) \in Nat /\ pos \in Nat /\ LastEnd \in Nat /\ lval.pos \in Nat
      /\ LastEnd <= pos /\ pos <= Len(in)
      /\ {"id", "pos"} \subseteq DOMAIN lval
      /\ Peek # Eof => pos + 1 <= Len(in)
      /\ PeekN(1) # Eof => pos + 2 <= Len(in)
  BY CursorFacts
<1>2. pc = "block" => loc.start \in LastEnd .. pos - 1
  BY DEF CursorInv, LoopInv
<1>3. CASE Scan
  <2>1. {"id", "pos"} \subseteq DOMAIN lval' /\ lval'.pos = pos
    BY <1>3 DEF Scan, Token
  <2> QED
    BY <1>1, <1>3, <2>1, SkipKeeps DEF Scan
<1>4. CASE SkipBlank
  <2>1. pos + 1 \in LastEnd .. Len(in)
    BY <1>1, <1>4, EofIsNoByte DEF SkipBlank
  <2> QED
    BY <1>1, <1>4, <2>1, SkipKeeps DEF SkipBlank, Go
<1>5. CASE EnterBlockComment
  <2>1. pos + 2 \in LastEnd .. Len(in) /\ pos \in LastEnd .. (pos + 2) - 1
    BY <1>1, <1>5 DEF EnterBlockComment, BlockCommentAhead, Eof
  <2>2. loc'.start = pos
    BY <1>5 DEF EnterBlockComment, Enter
  <2> QED
    BY <1>1, <1>5, <2>1, <2>2, SkipKeeps DEF EnterBlockComment, Enter
<1>6. CASE EnterLineComment
  <2>1. pos + 1 \in LastEnd .. Len(in)
    BY <1>1, <1>6 DEF EnterLineComment, LineCommentAhead, Eof
  <2> QED
    BY <1>1, <1>6, <2>1, SkipKeeps DEF EnterLineComment, Enter
<1>7. CASE CloseBlock
  <2>1. pos + 2 \in LastEnd .. Len(in)
    BY <1>1, <1>7 DEF CloseBlock, Eof
  <2>2. pos' = pos + 2 /\ in' = in /\ toks' = toks /\ lval' = lval
    BY <1>7 DEF CloseBlock, Enter, Go
  <2>3. pc' = "ws" \/ (pc' = "block" /\ loc'.start = loc.start)
    <3>1. CASE loc.depth = 1
      BY <1>7, <3>1 DEF CloseBlock, Enter
    <3>2. CASE loc.depth # 1
      <4>1. pc' = "block" /\ loc' = [loc EXCEPT !.depth = loc.depth - 1]
        BY <1>7, <3>2 DEF CloseBlock, Go
      <4> QED
        BY <4>1
    <3> QED
      BY <3>1, <3>2
  <2>4. pc' = "block" => loc'.start \in LastEnd .. (pos + 2) - 1
    BY <1>1, <1>2, <1>7, <2>3 DEF CloseBlock
  <2> QED
    BY <1>1, <2>1, <2>2, <2>3, <2>4, SkipKeeps
<1>8. CASE OpenBlock
  <2>1. pos + 2 \in LastEnd .. Len(in)
    BY <1>1, <1>8 DEF OpenBlock, BlockCommentAhead, Eof
  <2>2. /\ pos' = pos + 2 /\ in' = in /\ toks' = toks /\ lval' = lval /\ pc' = "block"
        /\ loc' = [loc EXCEPT !.depth = loc.depth + 1] /\ pc = "block"
    BY <1>8 DEF OpenBlock, Go
  <2>3. loc'.start = loc.start
    BY <2>2
  <2>4. loc'.start \in LastEnd .. (pos + 2) - 1
    BY <1>1, <1>2, <2>2, <2>3
  <2> QED
    BY <1>1, <2>1, <2>2, <2>4, SkipKeeps
<1>9. CASE BlockChar
  <2>1. pos + 1 \in LastEnd .. Len(in)
    BY <1>1, <1>9 DEF BlockChar
  <2>2. loc.start \in LastEnd .. (pos + 1) - 1
    BY <1>1, <1>2, <1>9 DEF BlockChar
  <2> QED
    BY <1>1, <1>9, <2>1, <2>2, SkipKeeps DEF BlockChar, Go
<1>10. CASE LineChar
  <2>1. /\ in' = in /\ toks' = toks /\ lval' = lval /\ pc' \in {"ws", "line"}
        /\ pos' = pos \/ (Peek # Eof /\ pos' = pos + 1)
    <3>1. CASE Peek = Eof
      BY <1>10, <3>1 DEF LineChar, Enter, Eof
    <3>2. CASE Peek = "\n"
      BY <1>10, <3>2 DEF LineChar, Enter, Eof
    <3>3. CASE Peek # Eof /\ Peek # "\n"
      BY <1>10, <3>3 DEF LineChar, Go
    <3> QED
      BY <3>1, <3>2, <3>3
  <2>2. pos' \in LastEnd .. Len(in)
    BY <1>1, <2>1
  <2> QED
    BY <1>1, <2>1, <2>2, SkipKeeps
<1> QED
  BY <1>3, <1>4, <1>5, <1>6, <1>7, <1>8, <1>9, <1>10

\* The tokens that need no loop: the end, an unterminated comment, operators and
\* single characters (scan.go 101-105, 189-390, 471-475).
LEMMA TokensFound ==
  ASSUME CursorInv, BlockEof \/ ScanEof \/ ScanOperator \/ ScanSingle
  PROVE  CursorInv'
<1>1. /\ Len(in) \in Nat /\ pos \in Nat /\ LastEnd \in Nat /\ lval.pos \in Nat
      /\ LastEnd <= pos /\ pos <= Len(in)
      /\ Peek # Eof => pos + 1 <= Len(in)
      /\ PeekN(1) # Eof => pos + 2 <= Len(in)
      /\ PeekN(2) # Eof => pos + 3 <= Len(in)
  BY CursorFacts
<1>2. ASSUME NEW id, NEW str, NEW p, p \in pos + 1 .. Len(in), Return(Token(id, pos, str), p)
      PROVE  CursorInv'
  <2> DEFINE t == Token(id, pos, str)
  <2>1. {"id", "pos"} \subseteq DOMAIN t /\ t.pos = pos
    BY DEF Token
  <2>2. p \in LastEnd .. Len(in) /\ t.pos \in LastEnd .. p - 1
    BY <1>1, <1>2, <2>1
  <2> QED
    BY <1>1, <1>2, <2>1, <2>2, ReturnKeeps
<1>3. CASE BlockEof
  <2>1. loc.start \in LastEnd .. pos - 1
    BY <1>3 DEF BlockEof, CursorInv, LoopInv
  <2> DEFINE t == Token("ERROR", loc.start, <<>>)
  <2>2. {"id", "pos"} \subseteq DOMAIN t /\ t.pos = loc.start
    BY DEF Token
  <2>3. pos \in LastEnd .. Len(in) /\ t.pos \in Nat
    BY <1>1, <2>1, <2>2
  <2>4. Return(t, pos)
    BY <1>3 DEF BlockEof
  <2> QED
    BY <2>1, <2>2, <2>3, <2>4, ReturnKeeps
<1>4. CASE ScanEof
  <2> DEFINE t == Token(EofId, pos, <<>>)
  <2>1. {"id", "pos"} \subseteq DOMAIN t /\ t.pos = pos /\ t.id = EofId
    BY DEF Token
  <2>2. Return(t, pos)
    BY <1>4 DEF ScanEof
  <2> QED
    BY <1>1, <2>1, <2>2, ReturnKeeps
<1>5. CASE ScanOperator
  <2>1. CASE \E op \in DOMAIN Operator3 :
               Operator3[op] = Ahead3 /\ Return(Token(op, pos, <<Peek>>), pos + 3)
    <3>1. PICK op \in DOMAIN Operator3 :
            Operator3[op] = Ahead3 /\ Return(Token(op, pos, <<Peek>>), pos + 3)
      BY <2>1
    <3>2. PeekN(2) # Eof
      BY <3>1, OperatorsHaveNoEnd DEF Ahead3
    <3> QED
      BY <1>1, <1>2, <3>1, <3>2
  <2>2. CASE \E op \in DOMAIN Operator2 :
               Operator2[op] = Ahead2 /\ Return(Token(OperatorId(op), pos, <<Peek>>), pos + 2)
    <3>1. PICK op \in DOMAIN Operator2 :
            Operator2[op] = Ahead2 /\ Return(Token(OperatorId(op), pos, <<Peek>>), pos + 2)
      BY <2>2
    <3>2. PeekN(1) # Eof
      BY <3>1, OperatorsHaveNoEnd DEF Ahead2
    <3> QED
      BY <1>1, <1>2, <3>1, <3>2
  <2> QED
    BY <1>5, <2>1, <2>2, Zenon DEF ScanOperator
<1>6. CASE ScanSingle
  <2>1. Peek # Eof /\ Return(Token(Peek, pos, <<Peek>>), pos + 1)
    BY <1>6, Zenon DEF ScanSingle, Here
  <2>2. pos + 1 \in pos + 1 .. Len(in)
    BY <1>1, <2>1
  <2> QED
    BY <1>2, <2>1, <2>2
<1> QED
  BY <1>3, <1>4, <1>5, <1>6

\* The first character of a number, a placeholder or a literal (scan.go 112-187,
\* 377-381).
LEMMA LoopsBegin ==
  ASSUME CursorInv, BeginNumber \/ BeginPlaceholder \/ BeginQuoted \/ BeginPrefixed
  PROVE  CursorInv'
<1>1. /\ Len(in) \in Nat /\ pos \in Nat
      /\ Peek # Eof => pos + 1 <= Len(in)
      /\ PeekN(1) # Eof => pos + 2 <= Len(in)
  BY CursorFacts
<1>2. CASE BeginNumber
  <2>1. pc = "ws" /\ Begin("number", pos + 1, NumberLoc(Peek = "."))
    BY <1>2 DEF BeginNumber, AtToken
  <2>2. "start" \in DOMAIN NumberLoc(Peek = ".") /\ NumberLoc(Peek = ".").start = pos
    BY DEF NumberLoc
  <2>3. Peek # Eof
    BY <1>2, EofIsNoByte DEF BeginNumber, Eof
  <2> QED
    BY <1>1, <2>1, <2>2, <2>3, BeginKeeps
<1>3. CASE BeginPlaceholder
  <2> DEFINE l == [start |-> pos + 1]
  <2>1. pc = "ws" /\ Begin("placeholder", pos + 1, l) /\ Peek # Eof
    BY <1>3, EofIsNoByte DEF BeginPlaceholder, AtToken, Eof
  <2>2. "start" \in DOMAIN l /\ l.start = pos + 1
    OBVIOUS
  <2> QED
    BY <1>1, <2>1, <2>2, BeginKeeps
<1>4. ASSUME NEW kind, NEW id, NEW quote, quote # Eof, NEW escapes, NEW utf8, NEW p, p \in pos + 1 .. Len(in),
             pc = "ws", Begin("literal", p, LiteralLoc(kind, id, quote, escapes, utf8, p))
      PROVE  CursorInv'
  <2> DEFINE l == LiteralLoc(kind, id, quote, escapes, utf8, p)
  <2>1. "start" \in DOMAIN l /\ l.start = p /\ l.quote = quote
    BY DEF LiteralLoc
  <2>2. l.start \in pos .. p
    BY <1>1, <1>4, <2>1
  <2> QED
    BY <1>4, <2>1, <2>2, BeginKeeps
<1>5. CASE BeginQuoted
  <2>1. pc = "ws"
    BY <1>5 DEF BeginQuoted, AtToken
  <2>2. Peek # Eof
    BY <1>5, Quotes, Zenon DEF BeginQuoted
  <2>3. pos + 1 \in pos + 1 .. Len(in)
    BY <1>1, <2>2
  <2> QED
    BY <1>4, <1>5, <2>1, <2>3, Quotes, Zenon DEF BeginQuoted
<1>6. CASE BeginPrefixed
  <2>1. pc = "ws"
    BY <1>6 DEF BeginPrefixed, AtToken
  <2>2. PeekN(1) # Eof
    BY <1>6, Quotes, Zenon DEF BeginPrefixed
  <2>3. pos + 2 \in pos + 1 .. Len(in)
    BY <1>1, <2>2
  <2> QED
    BY <1>4, <1>6, <2>1, <2>3, Quotes, Zenon DEF BeginPrefixed
<1> QED
  BY <1>2, <1>3, <1>5, <1>6

\* Identifiers and keywords (scan.go 497-577).
LEMMA WordScanned ==
  ASSUME CursorInv, BeginIdent \/ IdentChar \/ IdentEnd
  PROVE  CursorInv'
<1>1. /\ Len(in) \in Nat /\ pos \in Nat /\ LastEnd \in Nat /\ lval.pos \in Nat
      /\ LastEnd <= pos /\ pos <= Len(in)
      /\ {"id", "pos"} \subseteq DOMAIN lval
      /\ Peek # Eof => pos + 1 <= Len(in)
  BY CursorFacts
<1>2. CASE BeginIdent
  <2>1. /\ in' = in /\ toks' = toks /\ pos' = pos /\ pc' = "ident" /\ IsIdentStart(Peek)
        /\ lval' = Token(Peek, pos, <<Peek>>)
        /\ loc' = [start |-> pos, isASCII |-> TRUE, isLower |-> TRUE]
    BY <1>2, Zenon DEF BeginIdent, Begin, Here
  <2>2. "start" \in DOMAIN loc' /\ loc'.start = pos
    BY <2>1
  <2>3. {"id", "pos"} \subseteq DOMAIN lval' /\ lval'.pos = pos
    BY <2>1 DEF Token
  <2>4. Peek' = Peek
    BY <2>1 DEF Peek, PeekN
  <2>5. LastEnd' = LastEnd
    BY <2>1, SameLastEnd
  <2>6. LoopInv'
    BY <1>1, <2>1, <2>2, <2>3, <2>4, <2>5 DEF LoopInv, TokenLoops
  <2>7. DollarInv' /\ QuoteInv'
    BY <2>1 DEF DollarInv, QuoteInv
  <2> QED
    BY <1>1, <2>1, <2>3, <2>6, <2>7, LoopKeeps DEF TokenLoops
<1>3. /\ pc = "ident" => /\ "start" \in DOMAIN loc
                         /\ lval.pos \in LastEnd .. pos
                         /\ loc.start = lval.pos
                         /\ lval.pos = pos => IsIdentStart(Peek)
  BY DEF CursorInv, LoopInv, TokenLoops
<1>4. CASE IdentChar
  <2>1. /\ in' = in /\ toks' = toks /\ pos' = pos + 1 /\ pc' = "ident" /\ pc = "ident" /\ lval' = lval
        /\ loc' = [loc EXCEPT !.isASCII = @ /\ Peek \notin HighByte,
                              !.isLower = @ /\ Peek \notin Upper]
    BY <1>4, Zenon DEF IdentChar, Go
  <2>2. Peek # Eof
    BY <1>4, EofIsNoByte DEF IdentChar
  <2>3. "start" \in DOMAIN loc' /\ loc'.start = loc.start
    BY <1>3, <2>1
  <2>4. LastEnd' = LastEnd
    BY <2>1, SameLastEnd
  <2>5. pos + 1 \in LastEnd .. Len(in) /\ lval.pos \in LastEnd .. pos + 1 /\ lval.pos # pos + 1
    BY <1>1, <1>3, <2>1, <2>2
  <2>6. LoopInv'
    BY <1>1, <1>3, <2>1, <2>3, <2>4, <2>5 DEF LoopInv, TokenLoops
  <2>7. DollarInv' /\ QuoteInv'
    BY <2>1 DEF DollarInv, QuoteInv
  <2> QED
    BY <1>1, <2>1, <2>5, <2>6, <2>7, LoopKeeps DEF TokenLoops
<1>5. CASE IdentEnd
  <2>1. pc = "ident" /\ ~IsIdentMiddle(Peek)
    BY <1>5 DEF IdentEnd
  <2>2. lval.pos < pos
    BY <1>1, <1>3, <2>1 DEF IsIdentMiddle
  <2>3. PICK id, str : Return(Token(id, lval.pos, str), pos)
    BY <1>5, Zenon DEF IdentEnd
  <2>4. pos \in pos .. Len(in)
    BY <1>1
  <2> QED
    BY <2>1, <2>2, <2>3, <2>4, TokenKeeps DEF TokenLoops
<1> QED
  BY <1>2, <1>4, <1>5

\* A loop of a number, a placeholder or a literal has its token's start
\* behind it.
LEMMA LoopFacts ==
  ASSUME CursorInv, pc \in {"number", "placeholder", "literal", "joint"}
  PROVE  /\ Len(in) \in Nat /\ pos \in Nat /\ lval.pos \in Nat /\ loc.start \in Nat
         /\ lval.pos < pos /\ pos <= Len(in) /\ loc.start <= pos
         /\ "start" \in DOMAIN loc
         /\ pos \in pos .. Len(in)
         /\ Peek # Eof => pos + 1 \in pos .. Len(in) /\ lval.pos < pos + 1
         /\ PeekN(1) # Eof => pos + 2 \in pos .. Len(in) /\ lval.pos < pos + 2
         /\ PeekN(2) # Eof => pos + 3 \in pos .. Len(in)
         /\ Peek # Eof => loc.start \in loc.start .. pos + 1
         /\ Peek # Eof => pos + 1 \in loc.start .. pos + 1
         /\ PeekN(1) # Eof => loc.start \in loc.start .. pos + 2
<1>1. /\ Len(in) \in Nat /\ pos \in Nat /\ LastEnd \in Nat /\ lval.pos \in Nat
      /\ LastEnd <= pos /\ pos <= Len(in)
      /\ Peek # Eof => pos + 1 <= Len(in)
      /\ PeekN(1) # Eof => pos + 2 <= Len(in)
      /\ PeekN(2) # Eof => pos + 3 <= Len(in)
  BY CursorFacts
<1>2. /\ lval.pos < pos
      /\ loc.start \in lval.pos .. pos
      /\ "start" \in DOMAIN loc
  BY DEF CursorInv, LoopInv, TokenLoops
<1> QED
  BY <1>1, <1>2

\* Numbers and placeholders (scan.go 579-692).
LEMMA NumberScanned ==
  ASSUME CursorInv,
         NumberDigit \/ NumberX \/ NumberDot \/ NumberExponent \/ NumberEnd
           \/ PlaceholderDigit \/ PlaceholderEnd
  PROVE  CursorInv'
<1>1. pc \in {"number", "placeholder"}
  BY Zenon DEF NumberDigit, NumberX, NumberDot, NumberExponent, NumberEnd, PlaceholderDigit,
               PlaceholderEnd
<1>2. /\ Len(in) \in Nat /\ pos \in Nat /\ lval.pos \in Nat /\ loc.start \in Nat
      /\ lval.pos < pos
      /\ "start" \in DOMAIN loc
      /\ pos \in pos .. Len(in)
      /\ Peek # Eof => pos + 1 \in pos .. Len(in) /\ lval.pos < pos + 1
      /\ PeekN(1) # Eof => pos + 2 \in pos .. Len(in) /\ lval.pos < pos + 2
  BY <1>1, LoopFacts
<1>3. ASSUME NEW p, p \in pos .. Len(in), NEW l, Go(p, l), "start" \in DOMAIN l, l.start = loc.start
      PROVE  CursorInv'
  <2>1. l.start \in loc.start .. p
    BY <1>1, <1>3, LoopFacts
  <2> QED
    BY <1>1, <1>3, <2>1, GoKeeps DEF Go
<1>4. ASSUME NEW p, p \in pos .. Len(in), NEW t, Return(t, p),
             t = Error \/ \E id, str : t = Token(id, lval.pos, str)
      PROVE  CursorInv'
  <2>1. lval.pos < p
    BY <1>2, <1>4
  <2> QED
    BY <1>1, <1>4, <2>1, TokenKeeps DEF TokenLoops
<1>5. CASE NumberDigit
  <2>1. Peek # Eof /\ Go(pos + 1, loc)
    BY <1>5, EofIsNoByte DEF NumberDigit
  <2> QED
    BY <1>2, <1>3, <2>1
<1>6. CASE NumberX
  <2>1. Peek # Eof
    BY <1>6 DEF NumberX, Eof
  <2>2. Return(Error, pos) \/ Go(pos + 1, [loc EXCEPT !.isHex = TRUE])
    BY <1>6, Zenon DEF NumberX
  <2>3. "start" \in DOMAIN [loc EXCEPT !.isHex = TRUE] /\ [loc EXCEPT !.isHex = TRUE].start = loc.start
    BY <1>2
  <2> QED
    BY <1>2, <1>3, <1>4, <2>1, <2>2, <2>3
<1>7. CASE NumberDot
  <2>1. Peek # Eof /\ Go(pos + 1, [loc EXCEPT !.hasDecimal = TRUE])
    BY <1>7 DEF NumberDot, DotAhead, Eof
  <2>2. /\ "start" \in DOMAIN [loc EXCEPT !.hasDecimal = TRUE]
        /\ [loc EXCEPT !.hasDecimal = TRUE].start = loc.start
    BY <1>2
  <2> QED
    BY <1>2, <1>3, <2>1, <2>2
<1>8. CASE NumberExponent
  <2> DEFINE sign == IF PeekN(1) \in {"-", "+"} THEN 1 ELSE 0
  <2>1. Peek # Eof
    BY <1>8 DEF NumberExponent, Eof
  <2>2. pos + 1 + sign \in pos .. Len(in)
    <3>1. CASE PeekN(1) \in {"-", "+"}
      BY <1>2, <3>1 DEF Eof
    <3>2. CASE PeekN(1) \notin {"-", "+"}
      BY <1>2, <2>1, <3>2
    <3> QED
      BY <3>1, <3>2
  <2>3. \/ Return(Error, pos + 1 + sign)
        \/ Go(pos + 1 + sign, [loc EXCEPT !.hasExponent = TRUE])
    BY <1>8, Zenon DEF NumberExponent
  <2>4. /\ "start" \in DOMAIN [loc EXCEPT !.hasExponent = TRUE]
        /\ [loc EXCEPT !.hasExponent = TRUE].start = loc.start
    BY <1>2
  <2> HIDE DEF sign
  <2> QED
    BY <1>3, <1>4, <2>2, <2>3, <2>4
<1>9. CASE NumberEnd
  <2> DEFINE text == Text(loc.start, pos)
  <2>1. \/ Return(Token("FCONST", lval.pos, text), pos)
        \/ Return(Error, pos)
        \/ Return(Token("ICONST", lval.pos, text), pos)
        \/ Return(Token("ICONST", lval.pos, TrimZeros(text)), pos)
    <3>1. CASE loc.hasDecimal \/ loc.hasExponent
      BY <1>9, <3>1, Zenon DEF NumberEnd
    <3>2. CASE ~(loc.hasDecimal \/ loc.hasExponent) /\ loc.isHex
      BY <1>9, <3>2, Zenon DEF NumberEnd
    <3>3. CASE ~(loc.hasDecimal \/ loc.hasExponent) /\ ~loc.isHex
      BY <1>9, <3>3, Zenon DEF NumberEnd
    <3> QED
      BY <3>1, <3>2, <3>3, Zenon
  <2> QED
    BY <1>2, <1>4, <2>1, Zenon
<1>10. CASE PlaceholderDigit
  <2>1. Peek # Eof /\ Go(pos + 1, loc)
    BY <1>10, EofIsNoByte DEF PlaceholderDigit
  <2> QED
    BY <1>2, <1>3, <2>1
<1>11. CASE PlaceholderEnd
  <2>1. \/ Return(Error, pos)
        \/ Return(Token("PLACEHOLDER", lval.pos, Text(loc.start, pos)), pos)
    BY <1>11, Zenon DEF PlaceholderEnd
  <2> QED
    BY <1>2, <1>4, <2>1, Zenon
<1> QED
  BY <1>5, <1>6, <1>7, <1>8, <1>9, <1>10, <1>11

\* An escape sequence ends within the input (strconv.UnquoteChar).
LEMMA EscapesFit ==
  ASSUME CursorInv, NEW n \in EscapeLength, NEW bytes, Unquotes(n, bytes)
  PROVE  pos + 1 + n <= Len(in)
<1> DEFINE t == PeekN(1)
<1>1. InputInv
  BY DEF CursorInv
<1>2. /\ Len(in) \in Nat /\ pos \in Nat
      /\ PeekN(1) # Eof => pos + 2 <= Len(in)
  BY CursorFacts
<1>3. PeekN(3) # Eof => pos + 3 + 1 <= Len(in)
  BY <1>1, PeekBounds
<1>4. CASE n = 1 /\ (t = "\\" \/ t \in DOMAIN SimpleEscape)
  <2>1. PeekN(1) # Eof
    BY <1>4, EscapeCheck
  <2> QED
    BY <1>2, <1>4, <2>1
<1>5. CASE n = 3 /\ {PeekN(2), PeekN(3)} \subseteq OctDigit
  <2>1. PeekN(3) # Eof
    BY <1>5, EofIsNoByte
  <2> QED
    BY <1>2, <1>3, <1>5, <2>1
<1>6. CASE /\ t \in DOMAIN HexEscape /\ n = 1 + HexEscape[t]
           /\ \A i \in 1 .. HexEscape[t] : PeekN(1 + i) \in HexDigit
  <2> DEFINE k == HexEscape[t]
  <2>1. k \in Nat /\ k \in 1 .. k
    BY <1>6 DEF HexEscape
  <2> HIDE DEF k
  <2>2. PeekN(1 + k) # Eof
    BY <1>6, <2>1, EofIsNoByte DEF k
  <2>3. pos + (1 + k) + 1 <= Len(in)
    BY <1>1, <2>1, <2>2, PeekBounds
  <2>4. n = 1 + k
    BY <1>6 DEF k
  <2> QED
    BY <1>2, <2>1, <2>3, <2>4
<1> QED
  BY <1>4, <1>5, <1>6, Zenon DEF Unquotes

\* Quoted literals (scan.go 694-884).
LEMMA LiteralScanned ==
  ASSUME CursorInv,
         DoubledQuote \/ CloseQuote \/ JointBlank \/ Join \/ LiteralEnd \/ StringEof \/ StringChar
           \/ EscapedQuote \/ Escape \/ DropBackslash \/ HexStringDigit \/ BitStringDigit
           \/ DigitStringError
  PROVE  CursorInv'
<1>1. pc \in {"literal", "joint"}
  BY Zenon DEF DoubledQuote, CloseQuote, JointBlank, Join, LiteralEnd, StringEof, StringChar,
               EscapedQuote, Escape, DropBackslash, HexStringDigit, BitStringDigit,
               DigitStringError, EscapeAhead, InLiteral
<1>2. /\ Len(in) \in Nat /\ pos \in Nat /\ lval.pos \in Nat /\ loc.start \in Nat
      /\ lval.pos < pos /\ loc.start <= pos
      /\ "start" \in DOMAIN loc
      /\ pos \in pos .. Len(in)
      /\ Peek # Eof => pos + 1 \in pos .. Len(in)
      /\ PeekN(1) # Eof => pos + 2 \in pos .. Len(in)
  BY <1>1, LoopFacts
<1>3. loc.quote # Eof
  BY <1>1 DEF CursorInv, QuoteInv
<1>4. ASSUME NEW p, p \in pos .. Len(in), NEW t, Return(t, p),
             t = Error \/ \E id, str : t = Token(id, lval.pos, str)
      PROVE  CursorInv'
  <2>1. lval.pos < p
    BY <1>2, <1>4
  <2> QED
    BY <1>1, <1>4, <2>1, TokenKeeps DEF TokenLoops
\* One more step in the same chunk, or the next chunk, which starts at the
\* last character consumed or after it.
<1>5. ASSUME NEW p, p \in pos .. Len(in), NEW l,
             Go(p, l) \/ Enter("literal", p, l) \/ Enter("joint", p, l),
             "start" \in DOMAIN l, l.start = loc.start \/ l.start \in pos .. p,
             l.quote = loc.quote
      PROVE  CursorInv'
  <2>1. /\ pc' \in {"literal", "joint"} /\ pos' = p /\ loc' = l /\ in' = in /\ toks' = toks
        /\ lval' = lval
    BY <1>1, <1>5 DEF Go, Enter
  <2>2. l.start \in loc.start .. p
    BY <1>2, <1>5
  <2> QED
    BY <1>1, <1>3, <1>5, <2>1, <2>2, GoKeeps
<1>6. ASSUME NEW p, p \in pos .. Len(in), NEW s \in pos .. p, NEW b,
             Go(p, [loc EXCEPT !.buf = b, !.start = s])
      PROVE  CursorInv'
  <2> DEFINE l == [loc EXCEPT !.buf = b, !.start = s]
  <2>1. "start" \in DOMAIN l /\ l.start = s /\ l.quote = loc.quote
    BY <1>2
  <2> QED
    BY <1>5, <1>6, <2>1
<1>7. CASE DoubledQuote
  <2>1. PeekN(1) # Eof /\ Go(pos + 2, [loc EXCEPT !.buf = Flushed, !.start = pos + 1])
    BY <1>3, <1>7 DEF DoubledQuote
  <2>2. pos + 1 \in pos .. pos + 2
    BY <1>2
  <2> QED
    BY <1>2, <1>6, <2>1, <2>2
<1>8. CASE CloseQuote
  <2> DEFINE b == IF loc.kind = "string" THEN Flushed ELSE loc.buf
             l == [loc EXCEPT !.buf = b, !.newline = FALSE]
  <2>1. Peek # Eof /\ Enter("joint", pos + 1, l)
    BY <1>3, <1>8, Zenon DEF CloseQuote
  <2> HIDE DEF b
  <2>2. "start" \in DOMAIN l /\ l.start = loc.start /\ l.quote = loc.quote
    BY <1>2
  <2> QED
    BY <1>2, <1>5, <2>1, <2>2
<1>9. CASE JointBlank
  <2> DEFINE b == loc.newline \/ Peek = "\n"
             l == [loc EXCEPT !.newline = b]
  <2>1. Peek # Eof
    BY <1>9, EofIsNoByte DEF JointBlank
  <2>2. Go(pos + 1, l)
    BY <1>9, Zenon DEF JointBlank
  <2> HIDE DEF b
  <2>3. "start" \in DOMAIN l /\ l.start = loc.start /\ l.quote = loc.quote
    BY <1>2
  <2> QED
    BY <1>2, <1>5, <2>1, <2>2, <2>3
<1>10. CASE Join
  <2> DEFINE l == [loc EXCEPT !.start = pos + 1]
  <2>1. Peek # Eof /\ Enter("literal", pos + 1, l)
    BY <1>3, <1>10 DEF Join
  <2>2. "start" \in DOMAIN l /\ l.start = pos + 1 /\ l.quote = loc.quote
    BY <1>2
  <2>3. pos + 1 \in pos .. pos + 1
    BY <1>2
  <2> QED
    BY <1>2, <1>5, <2>1, <2>2, <2>3
<1>11. CASE LiteralEnd
  <2>1. Return(Error, pos) \/ Return(Token(loc.id, lval.pos, loc.buf), pos)
    <3>1. CASE loc.half # ""
      BY <1>11, <3>1, Zenon DEF LiteralEnd
    <3>2. CASE loc.half = ""
      <4>1. PICK valid : Return(IF valid THEN Token(loc.id, lval.pos, loc.buf) ELSE Error, pos)
        BY <1>11, <3>2, Zenon DEF LiteralEnd
      <4>2. CASE valid
        BY <4>1, <4>2, Zenon
      <4>3. CASE ~valid
        BY <4>1, <4>3, Zenon
      <4> QED
        BY <4>2, <4>3
    <3> QED
      BY <3>1, <3>2
  <2> QED
    BY <1>2, <1>4, <2>1, Zenon
<1>12. CASE StringEof
  BY <1>2, <1>4, <1>12 DEF StringEof
<1>13. CASE StringChar
  <2>1. Peek # Eof /\ Go(pos + 1, loc)
    BY <1>13, Zenon DEF StringChar
  <2> QED
    BY <1>2, <1>5, <2>1
<1>14. CASE EscapedQuote
  <2>1. PeekN(1) # Eof /\ Go(pos + 2, [loc EXCEPT !.buf = Flushed, !.start = pos + 1])
    BY <1>3, <1>14, Zenon DEF EscapedQuote
  <2>2. pos + 1 \in pos .. pos + 2
    BY <1>2
  <2> QED
    BY <1>2, <1>6, <2>1, <2>2
<1>15. CASE Escape
  <2>1. Peek # Eof
    BY <1>15, EscapeCheck, Zenon DEF Escape, EscapeAhead
  <2>2. CASE \E n \in EscapeLength, bytes \in EscapeValues :
               /\ Unquotes(n, bytes)
               /\ Go(pos + 1 + n, [loc EXCEPT !.buf = Flushed \o bytes, !.start = pos + 1 + n])
    <3>1. PICK n \in EscapeLength, bytes \in EscapeValues :
            /\ Unquotes(n, bytes)
            /\ Go(pos + 1 + n, [loc EXCEPT !.buf = Flushed \o bytes, !.start = pos + 1 + n])
      BY <2>2
    <3>2. n \in Nat
      BY DEF EscapeLength
    <3>3. pos + 1 + n <= Len(in)
      BY <3>1, EscapesFit
    <3>4. pos + 1 + n \in pos .. Len(in) /\ pos + 1 + n \in pos .. pos + 1 + n
      BY <1>2, <3>2, <3>3
    <3> QED
      BY <1>6, <3>1, <3>4
  <2>3. CASE Return(Error, pos + 1)
    BY <1>2, <1>4, <2>1, <2>3
  <2> QED
    BY <1>15, <2>2, <2>3, Zenon DEF Escape
<1>16. CASE DropBackslash
  <2>1. Peek # Eof /\ Go(pos + 1, [loc EXCEPT !.buf = Flushed, !.start = pos + 1])
    BY <1>16, EscapeCheck, Zenon DEF DropBackslash, EscapeAhead
  <2>2. pos + 1 \in pos .. pos + 1
    BY <1>2
  <2> QED
    BY <1>2, <1>6, <2>1, <2>2
<1>17. CASE HexStringDigit
  <2> DEFINE l == IF loc.half = "" THEN [loc EXCEPT !.half = Peek]
                  ELSE [loc EXCEPT !.buf = Append(@, ByteOf(<<loc.half, Peek>>)), !.half = ""]
  <2>1. Peek # Eof
    BY <1>17, EofIsNoByte DEF HexStringDigit
  <2>2. Go(pos + 1, l)
    BY <1>17, Zenon DEF HexStringDigit
  <2>3. "start" \in DOMAIN l /\ l.start = loc.start /\ l.quote = loc.quote
    BY <1>2
  <2> QED
    BY <1>2, <1>5, <2>1, <2>2, <2>3
<1>18. CASE BitStringDigit
  <2> DEFINE l == [loc EXCEPT !.buf = Append(@, Peek)]
  <2>1. Peek # Eof
    BY <1>18 DEF BitStringDigit, Eof
  <2>2. Go(pos + 1, l)
    BY <1>18, Zenon DEF BitStringDigit
  <2>3. "start" \in DOMAIN l /\ l.start = loc.start /\ l.quote = loc.quote
    BY <1>2
  <2> QED
    BY <1>2, <1>5, <2>1, <2>2, <2>3
<1>19. CASE DigitStringError
  <2> DEFINE p == IF Peek = Eof THEN pos ELSE pos + 1
  <2>1. Return(Error, p)
    BY <1>19, Zenon DEF DigitStringError
  <2>2. p \in pos .. Len(in)
    BY <1>2
  <2> QED
    BY <1>4, <2>1, <2>2
<1> QED
  BY <1>7, <1>8, <1>9, <1>10, <1>11, <1>12, <1>13, <1>14, <1>15, <1>16, <1>17, <1>18, <1>19

\* Dollar-quoted strings (scan.go 886-960).
LEMMA DollarScanned ==
  ASSUME CursorInv,
         BeginDollar \/ DollarTag \/ DollarMark \/ DollarEnd \/ DollarEof \/ DollarNoTag \/ DollarChar
  PROVE  CursorInv'
<1>1. /\ Len(in) \in Nat /\ pos \in Nat /\ LastEnd \in Nat /\ lval.pos \in Nat
      /\ LastEnd <= pos /\ pos <= Len(in)
      /\ {"id", "pos"} \subseteq DOMAIN lval
      /\ Peek # Eof => pos + 1 <= Len(in)
      /\ in \in Seq(Char)
  BY CursorFacts DEF CursorInv, InputInv
\* What every step of the loop keeps.
<1>2. ASSUME NEW l, pc' = "dollar", pos' = pos + 1, Peek # Eof, loc' = l, in' = in, toks' = toks,
             {"id", "pos"} \subseteq DOMAIN lval', lval'.pos \in LastEnd .. pos,
             {"start", "found", "possible", "index", "tag"} \subseteq DOMAIN l,
             l.start = lval'.pos + 1,
             l.found => Len(l.tag) \in Nat /\ l.start + Len(l.tag) + 1 <= pos + 1,
             l.possible => /\ l.found
                           /\ l.index \in 0 .. Len(l.tag)
                           /\ l.start + Len(l.tag) + 1 <= pos - l.index
      PROVE  CursorInv'
  <2>1. LastEnd' = LastEnd
    BY <1>2, SameLastEnd
  <2>2. lval'.pos \in Nat
    BY <1>1, <1>2
  <2>3. LoopInv'
    BY <1>1, <1>2, <2>1, <2>2 DEF LoopInv, TokenLoops
  <2>4. ASSUME l.possible
        PROVE  l.start + Len(l.tag) + 1 <= (pos + 1) - l.index - 1
    <3>1. l.index \in Nat
      BY <1>2, <2>4
    <3> QED
      BY <1>1, <1>2, <2>4, <3>1
  <2>5. DollarInv'
    BY <1>2, <2>4 DEF DollarInv
  <2>6. QuoteInv'
    BY <1>2 DEF QuoteInv
  <2>7. pos + 1 \in LastEnd .. Len(in)
    BY <1>1, <1>2
  <2> QED
    BY <1>2, <2>2, <2>3, <2>5, <2>6, <2>7, LoopKeeps DEF TokenLoops
<1>3. CASE BeginDollar
  <2> DEFINE l == [start |-> pos + 1, found |-> FALSE, possible |-> FALSE, index |-> -1, tag |-> <<>>]
  <2>1. /\ in' = in /\ toks' = toks /\ pos' = pos + 1 /\ pc' = "dollar" /\ Peek # Eof
        /\ lval' = Token(Peek, pos, <<Peek>>) /\ loc' = l
    BY <1>3 DEF BeginDollar, Begin, Here, Eof
  <2>2. {"id", "pos"} \subseteq DOMAIN lval' /\ lval'.pos = pos
    BY <2>1 DEF Token
  <2>3. /\ {"start", "found", "possible", "index", "tag"} \subseteq DOMAIN l
        /\ l.start = pos + 1 /\ ~l.found /\ ~l.possible
    OBVIOUS
  <2> HIDE DEF l
  <2> QED
    BY <1>1, <1>2, <2>1, <2>2, <2>3
<1>4. pc = "dollar" =>
        /\ {"start", "found", "possible", "index", "tag"} \subseteq DOMAIN loc
        /\ loc.start = lval.pos + 1
        /\ lval.pos \in LastEnd .. pos
        /\ loc.start <= pos
        /\ loc.found => Len(loc.tag) \in Nat /\ loc.start + Len(loc.tag) + 1 <= pos
        /\ loc.possible =>
             /\ loc.found
             /\ loc.index \in 0 .. Len(loc.tag)
             /\ loc.start + Len(loc.tag) + 1 <= pos - loc.index - 1
  BY <1>1 DEF CursorInv, LoopInv, DollarInv, TokenLoops
<1>5. CASE DollarTag
  <2> DEFINE tag == Text(loc.start, pos)
             l == [loc EXCEPT !.found = TRUE, !.tag = tag]
  <2>1. /\ in' = in /\ toks' = toks /\ pos' = pos + 1 /\ pc' = "dollar" /\ pc = "dollar" /\ Peek # Eof
        /\ lval' = lval /\ loc' = l /\ ~loc.found
    BY <1>5 DEF DollarTag, Go, Eof
  <2>2. Len(tag) = pos - loc.start
    <3>1. loc.start + 1 \in Int /\ pos \in Int /\ loc.start <= pos
      BY <1>1, <1>4, <2>1
    <3>2. \A i \in loc.start + 1 .. pos : in[i] \in Char
      BY <1>1, <1>4, <2>1
    <3>3. Len(SubSeq(in, loc.start + 1, pos)) =
            IF loc.start + 1 <= pos THEN pos - (loc.start + 1) + 1 ELSE 0
      BY <3>1, <3>2, SubSeqProperties
    <3> QED
      BY <1>1, <1>4, <2>1, <3>1, <3>3 DEF Text
  <2> HIDE DEF tag
  <2>3. /\ {"start", "found", "possible", "index", "tag"} \subseteq DOMAIN l
        /\ l.start = loc.start /\ l.found /\ l.tag = tag
    BY <1>4, <2>1
  <2>4. ~l.possible
    <3>1. ~loc.possible
      BY <1>4, <2>1
    <3>2. l.possible = loc.possible
      BY <1>4, <2>1
    <3> QED
      BY <3>1, <3>2
  <2>5. Len(tag) \in Nat /\ loc.start + Len(tag) + 1 <= pos + 1
    BY <1>1, <1>4, <2>1, <2>2
  <2> HIDE DEF l
  <2> QED
    BY <1>1, <1>2, <1>4, <2>1, <2>3, <2>4, <2>5
<1>6. CASE DollarMark
  <2> DEFINE l == [loc EXCEPT !.possible = TRUE, !.index = 0]
  <2>1. /\ in' = in /\ toks' = toks /\ pos' = pos + 1 /\ pc' = "dollar" /\ pc = "dollar" /\ Peek # Eof
        /\ lval' = lval /\ loc' = l /\ loc.found
    BY <1>6 DEF DollarMark, Go, Eof
  <2>2. /\ {"start", "found", "possible", "index", "tag"} \subseteq DOMAIN l
        /\ l.start = loc.start /\ l.index = 0 /\ l.tag = loc.tag
    BY <1>4, <2>1
  <2>3. l.found
    <3>1. l.found = loc.found
      BY <1>4, <2>1
    <3> QED
      BY <2>1, <3>1
  <2>4. /\ Len(loc.tag) \in Nat /\ loc.start + Len(loc.tag) + 1 <= pos
        /\ loc.start \in Nat
    BY <1>1, <1>4, <2>1
  <2>5. loc.start + Len(loc.tag) + 1 <= pos + 1 /\ loc.start + Len(loc.tag) + 1 <= pos - 0
        /\ 0 \in 0 .. Len(loc.tag)
    BY <1>1, <2>4
  <2> HIDE DEF l
  <2> QED
    BY <1>1, <1>2, <1>4, <2>1, <2>2, <2>3, <2>4, <2>5
<1>7. CASE DollarEnd
  <2>1. PICK valid : Return(IF valid THEN Token("SCONST", lval.pos,
                                Text(loc.start + Len(loc.tag) + 1, pos - Len(loc.tag) - 1))
                            ELSE Error, pos + 1)
    BY <1>7, Zenon DEF DollarEnd
  <2>2. pc = "dollar" /\ Peek # Eof
    BY <1>7 DEF DollarEnd, Eof
  <2>3. pos + 1 \in pos .. Len(in) /\ lval.pos < pos + 1
    BY <1>1, <1>4, <2>2
  <2>4. CASE valid
    BY <2>1, <2>2, <2>3, <2>4, TokenKeeps DEF TokenLoops
  <2>5. CASE ~valid
    BY <2>1, <2>2, <2>3, <2>5, TokenKeeps DEF TokenLoops
  <2> QED
    BY <2>4, <2>5
<1>8. CASE DollarEof
  <2>1. pc = "dollar" /\ (Return(Error, pos) \/ Return(lval, loc.start))
    BY <1>8, Zenon DEF DollarEof
  <2>2. CASE Return(Error, pos)
    <3>1. pos \in pos .. Len(in) /\ lval.pos < pos
      BY <1>1, <1>4, <2>1
    <3> QED
      BY <2>1, <2>2, <3>1, TokenKeeps DEF TokenLoops
  <2>3. CASE Return(lval, loc.start)
    <3>1. loc.start \in LastEnd .. Len(in) /\ lval.pos \in LastEnd .. loc.start - 1
      BY <1>1, <1>4, <2>1
    <3> QED
      BY <1>1, <2>3, <3>1, ReturnKeeps
  <2> QED
    BY <2>1, <2>2, <2>3
<1>9. CASE DollarNoTag
  <2>1. pc = "dollar" /\ Return(lval, pos)
    BY <1>9, Zenon DEF DollarNoTag
  <2>2. pos \in LastEnd .. Len(in) /\ lval.pos \in LastEnd .. pos - 1
    BY <1>1, <1>4, <2>1
  <2> QED
    BY <1>1, <2>1, <2>2, ReturnKeeps
<1>10. CASE DollarChar
  <2> DEFINE matches == loc.index < Len(loc.tag) /\ Peek = loc.tag[loc.index + 1]
             l == CASE ~loc.possible           -> loc
                    [] loc.possible /\ matches -> [loc EXCEPT !.index = @ + 1]
                    [] OTHER                   -> [loc EXCEPT !.possible = FALSE, !.index = -1]
  <2>1. /\ in' = in /\ toks' = toks /\ pos' = pos + 1 /\ pc' = "dollar" /\ pc = "dollar" /\ Peek # Eof
        /\ lval' = lval /\ loc' = l
    BY <1>10, Zenon DEF DollarChar, Go
  <2>2. loc.found => Len(loc.tag) \in Nat /\ loc.start + Len(loc.tag) + 1 <= pos + 1
    BY <1>1, <1>4, <2>1
  <2>3. lval.pos \in LastEnd .. pos
    BY <1>4, <2>1
  <2>4. CASE ~loc.possible
    <3>1. l = loc
      BY <2>4
    <3> HIDE DEF l
    <3> QED
      BY <1>1, <1>2, <1>4, <2>1, <2>2, <2>4, <3>1
  <2>5. CASE loc.possible /\ matches
    <3>1. l = [loc EXCEPT !.index = @ + 1]
      BY <2>5
    <3>2. /\ loc.found /\ loc.index \in 0 .. Len(loc.tag) /\ Len(loc.tag) \in Nat
          /\ loc.index < Len(loc.tag)
      BY <1>4, <2>1, <2>5
    <3> HIDE DEF l
    <3>3. /\ {"start", "found", "possible", "index", "tag"} \subseteq DOMAIN l
          /\ l.start = loc.start /\ l.index = loc.index + 1 /\ l.tag = loc.tag
      BY <1>4, <2>1, <3>1
    <3>4. l.found = loc.found
      BY <1>4, <2>1, <3>1
    <3>5. /\ loc.index + 1 \in 0 .. Len(loc.tag)
          /\ loc.start + Len(loc.tag) + 1 <= pos - (loc.index + 1)
      BY <1>1, <1>4, <2>1, <2>5, <3>2
    <3> QED
      BY <1>1, <1>2, <1>4, <2>1, <2>2, <2>3, <3>2, <3>3, <3>4, <3>5
  <2>6. CASE loc.possible /\ ~matches
    <3>1. l = [loc EXCEPT !.possible = FALSE, !.index = -1]
      BY <2>6
    <3> HIDE DEF l
    <3>2. /\ {"start", "found", "possible", "index", "tag"} \subseteq DOMAIN l
          /\ l.start = loc.start /\ l.tag = loc.tag /\ ~l.possible
      BY <1>4, <2>1, <3>1
    <3>3. l.found = loc.found
      BY <1>4, <2>1, <3>1
    <3> QED
      BY <1>1, <1>2, <1>4, <2>1, <2>2, <2>3, <3>2, <3>3
  <2> QED
    BY <2>4, <2>5, <2>6
<1> QED
  BY <1>3, <1>5, <1>6, <1>7, <1>8, <1>9, <1>10
-----------------------------------------------------------------------------
\* A sequence is one over its own elements.
LEMMA SequenceOfItself ==
  ASSUME NEW S, NEW s \in Seq(S)
  PROVE  IsSequence(s)
<1> DEFINE E == {s[i] : i \in 1 .. Len(s)}
<1>1. Len(s) \in Nat /\ s \in [1 .. Len(s) -> S]
  BY LenProperties
<1>2. s \in [1 .. Len(s) -> E]
  BY <1>1
<1>3. s \in Seq(E)
  BY <1>1, <1>2, SeqDef
<1> QED
  BY <1>3 DEF IsSequence

\* A client appends the token scan returned.
LEMMA TakenAppends ==
  ASSUME CursorInv
  PROVE  /\ Len(toks) \in Nat
         /\ IsSequence(Taken) /\ Len(Taken) = Len(toks) + 1
         /\ \A i \in 1 .. Len(toks) : Taken[i] = toks[i]
         /\ Taken[Len(toks) + 1] = [id |-> lval.id, pos |-> lval.pos, str |-> lval.str, end |-> pos]
         /\ Taken # <<>>
<1> DEFINE E == {toks[i] : i \in 1 .. Len(toks)}
           t == [id |-> lval.id, pos |-> lval.pos, str |-> lval.str, end |-> pos]
           F == E \cup {t}
<1>1. toks \in Seq(E)
  BY DEF CursorInv, TokensInv, IsSequence
<1>2. t \in F /\ E \subseteq F
  OBVIOUS
<1>3. Taken = Append(toks, t)
  BY DEF Taken
<1> HIDE DEF E, t, F
<1>4. toks \in Seq(F)
  BY <1>1, <1>2, SeqMonotonic
<1>5. /\ Append(toks, t) \in Seq(F)
      /\ Append(toks, t) # <<>>
      /\ Len(Append(toks, t)) = Len(toks) + 1
      /\ \A i \in 1 .. Len(toks) : Append(toks, t)[i] = toks[i]
      /\ Append(toks, t)[Len(toks) + 1] = t
  BY <1>2, <1>4, AppendProperties
<1>6. IsSequence(Taken)
  BY <1>3, <1>5, SequenceOfItself
<1> QED
  BY <1>1, <1>3, <1>5, <1>6, LenProperties DEF t

\* A token handed out is a span cut off the rest of the input.
LEMMA TokenTaken ==
  ASSUME CursorInv, pc = "ret", lval.id # EofId, toks' = Taken, UNCHANGED <<client, in, pos, lval>>,
         pc' \in {"scan", "done"}
  PROVE  /\ CursorInv'
         /\ LastEnd' = pos
         /\ \E s \in LastEnd .. Len(in) - 1 : \E e \in s + 1 .. Len(in) : Stream!Cut(s, e)
<1>1. /\ Len(in) \in Nat /\ pos \in Nat /\ LastEnd \in Nat /\ lval.pos \in Nat
      /\ LastEnd <= pos /\ pos <= Len(in)
      /\ {"id", "pos"} \subseteq DOMAIN lval
  BY CursorFacts
<1>2. lval.pos \in LastEnd .. pos - 1
  BY DEF CursorInv, ReturnInv
<1>3. /\ Len(toks) \in Nat
      /\ IsSequence(toks') /\ Len(toks') = Len(toks) + 1
      /\ \A i \in 1 .. Len(toks) : toks'[i] = toks[i]
      /\ toks'[Len(toks) + 1].pos = lval.pos
      /\ toks'[Len(toks) + 1].end = pos
      /\ toks' # <<>>
  BY TakenAppends
<1>4. LastEnd' = pos
  BY <1>3 DEF LastEnd
<1>5. CursorInv'
  <2>1. InputInv'
    BY DEF CursorInv, InputInv
  <2>2. TokensInv'
    BY <1>1, <1>3, <1>4 DEF TokensInv
  <2>3. LoopInv' /\ DollarInv' /\ QuoteInv' /\ ReturnInv'
    BY DEF LoopInv, DollarInv, QuoteInv, ReturnInv, TokenLoops
  <2> QED
    BY <2>1, <2>2, <2>3 DEF CursorInv
<1>6. Stream!Cut(lval.pos, pos)
  <2> DEFINE before == [i \in 1 .. Len(toks) |-> [pos |-> toks[i].pos, end |-> toks[i].end]]
             after  == [i \in 1 .. Len(toks') |-> [pos |-> toks'[i].pos, end |-> toks'[i].end]]
             span   == [pos |-> lval.pos, end |-> pos]
  <2>1. after = Append(before, span)
    <3> DEFINE n == Len(toks)
               a == Append(before, span)
               S == {before[i] : i \in 1 .. n} \cup {span}
    <3>1. n \in Nat /\ before \in [1 .. n -> S] /\ span \in S
      BY <1>3
    <3>2. before \in Seq(S) /\ Len(before) = n
      <4>1. before \in Seq(S)
        BY <3>1, SeqDef
      <4> HIDE DEF S
      <4>2. DOMAIN before = 1 .. n /\ DOMAIN before = 1 .. Len(before) /\ Len(before) \in Nat
        BY <4>1, LenProperties
      <4> QED
        BY <3>1, <4>1, <4>2
    <3>3. /\ a \in Seq(S) /\ Len(a) = n + 1
          /\ \A i \in 1 .. n : a[i] = before[i]
          /\ a[n + 1] = span
      <4> HIDE DEF S, before, span
      <4> QED
        BY <3>1, <3>2, AppendProperties
    <3>4. DOMAIN a = 1 .. n + 1 /\ a = [i \in 1 .. n + 1 |-> a[i]]
      <4> HIDE DEF S, a
      <4> QED
        BY <3>3, LenProperties
    <3>5. ASSUME NEW i \in 1 .. n + 1
          PROVE  after[i] = a[i]
      <4>1. CASE i \in 1 .. n
        <5>1. after[i] = [pos |-> toks'[i].pos, end |-> toks'[i].end]
          BY <1>3, <3>5
        <5>2. toks'[i] = toks[i]
          BY <1>3, <4>1
        <5> QED
          BY <3>3, <4>1, <5>1, <5>2
      <4>2. CASE i = n + 1
        <5>1. after[i] = [pos |-> toks'[i].pos, end |-> toks'[i].end]
          BY <1>3, <3>5
        <5> QED
          BY <1>3, <3>3, <4>2, <5>1
      <4> QED
        BY <3>1, <4>1, <4>2
    <3>6. after = [i \in 1 .. n + 1 |-> after[i]]
      BY <1>3
    <3> HIDE DEF a, after
    <3>7. [i \in 1 .. n + 1 |-> after[i]] = [i \in 1 .. n + 1 |-> a[i]]
      BY <3>5
    <3>8. after = a
      BY <3>4, <3>6, <3>7, Zenon
    <3> QED
      BY <3>8 DEF a
  <2> QED
    BY <1>4, <2>1 DEF Stream!Cut
<1>7. lval.pos \in LastEnd .. Len(in) - 1 /\ pos \in lval.pos + 1 .. Len(in)
  BY <1>1, <1>2
<1>8. \E s \in LastEnd .. Len(in) - 1 : \E e \in s + 1 .. Len(in) : Stream!Cut(s, e)
  <2>1. \E e \in lval.pos + 1 .. Len(in) : Stream!Cut(lval.pos, e)
    BY <1>6, <1>7 DEF Stream!Cut
  <2> QED
    BY <1>7, <2>1 DEF Stream!Cut
<1> QED
  BY <1>4, <1>5, <1>8

\* A step of a client is a step of the stream.
LEMMA ClientSteps ==
  ASSUME CursorInv, Tokens \/ SplitFirstStatement \/ LastLexicalToken
  PROVE  CursorInv' /\ Stream!Next
<1>1. /\ pc = "ret" /\ UNCHANGED <<client, in, pos, lval>>
      /\ \/ lval.id # EofId /\ toks' = Taken /\ pc' \in {"scan", "done"}
         \/ lval.id = EofId /\ toks' = toks /\ pc' = "done"
  <2>1. pc = "ret" /\ ((Again /\ lval.id # EofId) \/ \E r : Finish(r))
    <3>1. CASE Tokens
      BY <3>1, Zenon DEF Tokens
    <3>2. CASE SplitFirstStatement
      BY <3>2, Zenon DEF SplitFirstStatement
    <3>3. CASE LastLexicalToken
      BY <3>3, Zenon DEF LastLexicalToken
    <3> QED
      BY <3>1, <3>2, <3>3
  <2> QED
    BY <2>1 DEF Again, Finish
<1>2. CASE lval.id # EofId /\ toks' = Taken /\ pc' \in {"scan", "done"}
  <2>1. /\ CursorInv'
        /\ \E s \in LastEnd .. Len(in) - 1 : \E e \in s + 1 .. Len(in) : Stream!Cut(s, e)
    BY <1>1, <1>2, TokenTaken
  <2>2. pc # "done" /\ (pc' # "done") \in BOOLEAN /\ Len(in)' = Len(in)
    BY <1>1
  <2> QED
    BY <2>1, <2>2 DEF Stream!Next, Stream!Emit
<1>3. CASE lval.id = EofId /\ toks' = toks /\ pc' = "done"
  <2>1. LastEnd' = LastEnd
    BY <1>3, SameLastEnd
  <2>2. CursorInv'
    <3>1. InputInv'
      BY <1>1 DEF CursorInv, InputInv
    <3>2. TokensInv'
      BY <1>1, <1>3, <2>1 DEF CursorInv, TokensInv, IsSequence
    <3>3. LoopInv' /\ DollarInv' /\ QuoteInv' /\ ReturnInv'
      BY <1>3 DEF LoopInv, DollarInv, QuoteInv, ReturnInv, TokenLoops
    <3> QED
      BY <3>1, <3>2, <3>3 DEF CursorInv
  <2>3. Stream!Stop
    BY <1>1, <1>3, <2>1 DEF Stream!Stop
  <2> QED
    BY <2>2, <2>3 DEF Stream!Next
<1> QED
  BY <1>1, <1>2, <1>3

\* The input is made of characters.
LEMMA InputIs == Init => in \in Seq(Char)
  BY ScannerAssumption DEF Init

\* A call begins at the start of its input.
LEMMA Begins == Init => CursorInv /\ Stream!Init
<1> SUFFICES ASSUME Init PROVE CursorInv /\ Stream!Init
  OBVIOUS
<1>1. in \in Seq(Char)
  BY InputIs
<1>2. Len(in) \in Nat
  BY <1>1, LenProperties
<1>3. LastEnd = 0 /\ toks = <<>> /\ pos = 0 /\ pc = "scan"
  BY DEF Init, LastEnd
<1>4. IsSequence(toks) /\ Len(toks) = 0
  BY <1>3, EmptySeq DEF IsSequence
<1>5. {"id", "pos"} \subseteq DOMAIN lval /\ lval.pos = 0
  BY DEF Init, Token
<1>6. InputInv /\ TokensInv
  BY <1>1, <1>2, <1>3, <1>4, <1>5 DEF InputInv, TokensInv
<1>7. LoopInv /\ DollarInv /\ QuoteInv /\ ReturnInv
  BY <1>3 DEF LoopInv, DollarInv, QuoteInv, ReturnInv, TokenLoops
<1>8. [i \in 1 .. Len(toks) |-> [pos |-> toks[i].pos, end |-> toks[i].end]] = <<>>
  BY <1>4
<1>9. Stream!Init
  BY <1>2, <1>3, <1>8 DEF Stream!Init
<1> QED
  BY <1>6, <1>7, <1>9 DEF CursorInv

\* A step of scan itself.
Working ==
  \/ Scan
  \/ SkipBlank \/ EnterBlockComment \/ EnterLineComment
  \/ CloseBlock \/ OpenBlock \/ BlockChar \/ BlockEof \/ LineChar
  \/ ScanEof \/ ScanOperator \/ ScanSingle
  \/ BeginNumber \/ BeginPlaceholder \/ BeginDollar
  \/ BeginQuoted \/ BeginPrefixed \/ BeginIdent
  \/ IdentChar \/ IdentEnd
  \/ NumberDigit \/ NumberX \/ NumberDot \/ NumberExponent \/ NumberEnd
  \/ PlaceholderDigit \/ PlaceholderEnd
  \/ DoubledQuote \/ CloseQuote \/ JointBlank \/ Join \/ LiteralEnd
  \/ StringEof \/ StringChar \/ EscapedQuote \/ Escape \/ DropBackslash
  \/ HexStringDigit \/ BitStringDigit \/ DigitStringError
  \/ DollarTag \/ DollarMark \/ DollarEnd \/ DollarEof \/ DollarNoTag \/ DollarChar

\* Only the clients touch the tokens handed out.
LEMMA WorkIsQuiet ==
  ASSUME Working
  PROVE  in' = in /\ toks' = toks /\ client' = client /\ pc # "done" /\ pc' # "done"
<1> DEFINE Quiet == in' = in /\ toks' = toks /\ client' = client /\ pc # "done" /\ pc' # "done"
<1>1. ASSUME pc # "done", NEW p, NEW l, Go(p, l)
      PROVE  Quiet
  BY <1>1 DEF Go
<1>2. ASSUME pc # "done", NEW to \in {"ws", "block", "line", "literal", "joint"}, NEW p, NEW l,
             Enter(to, p, l)
      PROVE  Quiet
  BY <1>2 DEF Enter
<1>3. ASSUME pc # "done", NEW t, NEW p, Return(t, p)
      PROVE  Quiet
  BY <1>3 DEF Return
<1>4. ASSUME pc # "done", NEW to \in TokenLoops, NEW p, NEW l, Begin(to, p, l)
      PROVE  Quiet
  BY <1>4 DEF Begin, TokenLoops
<1>5. Scan => Quiet
  BY DEF Scan
<1> HIDE DEF Quiet
<1>6. SkipBlank \/ OpenBlock \/ BlockChar \/ IdentChar \/ NumberDigit \/ NumberDot \/ PlaceholderDigit
        \/ DoubledQuote \/ JointBlank \/ StringChar \/ EscapedQuote \/ DropBackslash
        \/ HexStringDigit \/ BitStringDigit => Quiet
  BY <1>1, Zenon
     DEF SkipBlank, OpenBlock, BlockChar, IdentChar, NumberDigit, NumberDot, PlaceholderDigit,
         DoubledQuote, JointBlank, StringChar, EscapedQuote, DropBackslash, EscapeAhead,
         HexStringDigit, BitStringDigit, InLiteral
<1>7. DollarTag \/ DollarMark \/ DollarChar => Quiet
  BY <1>1, Zenon DEF DollarTag, DollarMark, DollarChar
<1>8. EnterBlockComment \/ EnterLineComment \/ CloseQuote \/ Join => Quiet
  BY <1>2, Zenon DEF EnterBlockComment, EnterLineComment, CloseQuote, Join
<1>9. CloseBlock \/ LineChar => Quiet
  BY <1>1, <1>2, Zenon DEF CloseBlock, LineChar
<1>10. BlockEof \/ ScanEof \/ ScanOperator \/ ScanSingle \/ IdentEnd \/ StringEof \/ DigitStringError
         => Quiet
  <2>1. BlockEof \/ StringEof \/ DigitStringError => Quiet
    BY <1>3, Zenon DEF BlockEof, StringEof, DigitStringError, InLiteral
  <2>2. ScanEof \/ ScanSingle => Quiet
    BY <1>3, Zenon DEF ScanEof, ScanSingle, AtToken
  <2>3. ScanOperator => Quiet
    BY <1>3, Zenon DEF ScanOperator, AtToken
  <2>4. IdentEnd => Quiet
    BY <1>3, Zenon DEF IdentEnd
  <2> QED
    BY <2>1, <2>2, <2>3, <2>4, Zenon
<1>11. NumberEnd => Quiet
  <2>1. NumberEnd => pc # "done" /\ \E t : Return(t, pos)
    BY Zenon DEF NumberEnd
  <2> QED
    BY <1>3, <2>1, Zenon
<1>12. PlaceholderEnd \/ LiteralEnd \/ DollarEnd \/ DollarEof \/ DollarNoTag => Quiet
  BY <1>3, Zenon DEF PlaceholderEnd, LiteralEnd, DollarEnd, DollarEof, DollarNoTag
<1>13. NumberX \/ NumberExponent \/ Escape => Quiet
  BY <1>1, <1>3, Zenon DEF NumberX, NumberExponent, Escape, EscapeAhead, InLiteral
<1>14. BeginNumber \/ BeginPlaceholder \/ BeginDollar \/ BeginQuoted \/ BeginPrefixed \/ BeginIdent => Quiet
  BY <1>4, Zenon DEF BeginNumber, BeginPlaceholder, BeginDollar, BeginQuoted, BeginPrefixed, BeginIdent,
                     AtToken, TokenLoops
<1>15. Quiet
  BY <1>5, <1>6, <1>7, <1>8, <1>9, <1>10, <1>11, <1>12, <1>13, <1>14, Zenon DEF Working
<1> QED
  BY <1>15 DEF Quiet

\* A step of scan keeps the invariant and hands out nothing.
LEMMA WorkKeeps ==
  ASSUME CursorInv, Working
  PROVE  CursorInv' /\ UNCHANGED Stream!vars
<1>1. CursorInv'
  BY BlanksSkipped, TokensFound, LoopsBegin, WordScanned, NumberScanned, LiteralScanned, DollarScanned,
     Zenon DEF Working
<1>2. in' = in /\ toks' = toks /\ pc # "done" /\ pc' # "done"
  BY WorkIsQuiet
<1>3. LastEnd' = LastEnd
  BY <1>2, SameLastEnd
<1> QED
  BY <1>1, <1>2, <1>3 DEF Stream!vars

\* Every step keeps the invariant and maps to a step of the stream or to none.
LEMMA ScannerStep ==
  ASSUME CursorInv, [Next]_vars
  PROVE  CursorInv' /\ [Stream!Next]_(Stream!vars)
<1>1. CASE UNCHANGED vars
  <2>1. UNCHANGED <<client, in, pos, pc, loc, lval, toks, res>>
    BY <1>1 DEF vars
  <2>2. LastEnd' = LastEnd /\ Peek' = Peek
    BY <2>1, SameLastEnd DEF Peek, PeekN
  <2>3. InputInv' /\ TokensInv'
    BY <2>1, <2>2 DEF CursorInv, InputInv, TokensInv, IsSequence
  <2>4. LoopInv' /\ DollarInv' /\ QuoteInv' /\ ReturnInv'
    BY <2>1, <2>2 DEF CursorInv, LoopInv, DollarInv, QuoteInv, ReturnInv
  <2> QED
    BY <2>1, <2>2, <2>3, <2>4 DEF CursorInv, Stream!vars
<1>2. CASE Next
  <2>1. Working \/ Tokens \/ SplitFirstStatement \/ LastLexicalToken
    BY <1>2, Zenon DEF Next, Working
  <2> QED
    BY <2>1, WorkKeeps, ClientSteps
<1> QED
  BY <1>1, <1>2

\* The cursor stays in the input and past the tokens handed out, whatever the
\* input (scan.go 92-960).
THEOREM CursorInvariant == Spec => []CursorInv
<1>1. Init => CursorInv
  BY Begins
<1>2. CursorInv /\ [Next]_vars => CursorInv'
  BY ScannerStep
<1> QED
  BY <1>1, <1>2, PTL DEF Spec

\* No slice of the input that scan takes is out of bounds, so that none of them
\* panics: in[start:pos] of the literal scanners, the tag and the body of a
\* dollar-quoted string, and startTag[startTagIndex] (scan.go 503-960).
THEOREM SlicesStayInBounds == Spec => []SlicesInBounds
<1>1. CursorInv => SlicesInBounds
  <2> SUFFICES ASSUME CursorInv PROVE SlicesInBounds
    OBVIOUS
  <2>1. /\ Len(in) \in Nat /\ pos \in Nat /\ LastEnd \in Nat /\ lval.pos \in Nat /\ pos <= Len(in)
    BY CursorFacts
  <2>2. pc \in TokenLoops => loc.start <= pos
    BY <2>1 DEF CursorInv, LoopInv
  <2>3. pc = "number" => loc.start < pos /\ loc.start < Len(in)
    BY <2>1 DEF CursorInv, LoopInv, TokenLoops
  <2> QED
    BY <2>2, <2>3 DEF SlicesInBounds, CursorInv, DollarInv
<1> QED
  BY <1>1, CursorInvariant, PTL

\* The scanner implements a token stream: the tokens it hands out are nonempty,
\* disjoint, in the order of the text and within it (scan.go 92-390, 963-1021).
THEOREM CutsItsInput == Spec => CutsInput
<1>1. Init => CursorInv /\ Stream!Init
  BY Begins
<1>2. CursorInv /\ [Next]_vars => CursorInv' /\ [Stream!Next]_(Stream!vars)
  BY ScannerStep
<1> QED
  BY <1>1, <1>2, PTL DEF Spec, CutsInput, Stream!Spec
-----------------------------------------------------------------------------
\* The quote of a quoted name.
DQuote == "\""

\* The input has no capital letter outside ASCII: the byte 89 ends the one there
\* is among the characters, whose lower-case form is written with other bytes.
NoAccent == \A i \in 1 .. Len(in) : in[i] # "89"

\* The name of a word is the normalised form of its text.
Named(id, p, e, str) ==
  id = "IDENT" /\ in[p + 1] # DQuote /\ Valid(Text(p, e)) /\ NoAccent =>
    str = NormalizeName(Text(p, e))

\* A word goes on as long as a character can continue it.
Whole(id, p, e) ==
  id \in {"IDENT", "KEYWORD"} /\ IsIdentStart(in[p + 1]) /\ e < Len(in) => ~IsIdentMiddle(in[e + 1])

\* The input has no NUL byte: a NUL that is a token of its own is numbered 0, as
\* the end is.
NoNul == \A i \in 1 .. Len(in) : in[i] \notin {Nul, Eof}

\* A semicolon is one character, and the end is the end of the input.
Ends(id, p, e) ==
  /\ id = Semicolon => in[p + 1] = Semicolon /\ e = p + 1
  /\ id = EofId /\ NoNul => e = Len(in)

\* What is said of each token.
Word(t, e) == Named(t.id, t.pos, e, t.str) /\ Whole(t.id, t.pos, e) /\ Ends(t.id, t.pos, e)

\* The identifiers these three are about; the other tokens have others.
Marked == {"IDENT", "KEYWORD", Semicolon, EofId}
Other(t) == t.id \notin Marked \/ (t.id = "IDENT" /\ in[t.pos + 1] = DQuote)

\* Each token handed out is as it should be.
TakenWords == \A i \in 1 .. Len(toks) : Word(toks[i], toks[i].end)

\* isLower means what it says of the characters read so far (scan.go 503-526).
CaseInv ==
  pc = "ident" =>
    /\ {"isASCII", "isLower"} \subseteq DOMAIN loc
    /\ loc.isLower => \A j \in loc.start + 1 .. pos : in[j] \notin Upper

\* The loop of a literal returns no word, but for a quoted name, and the loop of
\* a dollar-quoted string the string or a dollar.
QuotedInv ==
  /\ pc \in {"literal", "joint"} =>
       /\ "id" \in DOMAIN loc
       /\ loc.id \notin Marked \/ (loc.id = "IDENT" /\ in[lval.pos + 1] = DQuote)
  /\ pc = "dollar" => lval.id = "$"

\* The tokens handed out and the one on its way are as they should be.
WordInv ==
  /\ TakenWords
  /\ pc = "ret" => Word(lval, pos)
  /\ CaseInv
  /\ QuotedInv

\* The letters, one by one.
LEMMA Letters ==
  /\ Upper = {"A", "B", "C", "D", "E", "F", "G", "H", "I", "J", "K", "L", "M",
              "N", "O", "P", "Q", "R", "S", "T", "U", "V", "W", "X", "Y", "Z"}
  /\ Lower = {"a", "b", "c", "d", "e", "f", "g", "h", "i", "j", "k", "l", "m",
              "n", "o", "p", "q", "r", "s", "t", "u", "v", "w", "x", "y", "z"}
<1>1. Upper = {"A", "B", "C", "D", "E", "F", "G", "H", "I", "J", "K", "L", "M",
               "N", "O", "P", "Q", "R", "S", "T", "U", "V", "W", "X", "Y", "Z"}
  BY SMTT(60) DEF Upper, UpperSeq
<1>2. Lower = {"a", "b", "c", "d", "e", "f", "g", "h", "i", "j", "k", "l", "m",
               "n", "o", "p", "q", "r", "s", "t", "u", "v", "w", "x", "y", "z"}
  BY SMTT(60) DEF Lower, LowerSeq
<1> QED
  BY <1>1, <1>2

\* The identifiers of the other tokens are not those of a word, a semicolon or
\* the end.
LEMMA Unmarked ==
  /\ {"ERROR", "FCONST", "ICONST", "PLACEHOLDER", "SCONST", "BCONST", "BITCONST", "$"} \cap Marked = {}
  /\ \A op \in DOMAIN Operator2 : OperatorId(op) \notin Marked
  /\ \A op \in DOMAIN Operator3 : op \notin Marked
  /\ {"IDENT", "KEYWORD"} \cap {Semicolon, EofId} = {}
  /\ Semicolon # EofId
<1>1. Semicolon \notin {"IDENT", "KEYWORD", "ERROR", "FCONST", "ICONST", "PLACEHOLDER", "SCONST", "BCONST",
                      "BITCONST", "$", EofId}
  BY Zenon DEF Semicolon, EofId, Nul
<1>2. Semicolon \notin DOMAIN Operator2 /\ Semicolon \notin DOMAIN Operator3
  BY Zenon DEF Semicolon, Operator2, Operator3
<1>3. \A op \in DOMAIN Operator2 : OperatorId(op) \in DOMAIN Operator2
  BY DEF OperatorId, Operator2
<1>4. \A op \in DOMAIN Operator2 : op \notin {"IDENT", "KEYWORD", EofId}
  BY DEF Operator2, EofId, Nul
<1>5. \A op \in DOMAIN Operator3 : op \notin {"IDENT", "KEYWORD", EofId}
  BY DEF Operator3, EofId, Nul
<1>6. {"ERROR", "FCONST", "ICONST", "PLACEHOLDER", "SCONST", "BCONST", "BITCONST", "$"}
        \cap {"IDENT", "KEYWORD", EofId} = {}
  BY DEF EofId, Nul
<1>7. {"IDENT", "KEYWORD"} \cap {EofId} = {}
  BY DEF EofId, Nul
<1> HIDE DEF Operator2, Operator3
<1> QED
  BY <1>1, <1>2, <1>3, <1>4, <1>5, <1>6, <1>7 DEF Marked

\* Nothing is said of the other tokens.
LEMMA OtherTokens ==
  ASSUME NEW t, NEW e, Other(t)
  PROVE  Word(t, e)
<1>1. DQuote \notin Upper
  BY Letters, Zenon DEF DQuote
<1>2. DQuote \notin Lower
  BY Letters, Zenon DEF DQuote
<1>3. DQuote \notin HighByte /\ DQuote # "_"
  BY DEF DQuote, HighByte, Trail, Lead
<1> QED
  BY <1>1, <1>2, <1>3, Unmarked DEF Word, Named, Whole, Ends, Other, Marked, IsIdentStart

\* The text of a span, character by character.
LEMMA TextIs ==
  ASSUME in \in Seq(Char), NEW a \in Nat, NEW b \in Nat, a <= b, b <= Len(in)
  PROVE  /\ Text(a, b) \in Seq(Char)
         /\ Len(Text(a, b)) = b - a
         /\ \A i \in 1 .. b - a : Text(a, b)[i] = in[a + i] /\ a + i \in a + 1 .. b
<1>1. \A i \in a + 1 .. b : in[i] \in Char
  OBVIOUS
<1>2. /\ SubSeq(in, a + 1, b) \in Seq(Char)
      /\ Len(SubSeq(in, a + 1, b)) = IF a + 1 <= b THEN b - (a + 1) + 1 ELSE 0
      /\ \A i \in 1 .. b - (a + 1) + 1 : SubSeq(in, a + 1, b)[i] = in[(a + 1) + i - 1]
  <2>1. a + 1 \in Int /\ b \in Int
    OBVIOUS
  <2> QED
    BY <1>1, <2>1, SubSeqProperties
<1>3. \A i \in 1 .. b - a : (a + 1) + i - 1 = a + i
  OBVIOUS
<1> QED
  BY <1>2, <1>3 DEF Text

\* The lower-case form is the normalised one where no capital has an accent.
LEMMA NormalizedWord ==
  ASSUME NEW s \in Seq(Char), Valid(s), \A i \in 1 .. Len(s) : s[i] # "89"
  PROVE  NormalizeName(s) = ToLowerSeq(s)
<1>1. \A i \in 1 .. Len(s) : WellFormedAt(s, i)
  BY DEF Valid
<1> QED
  BY <1>1 DEF NormalizeName, ToLowerSeq

\* A text without capitals is its own lower-case form.
LEMMA LowerWord ==
  ASSUME NEW s \in Seq(Char), \A i \in 1 .. Len(s) : s[i] \notin Upper
  PROVE  ToLowerSeq(s) = s
<1>1. \A i \in 1 .. Len(s) : ToLower(s[i]) = s[i]
  BY DEF ToLower
<1>2. s = [i \in 1 .. Len(s) |-> s[i]]
  BY LenProperties
<1> QED
  BY <1>1, <1>2 DEF ToLowerSeq

\* A single character that is no letter is a token as it should be.
LEMMA SingleToken ==
  ASSUME CursorInv, pos + 1 <= Len(in), NEW t, t.pos = pos, t.str = <<in[pos + 1]>>,
         t.id = in[pos + 1],
         ~IsIdentStart(in[pos + 1])
  PROVE  Word(t, pos + 1)
<1>1. Len(in) \in Nat /\ pos \in Nat /\ in \in Seq(Char)
  BY CursorFacts DEF CursorInv, InputInv
<1> DEFINE s == Text(pos, pos + 1)
<1>2. s \in Seq(Char) /\ Len(s) = 1 /\ s[1] = in[pos + 1]
  <2>1. pos + 1 \in Nat /\ pos <= pos + 1 /\ (pos + 1) - pos = 1 /\ 1 \in 1 .. 1
    BY <1>1
  <2>2. /\ s \in Seq(Char) /\ Len(s) = (pos + 1) - pos
        /\ \A i \in 1 .. (pos + 1) - pos : s[i] = in[pos + i]
    BY <1>1, <2>1, TextIs
  <2> QED
    BY <2>1, <2>2
<1>3. s = <<in[pos + 1]>>
  BY <1>2
<1> HIDE DEF s
<1>4. ASSUME Valid(s), NoAccent
      PROVE  NormalizeName(s) = s
  <2>1. in[pos + 1] \notin Upper
    BY DEF IsIdentStart
  <2>2. \A i \in 1 .. Len(s) : s[i] # "89" /\ s[i] \notin Upper
    BY <1>1, <1>2, <1>4, <2>1 DEF NoAccent
  <2> QED
    BY <1>2, <1>4, <2>2, NormalizedWord, LowerWord
<1>5. Named(t.id, t.pos, pos + 1, t.str)
  BY <1>3, <1>4 DEF Named, s
<1>6. Whole(t.id, t.pos, pos + 1)
  BY DEF Whole
<1>7. Ends(t.id, t.pos, pos + 1)
  BY <1>1 DEF Ends, NoNul, EofId
<1> QED
  BY <1>5, <1>6, <1>7 DEF Word

\* Returning a token that is as it should be keeps the invariant.
LEMMA ReturnWord ==
  ASSUME WordInv, NEW t, NEW p, Return(t, p), Word(t, p)
  PROVE  WordInv'
<1>1. TakenWords'
  BY DEF WordInv, NoAccent, TakenWords, Return, Word, Named, Whole, Ends, NoNul, Text
<1>2. Word(lval, pos)'
  BY DEF Return, Word, Named, NoAccent, Whole, Ends, NoNul, Text
<1>3. CaseInv' /\ QuotedInv'
  BY DEF Return, CaseInv, QuotedInv
<1> QED
  BY <1>1, <1>2, <1>3 DEF WordInv

\* So does returning one nothing is said of.
LEMMA ReturnOther ==
  ASSUME WordInv, NEW t, NEW p, Return(t, p), Other(t)
  PROVE  WordInv'
BY OtherTokens, ReturnWord

\* So does a step within a loop, and one that leaves it.
LEMMA StayWord ==
  ASSUME WordInv, in' = in, toks' = toks, pc' # "ret", CaseInv', QuotedInv'
  PROVE  WordInv'
<1>1. TakenWords'
  BY DEF WordInv, NoAccent, TakenWords, Word, Named, Whole, Ends, NoNul, Text
<1> QED
  BY <1>1 DEF WordInv

\* A step that leaves every word and literal behind does too.
LEMMA LeaveWord ==
  ASSUME WordInv, in' = in, toks' = toks, pc' \notin {"ret", "ident", "literal", "joint", "dollar"}
  PROVE  WordInv'
<1>1. CaseInv' /\ QuotedInv'
  BY DEF CaseInv, QuotedInv
<1> QED
  BY <1>1, StayWord

\* Blanks and comments (scan.go 415-495).
LEMMA BlankWord ==
  ASSUME WordInv,
         Scan \/ SkipBlank \/ EnterBlockComment \/ EnterLineComment \/ CloseBlock \/ OpenBlock
           \/ BlockChar \/ LineChar
  PROVE  WordInv'
<1>1. in' = in /\ toks' = toks
  BY WorkIsQuiet DEF Working
<1>2. ASSUME pc \in {"ws", "block", "line"}, NEW p, NEW l, Go(p, l)
      PROVE  pc' \in {"ws", "block", "line"}
  BY <1>2 DEF Go
<1>3. ASSUME NEW to \in {"ws", "block", "line"}, NEW p, NEW l, Enter(to, p, l)
      PROVE  pc' \in {"ws", "block", "line"}
  BY <1>3 DEF Enter
<1>4. pc' \in {"ws", "block", "line"}
  <2>1. Scan => pc' \in {"ws", "block", "line"}
    BY DEF Scan
  <2>2. SkipBlank \/ OpenBlock \/ BlockChar => pc' \in {"ws", "block", "line"}
    BY <1>2, Zenon DEF SkipBlank, OpenBlock, BlockChar
  <2>3. EnterBlockComment \/ EnterLineComment => pc' \in {"ws", "block", "line"}
    BY <1>3, Zenon DEF EnterBlockComment, EnterLineComment
  <2>4. CloseBlock \/ LineChar => pc' \in {"ws", "block", "line"}
    BY <1>2, <1>3, Zenon DEF CloseBlock, LineChar
  <2> QED
    BY <2>1, <2>2, <2>3, <2>4
<1> QED
  BY <1>1, <1>4, LeaveWord

\* The tokens that need no loop (scan.go 101-105, 189-390, 471-475).
LEMMA FoundWord ==
  ASSUME CursorInv, WordInv, BlockEof \/ ScanEof \/ ScanOperator \/ ScanSingle
  PROVE  WordInv'
<1>1. ASSUME NEW id, id \notin Marked, NEW str, NEW p, NEW q, Return(Token(id, q, str), p)
      PROVE  WordInv'
  <2>1. Other(Token(id, q, str))
    BY <1>1 DEF Token, Other
  <2> QED
    BY <1>1, <2>1, ReturnOther
<1>2. CASE BlockEof
  <2>1. "ERROR" \notin Marked
    BY Unmarked
  <2> QED
    BY <1>1, <1>2, <2>1, Zenon DEF BlockEof
<1>3. CASE ScanEof
  <2> DEFINE t == Token(EofId, pos, <<>>)
  <2>1. Return(t, pos) /\ Peek = Eof
    BY <1>3 DEF ScanEof
  <2>2. NoNul => pos = Len(in)
    <3>1. Len(in) \in Nat /\ pos \in Nat /\ pos <= Len(in)
      BY CursorFacts
    <3> QED
      BY <2>1, <3>1 DEF Peek, PeekN, NoNul
  <2>3. Named(EofId, pos, pos, <<>>) /\ Whole(EofId, pos, pos)
    BY Unmarked DEF Named, Whole
  <2>4. Ends(EofId, pos, pos)
    BY <2>2, Unmarked DEF Ends
  <2>5. t.id = EofId /\ t.pos = pos /\ t.str = <<>>
    BY DEF Token
  <2>6. Word(t, pos)
    BY <2>3, <2>4, <2>5 DEF Word
  <2> QED
    BY <2>1, <2>6, ReturnWord
<1>4. CASE ScanOperator
  BY <1>1, <1>4, Unmarked, Zenon DEF ScanOperator
<1>5. CASE ScanSingle
  <2> DEFINE t == Token(Peek, pos, <<Peek>>)
  <2>1. Peek # Eof /\ ~IsIdentStart(Peek) /\ Return(t, pos + 1)
    BY <1>5, Zenon DEF ScanSingle, Here
  <2>2. pos + 1 <= Len(in) /\ pos \in Nat /\ Len(in) \in Nat
    BY <2>1, CursorFacts
  <2>3. Peek = in[pos + 1]
    BY <2>1, <2>2 DEF Peek, PeekN
  <2>4. t.pos = pos /\ t.str = <<in[pos + 1]>> /\ t.id = in[pos + 1]
    BY <2>3 DEF Token
  <2>5. ~IsIdentStart(in[pos + 1])
    BY <2>1, <2>3
  <2> HIDE DEF t
  <2>6. Word(t, pos + 1)
    BY <2>2, <2>4, <2>5, SingleToken
  <2> QED
    BY <2>1, <2>6, ReturnWord
<1> QED
  BY <1>2, <1>3, <1>4, <1>5

\* The first character of a literal, a number or a placeholder (scan.go 112-187,
\* 377-381, 886-895).
LEMMA BeginWord ==
  ASSUME CursorInv, WordInv,
         BeginNumber \/ BeginPlaceholder \/ BeginDollar \/ BeginQuoted \/ BeginPrefixed
  PROVE  WordInv'
<1>1. CASE BeginNumber \/ BeginPlaceholder
  <2>1. in' = in /\ toks' = toks /\ pc' \in {"number", "placeholder"}
    BY <1>1 DEF BeginNumber, BeginPlaceholder, Begin
  <2> QED
    BY <2>1, LeaveWord
<1>2. CASE BeginDollar
  <2>1. in' = in /\ toks' = toks /\ pc' = "dollar" /\ lval' = Token("$", pos, <<Peek>>)
    BY <1>2 DEF BeginDollar, Begin, Here
  <2>2. CaseInv' /\ QuotedInv'
    BY <2>1 DEF CaseInv, QuotedInv, Token
  <2> QED
    BY <2>1, <2>2, StayWord
<1>3. ASSUME NEW kind, NEW id, NEW quote, NEW escapes, NEW utf8, NEW p,
             id \notin Marked \/ (id = "IDENT" /\ Peek = DQuote), Peek # Eof,
             Begin("literal", p, LiteralLoc(kind, id, quote, escapes, utf8, p))
      PROVE  WordInv'
  <2>1. /\ in' = in /\ toks' = toks /\ pc' = "literal" /\ lval' = Token(Peek, pos, <<Peek>>)
        /\ loc' = LiteralLoc(kind, id, quote, escapes, utf8, p)
    BY <1>3 DEF Begin, Here
  <2>2. Peek = in[pos + 1]
    <3>1. pos + 1 <= Len(in) /\ pos \in Nat /\ Len(in) \in Nat
      BY <1>3, CursorFacts
    <3> QED
      BY <3>1 DEF Peek, PeekN
  <2>3. CaseInv' /\ QuotedInv'
    BY <1>3, <2>1, <2>2 DEF CaseInv, QuotedInv, Token, LiteralLoc
  <2> QED
    BY <2>1, <2>3, StayWord
<1>4. CASE BeginQuoted
  <2>1. DQuote # Eof /\ Eof # "'" /\ "SCONST" \notin Marked
    BY Quotes, Unmarked DEF DQuote
  <2> QED
    BY <1>3, <1>4, <2>1, Zenon DEF BeginQuoted, DQuote
<1>5. CASE BeginPrefixed
  <2>1. Peek \in DOMAIN LiteralPrefix
    BY <1>5, Zenon DEF BeginPrefixed
  <2>2. Peek # Eof /\ LiteralPrefix[Peek] \in {"SCONST", "BCONST", "BITCONST"}
    BY <2>1 DEF LiteralPrefix, Eof
  <2>3. LiteralPrefix[Peek] \notin Marked
    BY <2>2, Unmarked
  <2> QED
    BY <1>3, <1>5, <2>2, <2>3, Zenon DEF BeginPrefixed
<1> QED
  BY <1>1, <1>2, <1>4, <1>5

\* The name scanIdent gives a word is the normalised one, whichever of its
\* three ways it takes.
LEMMA NameOfWord ==
  ASSUME CursorInv, WordInv, NoAccent, pc = "ident", Valid(Text(loc.start, pos))
  PROVE  IdentName(Text(loc.start, pos)) = NormalizeName(Text(loc.start, pos))
<1> DEFINE s == Text(loc.start, pos)
<1>1. /\ in \in Seq(Char) /\ loc.start \in Nat /\ pos \in Nat /\ Len(in) \in Nat
      /\ loc.start <= pos /\ pos <= Len(in)
  BY CursorFacts DEF CursorInv, InputInv, LoopInv, TokenLoops
<1>2. /\ s \in Seq(Char)
      /\ Len(s) = pos - loc.start
      /\ \A i \in 1 .. pos - loc.start :
           s[i] = in[loc.start + i] /\ loc.start + i \in loc.start + 1 .. pos
  BY <1>1, TextIs
<1> HIDE DEF s
<1>3. \A i \in 1 .. Len(s) : s[i] # "89"
  <2> SUFFICES ASSUME NEW i \in 1 .. Len(s) PROVE s[i] # "89"
    OBVIOUS
  <2>1. s[i] = in[loc.start + i] /\ loc.start + i \in 1 .. Len(in)
    BY <1>1, <1>2
  <2> QED
    BY <2>1 DEF NoAccent
<1>4. NormalizeName(s) = ToLowerSeq(s)
  BY <1>2, <1>3, NormalizedWord DEF s
<1>5. CASE loc.isLower
  <2>1. \A i \in 1 .. Len(s) : s[i] \notin Upper
    BY <1>2, <1>5 DEF WordInv, CaseInv
  <2>2. ToLowerSeq(s) = s
    BY <1>2, <2>1, LowerWord
  <2>3. IdentName(s) = s
    BY <1>5, Zenon DEF IdentName
  <2> QED
    BY <1>4, <2>2, <2>3 DEF s
<1>6. CASE ~loc.isLower /\ loc.isASCII
  <2>1. IdentName(s) = ToLowerSeq(s)
    BY <1>6, Zenon DEF IdentName
  <2> QED
    BY <1>4, <2>1 DEF s
<1>7. CASE ~loc.isLower /\ ~loc.isASCII
  <2>1. IdentName(s) = NormalizeName(s)
    BY <1>7, Zenon DEF IdentName
  <2> QED
    BY <2>1 DEF s
<1> QED
  BY <1>5, <1>6, <1>7

\* Identifiers and keywords (scan.go 497-577).
LEMMA WordWord ==
  ASSUME CursorInv, WordInv, BeginIdent \/ IdentChar \/ IdentEnd
  PROVE  WordInv'
<1>1. /\ Len(in) \in Nat /\ pos \in Nat /\ pos <= Len(in)
      /\ Peek # Eof => pos + 1 <= Len(in)
  BY CursorFacts
<1>2. CASE BeginIdent
  <2>1. /\ in' = in /\ toks' = toks /\ pos' = pos /\ pc' = "ident"
        /\ loc' = [start |-> pos, isASCII |-> TRUE, isLower |-> TRUE]
    BY <1>2, Zenon DEF BeginIdent, Begin, Here
  <2>2. \A j \in pos + 1 .. pos : in[j] \notin Upper
    BY <1>1
  <2>3. CaseInv' /\ QuotedInv'
    BY <2>1, <2>2 DEF CaseInv, QuotedInv
  <2> QED
    BY <2>1, <2>3, StayWord
<1>3. pc = "ident" => /\ loc.start = lval.pos /\ loc.start \in Nat /\ loc.start <= pos
                      /\ {"start", "isASCII", "isLower"} \subseteq DOMAIN loc
                      /\ loc.isLower => \A j \in loc.start + 1 .. pos : in[j] \notin Upper
  BY <1>1, CursorFacts DEF CursorInv, LoopInv, TokenLoops, WordInv, CaseInv
<1>4. CASE IdentChar
  <2> DEFINE a == loc.isASCII /\ Peek \notin HighByte
             b == loc.isLower /\ Peek \notin Upper
  <2>1. /\ in' = in /\ toks' = toks /\ pos' = pos + 1 /\ pc' = "ident" /\ pc = "ident"
        /\ loc' = [loc EXCEPT !.isASCII = a, !.isLower = b]
    BY <1>4, Zenon DEF IdentChar, Go
  <2>2. Peek # Eof
    BY <1>4, EofIsNoByte DEF IdentChar
  <2>3. Peek = in[pos + 1]
    BY <1>1, <2>2 DEF Peek, PeekN
  <2>4. ASSUME b, NEW j \in loc.start + 1 .. pos + 1
        PROVE  in[j] \notin Upper
    <3>1. CASE j \in loc.start + 1 .. pos
      BY <1>3, <2>1, <2>4, <3>1
    <3>2. CASE j = pos + 1
      BY <2>3, <2>4, <3>2
    <3> QED
      BY <1>1, <1>3, <2>1, <3>1, <3>2
  <2> HIDE DEF a, b
  <2>5. /\ {"isASCII", "isLower"} \subseteq DOMAIN loc'
        /\ loc'.start = loc.start
        /\ loc'.isLower = b
    BY <1>3, <2>1
  <2>6. CaseInv'
    BY <2>1, <2>4, <2>5 DEF CaseInv
  <2>7. QuotedInv'
    BY <2>1 DEF QuotedInv
  <2> QED
    BY <2>1, <2>6, <2>7, StayWord
<1>5. CASE IdentEnd
  <2> DEFINE name == IdentName(Text(loc.start, pos))
  <2>1. pc = "ident" /\ ~IsIdentMiddle(Peek)
    BY <1>5 DEF IdentEnd
  <2>2. pos < Len(in) => ~IsIdentMiddle(in[pos + 1])
    BY <1>1, <2>1 DEF Peek, PeekN
  <2>3. \/ \E kw : Return(Token("KEYWORD", lval.pos, kw), pos)
        \/ Return(Token(KeywordId(name), lval.pos, name), pos)
    BY <1>5, Zenon DEF IdentEnd
  <2>4. CASE \E kw : Return(Token("KEYWORD", lval.pos, kw), pos)
    <3>1. PICK kw : Return(Token("KEYWORD", lval.pos, kw), pos)
      BY <2>4
    <3>2. Word(Token("KEYWORD", lval.pos, kw), pos)
      BY <2>2, Unmarked DEF Word, Named, Whole, Ends, Token
    <3> QED
      BY <3>1, <3>2, ReturnWord
  <2>5. CASE Return(Token(KeywordId(name), lval.pos, name), pos)
    <3>1. Valid(Text(lval.pos, pos)) /\ NoAccent => name = NormalizeName(Text(lval.pos, pos))
      BY <1>3, <2>1, NameOfWord
    <3> HIDE DEF name
    <3>2. Word(Token(KeywordId(name), lval.pos, name), pos)
      BY <2>2, <3>1, Unmarked DEF Word, Named, Whole, Ends, Token, KeywordId
    <3> QED
      BY <2>5, <3>2, ReturnWord
  <2> QED
    BY <2>3, <2>4, <2>5
<1> QED
  BY <1>2, <1>4, <1>5

\* Errors are none of these tokens.
LEMMA ErrorWord ==
  ASSUME CursorInv, WordInv, NEW p, Return(Error, p)
  PROVE  WordInv'
<1>1. Other(Error)
  BY Unmarked DEF CursorInv, TokensInv, Error, Other
<1> QED
  BY <1>1, ReturnOther

\* Numbers and placeholders (scan.go 579-692).
LEMMA NumberWord ==
  ASSUME CursorInv, WordInv,
         NumberDigit \/ NumberX \/ NumberDot \/ NumberExponent \/ NumberEnd
           \/ PlaceholderDigit \/ PlaceholderEnd
  PROVE  WordInv'
<1>1. ASSUME pc \in {"number", "placeholder"}, NEW p, NEW l, Go(p, l)
      PROVE  WordInv'
  <2>1. in' = in /\ toks' = toks /\ pc' \in {"number", "placeholder"}
    BY <1>1 DEF Go
  <2> QED
    BY <2>1, LeaveWord
<1>2. ASSUME NEW id \in {"FCONST", "ICONST", "PLACEHOLDER"}, NEW str, Return(Token(id, lval.pos, str), pos)
      PROVE  WordInv'
  <2>1. Other(Token(id, lval.pos, str))
    BY Unmarked DEF Token, Other
  <2> QED
    BY <1>2, <2>1, ReturnOther
<1>3. NumberDigit \/ NumberDot \/ PlaceholderDigit => WordInv'
  BY <1>1, Zenon DEF NumberDigit, NumberDot, PlaceholderDigit
<1>4. NumberX \/ NumberExponent => WordInv'
  BY <1>1, ErrorWord, Zenon DEF NumberX, NumberExponent
<1>5. PlaceholderEnd => WordInv'
  BY <1>2, ErrorWord, Zenon DEF PlaceholderEnd
<1>6. NumberEnd => WordInv'
  <2>1. NumberEnd =>
          \/ \E id \in {"FCONST", "ICONST", "PLACEHOLDER"} : \E str : Return(Token(id, lval.pos, str), pos)
          \/ Return(Error, pos)
    BY Zenon DEF NumberEnd
  <2> QED
    BY <1>2, <2>1, ErrorWord, Zenon
<1> QED
  BY <1>3, <1>4, <1>5, <1>6, Zenon

\* Quoted literals (scan.go 694-884): a word only if it is a quoted name.
LEMMA LiteralWord ==
  ASSUME CursorInv, WordInv,
         DoubledQuote \/ CloseQuote \/ JointBlank \/ Join \/ LiteralEnd \/ StringEof \/ StringChar
           \/ EscapedQuote \/ Escape \/ DropBackslash \/ HexStringDigit \/ BitStringDigit
           \/ DigitStringError
  PROVE  WordInv'
<1>1. pc \in {"literal", "joint"}
  BY Zenon DEF DoubledQuote, CloseQuote, JointBlank, Join, LiteralEnd, StringEof, StringChar,
               EscapedQuote, Escape, DropBackslash, HexStringDigit, BitStringDigit,
               DigitStringError, EscapeAhead, InLiteral
<1>2. /\ "id" \in DOMAIN loc
      /\ loc.id \notin Marked \/ (loc.id = "IDENT" /\ in[lval.pos + 1] = DQuote)
  BY <1>1 DEF WordInv, QuotedInv
<1>3. ASSUME NEW p, NEW l, Go(p, l) \/ Enter("literal", p, l) \/ Enter("joint", p, l),
             "id" \in DOMAIN l, l.id = loc.id
      PROVE  WordInv'
  <2>1. /\ in' = in /\ toks' = toks /\ pc' \in {"literal", "joint"} /\ lval' = lval /\ loc' = l
    BY <1>1, <1>3 DEF Go, Enter
  <2>2. CaseInv' /\ QuotedInv'
    BY <1>2, <1>3, <2>1 DEF CaseInv, QuotedInv
  <2> QED
    BY <2>1, <2>2, StayWord
<1>4. ASSUME NEW b, NEW k, Go(k, [loc EXCEPT !.buf = b])
      PROVE  WordInv'
  <2> DEFINE l == [loc EXCEPT !.buf = b]
  <2>1. "id" \in DOMAIN l /\ l.id = loc.id
    BY <1>2
  <2> QED
    BY <1>3, <1>4, <2>1
<1>5. ASSUME NEW b, NEW s, NEW k, Go(k, [loc EXCEPT !.buf = b, !.start = s])
      PROVE  WordInv'
  <2> DEFINE l == [loc EXCEPT !.buf = b, !.start = s]
  <2>1. "id" \in DOMAIN l /\ l.id = loc.id
    BY <1>2
  <2> QED
    BY <1>3, <1>5, <2>1
<1>6. DoubledQuote \/ EscapedQuote \/ DropBackslash => WordInv'
  BY <1>5, Zenon DEF DoubledQuote, EscapedQuote, DropBackslash
<1>7. Escape => WordInv'
  BY <1>5, ErrorWord, Zenon DEF Escape
<1>8. BitStringDigit => WordInv'
  BY <1>4, Zenon DEF BitStringDigit
<1>9. StringChar => WordInv'
  BY <1>2, <1>3, Zenon DEF StringChar
<1>10. StringEof \/ DigitStringError => WordInv'
  BY ErrorWord, Zenon DEF StringEof, DigitStringError
<1>11. CASE CloseQuote
  <2> DEFINE b == IF loc.kind = "string" THEN Flushed ELSE loc.buf
             l == [loc EXCEPT !.buf = b, !.newline = FALSE]
  <2>1. Enter("joint", pos + 1, l)
    BY <1>11, Zenon DEF CloseQuote
  <2> HIDE DEF b
  <2>2. "id" \in DOMAIN l /\ l.id = loc.id
    BY <1>2
  <2> QED
    BY <1>3, <2>1, <2>2
<1>12. CASE JointBlank
  <2> DEFINE b == loc.newline \/ Peek = "\n"
             l == [loc EXCEPT !.newline = b]
  <2>1. Go(pos + 1, l)
    BY <1>12, Zenon DEF JointBlank
  <2> HIDE DEF b
  <2>2. "id" \in DOMAIN l /\ l.id = loc.id
    BY <1>2
  <2> QED
    BY <1>3, <2>1, <2>2
<1>13. CASE Join
  <2> DEFINE l == [loc EXCEPT !.start = pos + 1]
  <2>1. Enter("literal", pos + 1, l)
    BY <1>13 DEF Join
  <2>2. "id" \in DOMAIN l /\ l.id = loc.id
    BY <1>2
  <2> QED
    BY <1>3, <2>1, <2>2
<1>14. CASE HexStringDigit
  <2> DEFINE l == IF loc.half = "" THEN [loc EXCEPT !.half = Peek]
                  ELSE [loc EXCEPT !.buf = Append(@, ByteOf(<<loc.half, Peek>>)), !.half = ""]
  <2>1. Go(pos + 1, l)
    BY <1>14, Zenon DEF HexStringDigit
  <2>2. "id" \in DOMAIN l /\ l.id = loc.id
    BY <1>2
  <2> QED
    BY <1>3, <2>1, <2>2
<1>15. CASE LiteralEnd
  <2>1. ASSUME Return(Token(loc.id, lval.pos, loc.buf), pos)
        PROVE  WordInv'
    <3> DEFINE t == Token(loc.id, lval.pos, loc.buf)
    <3>1. Other(t)
      BY <1>2 DEF Other, Token
    <3> QED
      BY <2>1, <3>1, ReturnOther
  <2>2. CASE loc.half # ""
    BY <1>15, <2>2, ErrorWord, Zenon DEF LiteralEnd
  <2>3. CASE loc.half = ""
    <3>1. PICK valid : Return(IF valid THEN Token(loc.id, lval.pos, loc.buf) ELSE Error, pos)
      BY <1>15, <2>3, Zenon DEF LiteralEnd
    <3>2. CASE valid
      BY <2>1, <3>1, <3>2, Zenon
    <3>3. CASE ~valid
      BY <3>1, <3>3, ErrorWord, Zenon
    <3> QED
      BY <3>2, <3>3
  <2> QED
    BY <2>2, <2>3
<1> QED
  BY <1>6, <1>7, <1>8, <1>9, <1>10, <1>11, <1>12, <1>13, <1>14, <1>15, Zenon

\* Dollar-quoted strings (scan.go 886-960).
LEMMA DollarWord ==
  ASSUME CursorInv, WordInv,
         DollarTag \/ DollarMark \/ DollarEnd \/ DollarEof \/ DollarNoTag \/ DollarChar
  PROVE  WordInv'
<1>1. pc = "dollar"
  BY DEF DollarTag, DollarMark, DollarEnd, DollarEof, DollarNoTag, DollarChar
<1>2. lval.id = "$" /\ Other(lval)
  BY <1>1, Unmarked DEF WordInv, QuotedInv, Other
<1>3. ASSUME NEW p, NEW l, Go(p, l)
      PROVE  WordInv'
  <2>1. in' = in /\ toks' = toks /\ pc' = "dollar" /\ lval' = lval
    BY <1>1, <1>3 DEF Go
  <2>2. CaseInv' /\ QuotedInv'
    BY <1>2, <2>1 DEF CaseInv, QuotedInv
  <2> QED
    BY <2>1, <2>2, StayWord
<1>4. ASSUME NEW p, Return(lval, p)
      PROVE  WordInv'
  BY <1>2, <1>4, ReturnOther
<1>5. DollarTag \/ DollarMark \/ DollarChar => WordInv'
  BY <1>3, Zenon DEF DollarTag, DollarMark, DollarChar
<1>6. DollarEof \/ DollarNoTag => WordInv'
  BY <1>4, ErrorWord, Zenon DEF DollarEof, DollarNoTag
<1>7. CASE DollarEnd
  <2> DEFINE t == Token("SCONST", lval.pos, Text(loc.start + Len(loc.tag) + 1, pos - Len(loc.tag) - 1))
  <2>1. PICK valid : Return(IF valid THEN t ELSE Error, pos + 1)
    BY <1>7, Zenon DEF DollarEnd
  <2>2. Other(t)
    BY Unmarked DEF Token, Other
  <2> HIDE DEF t
  <2>3. CASE valid
    BY <2>1, <2>2, <2>3, ReturnOther
  <2>4. CASE ~valid
    <3>1. Return(Error, pos + 1)
      BY <2>1, <2>4
    <3> QED
      BY <3>1, ErrorWord
  <2> QED
    BY <2>3, <2>4
<1> QED
  BY <1>5, <1>6, <1>7, Zenon

\* A client hands out the token as scan returned it.
LEMMA ClientWord ==
  ASSUME CursorInv, WordInv, Tokens \/ SplitFirstStatement \/ LastLexicalToken
  PROVE  WordInv'
<1>1. /\ pc = "ret" /\ in' = in /\ pc' \in {"scan", "done"}
      /\ toks' = Taken \/ toks' = toks
  <2>1. pc = "ret" /\ (Again \/ \E r : Finish(r))
    <3>1. CASE Tokens
      BY <3>1, Zenon DEF Tokens
    <3>2. CASE SplitFirstStatement
      BY <3>2, Zenon DEF SplitFirstStatement
    <3>3. CASE LastLexicalToken
      BY <3>3, Zenon DEF LastLexicalToken
    <3> QED
      BY <3>1, <3>2, <3>3
  <2> QED
    BY <2>1 DEF Again, Finish
<1>2. CASE toks' = toks
  BY <1>1, <1>2, LeaveWord
<1>3. CASE toks' = Taken
  <2>1. Word(lval, pos)
    BY <1>1 DEF WordInv
  <2> DEFINE n == Len(toks)
             t == [id |-> lval.id, pos |-> lval.pos, str |-> lval.str, end |-> pos]
  <2>2. /\ n \in Nat /\ Len(Taken) = n + 1
        /\ \A i \in 1 .. n : Taken[i] = toks[i]
        /\ Taken[n + 1] = t
    BY TakenAppends
  <2>3. Word(t, t.end)
    BY <2>1 DEF Word
  <2> HIDE DEF n, t
  <2>4. ASSUME NEW i \in 1 .. Len(Taken)
        PROVE  Word(Taken[i], Taken[i].end)
    <3>1. CASE i \in 1 .. n
      BY <2>2, <3>1 DEF WordInv, TakenWords, n
    <3>2. CASE i = n + 1
      BY <2>2, <2>3, <3>2
    <3> QED
      BY <2>2, <3>1, <3>2
  <2>5. TakenWords'
    BY <1>1, <1>3, <2>4 DEF WordInv, NoAccent, TakenWords, Word, Named, Whole, Ends, NoNul, Text
  <2>6. CaseInv' /\ QuotedInv'
    BY <1>1 DEF CaseInv, QuotedInv
  <2> QED
    BY <1>1, <2>5, <2>6 DEF WordInv
<1> QED
  BY <1>1, <1>2, <1>3

\* Every step keeps the words as they should be.
LEMMA WordStep ==
  ASSUME CursorInv, WordInv, [Next]_vars
  PROVE  WordInv'
<1>1. CASE UNCHANGED vars
  BY <1>1 DEF vars, WordInv, NoAccent, TakenWords, Word, Named, NoAccent, Whole, Ends, NoNul, Text, CaseInv, QuotedInv
<1>2. CASE Next
  BY <1>2, BlankWord, FoundWord, BeginWord, WordWord, NumberWord, LiteralWord, DollarWord, ClientWord,
     Zenon DEF Next
<1> QED
  BY <1>1, <1>2

\* No step changes the input.
LEMMA InputStays ==
  ASSUME [Next]_vars
  PROVE  in' = in
<1>1. Tokens \/ SplitFirstStatement \/ LastLexicalToken => in' = in
  BY Zenon DEF Tokens, SplitFirstStatement, LastLexicalToken, Again, Finish
<1>2. UNCHANGED vars => in' = in
  BY DEF vars
<1> QED
  BY <1>1, <1>2, WorkIsQuiet, Zenon DEF Next, Working

\* The words are as they should be, whatever the input.
LEMMA WordInvariant == Spec => []WordInv
<1>1. Init => WordInv
  <2> SUFFICES ASSUME Init PROVE WordInv
    OBVIOUS
  <2>1. toks = <<>> /\ pc = "scan"
    BY DEF Init
  <2> QED
    BY <2>1 DEF WordInv, TakenWords, CaseInv, QuotedInv
<1>2. CursorInv /\ WordInv /\ [Next]_vars => WordInv'
  BY WordStep
<1> QED
  BY <1>1, <1>2, CursorInvariant, PTL DEF Spec

\* An unquoted word is never cut short: the character after it cannot continue
\* it (scan.go 511-526).
THEOREM WordsTakenWhole == Spec => []WordsAreWhole
<1>1. WordInv => WordsAreWhole
  BY DEF WordInv, TakenWords, Word, Whole, WordsAreWhole
<1> QED
  BY <1>1, WordInvariant, PTL

\* No input has a capital letter outside ASCII, which scanIdent does not take for
\* a capital (scan.go 514-527): the excluded inputs are those of scan_unicode.
NoAccentedCapital ==
  \A c \in Clients : \A family \in Inputs[c] : \A s \in family : \A i \in 1 .. Len(s) : s[i] # "89"

\* A name is the lower-case, normalised form of its text, whichever of its three
\* ways scanIdent takes, unless a capital letter of the text has an accent (scan.go
\* 527-545).
THEOREM NamesAreNormalized == NoAccentedCapital /\ Spec => []IdentNormalized
<1>1. NoAccentedCapital /\ Init => NoAccent
  BY DEF NoAccentedCapital, NoAccent, Init
<1>2. NoAccent /\ [Next]_vars => NoAccent'
  BY InputStays DEF NoAccent
<1>3. WordInv /\ NoAccent => IdentNormalized
  BY Zenon DEF WordInv, TakenWords, Word, Named, IdentNormalized, DQuote
<1> QED
  BY <1>1, <1>2, <1>3, WordInvariant, PTL DEF Spec

\* No input has a NUL byte: as a token of its own it is numbered 0 and ends every
\* client early, as the end does (scan.go 388, 970, 985, 1010).
NoNulByte ==
  \A c \in Clients : \A family \in Inputs[c] : \A s \in family : \A i \in 1 .. Len(s) : s[i] # Nul

\* An input begins without a NUL byte and stays the same.
LEMMA NoNulStays ==
  /\ NoNulByte /\ Init => NoNul
  /\ NoNul /\ [Next]_vars => NoNul'
<1>1. NoNulByte /\ Init => NoNul
  <2> SUFFICES ASSUME NoNulByte, Init, NEW i \in 1 .. Len(in) PROVE in[i] \notin {Nul, Eof}
    BY DEF NoNul
  <2>1. PICK family \in Inputs[client] : in \in family
    BY DEF Init
  <2>2. client \in Clients
    BY DEF Init
  <2>3. in[i] # Nul
    BY <2>1, <2>2 DEF NoNulByte
  <2>4. in[i] \in Char
    BY InputIs, ElementOfSeq
  <2> QED
    BY <2>3, <2>4, ScannerAssumption DEF NotCharacters
<1>2. NoNul /\ [Next]_vars => NoNul'
  BY InputStays DEF NoNul
<1> QED
  BY <1>1, <1>2

\* The end is only reported at the end of the input, unless a NUL byte is taken
\* for it (scan.go 101-105, 388).
THEOREM EndIsTheEnd == NoNulByte /\ Spec => []EofAtEnd
<1>1. WordInv /\ NoNul => EofAtEnd
  BY DEF WordInv, Word, Ends, EofAtEnd
<1> QED
  BY <1>1, NoNulStays, WordInvariant, PTL DEF Spec
-----------------------------------------------------------------------------
\* The tokens a client has gone on over: it never goes on after an ERROR or, if
\* it looks for one, after a semicolon.
GoesOnOver ==
  /\ client \in {"Tokens", "Split"} => \A i \in 1 .. Len(toks) : toks[i].id # "ERROR"
  /\ client = "Split" => \A i \in 1 .. Len(toks) : toks[i].id # Semicolon

\* What a client knows while it reads, and its result when it has read.
ClientInv ==
  /\ pc # "done" => GoesOnOver
  /\ NoNul => ClientResults

\* A client goes on, or ends with the right result.
LEMMA ClientResult ==
  ASSUME CursorInv, WordInv, ClientInv, Tokens \/ SplitFirstStatement \/ LastLexicalToken
  PROVE  ClientInv'
<1> DEFINE n == Len(toks)
<1>1. /\ n \in Nat /\ Len(Taken) = n + 1
      /\ \A i \in 1 .. n : Taken[i] = toks[i]
      /\ Taken[n + 1] = [id |-> lval.id, pos |-> lval.pos, str |-> lval.str, end |-> pos]
      /\ Taken # <<>>
  BY TakenAppends
<1>2. pc = "ret"
  BY Zenon DEF Tokens, SplitFirstStatement, LastLexicalToken
<1>3. GoesOnOver
  BY <1>2 DEF ClientInv
<1>4. Ends(lval.id, lval.pos, pos)
  BY <1>2 DEF WordInv, Word
<1>5. Taken[n + 1].id = lval.id /\ Taken[n + 1].end = pos
  BY <1>1
<1>6. \A i \in 1 .. Len(Taken) : i \in 1 .. n \/ i = n + 1
  BY <1>1
<1>7. /\ 1 .. Len(Taken) - 1 = 1 .. n
      /\ n + 1 \in 1 .. Len(Taken)
      /\ 1 .. n - 1 \subseteq 1 .. n
  BY <1>1
<1> HIDE DEF n
\* The client goes on.
<1>8. ASSUME Again, client \in {"Tokens", "Split"} => lval.id # "ERROR",
             client = "Split" => lval.id # Semicolon
      PROVE  ClientInv'
  <2>1. pc' = "scan" /\ toks' = Taken /\ client' = client
    BY <1>8 DEF Again
  <2>2. GoesOnOver'
    <3>1. ASSUME client \in {"Tokens", "Split"}, NEW i \in 1 .. Len(Taken)
          PROVE  Taken[i].id # "ERROR"
      BY <1>1, <1>3, <1>5, <1>6, <1>8, <3>1 DEF GoesOnOver, n
    <3>2. ASSUME client = "Split", NEW i \in 1 .. Len(Taken)
          PROVE  Taken[i].id # Semicolon
      BY <1>1, <1>3, <1>5, <1>6, <1>8, <3>2 DEF GoesOnOver, n
    <3> QED
      BY <2>1, <3>1, <3>2 DEF GoesOnOver
  <2> QED
    BY <2>1, <2>2 DEF ClientInv, ClientResults
<1>9. CASE Tokens
  <2>1. CASE lval.id = "ERROR"
    <3>1. /\ toks' = Taken /\ client' = "Tokens" /\ pc' = "done" /\ ~res'.ok
      <4>2. lval.id # EofId
        BY <2>1 DEF EofId, Nul
      <4>1. client = "Tokens" /\ Finish([ok |-> FALSE, val |-> 0])
        BY <1>9, <2>1, <4>2, Zenon DEF Tokens
      <4> QED
        BY <4>1, <4>2 DEF Finish
    <3>2. \A i \in 1 .. n : Taken[i].id # "ERROR"
      BY <1>1, <1>3, <1>9, Zenon DEF GoesOnOver, Tokens, n
    <3>3. ClientResults'
      BY <1>5, <1>7, <2>1, <3>1, <3>2 DEF ClientResults
    <3> QED
      BY <3>1, <3>3 DEF ClientInv
  <2>2. CASE lval.id = EofId
    <3>1. /\ toks' = toks /\ client' = "Tokens" /\ pc' = "done" /\ res'.ok /\ pos' = pos /\ in' = in
      <4>1. client = "Tokens" /\ Finish([ok |-> TRUE, val |-> n])
        <5>1. lval.id # "ERROR"
          BY <2>2 DEF EofId, Nul
        <5> QED
          BY <1>9, <2>2, <5>1, Zenon DEF Tokens, n
      <4> QED
        BY <2>2, <4>1 DEF Finish
    <3>2. \A i \in 1 .. n : toks[i].id # "ERROR"
      BY <1>3, <1>9, Zenon DEF GoesOnOver, Tokens, n
    <3>3. NoNul' => pos = Len(in)
      BY <1>4, <2>2, <3>1 DEF Ends, NoNul
    <3>4. NoNul' => ClientResults'
      BY <1>7, <3>1, <3>2, <3>3 DEF ClientResults, n
    <3> QED
      BY <3>1, <3>4 DEF ClientInv
  <2>3. CASE lval.id # "ERROR" /\ lval.id # EofId
    <3>1. client = "Tokens" /\ Again
      BY <1>9, <2>3, Zenon DEF Tokens
    <3> QED
      BY <1>8, <2>3, <3>1
  <2> QED
    BY <2>1, <2>2, <2>3
<1>10. CASE SplitFirstStatement
  <2>0. client = "Split" /\ \A i \in 1 .. n : toks[i].id \notin {"ERROR", Semicolon}
    BY <1>3, <1>10, Zenon DEF GoesOnOver, SplitFirstStatement, n
  <2>1. CASE lval.id = EofId
    <3>1. toks' = toks /\ client' = "Split" /\ pc' = "done" /\ ~res'.ok
      <4>1. Finish([ok |-> FALSE, val |-> 0])
        <5>1. lval.id # "ERROR" /\ lval.id # Semicolon
          BY <2>1, Unmarked DEF Marked
        <5> QED
          BY <1>10, <2>1, <5>1, Zenon DEF SplitFirstStatement
      <4> QED
        BY <2>0, <2>1, <4>1 DEF Finish
    <3>2. ClientResults'
      BY <1>7, <2>0, <3>1 DEF ClientResults, n
    <3> QED
      BY <3>1, <3>2 DEF ClientInv
  <2>2. CASE lval.id = "ERROR"
    <3>1. toks' = Taken /\ client' = "Split" /\ pc' = "done" /\ ~res'.ok
      <4>2. lval.id # EofId /\ lval.id # Semicolon
        BY <2>2, Unmarked DEF EofId, Nul, Marked
      <4>1. Finish([ok |-> FALSE, val |-> 0])
        BY <1>10, <2>2, <4>2, Zenon DEF SplitFirstStatement
      <4> QED
        BY <2>0, <4>1, <4>2 DEF Finish
    <3>2. "ERROR" # Semicolon
      BY Unmarked DEF Marked
    <3>3. \A i \in 1 .. n : Taken[i].id \notin {"ERROR", Semicolon}
      BY <1>1, <2>0 DEF n
    <3>4. \A i \in 1 .. Len(Taken) : Taken[i].id # Semicolon
      BY <1>5, <1>6, <2>2, <3>2, <3>3
    <3>5. ClientResults'
      BY <1>7, <3>1, <3>3, <3>4 DEF ClientResults
    <3> QED
      BY <3>1, <3>5 DEF ClientInv
  <2>3. CASE lval.id = Semicolon
    <3>1. lval.id # EofId /\ lval.id # "ERROR"
      BY <2>3, Unmarked DEF Marked
    <3>2. /\ toks' = Taken /\ client' = "Split" /\ pc' = "done" /\ res'.ok /\ res'.val = pos
          /\ pos' = pos /\ in' = in
      <4>1. Finish([ok |-> TRUE, val |-> pos])
        BY <1>10, <2>3, <3>1, Zenon DEF SplitFirstStatement
      <4> QED
        BY <2>0, <3>1, <4>1 DEF Finish
    <3>3. in[pos] = Semicolon
      BY <1>4, <2>3 DEF Ends
    <3>4. LastEnd' = pos
      BY <1>1, <1>5, <3>2 DEF LastEnd
    <3>5. \A i \in 1 .. n : Taken[i].id \notin {"ERROR", Semicolon}
      BY <1>1, <2>0 DEF n
    <3>6. ClientResults'
      BY <1>7, <3>2, <3>3, <3>4, <3>5 DEF ClientResults
    <3> QED
      BY <3>2, <3>6 DEF ClientInv
  <2>4. CASE lval.id \notin {EofId, "ERROR", Semicolon}
    <3>1. Again
      BY <1>10, <2>4, Zenon DEF SplitFirstStatement
    <3> QED
      BY <1>8, <2>4, <3>1
  <2> QED
    BY <2>1, <2>2, <2>3, <2>4
<1>11. CASE LastLexicalToken
  <2>1. CASE lval.id = EofId
    <3>1. client' = "Last" /\ pc' = "done" /\ pos' = pos /\ in' = in
      BY <1>11, <2>1 DEF LastLexicalToken, Finish
    <3>2. NoNul' => pos = Len(in)
      BY <1>4, <2>1, <3>1 DEF Ends, NoNul
    <3>3. NoNul' => ClientResults'
      BY <3>1, <3>2 DEF ClientResults
    <3> QED
      BY <3>1, <3>3 DEF ClientInv
  <2>2. CASE lval.id # EofId
    <3>1. Again /\ client = "Last"
      BY <1>11, <2>2 DEF LastLexicalToken
    <3> QED
      BY <1>8, <3>1
  <2> QED
    BY <2>1, <2>2
<1> QED
  BY <1>9, <1>10, <1>11

\* Every step keeps what the client knows.
LEMMA ClientStep ==
  ASSUME CursorInv, WordInv, ClientInv, [Next]_vars
  PROVE  ClientInv'
<1>1. CASE UNCHANGED vars
  <2>1. UNCHANGED <<client, in, pos, pc, loc, lval, toks, res>>
    BY <1>1 DEF vars
  <2>2. LastEnd' = LastEnd
    BY <2>1, SameLastEnd
  <2> QED
    BY <2>1, <2>2 DEF ClientInv, GoesOnOver, NoNul, ClientResults
<1>2. CASE Working
  <2>1. toks' = toks /\ pc # "done" /\ pc' # "done"
    BY <1>2, WorkIsQuiet
  <2>2. client' = client
    BY <1>2, WorkIsQuiet
  <2> QED
    BY <2>1, <2>2 DEF ClientInv, GoesOnOver, ClientResults
<1>3. CASE Tokens \/ SplitFirstStatement \/ LastLexicalToken
  BY <1>3, ClientResult
<1> QED
  BY <1>1, <1>2, <1>3, Zenon DEF Next, Working

\* A client stops where it should and its result is about the tokens it read:
\* Tokens fails on the first ERROR, SplitFirstStatement stops after the first
\* semicolon that is a token, LastLexicalToken reads to the end, unless a NUL byte
\* is taken for the end (scan.go 963-1021).
THEOREM ClientsStopRight == NoNulByte /\ Spec => []ClientResults
<1>1. Init => ClientInv
  <2> SUFFICES ASSUME Init PROVE ClientInv
    OBVIOUS
  <2>1. toks = <<>> /\ pc = "scan"
    BY DEF Init
  <2> QED
    BY <2>1 DEF ClientInv, GoesOnOver, ClientResults
<1>2. CursorInv /\ WordInv /\ ClientInv /\ [Next]_vars => ClientInv'
  BY ClientStep
<1>3. ClientInv /\ NoNul => ClientResults
  BY DEF ClientInv
<1> QED
  BY <1>1, <1>2, <1>3, NoNulStays, CursorInvariant, WordInvariant, PTL DEF Spec
=============================================================================
