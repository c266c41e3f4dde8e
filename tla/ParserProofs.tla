---------------------------- MODULE ParserProofs ----------------------------
(* Proofs about the parser around its grammar: IInv is inductive, whatever  *)
(* the grammar accepts, so the tokens of a statement name the statement's   *)
(* own text and a failure explains itself at the token that caused it.      *)
EXTENDS Parser, SequenceTheorems, TLAPS

\* What TypeOK says of each variable, token by token.
LEMMA Types ==
  ASSUME TypeOK
  PROVE  /\ Len(tokens) \in Nat /\ Len(input.toks) \in Nat
         /\ \A i \in 1 .. Len(tokens) :
              /\ tokens[i].id \in TokenId
              /\ tokens[i].pos \in Int /\ tokens[i].idx \in Nat
         /\ \A i \in 1 .. Len(input.toks) :
              /\ input.toks[i].id \in TokenId
              /\ input.toks[i].pos \in Nat /\ input.toks[i].end \in Nat
              /\ input.toks[i].idx \in Nat
         /\ input.size \in Nat
         /\ sql.from \in Nat /\ sql.to \in Nat
         /\ first \in Nat /\ scanned \in Nat /\ first <= scanned /\ scanned <= Len(input.toks)
         /\ lexer.lastPos \in Int
<1>1. tokens \in Seq(LexToken) /\ input.toks \in Seq(ScanToken) /\ input.size \in Nat
  BY DEF TypeOK
<1>2. Len(tokens) \in Nat /\ Len(input.toks) \in Nat
  BY <1>1
<1>3. ASSUME NEW i \in 1 .. Len(tokens)
      PROVE  tokens[i] \in LexToken
  BY <1>1
<1>4. ASSUME NEW i \in 1 .. Len(input.toks)
      PROVE  input.toks[i] \in ScanToken
  BY <1>1
<1>5. ASSUME NEW i \in 1 .. Len(tokens)
      PROVE  /\ tokens[i].id \in TokenId
             /\ tokens[i].pos \in Int /\ tokens[i].idx \in Nat
  BY <1>3 DEF LexToken
<1>6. ASSUME NEW i \in 1 .. Len(input.toks)
      PROVE  /\ input.toks[i].id \in TokenId
             /\ input.toks[i].pos \in Nat /\ input.toks[i].end \in Nat
             /\ input.toks[i].idx \in Nat
  BY <1>4 DEF ScanToken
<1>7. sql.from \in Nat /\ sql.to \in Nat
  BY DEF TypeOK
<1>8. first \in Nat /\ scanned \in Nat /\ first <= scanned /\ scanned <= Len(input.toks)
  BY <1>2 DEF TypeOK
<1>9. lexer.lastPos \in Int
  BY DEF TypeOK, Lexer
<1> QED
  BY <1>1, <1>2, <1>5, <1>6, <1>7, <1>8, <1>9

\* Lex returns a token of the statement or, past the last, the end.
LEMMA LexedIdType ==
  ASSUME TypeOK, NEW p \in Nat
  PROVE  /\ LexedId(p) \in TokenId \cup LexerId \cup {Eof}
         /\ LexedId(p) = Eof <=> p >= Len(tokens)
         /\ p < Len(tokens) /\ LexedId(p) = "HELPTOKEN" => tokens[p + 1].id = "HELPTOKEN"
<1>1. CASE p >= Len(tokens)
  <2>1. LexedId(p) = Eof
    BY <1>1 DEF LexedId
  <2>2. ~(p < Len(tokens))
    BY <1>1, Types
  <2> QED
    BY <1>1, <2>1, <2>2
<1>2. CASE p < Len(tokens)
  <2>1. tokens[p + 1].id \in TokenId
    BY <1>2, Types
  <2>2. LexedId(p) \in {tokens[p + 1].id} \cup LexerId
    BY <1>2, Types DEF LexedId, LookaheadId, LexerId
  <2>3. Eof \notin LexerId /\ "HELPTOKEN" \notin LexerId
    BY DEF Eof, LexerId
  <2>4. LexedId(p) # Eof
    BY <2>1, <2>2, <2>3, TokenAssumption
  <2>5. ~(p >= Len(tokens))
    BY <1>2, Types
  <2> QED
    BY <2>1, <2>2, <2>3, <2>4, <2>5
<1> QED
  BY <1>1, <1>2, Types

\* The last token read is where the statement's text has it.
LEMMA LastTokenPlace ==
  ASSUME TypeOK, ScanInv, InDriver, lexer.lastPos \in 0 .. Len(tokens)
  PROVE  /\ LastToken.id \in TokenId \cup {Eof}
         /\ LastToken.pos \in 0 .. Size
         /\ sql.from + LastToken.pos =
              IF lexer.lastPos \in 0 .. Len(tokens) - 1
              THEN input.toks[first + lexer.lastPos].pos ELSE sql.to
<1>1. CASE lexer.lastPos = Len(tokens)
  <2>1. LastToken = [id |-> Eof, pos |-> Size]
    BY <1>1, Types DEF LastToken
  <2>2. sql.from <= sql.to
    <3>1. CASE first = 0
      BY <3>1, Types DEF ScanInv
    <3>2. CASE first > 0
      <4>1. first \in 1 .. Len(input.toks) /\ Len(tokens) \in Nat \ {0}
        BY <3>2, Types DEF ScanInv, TypeOK
      <4>2. sql.from = input.toks[first].pos
        BY <3>2 DEF ScanInv
      <4>4. 1 \in 1 .. Len(tokens) /\ first + 1 - 1 = first
        BY <4>1, Types
      <4>5. input.toks[first + 1 - 1].end <= sql.to
        BY <3>2, <4>4 DEF ScanInv
      <4>3. input.toks[first].pos < input.toks[first].end
        BY <4>1 DEF ScanInv, InOrder
      <4>6. input.toks[first].end <= sql.to
        BY <4>4, <4>5
      <4>7. /\ input.toks[first].pos \in Nat /\ input.toks[first].end \in Nat
            /\ sql.to \in Nat
        BY <4>1, Types
      <4> QED
        BY <4>2, <4>3, <4>6, <4>7
    <3> QED
      BY <3>1, <3>2, Types
  <2> QED
    BY <1>1, <2>1, <2>2, Types DEF Size
<1>2. CASE lexer.lastPos < Len(tokens)
  <2> DEFINE n == lexer.lastPos + 1
             k == first + lexer.lastPos
  <2>1. /\ n \in 1 .. Len(tokens) /\ Len(tokens) # 0
        /\ k = first + n - 1
    BY <1>2, Types, SMTT(20)
  <2>2. first > 0
    BY <2>1, Types DEF ScanInv
  <2>3. k \in 1 .. Len(input.toks) /\ first \in 1 .. Len(input.toks)
    <3>1. first + Len(tokens) <= scanned + 1
      BY <2>2 DEF ScanInv
    <3> QED
      BY <1>2, <2>2, <3>1, Types, SMTT(20)
  <2>4. LastToken = [id |-> tokens[n].id, pos |-> tokens[n].pos]
    BY <1>2, <2>1, Types DEF LastToken
  <2>5. /\ tokens[n].pos = input.toks[k].pos - sql.from
        /\ input.toks[k].end <= sql.to
        /\ sql.from = input.toks[first].pos
    BY <2>1, <2>2 DEF ScanInv
  <2>6. /\ input.toks[k].pos < input.toks[k].end
        /\ input.toks[first].pos < input.toks[first].end
        /\ k > first => input.toks[first].end <= input.toks[k].pos
    BY <2>3 DEF ScanInv, InOrder
  <2>7. sql.from <= input.toks[k].pos
    <3>1. k >= first
      BY Types, <2>1
    <3> HIDE DEF k
    <3>2. input.toks[k].pos \in Nat /\ input.toks[first].pos \in Nat /\ input.toks[first].end \in Nat
      BY <2>3, Types
    <3>3. CASE k = first
      BY <2>5, <3>2, <3>3
    <3>4. CASE k > first
      BY <2>5, <2>6, <3>2, <3>4
    <3> QED
      BY <3>1, <3>3, <3>4, <2>3, Types
  <2> HIDE DEF n, k
  <2>8. LastToken.pos = input.toks[k].pos - sql.from /\ LastToken.id \in TokenId
    BY <2>1, <2>4, <2>5, Types
  <2>9. input.toks[k].pos \in Nat /\ input.toks[k].end \in Nat
    BY <2>3, Types
  <2>10. LastToken.pos \in 0 .. Size /\ sql.from + LastToken.pos = input.toks[k].pos
    <3>1. sql.from \in Nat /\ sql.to \in Nat
      BY Types
    <3>2. input.toks[k].pos < input.toks[k].end /\ input.toks[k].end <= sql.to
      BY <2>5, <2>6
    <3> QED
      BY <2>7, <2>8, <2>9, <3>1, <3>2 DEF Size
  <2>11. lexer.lastPos \in 0 .. Len(tokens) - 1
    BY <1>2, Types
  <2> QED
    BY <2>8, <2>10, <2>11 DEF k
<1> QED
  BY <1>1, <1>2, Types

\* While the driver runs, scanOneStmt's results stay.
LEMMA ScanInvStays ==
  ASSUME TypeOK, ScanInv, InDriver, InDriver', UNCHANGED scan
  PROVE  ScanInv'
<1>1. UNCHANGED <<input, scanned, first, tokens, sql>>
  BY DEF scan
<1> QED
  BY <1>1 DEF ScanInv, InOrder, InDriver

\* A step of the driver that does not end the parse.
LEMMA DriverStep ==
  ASSUME TypeOK, ScanInv, InDriver, UNCHANGED scan,
         pc' \in {"parse", "accepted"}, lexer' \in Lexer,
         char' \in TokenId \cup LexerId \cup {Eof, None}, DriverInv'
  PROVE  IInv'
<1>1. TypeOK'
  BY DEF TypeOK, scan, Pcs
<1>2. ScanInv'
  BY ScanInvStays DEF InDriver
<1> QED
  BY <1>1, <1>2 DEF IInv, CaretOnToken, FailureExplained

\* What an error must say for the driver to fail with it.
Explains(err) ==
  /\ err \in [cause : {"lexical", "syntax", "action", "help request"},
              help : {"none", "hint", "text"}, at : Int]
  /\ err.cause = "lexical" <=> LastToken.id = "ERROR"
  /\ err.cause # "help request" => err.at = LastToken.pos

\* The driver returns 1.
LEMMA FailStep ==
  ASSUME IInv, pc = "parse", lexer.lastPos >= 0, NEW err, Fail(err), Explains(err)
  PROVE  IInv'
<1>1. /\ TypeOK /\ ScanInv /\ DriverInv /\ InDriver /\ InDriver'
      /\ UNCHANGED <<input, calls, scanned, first, tokens, sql, done, char>>
      /\ UNCHANGED scan
      /\ lexer' = [lexer EXCEPT !.lastError = err]
      /\ pc' = "failed"
  BY DEF IInv, InDriver, Fail, scan
<1>2. lexer.lastPos \in 0 .. Len(tokens)
  BY <1>1, Types DEF DriverInv
<1>3. TypeOK'
  BY <1>1 DEF TypeOK, Pcs, Lexer, Explains
<1>4. ScanInv'
  BY <1>1, ScanInvStays
<1>5. lexer'.lastPos = lexer.lastPos /\ lexer'.lastError = err
  BY <1>1 DEF TypeOK, Lexer
<1>6. DriverInv'
  BY <1>1, <1>2, <1>5, Types DEF DriverInv
<1>7. LastToken' = LastToken /\ Size' = Size
  BY <1>1, <1>5 DEF LastToken, Size
<1>8. CaretOnToken'
  BY <1>1, <1>2, <1>5, <1>7, LastTokenPlace DEF CaretOnToken, Explains
<1>9. FailureExplained'
  <2>1. err.cause # "none"
    BY DEF Explains
  <2>2. err # NoError
    BY <2>1 DEF NoError
  <2>3. LastToken'.id = LastToken.id
    BY <1>7
  <2>4. err.cause = "lexical" <=> LastToken.id = "ERROR"
    BY DEF Explains
  <2> QED
    BY <1>5, <2>2, <2>3, <2>4 DEF FailureExplained
<1> QED
  BY <1>3, <1>4, <1>6, <1>8, <1>9 DEF IInv

\* populateErrorDetails and SetHelp explain the failure.
LEMMA PopulateExplains ==
  ASSUME IInv, pc = "parse", lexer.lastPos >= 0, NEW cause \in {"syntax", "action"}
  PROVE  Explains(Populate(cause)) /\ Explains(WithHelp(Populate(cause)))
<1>1. TypeOK /\ ScanInv /\ InDriver /\ lexer.lastPos \in 0 .. Len(tokens)
  BY Types DEF IInv, InDriver, DriverInv
<1>2. LastToken.pos \in Int
  BY <1>1, LastTokenPlace, Types DEF Size
<1> QED
  BY <1>2 DEF Explains, Populate, WithHelp

\* What the parser needs of its input, and what each call starts from.
LEMMA InitInv == Init => IInv
<1> SUFFICES ASSUME Init PROVE IInv
  OBVIOUS
<1>1. input = [size |-> 0, toks |-> <<>>] /\ tokens = <<>> /\ Len(input.toks) = 0
  BY DEF Init
<1>2. TypeOK
  BY <1>1, CallAssumption DEF Init, TypeOK, Pcs, LexerInit, NoError, Lexer
<1>3. ScanInv
  BY <1>1 DEF Init, ScanInv, InOrder
<1> QED
  BY <1>2, <1>3 DEF IInv, Init, DriverInv, CaretOnToken, FailureExplained, InDriver

\* Between statements nothing of the next one is kept.
LEMMA BetweenStep ==
  ASSUME TypeOK, InOrder(input'), input' \in [size : Nat, toks : Seq(ScanToken)],
         calls' \in 0 .. MaxCalls, scanned' \in 0 .. Len(input'.toks),
         NoStatement, pc' \in {"idle", "first", "return"}, lexer' \in Lexer,
         char' \in TokenId \cup LexerId \cup {Eof, None}
  PROVE  IInv'
<1>1. TypeOK'
  BY DEF TypeOK, NoStatement, Pcs
<1>2. ScanInv'
  BY DEF ScanInv, NoStatement, InDriver, InOrder
<1> QED
  BY <1>1, <1>2 DEF IInv, DriverInv, CaretOnToken, FailureExplained, InDriver

\* IInv through a call of parseWithDepth (parse.go 152-155).
LEMMA CallInv == IInv /\ Call => IInv'
<1> SUFFICES ASSUME IInv, Call PROVE IInv'
  OBVIOUS
<1>1. input' \in [size : Nat, toks : Seq(ScanToken)] /\ InOrder(input')
  BY InputAssumption DEF Call
<1>2. Len(input'.toks) \in Nat
  BY <1>1
<1>3. calls' \in 0 .. MaxCalls /\ scanned' \in 0 .. Len(input'.toks)
  BY <1>2, CallAssumption DEF IInv, TypeOK, Call
<1> QED
  BY <1>1, <1>3, BetweenStep DEF Call, IInv, TypeOK

\* IInv through the semicolons before a statement (parse.go 124-132).
LEMMA SkipSemicolonInv == IInv /\ SkipSemicolon => IInv'
<1> SUFFICES ASSUME IInv, SkipSemicolon PROVE IInv'
  OBVIOUS
<1>1. TypeOK /\ ScanInv
  BY DEF IInv
<1>2. /\ scanned' = scanned + 1 /\ scanned # Len(input.toks)
      /\ input' = input /\ first' = first
  BY DEF SkipSemicolon, AtEnd
<1>3. scanned' \in 0 .. Len(input'.toks) /\ first' \in 0 .. scanned'
  BY <1>1, <1>2, Types
<1>4. TypeOK'
  BY <1>1, <1>3 DEF TypeOK, SkipSemicolon
<1>5. ScanInv'
  BY <1>1, <1>2 DEF ScanInv, SkipSemicolon, InDriver, InOrder
<1> QED
  BY <1>4, <1>5 DEF IInv, SkipSemicolon, DriverInv, CaretOnToken, FailureExplained, InDriver

\* Parsing begins with the driver at rest before the first token.
LEMMA BeginInv ==
  ASSUME IInv, NEW text \in [from : Nat, to : Nat], NEW end, BeginParse(text, end),
         scanned' \in scanned .. Len(input.toks), text.from = sql.from,
         first = 0 => text = sql,
         \A i \in 1 .. Len(tokens) : input.toks[first + i - 1].end <= text.to
  PROVE  IInv'
<1>1. TypeOK /\ ScanInv
  BY DEF IInv
<1>2. /\ UNCHANGED <<input, calls, first, tokens>>
      /\ sql' = text /\ pc' = "parse" /\ lexer' = LexerInit /\ char' = None
  BY DEF BeginParse, result
<1>3. scanned' \in 0 .. Len(input.toks) /\ first \in 0 .. scanned' /\ scanned <= scanned'
  BY <1>1, Types
<1>4. LexerInit \in Lexer /\ LexerInit.lastPos = -1 /\ ~LexerInit.unreduced
  BY DEF LexerInit, Lexer, NoError
<1>5. TypeOK'
  BY <1>1, <1>2, <1>3, <1>4 DEF TypeOK, Pcs
<1>6. ScanInv'
  <2>1. InOrder(input)' /\ (first = 0 => tokens' = <<>>)
    BY <1>1, <1>2 DEF ScanInv, InOrder
  <2>2. first = 0 => sql' = [from |-> 0, to |-> 0]
    BY <1>1, <1>2 DEF ScanInv
  <2>3. ASSUME first > 0
        PROVE  /\ tokens # <<>>
               /\ first + Len(tokens) <= scanned' + 1
               /\ sql'.from = input.toks[first].pos
    <3>1. tokens # <<>> /\ first + Len(tokens) <= scanned + 1
          /\ sql.from = input.toks[first].pos
      BY <1>1, <2>3 DEF ScanInv
    <3> QED
      BY <1>1, <1>2, <1>3, <3>1, Types
  <2>4. ASSUME first > 0, NEW i \in 1 .. Len(tokens)
        PROVE  /\ tokens[i].id = input.toks[first + i - 1].id
               /\ tokens[i].idx = input.toks[first + i - 1].idx
               /\ tokens[i].pos = input.toks[first + i - 1].pos - sql'.from
               /\ input.toks[first + i - 1].end <= sql'.to
    BY <1>1, <1>2, <2>4 DEF ScanInv
  <2> QED
    BY <1>2, <2>1, <2>2, <2>3, <2>4 DEF ScanInv
<1>7. DriverInv'
  BY <1>1, <1>2, <1>4, Types DEF DriverInv
<1> QED
  BY <1>2, <1>5, <1>6, <1>7 DEF IInv, CaretOnToken, FailureExplained

\* IInv at the end of the input (parse.go 124-128).
LEMMA NothingLeftInv == IInv /\ NothingLeft => IInv'
<1> SUFFICES ASSUME IInv, NothingLeft PROVE IInv'
  OBVIOUS
<1>1. TypeOK /\ ScanInv /\ first = 0 /\ tokens = <<>> /\ sql = [from |-> 0, to |-> 0]
  BY DEF IInv, ScanInv, NothingLeft
<1>2. scanned' \in scanned .. Len(input.toks)
  BY <1>1, Types DEF NothingLeft
<1>3. sql \in [from : Nat, to : Nat] /\ 1 .. Len(tokens) = {}
  BY <1>1
<1>4. BeginParse(sql, TRUE)
  BY <1>1 DEF NothingLeft
<1> QED
  BY <1>1, <1>2, <1>3, <1>4, BeginInv

\* IInv through the first token of a statement (parse.go 129-137).
LEMMA FirstTokenInv == IInv /\ FirstToken => IInv'
<1> SUFFICES ASSUME IInv, FirstToken PROVE IInv'
  OBVIOUS
<1> DEFINE n == scanned + 1
           t == input.toks[n]
<1>1. TypeOK /\ ScanInv
  BY DEF IInv
<1>2. /\ UNCHANGED <<input, calls, lexer, char>>
      /\ pc' = "rest" /\ scanned' = n /\ first' = n
      /\ tokens' = <<[id |-> t.id, pos |-> 0, idx |-> t.idx]>>
      /\ sql' = [from |-> t.pos, to |-> t.pos]
  BY DEF FirstToken, NextToken, Token, result
<1>3. n \in 1 .. Len(input.toks)
  <2>1. scanned # Len(input.toks)
    BY DEF FirstToken, AtEnd
  <2> QED
    BY <1>1, <2>1, Types
<1> HIDE DEF n
<1>4. t.id \in TokenId /\ t.pos \in Nat /\ t.idx \in Nat
  BY <1>1, <1>3, Types
<1> HIDE DEF t
<1>5. tokens' \in Seq(LexToken)
  BY <1>2, <1>4 DEF LexToken
<1>6. n \in 0 .. Len(input.toks) /\ n \in 0 .. n
  BY <1>3, <1>1, Types
<1>7. TypeOK'
  BY <1>1, <1>2, <1>4, <1>5, <1>6 DEF TypeOK, Pcs
<1>8. ScanInv'
  <2>1. InOrder(input)'
    BY <1>1, <1>2 DEF ScanInv, InOrder
  <2>2. n > 0 /\ n + 1 = n + 1 /\ n + 1 - 1 = n /\ n # 0
    BY <1>3
  <2>3. Len(tokens') = 1 /\ tokens' # <<>> /\ tokens'[1] = [id |-> t.id, pos |-> 0, idx |-> t.idx]
    BY <1>2
  <2>4. t.pos - t.pos = 0
    BY <1>4
  <2>5. \A i \in 1 .. Len(tokens') :
           /\ tokens'[i].id = input.toks[n + i - 1].id
           /\ tokens'[i].idx = input.toks[n + i - 1].idx
           /\ tokens'[i].pos = input.toks[n + i - 1].pos - t.pos
    BY <2>2, <2>3, <2>4 DEF t
  <2>6. sql'.from = t.pos /\ t = input.toks[n]
    BY <1>2 DEF t
  <2> QED
    BY <1>2, <1>3, <2>1, <2>2, <2>3, <2>5, <2>6 DEF ScanInv, InDriver
<1> QED
  BY <1>2, <1>7, <1>8 DEF IInv, DriverInv, CaretOnToken, FailureExplained, InDriver

\* IInv through the other tokens (parse.go 138-149).
LEMMA RestTokenInv == IInv /\ RestToken => IInv'
<1> SUFFICES ASSUME IInv, RestToken PROVE IInv'
  OBVIOUS
<1> DEFINE n == scanned + 1
           t == input.toks[n]
           new == [id |-> t.id, pos |-> t.pos - sql.from, idx |-> t.idx]
<1>1. TypeOK /\ ScanInv
  BY DEF IInv
<1>2. /\ UNCHANGED <<input, calls, lexer, char, first, sql, pc>>
      /\ scanned' = n
      /\ tokens' = Append(tokens, new)
      /\ pc = "rest"
  BY DEF RestToken, NextToken, Token, result
<1>3. n \in 1 .. Len(input.toks)
  <2>1. scanned # Len(input.toks)
    BY DEF RestToken, AtEnd
  <2> QED
    BY <1>1, <2>1, Types
<1>4. first > 0 /\ first + Len(tokens) = n /\ scanned < n
  BY <1>1, <1>2, Types DEF ScanInv
<1>5. first \in 0 .. n /\ n \in 0 .. Len(input.toks) /\ first \in Nat /\ n \in Nat
      /\ Len(tokens) \in Nat
  BY <1>1, <1>3, <1>4, Types
<1> HIDE DEF n
<1>6. t.id \in TokenId /\ t.pos \in Nat /\ t.idx \in Nat /\ sql.from \in Nat
  BY <1>1, <1>3, Types
<1> HIDE DEF t
<1>7. new \in LexToken
  BY <1>6 DEF LexToken
<1>8. tokens \in Seq(LexToken)
  BY <1>1 DEF TypeOK
<1> HIDE DEF new
<1>9. tokens' \in Seq(LexToken)
  BY <1>2, <1>7, <1>8
<1>10. TypeOK'
  BY <1>1, <1>2, <1>5, <1>9 DEF TypeOK
<1>11. /\ Len(tokens') = Len(tokens) + 1
       /\ tokens' # <<>>
       /\ \A i \in 1 .. Len(tokens) : tokens'[i] = tokens[i]
       /\ tokens'[Len(tokens) + 1] = new
  BY <1>2, <1>7, <1>8
<1>12. ASSUME NEW i \in 1 .. Len(tokens')
       PROVE  /\ tokens'[i].id = input.toks[first + i - 1].id
              /\ tokens'[i].idx = input.toks[first + i - 1].idx
              /\ tokens'[i].pos = input.toks[first + i - 1].pos - sql.from
  <2>1. CASE i = Len(tokens) + 1
    <3>1. first + i - 1 = n
      BY <1>4, <1>5, <2>1
    <3> QED
      BY <1>11, <2>1, <3>1 DEF new, t
  <2>2. CASE i \in 1 .. Len(tokens)
    BY <1>1, <1>4, <1>11, <2>2 DEF ScanInv
  <2> QED
    BY <1>5, <1>11, <2>1, <2>2
<1>13. ScanInv'
  <2>1. InOrder(input)' /\ sql.from = input.toks[first].pos
    BY <1>1, <1>2, <1>4 DEF ScanInv, InOrder
  <2>2. first + Len(tokens') = n + 1 /\ first # 0 /\ first + Len(tokens') <= n + 1
    BY <1>4, <1>5, <1>11
  <2> QED
    BY <1>2, <1>4, <1>11, <1>12, <2>1, <2>2 DEF ScanInv, InDriver
<1> QED
  BY <1>2, <1>10, <1>13 DEF IInv, DriverInv, CaretOnToken, FailureExplained, InDriver

\* IInv through a token that could not be scanned (parse.go 139-141).
LEMMA ScanErrorInv == IInv /\ ScanError => IInv'
<1> SUFFICES ASSUME IInv, ScanError PROVE IInv'
  OBVIOUS
<1> DEFINE text == [sql EXCEPT !.to = input.size]
<1>1. TypeOK /\ ScanInv /\ pc = "rest" /\ scanned' = scanned /\ BeginParse(text, TRUE)
  BY DEF IInv, ScanError
<1>2. text = [from |-> sql.from, to |-> input.size] /\ sql.from \in Nat /\ input.size \in Nat
  BY <1>1, Types DEF TypeOK
<1>3. first > 0 /\ first + Len(tokens) = scanned + 1
  BY <1>1 DEF ScanInv
<1>4. scanned' \in scanned .. Len(input.toks)
  BY <1>1, Types
<1>5. ASSUME NEW i \in 1 .. Len(tokens)
      PROVE  input.toks[first + i - 1].end <= text.to
  <2>1. first + i - 1 \in 1 .. Len(input.toks)
    BY <1>1, <1>3, Types
  <2> QED
    BY <1>1, <1>2, <2>1 DEF ScanInv, InOrder
<1>6. first # 0
  BY <1>3
<1> QED
  BY <1>1, <1>2, <1>4, <1>5, <1>6, BeginInv

\* IInv through the end of a statement (parse.go 142-146).
LEMMA EndOfStatementInv == IInv /\ EndOfStatement => IInv'
<1> SUFFICES ASSUME IInv, EndOfStatement PROVE IInv'
  OBVIOUS
<1> DEFINE text == [sql EXCEPT !.to = ScannerPos]
<1>1. TypeOK /\ ScanInv /\ pc = "rest"
  BY DEF IInv, EndOfStatement
<1>2. first > 0 /\ first + Len(tokens) = scanned + 1 /\ first # 0
  BY <1>1, Types DEF ScanInv
<1>3. scanned \in 1 .. Len(input.toks)
  BY <1>1, <1>2, Types
<1>4. ScannerPos = input.toks[scanned].end /\ ScannerPos \in Nat
  BY <1>1, <1>3, Types DEF ScannerPos
<1>5. text = [from |-> sql.from, to |-> ScannerPos] /\ sql.from \in Nat
  BY <1>1, Types DEF TypeOK
<1>6. ASSUME NEW i \in 1 .. Len(tokens)
      PROVE  input.toks[first + i - 1].end <= text.to
  <2> DEFINE k == first + i - 1
  <2>1. k \in 1 .. Len(input.toks) /\ k <= scanned
    BY <1>1, <1>2, Types, SMTT(20)
  <2> HIDE DEF k
  <2>2. /\ input.toks[scanned].pos < input.toks[scanned].end
        /\ k < scanned => input.toks[k].end <= input.toks[scanned].pos
    BY <1>1, <1>3, <2>1 DEF ScanInv, InOrder
  <2>3. /\ input.toks[k].end \in Nat
        /\ input.toks[scanned].pos \in Nat /\ input.toks[scanned].end \in Nat
    BY <1>1, <1>3, <2>1, Types
  <2>4. input.toks[k].end <= input.toks[scanned].end
    BY <1>3, <2>1, <2>2, <2>3
  <2> QED
    BY <1>4, <1>5, <2>4 DEF k
<1>7. scanned' \in scanned .. Len(input.toks)
  <2>1. scanned' \in {scanned, scanned + 1} /\ (scanned' = scanned + 1 => scanned # Len(input.toks))
    <3>1. CASE AtEnd
      BY <3>1 DEF EndOfStatement
    <3>2. CASE ~AtEnd
      BY <3>2 DEF EndOfStatement, AtEnd
    <3> QED
      BY <3>1, <3>2
  <2> QED
    BY <1>1, <2>1, Types
<1>8. BeginParse(text, TRUE) \/ BeginParse(text, FALSE)
  BY DEF EndOfStatement
<1>9. text \in [from : Nat, to : Nat] /\ text.from = sql.from
  BY <1>4, <1>5
<1> HIDE DEF text
<1> QED
  BY <1>2, <1>6, <1>7, <1>8, <1>9, BeginInv
-----------------------------------------------------------------------------
\* A driver step that keeps its place.
LEMMA KeepPlaceStep ==
  ASSUME IInv, pc = "parse", pc' = "parse", UNCHANGED <<scan, char>>, lexer' \in Lexer,
         lexer'.lastPos = lexer.lastPos, lexer'.unreduced \in {FALSE, lexer.unreduced}
  PROVE  IInv'
<1>1. TypeOK /\ ScanInv /\ DriverInv /\ InDriver
  BY DEF IInv, InDriver
<1>2. tokens' = tokens /\ char' = char
  BY DEF scan
<1>3. DriverInv'
  BY <1>1, <1>2 DEF DriverInv, InDriver, LexedId
<1> QED
  BY <1>1, <1>2, <1>3, DriverStep DEF TypeOK

\* IInv through Lex (lexer.go 68-113).
LEMMA LexInv == IInv /\ Lex => IInv'
<1> SUFFICES ASSUME IInv, Lex PROVE IInv'
  OBVIOUS
<1> DEFINE p == lexer.lastPos + 1
<1>1. TypeOK /\ ScanInv /\ DriverInv /\ InDriver
  BY DEF IInv, InDriver, Lex, Parsing
<1>2. /\ UNCHANGED <<scan, pc>> /\ tokens' = tokens /\ pc = "parse" /\ char = None
      /\ lexer' = [lexer EXCEPT !.lastPos = p] /\ char' = LexedId(p) /\ ~lexer.unreduced
  BY DEF Lex, Parsing, scan
<1>3. p \in 0 .. Len(tokens) /\ p \in Nat
  BY <1>1, <1>2, Types DEF DriverInv
<1> HIDE DEF p
<1>4. lexer' \in Lexer /\ lexer'.lastPos = p /\ ~lexer'.unreduced
  <2>1. lexer \in Lexer /\ p \in Int
    BY <1>1, <1>3 DEF TypeOK
  <2> QED
    BY <1>2, <2>1 DEF Lexer
<1>5. LexedId(p) \in TokenId \cup LexerId \cup {Eof}
  BY <1>1, <1>3, LexedIdType
<1>6. char' # None
  BY <1>2, <1>5, TokenAssumption
<1>7. char' = LexedId(lexer.lastPos)'
  BY <1>2, <1>4 DEF LexedId
<1>8. p \in -1 .. Len(tokens) /\ p >= 0
  BY <1>1, <1>3, Types
<1>9. DriverInv'
  BY <1>2, <1>4, <1>6, <1>7, <1>8 DEF DriverInv
<1> QED
  BY <1>1, <1>2, <1>4, <1>5, <1>9, DriverStep

\* The driver never shifts the end of the statement.
LEMMA ShiftInv == IInv /\ Shift => IInv'
<1> SUFFICES ASSUME IInv, Shift PROVE IInv'
  OBVIOUS
<1>1. TypeOK /\ ScanInv /\ DriverInv /\ InDriver
  BY DEF IInv, InDriver, Shift, Parsing
<1>2. /\ UNCHANGED <<scan, pc>> /\ tokens' = tokens /\ pc = "parse"
      /\ char # None /\ char # Eof /\ char' = None
      /\ lexer' = [lexer EXCEPT !.unreduced = (char = "PLACEHOLDER")]
  BY DEF Shift, Parsing, scan
<1>3. lexer.lastPos \in 0 .. Len(tokens) /\ lexer.lastPos \in Nat /\ char = LexedId(lexer.lastPos)
  BY <1>1, <1>2, Types DEF DriverInv
<1>4. lexer.lastPos < Len(tokens)
  <2>1. ~(lexer.lastPos >= Len(tokens))
    BY <1>1, <1>2, <1>3, LexedIdType
  <2> QED
    BY <1>1, <1>3, <2>1, Types
<1>5. lexer' \in Lexer /\ lexer'.lastPos = lexer.lastPos
  BY <1>1, <1>2 DEF TypeOK, Lexer
<1>6. lexer.lastPos >= 0 /\ lexer.lastPos \in -1 .. Len(tokens)
  BY <1>1, <1>3, Types
<1>7. DriverInv'
  BY <1>2, <1>4, <1>5, <1>6 DEF DriverInv
<1> QED
  BY <1>1, <1>2, <1>5, <1>7, DriverStep

\* IInv through the count of a placeholder (lexer.go 141-146).
LEMMA UpdateNumPlaceholdersInv == IInv /\ UpdateNumPlaceholders => IInv'
<1> SUFFICES ASSUME IInv, UpdateNumPlaceholders PROVE IInv'
  OBVIOUS
<1> DEFINE n == tokens[lexer.lastPos + 1].idx + 1
<1>1. TypeOK /\ ScanInv /\ DriverInv /\ pc = "parse" /\ lexer.unreduced
  BY DEF IInv, UpdateNumPlaceholders
<1>2. lexer.lastPos + 1 \in 1 .. Len(tokens)
  BY <1>1, Types DEF DriverInv
<1>3. n \in Nat
  BY <1>1, <1>2, Types
<1> HIDE DEF n
<1>4. lexer' = [lexer EXCEPT !.unreduced = FALSE,
                             !.numPlaceholders = IF @ < n THEN n ELSE @]
  BY DEF UpdateNumPlaceholders, n
<1>5. lexer' \in Lexer /\ lexer'.lastPos = lexer.lastPos /\ lexer'.unreduced = FALSE
  BY <1>1, <1>3, <1>4 DEF TypeOK, Lexer
<1>6. pc' = "parse" /\ UNCHANGED <<scan, char>>
  BY <1>1 DEF UpdateNumPlaceholders
<1> QED
  BY <1>1, <1>5, <1>6, KeepPlaceStep

\* IInv through the count of an annotation (lexer.go 130-134).
LEMMA NewAnnotationInv == IInv /\ NewAnnotation => IInv'
<1> SUFFICES ASSUME IInv, NewAnnotation PROVE IInv'
  OBVIOUS
<1>1. TypeOK /\ pc = "parse" /\ pc' = "parse" /\ UNCHANGED <<scan, char>>
  BY DEF IInv, NewAnnotation, Parsing
<1>2. lexer' \in Lexer /\ lexer'.lastPos = lexer.lastPos /\ lexer'.unreduced = lexer.unreduced
  <2>1. lexer \in Lexer /\ lexer' = [lexer EXCEPT !.numAnnotations = @ + 1]
    BY <1>1 DEF NewAnnotation, TypeOK
  <2>2. lexer.numAnnotations + 1 \in Nat
    <3>1. lexer \in Lexer
      BY <2>1
    <3>2. lexer.numAnnotations \in Nat
      BY <3>1 DEF Lexer
    <3> QED
      BY <3>2
  <2> DEFINE n == lexer.numAnnotations + 1
  <2>3. lexer' = [lexer EXCEPT !.numAnnotations = n]
    BY <2>1
  <2> HIDE DEF n
  <2>4. n \in Nat
    BY <2>2 DEF n
  <2> QED
    BY <2>1, <2>3, <2>4 DEF Lexer
<1> QED
  BY <1>1, <1>2, KeepPlaceStep

\* IInv through a statement that was reduced (lexer.go 136-139).
LEMMA SetStmtInv == IInv /\ SetStmt => IInv'
<1> SUFFICES ASSUME IInv, SetStmt PROVE IInv'
  OBVIOUS
<1>1. TypeOK /\ pc = "parse" /\ pc' = "parse" /\ UNCHANGED <<scan, char>>
  BY DEF IInv, SetStmt, Parsing
<1>2. lexer' \in Lexer /\ lexer'.lastPos = lexer.lastPos /\ lexer'.unreduced = lexer.unreduced
  BY <1>1 DEF SetStmt, TypeOK, Lexer
<1> QED
  BY <1>1, <1>2, KeepPlaceStep

\* IInv through an action that gives up (lexer.go 148-193).
LEMMA ActionFailsInv == IInv /\ ActionFails => IInv'
<1> SUFFICES ASSUME IInv, ActionFails PROVE IInv'
  OBVIOUS
<1>1. TypeOK /\ pc = "parse" /\ Fail(Populate("action")) /\ Shifted > 0
  BY DEF IInv, ActionFails, Parsing
<1>2. lexer.lastPos >= 0
  BY <1>1, Types DEF Shifted
<1>3. Explains(Populate("action"))
  BY <1>1, <1>2, PopulateExplains
<1> QED
  BY <1>1, <1>2, <1>3, FailStep

\* IInv through a request for help (help.go 72-87).
LEMMA HelpAllInv == IInv /\ HelpAll => IInv'
<1> SUFFICES ASSUME IInv, HelpAll PROVE IInv'
  OBVIOUS
<1> DEFINE err == [cause |-> "help request", help |-> "text", at |-> 0]
<1>1. TypeOK /\ DriverInv /\ pc = "parse" /\ Fail(err) /\ char = "HELPTOKEN"
  BY DEF IInv, HelpAll, Parsing
<1>2. lexer.lastPos \in Nat /\ LexedId(lexer.lastPos) = "HELPTOKEN"
  <2>1. char # None
    BY <1>1, TokenAssumption
  <2>2. lexer.lastPos >= 0 /\ char = LexedId(lexer.lastPos)
    BY <1>1, <2>1 DEF DriverInv
  <2>3. lexer.lastPos \in Int
    BY <1>1, Types
  <2>4. lexer.lastPos \in Nat
    BY <2>2, <2>3
  <2>5. LexedId(lexer.lastPos) = "HELPTOKEN"
    BY <1>1, <2>2
  <2> QED
    BY <2>4, <2>5
<1>3. lexer.lastPos < Len(tokens) /\ tokens[lexer.lastPos + 1].id = "HELPTOKEN"
  <2>1. "HELPTOKEN" # Eof
    BY DEF Eof
  <2>2. ~(lexer.lastPos >= Len(tokens))
    BY <1>1, <1>2, <2>1, LexedIdType
  <2>3. lexer.lastPos < Len(tokens)
    <3>1. Len(tokens) \in Nat
      BY <1>1, Types
    <3> QED
      BY <1>2, <2>2, <3>1
  <2> QED
    BY <1>1, <1>2, <2>3, LexedIdType
<1>4. LastToken.id = "HELPTOKEN"
  <2>1. Len(tokens) \in Nat
    BY <1>1, Types
  <2>2. ~(lexer.lastPos < 0) /\ ~(lexer.lastPos >= Len(tokens))
    BY <1>2, <1>3, <2>1
  <2>3. LastToken = [id |-> tokens[lexer.lastPos + 1].id, pos |-> tokens[lexer.lastPos + 1].pos]
    BY <2>2 DEF LastToken
  <2> QED
    BY <1>3, <2>3
<1>5. Explains(err)
  BY <1>4 DEF Explains
<1> HIDE DEF err
<1>6. lexer.lastPos >= 0
  BY <1>2
<1> QED
  BY <1>1, <1>5, <1>6, FailStep

\* IInv through a syntax error (sql.go 14628-14673).
LEMMA SyntaxErrorInv == IInv /\ SyntaxError => IInv'
<1> SUFFICES ASSUME IInv, SyntaxError PROVE IInv'
  OBVIOUS
<1>1. TypeOK /\ DriverInv /\ pc = "parse" /\ char # None
  BY DEF IInv, SyntaxError, Parsing
<1>2. lexer.lastPos >= 0
  BY <1>1, Types DEF DriverInv
<1>3. PICK err \in {Populate("syntax"), WithHelp(Populate("syntax")), Populate("action")} : Fail(err)
  BY DEF SyntaxError
<1>4. Explains(err)
  BY <1>1, <1>2, <1>3, PopulateExplains
<1> QED
  BY <1>1, <1>2, <1>3, <1>4, FailStep

\* IInv through the end of the driver (sql.go 14601-14627).
LEMMA AcceptInv == IInv /\ Accept => IInv'
<1> SUFFICES ASSUME IInv, Accept PROVE IInv'
  OBVIOUS
<1>1. TypeOK /\ ScanInv /\ DriverInv /\ InDriver /\ pc' = "accepted"
      /\ UNCHANGED <<scan, lexer, char>> /\ tokens' = tokens
  BY DEF IInv, Accept, Parsing, InDriver, scan
<1>2. DriverInv'
  BY <1>1 DEF DriverInv
<1>3. lexer' \in Lexer /\ char' \in TokenId \cup LexerId \cup {Eof, None}
  BY <1>1 DEF TypeOK
<1> QED
  BY <1>1, <1>2, <1>3, DriverStep
-----------------------------------------------------------------------------
\* The lexer is ready for the next statement.
LEMMA CleanupType ==
  ASSUME TypeOK, Cleanup
  PROVE  lexer' \in Lexer /\ char' \in TokenId \cup LexerId \cup {Eof, None}
<1>1. lexer' = [lexer EXCEPT !.stmt = FALSE, !.lastError = NoError, !.unreduced = FALSE]
  BY DEF Cleanup
<1>2. lexer' \in Lexer
  <2>1. lexer \in Lexer
    BY DEF TypeOK
  <2>2. NoError \in [cause : {"none", "lexical", "syntax", "action", "help request"},
                     help : {"none", "hint", "text"}, at : Int]
    BY DEF NoError
  <2> QED
    BY <1>1, <2>1, <2>2 DEF Lexer
<1> QED
  BY <1>2 DEF Cleanup

\* IInv through the end of a statement, parsed or not (parse.go 156-168, 178-206).
LEMMA StatementEndInv == IInv /\ (StatementParsed \/ StatementFailed) => IInv'
<1> SUFFICES ASSUME IInv, StatementParsed \/ StatementFailed PROVE IInv'
  OBVIOUS
<1>1. /\ TypeOK /\ InOrder(input)
      /\ UNCHANGED <<input, calls, scanned>> /\ NoStatement /\ Cleanup
      /\ pc' \in {"idle", "first", "return"}
  BY DEF IInv, ScanInv, StatementParsed, StatementFailed
<1>2. lexer' \in Lexer /\ char' \in TokenId \cup LexerId \cup {Eof, None}
  BY <1>1, CleanupType
<1>3. /\ InOrder(input') /\ input' \in [size : Nat, toks : Seq(ScanToken)]
      /\ calls' \in 0 .. MaxCalls /\ scanned' \in 0 .. Len(input'.toks)
  BY <1>1 DEF TypeOK
<1> QED
  BY <1>1, <1>2, <1>3, BetweenStep

\* IInv through the end of a call (parse.go 165-170).
LEMMA ReturnStatementsInv == IInv /\ ReturnStatements => IInv'
<1> SUFFICES ASSUME IInv, ReturnStatements PROVE IInv'
  OBVIOUS
<1>1. /\ TypeOK /\ ScanInv /\ pc = "return" /\ pc' = "idle"
      /\ UNCHANGED <<input, calls, scanned, first, tokens, sql, lexer, char>>
  BY DEF IInv, ReturnStatements, scan
<1>2. InOrder(input) /\ NoStatement
  BY <1>1 DEF ScanInv, NoStatement
<1>3. /\ InOrder(input') /\ input' \in [size : Nat, toks : Seq(ScanToken)]
      /\ calls' \in 0 .. MaxCalls /\ scanned' \in 0 .. Len(input'.toks)
      /\ lexer' \in Lexer /\ char' \in TokenId \cup LexerId \cup {Eof, None}
  BY <1>1, <1>2 DEF TypeOK
<1> QED
  BY <1>1, <1>2, <1>3, BetweenStep

\* IInv where nothing happens.
LEMMA StutterInv == IInv /\ UNCHANGED vars => IInv'
<1> SUFFICES ASSUME IInv, UNCHANGED vars PROVE IInv'
  OBVIOUS
<1>1. UNCHANGED <<input, calls, pc, scanned, first, tokens, sql, lexer, char>>
  BY DEF vars, scan
<1>2. TypeOK'
  BY <1>1 DEF IInv, TypeOK
<1>3. ScanInv'
  BY <1>1 DEF IInv, ScanInv, InOrder, InDriver
<1>4. DriverInv'
  BY <1>1 DEF IInv, DriverInv, InDriver, LexedId
<1>5. CaretOnToken' /\ FailureExplained'
  BY <1>1 DEF IInv, CaretOnToken, FailureExplained, LastToken, Size
<1> QED
  BY <1>2, <1>3, <1>4, <1>5 DEF IInv

\* Whatever the inputs and whatever the grammar accepts, the parser keeps its
\* invariant: in particular its types, and the driver reads at most one token
\* past the end of a statement (parse.go, lexer.go).
THEOREM ParserInvariant == Spec => []IInv
<1>1. Init => IInv
  BY InitInv
<1>2. IInv /\ [Next]_vars => IInv'
  BY CallInv, SkipSemicolonInv, NothingLeftInv, FirstTokenInv, RestTokenInv, ScanErrorInv,
     EndOfStatementInv, LexInv, ShiftInv, UpdateNumPlaceholdersInv, NewAnnotationInv, SetStmtInv,
     ActionFailsInv, HelpAllInv, SyntaxErrorInv, AcceptInv, StatementEndInv, ReturnStatementsInv,
     StutterInv
     DEF Next
<1> QED
  BY <1>1, <1>2, PTL DEF Spec

\* Every token the grammar sees is where its position says it is in the text
\* of its statement, although scanOneStmt moved the positions (parse.go 134-148).
THEOREM TokensName == Spec => []TokensNameText
<1>1. IInv => TokensNameText
  <2> SUFFICES ASSUME IInv, first > 0, NEW i \in 1 .. Len(tokens)
               PROVE  LET t == input.toks[first + i - 1]
                      IN  /\ tokens[i].id = t.id /\ tokens[i].idx = t.idx
                          /\ sql.from + tokens[i].pos = t.pos
                          /\ pc \in {"parse", "accepted", "failed"} => t.end <= sql.to
    BY DEF TokensNameText
  <2> DEFINE t == input.toks[first + i - 1]
  <2>1. /\ TypeOK /\ first + Len(tokens) <= scanned + 1
        /\ tokens[i].id = t.id /\ tokens[i].idx = t.idx
        /\ tokens[i].pos = t.pos - sql.from
        /\ InDriver => t.end <= sql.to
    BY DEF IInv, ScanInv
  <2>2. first + i - 1 \in 1 .. Len(input.toks)
    BY <2>1, Types, SMTT(20)
  <2>3. t.pos \in Nat /\ sql.from \in Nat
    BY <2>1, <2>2, Types
  <2> HIDE DEF t
  <2>4. sql.from + tokens[i].pos = t.pos
    BY <2>1, <2>3
  <2> QED
    BY <2>1, <2>4 DEF InDriver, t
<1> QED
  BY <1>1, ParserInvariant, PTL

\* populateErrorDetails slices the statement in bounds and draws its caret
\* under the token that failed (lexer.go 195-230).
THEOREM ErrorsPointAtToken == Spec => []CaretOnToken
<1>1. IInv => CaretOnToken
  BY DEF IInv
<1> QED
  BY <1>1, ParserInvariant, PTL

\* No failure is without an error, and a lexical error is never reported as a
\* syntax error or the other way round (lexer.go 198-203, parse.go 179-184).
THEOREM FailuresExplained == Spec => []FailureExplained
<1>1. IInv => FailureExplained
  BY DEF IInv
<1> QED
  BY <1>1, ParserInvariant, PTL
-----------------------------------------------------------------------------
(* Where statements end, and what the driver has taken of one. *)

\* A statement begins at the start of the input or after a semicolon, and has
\* none in it; a call returns at the end of the input.
CutInv ==
  /\ pc = "first" => scanned = 0 \/ input.toks[scanned].id = Semicolon
  /\ first > 0 =>
       /\ first = 1 \/ input.toks[first - 1].id = Semicolon
       /\ \A i \in 1 .. Len(tokens) : tokens[i].id # Semicolon
  /\ pc = "return" => scanned = Len(input.toks)

\* It ends with an ERROR, or with all of its text before a semicolon or the end.
EndInv ==
  InDriver =>
    \/ first > 0 /\ tokens[Len(tokens)].id = "ERROR"
    \/ done /\ first = 0 /\ scanned = Len(input.toks)
    \/ /\ first > 0
       /\ sql.to = input.toks[first + Len(tokens) - 1].end
       /\ IF done
          THEN first + Len(tokens) = Len(input.toks) + 1 /\ scanned = Len(input.toks)
          ELSE first + Len(tokens) = scanned /\ input.toks[scanned].id = Semicolon

\* The driver got over token i.
Taken(i) ==
  /\ tokens[i].id # "ERROR"
  /\ tokens[i].id = "PLACEHOLDER" => tokens[i].idx + 1 <= lexer.numPlaceholders

\* The count of placeholders is that of one, and the driver got over every token
\* before its lookahead but for a placeholder it has yet to reduce.
TakenInv ==
  /\ InDriver => \/ lexer.numPlaceholders = 0
                 \/ \E i \in 1 .. Len(tokens) : /\ tokens[i].id = "PLACEHOLDER"
                                                /\ lexer.numPlaceholders = tokens[i].idx + 1
  /\ pc = "parse" => \A i \in 1 .. lexer.lastPos : Taken(i)
  /\ pc = "parse" /\ char = None /\ lexer.lastPos >= 0 =>
       IF lexer.unreduced THEN tokens[lexer.lastPos + 1].id = "PLACEHOLDER"
       ELSE Taken(lexer.lastPos + 1)
  /\ pc = "accepted" => \A i \in 1 .. Len(tokens) : Taken(i)

StatementInv == CutInv /\ EndInv /\ TakenInv

\* Lex changes neither errors nor placeholders.
LEMMA LexedIdKeeps ==
  ASSUME TypeOK, NEW p \in Nat, p < Len(tokens)
  PROVE  /\ tokens[p + 1].id \in {"ERROR", "PLACEHOLDER"} => LexedId(p) = tokens[p + 1].id
         /\ LexedId(p) = "PLACEHOLDER" => tokens[p + 1].id = "PLACEHOLDER"
<1>1. ~(p >= Len(tokens))
  BY Types
<1>2. LexedId(p) \in {tokens[p + 1].id, LookaheadId(tokens[p + 1].id)}
  BY <1>1 DEF LexedId
<1>3. LookaheadId(tokens[p + 1].id) # "PLACEHOLDER"
  BY DEF LookaheadId
<1>4. tokens[p + 1].id \in {"ERROR", "PLACEHOLDER"} => LookaheadNext(tokens[p + 1].id) = {}
  BY DEF LookaheadNext
<1> QED
  BY <1>1, <1>2, <1>3, <1>4 DEF LexedId

\* Outside the driver, the lexer does not matter.
LEMMA ApartStep ==
  ASSUME CutInv', ~InDriver'
  PROVE  StatementInv'
BY DEF StatementInv, EndInv, TakenInv, InDriver

\* The driver begins before the first token.
LEMMA BeginStatement ==
  ASSUME CutInv', EndInv', pc' = "parse", lexer' = LexerInit, tokens' = tokens, TypeOK
  PROVE  StatementInv'
<1>1. /\ lexer'.numPlaceholders = 0 /\ lexer'.lastPos = -1
      /\ ~(lexer'.lastPos >= 0) /\ 1 .. lexer'.lastPos = {}
  BY DEF LexerInit
<1>2. TakenInv'
  BY <1>1 DEF TakenInv
<1> QED
  BY <1>2 DEF StatementInv

\* A call begins with no statement cut.
LEMMA CallStatement == IInv /\ StatementInv /\ Call => StatementInv'
<1> SUFFICES ASSUME Call PROVE StatementInv'
  OBVIOUS
<1>1. pc' = "first" /\ scanned' = 0 /\ first' = 0
  BY DEF Call, NoStatement
<1> QED
  BY <1>1, ApartStep DEF CutInv, InDriver

\* A statement begins behind a semicolon.
LEMMA SkipSemicolonStatement == IInv /\ StatementInv /\ SkipSemicolon => StatementInv'
<1> SUFFICES ASSUME IInv, SkipSemicolon PROVE StatementInv'
  OBVIOUS
<1>1. pc' = "first" /\ scanned' = scanned + 1 /\ input' = input /\ first' = first
      /\ input.toks[scanned + 1].id = Semicolon /\ first = 0
  BY DEF SkipSemicolon, NextToken, IInv, ScanInv
<1>2. input'.toks[scanned'].id = Semicolon
  BY <1>1
<1>3. ~(first' > 0)
  <2>1. first' = 0
    BY <1>1
  <2> QED
    BY <2>1
<1>4. CutInv'
  BY <1>1, <1>2, <1>3 DEF CutInv
<1> QED
  BY <1>1, <1>4, ApartStep DEF InDriver

\* The input may end before a statement begins.
LEMMA NothingLeftStatement == IInv /\ StatementInv /\ NothingLeft => StatementInv'
<1> SUFFICES ASSUME IInv, NothingLeft PROVE StatementInv'
  OBVIOUS
<1>1. TypeOK /\ first = 0 /\ scanned = Len(input.toks)
  BY DEF IInv, ScanInv, NothingLeft, AtEnd
<1>2. /\ pc' = "parse" /\ lexer' = LexerInit /\ done'
      /\ UNCHANGED <<input, first, tokens, scanned>>
  BY DEF NothingLeft, BeginParse
<1>3. CutInv' /\ EndInv'
  BY <1>1, <1>2 DEF CutInv, EndInv
<1> QED
  BY <1>1, <1>2, <1>3, BeginStatement

\* A statement goes on from its first token.
LEMMA FirstTokenStatement == IInv /\ StatementInv /\ FirstToken => StatementInv'
<1> SUFFICES ASSUME IInv, StatementInv, FirstToken PROVE StatementInv'
  OBVIOUS
<1> DEFINE n == scanned + 1
           t == input.toks[n]
<1>1. TypeOK /\ CutInv /\ pc = "first"
  BY DEF IInv, StatementInv, FirstToken
<1>2. /\ pc' = "rest" /\ input' = input /\ first' = n
      /\ tokens' = <<[id |-> t.id, pos |-> 0, idx |-> t.idx]>> /\ t.id # Semicolon
  BY DEF FirstToken, NextToken, Token
<1>3. n - 1 = scanned /\ (scanned = 0 => n = 1)
  BY <1>1, Types
<1>4. first' = 1 \/ input.toks[first' - 1].id = Semicolon
  BY <1>1, <1>2, <1>3 DEF CutInv
<1> HIDE DEF n, t
<1>5. \A i \in 1 .. Len(tokens') : tokens'[i].id # Semicolon
  <2>1. Len(tokens') = 1 /\ tokens'[1] = [id |-> t.id, pos |-> 0, idx |-> t.idx]
    BY <1>2
  <2>2. \A i \in 1 .. Len(tokens') : i = 1
    BY <2>1
  <2>3. tokens'[1].id = t.id
    BY <2>1
  <2> QED
    BY <1>2, <2>2, <2>3
<1>6. CutInv'
  BY <1>2, <1>4, <1>5 DEF CutInv
<1> QED
  BY <1>2, <1>6, ApartStep DEF InDriver

\* No token of a statement is a semicolon.
LEMMA RestTokenStatement == IInv /\ StatementInv /\ RestToken => StatementInv'
<1> SUFFICES ASSUME IInv, StatementInv, RestToken PROVE StatementInv'
  OBVIOUS
<1> DEFINE t   == input.toks[scanned + 1]
           new == [id |-> t.id, pos |-> t.pos - sql.from, idx |-> t.idx]
<1>1. TypeOK /\ TypeOK' /\ CutInv /\ pc = "rest" /\ first > 0
  BY RestTokenInv DEF IInv, StatementInv, ScanInv, RestToken
<1>2. /\ pc' = "rest" /\ input' = input /\ first' = first
      /\ tokens' = Append(tokens, new) /\ new.id # Semicolon
  BY <1>1 DEF RestToken, NextToken, Token
<1>3. tokens \in Seq(LexToken) /\ new \in LexToken
  <2>1. Len(tokens) \in Nat /\ tokens \in Seq(LexToken) /\ tokens' \in Seq(LexToken)
    BY <1>1, Types DEF TypeOK
  <2>2. scanned + 1 \in 1 .. Len(input.toks)
    <3>1. scanned # Len(input.toks)
      BY DEF RestToken, AtEnd
    <3> QED
      BY <1>1, <3>1, Types
  <2>3. t.id \in TokenId /\ t.pos \in Nat /\ t.idx \in Nat /\ sql.from \in Nat
    BY <1>1, <2>2, Types
  <2> QED
    BY <2>1, <2>3 DEF LexToken
<1> HIDE DEF t, new
<1>4. /\ Len(tokens') = Len(tokens) + 1
      /\ \A i \in 1 .. Len(tokens) : tokens'[i] = tokens[i]
      /\ tokens'[Len(tokens) + 1] = new
  <2>1. tokens' = Append(tokens, new)
    BY <1>2
  <2> QED
    BY <1>3, <2>1
<1>5. \A i \in 1 .. Len(tokens) : tokens[i].id # Semicolon
  BY <1>1 DEF CutInv
<1>6. ASSUME NEW i \in 1 .. Len(tokens')
      PROVE  tokens'[i].id # Semicolon
  <2>1. i \in 1 .. Len(tokens) \/ i = Len(tokens) + 1
    BY <1>1, <1>4, Types
  <2> QED
    BY <1>2, <1>4, <1>5, <2>1
<1>7. CutInv'
  BY <1>1, <1>2, <1>6 DEF CutInv
<1> QED
  BY <1>2, <1>7, ApartStep DEF InDriver

\* An ERROR token ends a statement.
LEMMA ScanErrorStatement == IInv /\ StatementInv /\ ScanError => StatementInv'
<1> SUFFICES ASSUME IInv, StatementInv, ScanError PROVE StatementInv'
  OBVIOUS
<1>1. TypeOK /\ CutInv /\ first > 0 /\ tokens[Len(tokens)].id = "ERROR"
  BY DEF IInv, StatementInv, ScanInv, ScanError, LastScanned
<1>2. pc' = "parse" /\ lexer' = LexerInit /\ UNCHANGED <<input, first, tokens, scanned>>
  BY DEF ScanError, BeginParse
<1>3. CutInv' /\ EndInv'
  BY <1>1, <1>2 DEF CutInv, EndInv
<1> QED
  BY <1>1, <1>2, <1>3, BeginStatement

\* A statement ends before a semicolon or at the end.
LEMMA EndOfStatementStatement == IInv /\ StatementInv /\ EndOfStatement => StatementInv'
<1> SUFFICES ASSUME IInv, StatementInv, EndOfStatement PROVE StatementInv'
  OBVIOUS
<1> DEFINE n == first + Len(tokens)
<1>1. TypeOK /\ CutInv /\ first > 0 /\ n = scanned + 1
  BY DEF IInv, StatementInv, ScanInv, EndOfStatement
<1>2. scanned # 0 /\ n - 1 = scanned
  BY <1>1, Types
<1>3. /\ pc' = "parse" /\ lexer' = LexerInit /\ UNCHANGED <<input, first, tokens>>
      /\ \/ done' /\ scanned' = scanned /\ scanned = Len(input.toks)
         \/ ~done' /\ scanned' = scanned + 1 /\ input.toks[scanned + 1].id = Semicolon
      /\ sql' = [sql EXCEPT !.to = input.toks[scanned].end]
  BY <1>2 DEF EndOfStatement, BeginParse, AtEnd, NextToken, ScannerPos
<1>4. sql'.to = input.toks[scanned].end
  BY <1>1, <1>3 DEF TypeOK
<1>5. CutInv'
  BY <1>1, <1>3 DEF CutInv
<1>6. first' + Len(tokens') = n
  BY <1>3
<1>7. Len(input.toks) \in Nat /\ scanned \in Nat
  BY <1>1, Types
<1>9. first' + Len(tokens') - 1 = scanned
  <2>1. first' = first /\ tokens' = tokens
    BY <1>3
  <2>2. first + Len(tokens) - 1 = scanned
    BY <1>1, Types
  <2> QED
    BY <2>1, <2>2
<1> HIDE DEF n
<1>8. EndInv'
  <2>1. CASE done' /\ scanned' = scanned /\ scanned = Len(input.toks)
    BY <1>1, <1>3, <1>4, <1>6, <1>7, <1>9, <2>1 DEF EndInv
  <2>2. CASE ~done' /\ scanned' = scanned + 1 /\ input.toks[scanned + 1].id = Semicolon
    BY <1>1, <1>3, <1>4, <1>6, <1>7, <1>9, <2>2 DEF EndInv
  <2> QED
    BY <1>3, <2>1, <2>2
<1> QED
  BY <1>1, <1>3, <1>5, <1>8, BeginStatement
-----------------------------------------------------------------------------
\* While the driver runs, the statement stays.
LEMMA DriverCut ==
  ASSUME StatementInv, InDriver, pc' \in {"parse", "accepted", "failed"}, UNCHANGED scan
  PROVE  CutInv' /\ EndInv'
<1>1. UNCHANGED <<input, scanned, first, tokens, sql, done>>
  BY DEF scan
<1> QED
  BY <1>1 DEF StatementInv, CutInv, EndInv, InDriver

\* The driver reads tokens of the statement only.
LEMMA LexStatement == IInv /\ StatementInv /\ Lex => StatementInv'
<1> SUFFICES ASSUME IInv, StatementInv, Lex PROVE StatementInv'
  OBVIOUS
<1> DEFINE p == lexer.lastPos + 1
<1>1. TypeOK /\ TypeOK' /\ DriverInv /\ TakenInv /\ InDriver /\ ~lexer.unreduced
  BY LexInv DEF IInv, StatementInv, InDriver, Lex, Parsing
<1>2. /\ UNCHANGED <<scan, pc>> /\ tokens' = tokens /\ pc = "parse" /\ char = None
      /\ lexer' = [lexer EXCEPT !.lastPos = p] /\ char' = LexedId(p)
  BY DEF Lex, Parsing, scan
<1>3. p \in Nat /\ lexer \in Lexer
  <2>1. lexer.lastPos \in -1 .. Len(tokens) /\ Len(tokens) \in Nat
    BY <1>1, Types DEF DriverInv
  <2> QED
    BY <1>1, <2>1 DEF TypeOK
<1>4. char' # None
  BY <1>1, <1>2, <1>3, LexedIdType, TokenAssumption
<1>5. lexer'.lastPos = p /\ lexer'.numPlaceholders = lexer.numPlaceholders
  BY <1>2, <1>3 DEF Lexer
<1>6. ASSUME NEW i \in 1 .. p
      PROVE  Taken(i)'
  <2>1. i \in 1 .. lexer.lastPos \/ (i = lexer.lastPos + 1 /\ lexer.lastPos >= 0)
    BY <1>1, Types
  <2>2. Taken(i)
    BY <1>1, <1>2, <2>1 DEF TakenInv
  <2> QED
    BY <1>2, <1>5, <2>2 DEF Taken
<1> HIDE DEF p
<1>7. TakenInv'
  BY <1>1, <1>2, <1>4, <1>5, <1>6 DEF TakenInv, InDriver
<1> QED
  BY <1>1, <1>2, <1>7, DriverCut DEF StatementInv

\* What is shifted is a token of the statement.
LEMMA ShiftStatement == IInv /\ StatementInv /\ Shift => StatementInv'
<1> SUFFICES ASSUME IInv, StatementInv, Shift PROVE StatementInv'
  OBVIOUS
<1> DEFINE p == lexer.lastPos
<1>1. TypeOK /\ DriverInv /\ TakenInv /\ InDriver
  BY DEF IInv, StatementInv, InDriver, Shift, Parsing
<1>2. /\ UNCHANGED <<scan, pc>> /\ tokens' = tokens /\ pc = "parse"
      /\ char # None /\ char # Eof /\ char # "ERROR" /\ char' = None
      /\ lexer' = [lexer EXCEPT !.unreduced = (char = "PLACEHOLDER")]
  BY DEF Shift, Parsing, scan
<1>3. p \in Nat /\ char = LexedId(p) /\ lexer \in Lexer
  BY <1>1, <1>2, Types DEF DriverInv, TypeOK
<1>4. p < Len(tokens)
  <2>1. ~(p >= Len(tokens))
    BY <1>1, <1>2, <1>3, LexedIdType
  <2> QED
    BY <1>1, <1>3, <2>1, Types
<1>5. /\ lexer'.lastPos = p /\ lexer'.numPlaceholders = lexer.numPlaceholders
      /\ lexer'.unreduced = (char = "PLACEHOLDER")
  BY <1>2, <1>3 DEF Lexer
<1>6. /\ char = "PLACEHOLDER" => tokens[p + 1].id = "PLACEHOLDER"
      /\ char # "PLACEHOLDER" => Taken(p + 1)
  BY <1>1, <1>2, <1>3, <1>4, LexedIdKeeps DEF Taken
<1>7. \A i : Taken(i) => Taken(i)'
  BY <1>2, <1>5 DEF Taken
<1>8. \A i \in 1 .. p : Taken(i)
  BY <1>1, <1>2 DEF TakenInv
<1> HIDE DEF p
<1>9. TakenInv'
  BY <1>1, <1>2, <1>5, <1>6, <1>7, <1>8 DEF TakenInv, InDriver
<1> QED
  BY <1>1, <1>2, <1>9, DriverCut DEF StatementInv

\* A driver step that keeps its place, and counts no less than before.
LEMMA KeepTaken ==
  ASSUME StatementInv, pc = "parse", pc' = "parse", UNCHANGED <<scan, char>>,
         lexer'.lastPos = lexer.lastPos, lexer'.unreduced = lexer.unreduced,
         lexer'.numPlaceholders = lexer.numPlaceholders
  PROVE  StatementInv'
<1>1. tokens' = tokens /\ TakenInv /\ InDriver
  BY DEF scan, StatementInv, InDriver
<1>2. \A i : Taken(i) => Taken(i)'
  BY <1>1 DEF Taken
<1>3. TakenInv'
  BY <1>1, <1>2 DEF TakenInv, InDriver
<1> QED
  BY <1>1, <1>3, DriverCut DEF StatementInv

\* A placeholder is counted before the next token is read.
LEMMA UpdateNumPlaceholdersStatement ==
  IInv /\ StatementInv /\ UpdateNumPlaceholders => StatementInv'
<1> SUFFICES ASSUME IInv, StatementInv, UpdateNumPlaceholders PROVE StatementInv'
  OBVIOUS
<1> DEFINE p == lexer.lastPos + 1
           n == tokens[p].idx + 1
           c == lexer.numPlaceholders
           d == IF c < n THEN n ELSE c
<1>1. /\ TypeOK /\ DriverInv /\ TakenInv /\ InDriver /\ pc = "parse" /\ pc' = "parse"
      /\ lexer.unreduced /\ UNCHANGED scan /\ char' = char /\ tokens' = tokens
  BY DEF IInv, StatementInv, InDriver, UpdateNumPlaceholders, scan
<1>2. p \in 1 .. Len(tokens) /\ char = None /\ lexer.lastPos >= 0
  BY <1>1, Types DEF DriverInv
<1>3. n \in Nat /\ c \in Nat /\ lexer \in Lexer
  <2>1. lexer \in Lexer
    BY <1>1 DEF TypeOK
  <2>2. c \in Nat
    BY <2>1 DEF Lexer
  <2>3. n \in Nat
    BY <1>1, <1>2, Types
  <2> QED
    BY <2>1, <2>2, <2>3
<1>4. tokens[p].id = "PLACEHOLDER"
  BY <1>1, <1>2 DEF TakenInv
<1>5. /\ lexer'.lastPos = lexer.lastPos /\ lexer'.numPlaceholders = d
      /\ lexer'.unreduced = FALSE
  BY <1>3 DEF UpdateNumPlaceholders, Lexer
<1>6. d \in Nat /\ c <= d /\ n <= d /\ d \in {c, n}
  BY <1>3
<1> HIDE DEF d
<1>7. ASSUME NEW i \in 1 .. Len(tokens), Taken(i)
      PROVE  Taken(i)'
  <2>1. tokens[i].idx \in Nat
    BY <1>1, Types
  <2>2. tokens[i].id = "PLACEHOLDER" => tokens[i].idx + 1 <= d
    <3>1. tokens[i].id = "PLACEHOLDER" => tokens[i].idx + 1 <= c
      BY <1>7 DEF Taken
    <3> QED
      BY <1>3, <1>6, <2>1, <3>1
  <2> QED
    BY <1>1, <1>5, <1>7, <2>2 DEF Taken
<1>8. Taken(p)'
  BY <1>1, <1>4, <1>5, <1>6 DEF Taken
<1>9. \/ d = 0
      \/ \E i \in 1 .. Len(tokens) : tokens[i].id = "PLACEHOLDER" /\ d = tokens[i].idx + 1
  <2>1. CASE d = n
    BY <1>2, <1>4, <2>1
  <2>2. CASE d = c
    BY <1>1, <2>2 DEF TakenInv
  <2> QED
    BY <1>6, <2>1, <2>2
<1> HIDE DEF n, c
<1>10. ASSUME NEW i \in 1 .. lexer.lastPos
       PROVE  Taken(i)'
  <2>1. Taken(i) /\ i \in 1 .. Len(tokens)
    BY <1>1, <1>2, Types DEF TakenInv
  <2> QED
    BY <1>7, <2>1
<1> HIDE DEF p
<1>11. TakenInv'
  <2>1. pc' = "parse" /\ lexer'.unreduced = FALSE /\ tokens' = tokens
    BY <1>1, <1>5
  <2>2. Taken(lexer.lastPos + 1)'
    BY <1>8 DEF p
  <2> QED
    BY <1>5, <1>9, <1>10, <2>1, <2>2 DEF TakenInv
<1> QED
  BY <1>1, <1>11, DriverCut DEF StatementInv

\* Reductions leave the cut and the counters as they are.
LEMMA KeepStatement == IInv /\ StatementInv /\ (NewAnnotation \/ SetStmt) => StatementInv'
<1> SUFFICES ASSUME IInv, StatementInv, NewAnnotation \/ SetStmt PROVE StatementInv'
  OBVIOUS
<1>1. pc = "parse" /\ pc' = "parse" /\ UNCHANGED <<scan, char>> /\ lexer \in Lexer
  BY DEF IInv, TypeOK, NewAnnotation, SetStmt, Parsing
<1>2. \/ lexer' = [lexer EXCEPT !.numAnnotations = @ + 1]
      \/ lexer' = [lexer EXCEPT !.stmt = TRUE]
  BY DEF NewAnnotation, SetStmt
<1>3. /\ lexer'.lastPos = lexer.lastPos /\ lexer'.unreduced = lexer.unreduced
      /\ lexer'.numPlaceholders = lexer.numPlaceholders
  BY <1>1, <1>2 DEF Lexer
<1> QED
  BY <1>1, <1>3, KeepTaken

\* So do the failures.
LEMMA FailStatement ==
  IInv /\ StatementInv /\ (ActionFails \/ HelpAll \/ SyntaxError) => StatementInv'
<1> SUFFICES ASSUME IInv, StatementInv, ActionFails \/ HelpAll \/ SyntaxError PROVE StatementInv'
  OBVIOUS
<1>1. pc = "parse" /\ \E err : Fail(err)
  BY DEF ActionFails, HelpAll, SyntaxError, Parsing
<1>2. PICK err : Fail(err)
  BY <1>1
<1>3. /\ pc' = "failed" /\ UNCHANGED scan /\ lexer' = [lexer EXCEPT !.lastError = err]
      /\ lexer \in Lexer /\ TakenInv /\ InDriver /\ tokens' = tokens
  BY <1>1, <1>2 DEF Fail, IInv, TypeOK, StatementInv, InDriver, scan
<1>4. lexer'.numPlaceholders = lexer.numPlaceholders
  BY <1>3 DEF Lexer
<1>5. TakenInv'
  BY <1>3, <1>4 DEF TakenInv, InDriver
<1> QED
  BY <1>3, <1>5, DriverCut DEF StatementInv

\* The driver accepts at the end only, when it got over every token.
LEMMA AcceptStatement == IInv /\ StatementInv /\ Accept => StatementInv'
<1> SUFFICES ASSUME IInv, StatementInv, Accept PROVE StatementInv'
  OBVIOUS
<1>1. /\ TypeOK /\ DriverInv /\ TakenInv /\ InDriver /\ pc = "parse" /\ pc' = "accepted"
      /\ UNCHANGED <<scan, lexer, char>> /\ tokens' = tokens /\ char = Eof
  BY DEF IInv, StatementInv, InDriver, Accept, Parsing, scan
<1>2. lexer.lastPos \in Nat /\ LexedId(lexer.lastPos) = Eof
  <2>1. char # None
    BY <1>1, TokenAssumption
  <2>2. lexer.lastPos >= 0 /\ lexer.lastPos \in Int /\ char = LexedId(lexer.lastPos)
    BY <1>1, <2>1, Types DEF DriverInv
  <2> QED
    BY <1>1, <2>2
<1>3. lexer.lastPos >= Len(tokens)
  BY <1>1, <1>2, LexedIdType
<1>4. lexer.lastPos \in -1 .. Len(tokens) /\ Len(tokens) \in Nat
  BY <1>1, Types DEF DriverInv
<1>5. lexer.lastPos = Len(tokens)
  BY <1>3, <1>4
<1>6. \A i \in 1 .. Len(tokens) : Taken(i)
  BY <1>1, <1>5 DEF TakenInv
<1>7. \A i : Taken(i) => Taken(i)'
  BY <1>1 DEF Taken
<1>8. TakenInv'
  BY <1>1, <1>6, <1>7 DEF TakenInv, InDriver
<1> QED
  BY <1>1, <1>8, DriverCut DEF StatementInv

\* An accepted statement has no ERROR, so that it ends where EndInv says.
LEMMA AcceptedEnd ==
  ASSUME IInv, StatementInv, pc = "accepted"
  PROVE  /\ first > 0 => tokens # <<>> /\ \A i \in 1 .. Len(tokens) : Taken(i)
         /\ done => scanned = Len(input.toks)
         /\ ~done => input.toks[scanned].id = Semicolon
         /\ \/ done /\ first = 0
            \/ /\ first > 0
               /\ sql.to = input.toks[first + Len(tokens) - 1].end
               /\ IF done
                  THEN first + Len(tokens) = Len(input.toks) + 1
                  ELSE first + Len(tokens) = scanned
<1>1. TypeOK /\ ScanInv /\ EndInv /\ TakenInv /\ InDriver
  BY DEF IInv, StatementInv, InDriver
<1>2. first > 0 => tokens # <<>> /\ Len(tokens) \in 1 .. Len(tokens)
  BY <1>1, Types DEF ScanInv
<1>3. \A i \in 1 .. Len(tokens) : Taken(i)
  BY <1>1 DEF TakenInv
<1>4. ~(first > 0 /\ tokens[Len(tokens)].id = "ERROR")
  BY <1>2, <1>3 DEF Taken
<1>5. first = 0 \/ first > 0
  BY <1>1, Types
<1> QED
  BY <1>1, <1>2, <1>3, <1>4, <1>5 DEF EndInv

\* A statement that was parsed leaves no error behind it.
LEMMA StatementParsedStatement == IInv /\ StatementInv /\ StatementParsed => StatementInv'
<1> SUFFICES ASSUME IInv, StatementInv, StatementParsed PROVE StatementInv'
  OBVIOUS
<1>1. /\ pc = "accepted" /\ pc' = IF done THEN "return" ELSE "first"
      /\ UNCHANGED <<input, scanned>> /\ first' = 0
  BY DEF StatementParsed, NoStatement
<1>2. ~(first' > 0)
  <2>1. first' = 0
    BY <1>1
  <2> QED
    BY <2>1
<1>3. /\ pc' = "first" => input.toks[scanned].id = Semicolon
      /\ pc' = "return" => scanned = Len(input.toks)
  <2>1. CASE done
    BY <1>1, <2>1, AcceptedEnd
  <2>2. CASE ~done
    BY <1>1, <2>2, AcceptedEnd
  <2> QED
    BY <2>1, <2>2
<1>4. CutInv'
  BY <1>1, <1>2, <1>3 DEF CutInv
<1> QED
  BY <1>1, <1>4, ApartStep DEF InDriver

\* A call that returns leaves nothing behind it.
LEMMA EndCallStatement ==
  IInv /\ StatementInv /\ (StatementFailed \/ ReturnStatements) => StatementInv'
<1> SUFFICES ASSUME IInv, StatementInv, StatementFailed \/ ReturnStatements PROVE StatementInv'
  OBVIOUS
<1>1. pc' = "idle" /\ first' = 0
  BY DEF StatementFailed, ReturnStatements, NoStatement, scan, IInv, ScanInv
<1>2. CutInv'
  BY <1>1 DEF CutInv
<1> QED
  BY <1>1, <1>2, ApartStep DEF InDriver

\* StatementInv where nothing happens.
LEMMA StutterStatement == IInv /\ StatementInv /\ UNCHANGED vars => StatementInv'
<1> SUFFICES ASSUME StatementInv, UNCHANGED vars PROVE StatementInv'
  OBVIOUS
<1>1. UNCHANGED <<input, pc, scanned, first, tokens, sql, done, lexer, char>>
  BY DEF vars, scan
<1> QED
  BY <1>1 DEF StatementInv, CutInv, EndInv, TakenInv, Taken, InDriver

\* Statements are cut at semicolons and at the end only, and the driver leaves
\* no placeholder uncounted behind it (parse.go 102-171, lexer.go 240-256).
THEOREM StatementInvariant == Spec => []StatementInv
<1>1. Init => StatementInv
  BY DEF Init, StatementInv, CutInv, EndInv, TakenInv, InDriver
<1>2. IInv /\ StatementInv /\ [Next]_vars => StatementInv'
  BY CallStatement, SkipSemicolonStatement, NothingLeftStatement, FirstTokenStatement,
     RestTokenStatement, ScanErrorStatement, EndOfStatementStatement, LexStatement,
     ShiftStatement, UpdateNumPlaceholdersStatement, KeepStatement, FailStatement,
     AcceptStatement, StatementParsedStatement, EndCallStatement, StutterStatement
     DEF Next
<1> QED
  BY <1>1, <1>2, ParserInvariant, PTL DEF Spec

\* A token is marked as looking ahead exactly if what it looks for is the next
\* token of the same statement, although Lex sees the end of a statement where
\* the input goes on (lexer.go 84-110).
THEOREM LooksWithinStatement == Spec => []LookaheadInStatement
<1>1. IInv /\ StatementInv => LookaheadInStatement
  <2> SUFFICES ASSUME IInv, StatementInv, pc = "parse", char # None, lexer.lastPos < Len(tokens)
               PROVE  LET n    == first + lexer.lastPos
                          id   == input.toks[n].id
                          next == IF n < Len(input.toks) THEN input.toks[n + 1].id ELSE Eof
                      IN  char = IF next \in LookaheadNext(id) THEN LookaheadId(id) ELSE id
    BY DEF LookaheadInStatement
  <2> DEFINE p    == lexer.lastPos
             n    == first + p
             id   == input.toks[n].id
             next == IF n < Len(input.toks) THEN input.toks[n + 1].id ELSE Eof
             seen == IF p + 1 < Len(tokens) THEN tokens[p + 2].id ELSE Eof
  <2>1. TypeOK /\ ScanInv /\ DriverInv /\ EndInv /\ InDriver
    BY DEF IInv, StatementInv, InDriver
  <2>2. /\ p \in Nat /\ p < Len(tokens) /\ ~(p >= Len(tokens)) /\ Len(tokens) \in Nat
        /\ first \in Nat /\ char = LexedId(p)
    BY <2>1, Types DEF DriverInv
  <2>3. first > 0
    <3>1. tokens # <<>>
      BY <2>2
    <3> QED
      BY <2>1, <2>2, <3>1 DEF ScanInv
  <2>4. tokens[p + 1].id = id
    <3>1. p + 1 \in 1 .. Len(tokens) /\ first + (p + 1) - 1 = n
      BY <2>2
    <3> QED
      BY <2>1, <2>3, <3>1 DEF ScanInv
  <2>5. char = IF seen \in LookaheadNext(id) THEN LookaheadId(id) ELSE id
    BY <2>2, <2>4 DEF LexedId
  <2>6. CASE p + 1 < Len(tokens)
    <3>1. p + 2 \in 1 .. Len(tokens) /\ first + (p + 2) - 1 = n + 1
      BY <2>2, <2>6
    <3>2. tokens[p + 2].id = input.toks[n + 1].id
      BY <2>1, <2>3, <3>1 DEF ScanInv
    <3>3. n < Len(input.toks)
      <4>1. first + Len(tokens) <= scanned + 1 /\ scanned <= Len(input.toks)
            /\ scanned \in Nat /\ Len(input.toks) \in Nat
        BY <2>1, <2>3, Types DEF ScanInv
      <4> QED
        BY <2>2, <2>6, <4>1
    <3>4. seen = next
      BY <2>6, <3>2, <3>3
    <3> HIDE DEF id, next, seen
    <3> QED
      BY <2>5, <3>4 DEF next, id
  <2>7. CASE p + 1 = Len(tokens)
    <3>1. /\ Len(tokens) = p + 1 /\ first + Len(tokens) = n + 1
          /\ tokens[Len(tokens)].id = id /\ seen = Eof
      BY <2>2, <2>4, <2>7
    <3>2. id = "ERROR" \/ next \in {Eof, Semicolon}
      <4>1. CASE first > 0 /\ tokens[Len(tokens)].id = "ERROR"
        BY <3>1, <4>1
      <4>2. CASE done /\ first + Len(tokens) = Len(input.toks) + 1
        <5>1. Len(input.toks) \in Nat
          BY <2>1, Types
        <5>2. ~(n < Len(input.toks))
          BY <2>2, <3>1, <4>2, <5>1
        <5> QED
          BY <5>2
      <4>3. CASE first + Len(tokens) = scanned /\ input.toks[scanned].id = Semicolon
        BY <3>1, <4>3
      <4>4. first # 0
        BY <2>2, <2>3
      <4> QED
        BY <2>1, <4>1, <4>2, <4>3, <4>4 DEF EndInv
    <3>3. /\ Eof \notin LookaheadNext(id) /\ Semicolon \notin LookaheadNext(id)
          /\ id = "ERROR" => LookaheadNext(id) = {}
      BY DEF LookaheadNext, Eof, Semicolon
    <3> HIDE DEF id, next, seen
    <3>4. next \in LookaheadNext(id) <=> seen \in LookaheadNext(id)
      BY <3>1, <3>2, <3>3
    <3> QED
      BY <2>5, <3>4 DEF next, id
  <2> QED
    BY <2>2, <2>6, <2>7
<1> QED
  BY <1>1, ParserInvariant, StatementInvariant, PTL
-----------------------------------------------------------------------------
(* What calls return: the slices of statements and the memory under them. *)

Statement ==
  [ast : {None} \cup Nat \X Nat, from : Nat, to : Nat, first : Nat, last : Int,
   placeholders : Nat, annotations : Nat]
Slice  == [arr : Nat, len : Nat]
Result ==
  [err : [cause : {"none", "lexical", "syntax", "action", "help request"},
          help : {"none", "hint", "text"}, at : Int],
   slice : Slice, list : Seq(Statement), input : [size : Nat, toks : Seq(ScanToken)]]

MemoryInv ==
  /\ stmts \in Slice /\ arrays \in Seq(Seq(Statement)) /\ results \in Seq(Result)
  /\ stmts.arr \in 1 .. Len(arrays) /\ stmts.len <= Len(arrays[stmts.arr])
  /\ 1 \in 1 .. Len(arrays)

\* Only stmtBuf has more than one user: a call that needs another array has one
\* of its own.
KeptInv ==
  \A k \in 1 .. Len(results) :
    /\ results[k].slice.arr \in 1 .. Len(arrays)
    /\ results[k].slice.arr # 1 \/ (pc = "idle" /\ k = Len(results)) =>
         Contents(results[k].slice) = results[k].list
    /\ pc # "idle" => results[k].slice.arr = 1 \/ results[k].slice.arr # stmts.arr

\* A Statement as it should be, of an input that could be scanned there.
Good(s, inp) ==
  /\ StatementOf(inp, s)
  /\ CountsPlaceholders(inp, s)
  /\ \A n \in s.first .. s.last : inp.toks[n].id # "ERROR"

GoodList(list, inp, p) ==
  /\ \A i \in 1 .. Len(list) : Good(list[i], inp) /\ list[i].last <= p
  /\ Covers(list, inp, p)

\* How many tokens belong to statements that are parsed.
Complete == IF first = 0 THEN scanned ELSE first - 1

ListInv == pc # "idle" => GoodList(Contents(stmts), input, Complete)

DoneInv ==
  \A k \in 1 .. Len(results) :
    LET r == results[k]
    IN  IF r.err = NoError THEN GoodList(r.list, r.input, Len(r.input.toks)) ELSE r.list = <<>>

ResultInv == MemoryInv /\ KeptInv /\ ListInv /\ DoneInv
-----------------------------------------------------------------------------
\* The contents of a slice are a sequence of statements.
LEMMA ContentsType ==
  ASSUME MemoryInv
  PROVE  /\ Contents(stmts) \in Seq(Statement)
         /\ Len(Contents(stmts)) = stmts.len
<1> DEFINE a == arrays[stmts.arr]
<1>1. a \in Seq(Statement) /\ stmts.len \in 0 .. Len(a) /\ Len(a) \in Nat
  <2>1. a \in Seq(Statement)
    BY DEF MemoryInv
  <2>2. stmts.len \in Nat /\ stmts.len <= Len(a)
    BY DEF MemoryInv, Slice
  <2> QED
    BY <2>1, <2>2
<1>2. \A i \in 1 .. stmts.len : a[i] \in Statement
  BY <1>1
<1> HIDE DEF a
<1>3. SubSeq(a, 1, stmts.len) \in Seq(Statement) /\ Len(SubSeq(a, 1, stmts.len)) = stmts.len
  <2>1. 1 \in Int /\ stmts.len \in Int
    BY <1>1
  <2>2. /\ SubSeq(a, 1, stmts.len) \in Seq(Statement)
        /\ Len(SubSeq(a, 1, stmts.len)) = IF 1 <= stmts.len THEN stmts.len - 1 + 1 ELSE 0
    BY <1>2, <2>1, SubSeqProperties
  <2> QED
    BY <1>1, <2>2
<1> QED
  BY <1>3 DEF Contents, a

\* A sequence followed by anything starts with that sequence.
LEMMA PrefixOfConcat ==
  ASSUME NEW S, NEW s \in Seq(S), NEW t \in Seq(S)
  PROVE  SubSeq(s \o t, 1, Len(s)) = s
<1>1. /\ s \o t \in Seq(S)
      /\ \A i \in 1 .. Len(s) + Len(t) : (s \o t)[i] = IF i <= Len(s) THEN s[i] ELSE t[i - Len(s)]
  BY ConcatProperties
<1>2. Len(s) \in Nat /\ Len(t) \in Nat
  OBVIOUS
<1>3. \A i \in 1 .. Len(s) : (s \o t)[i] = s[i] /\ s[i] \in S
  BY <1>1, <1>2
<1> DEFINE u == s \o t
<1> HIDE DEF u
<1>4. \A i \in 1 .. Len(s) : u[i] = s[i] /\ u[i] \in S
  BY <1>3 DEF u
<1>5. /\ SubSeq(u, 1, Len(s)) \in Seq(S)
      /\ Len(SubSeq(u, 1, Len(s))) = IF 1 <= Len(s) THEN Len(s) - 1 + 1 ELSE 0
      /\ \A i \in 1 .. Len(s) - 1 + 1 : SubSeq(u, 1, Len(s))[i] = u[1 + i - 1]
  BY <1>2, <1>4, SubSeqProperties
<1>6. Len(SubSeq(u, 1, Len(s))) = Len(s)
  BY <1>2, <1>5
<1>7. \A i \in 1 .. Len(s) : SubSeq(u, 1, Len(s))[i] = s[i]
  BY <1>2, <1>4, <1>5
<1> QED
  BY <1>5, <1>6, <1>7, SeqEqual DEF u

\* append: the slice has one statement more, in its array or in a new one, and
\* no other array changes.
LEMMA AppendStmtKeeps ==
  ASSUME MemoryInv, NEW s \in Statement, AppendStmt(s), results' = results
  PROVE  /\ MemoryInv'
         /\ Contents(stmts)' = Append(Contents(stmts), s)
         /\ Len(arrays') >= Len(arrays)
         /\ stmts'.arr \in {stmts.arr, Len(arrays) + 1}
         /\ \A a \in 1 .. Len(arrays) : a # stmts.arr => arrays'[a] = arrays[a]
<1> DEFINE c   == Contents(stmts)
           new == Append(c, s)
<1>1. c \in Seq(Statement) /\ Len(c) = stmts.len
  BY ContentsType
<1>2. /\ stmts \in Slice /\ arrays \in Seq(Seq(Statement)) /\ stmts.arr \in 1 .. Len(arrays)
      /\ stmts.len \in Nat /\ Len(arrays) \in Nat /\ results' \in Seq(Result)
      /\ 1 \in 1 .. Len(arrays)
  BY DEF MemoryInv, Slice
<1> HIDE DEF c
<1>3. new \in Seq(Statement) /\ Len(new) = stmts.len + 1
  BY <1>1
<1>4. SubSeq(new, 1, stmts.len + 1) = new
  BY <1>3, SubSeqFull
<1>5. CASE stmts.arr = 1 /\ stmts.len = 1
  <2>1. arrays' = Append(arrays, new) /\ stmts' = [arr |-> Len(arrays) + 1, len |-> 2]
    BY <1>5 DEF AppendStmt, c
  <2> HIDE DEF new
  <2>2. /\ arrays' \in Seq(Seq(Statement)) /\ Len(arrays') = Len(arrays) + 1
        /\ arrays'[Len(arrays) + 1] = new
        /\ \A a \in 1 .. Len(arrays) : arrays'[a] = arrays[a]
    BY <1>2, <1>3, <2>1
  <2>3. stmts'.arr = Len(arrays) + 1 /\ stmts'.len = 2 /\ stmts' \in Slice
    BY <1>2, <2>1 DEF Slice
  <2>4. SubSeq(new, 1, 2) = new
    BY <1>4, <1>5
  <2>5. Contents(stmts)' = new
    BY <2>2, <2>3, <2>4 DEF Contents
  <2>6. MemoryInv'
    <3>1. stmts'.arr \in 1 .. Len(arrays') /\ 1 \in 1 .. Len(arrays') /\ Len(new) = 2
      BY <1>2, <1>3, <1>5, <2>2, <2>3
    <3>2. stmts'.len <= Len(arrays'[stmts'.arr])
      <4>1. arrays'[stmts'.arr] = new
        BY <2>2, <2>3
      <4>2. Len(new) = 2 /\ stmts'.len = 2
        BY <2>3, <3>1
      <4>3. stmts'.len <= Len(new)
        BY <4>2
      <4> QED
        BY <4>1, <4>3
    <3> QED
      BY <1>2, <2>2, <2>3, <3>1, <3>2 DEF MemoryInv
  <2> QED
    BY <1>2, <2>2, <2>3, <2>5, <2>6 DEF new, c
<1>6. CASE ~(stmts.arr = 1 /\ stmts.len = 1)
  <2> DEFINE old  == arrays[stmts.arr]
             rest == SubSeq(old, stmts.len + 2, Len(old))
  <2>1. arrays' = [arrays EXCEPT ![stmts.arr] = new \o rest] /\ stmts' = [stmts EXCEPT !.len = @ + 1]
    BY <1>6 DEF AppendStmt, c
  <2>2. old \in Seq(Statement)
    BY <1>2
  <2> HIDE DEF new, old
  <2>3. rest \in Seq(Statement)
    <3>1. Len(old) \in Nat
      BY <2>2
    <3>2. \A i \in stmts.len + 2 .. Len(old) : old[i] \in Statement
      BY <1>2, <2>2, <3>1
    <3> QED
      BY <1>2, <3>1, <3>2, SubSeqProperties
  <2> HIDE DEF rest
  <2> DEFINE both == new \o rest
  <2>4. both \in Seq(Statement) /\ Len(both) = Len(new) + Len(rest) /\ Len(rest) \in Nat
    BY <1>3, <2>3, ConcatProperties
  <2>5. SubSeq(both, 1, Len(new)) = new
    BY <1>3, <2>3, PrefixOfConcat
  <2> HIDE DEF both
  <2>6. /\ arrays' \in Seq(Seq(Statement)) /\ Len(arrays') = Len(arrays)
        /\ arrays'[stmts.arr] = both
        /\ \A a \in 1 .. Len(arrays) : a # stmts.arr => arrays'[a] = arrays[a]
    <3>1. arrays' = [arrays EXCEPT ![stmts.arr] = both]
      BY <2>1 DEF both
    <3> QED
      BY <1>2, <2>4, <3>1, ExceptSeq
  <2>7. stmts'.arr = stmts.arr /\ stmts'.len = stmts.len + 1 /\ stmts' \in Slice
    <3> DEFINE n == stmts.len + 1
    <3>1. stmts' = [stmts EXCEPT !.len = n] /\ n \in Nat
      BY <1>2, <2>1
    <3> HIDE DEF n
    <3>2. stmts'.arr = stmts.arr /\ stmts'.len = n /\ stmts' \in Slice
      BY <1>2, <3>1 DEF Slice
    <3> QED
      BY <3>2 DEF n
  <2>8. Contents(stmts)' = new
    BY <1>3, <2>5, <2>6, <2>7 DEF Contents
  <2>9. MemoryInv'
    <3>1. stmts'.len <= Len(arrays'[stmts'.arr])
      BY <1>2, <1>3, <2>4, <2>6, <2>7
    <3> QED
      BY <1>2, <2>6, <2>7, <3>1 DEF MemoryInv
  <2> QED
    BY <1>2, <2>6, <2>7, <2>8, <2>9 DEF new, c
<1> QED
  BY <1>5, <1>6
-----------------------------------------------------------------------------
\* A semicolon belongs to no statement.
LEMMA GoodSkip ==
  ASSUME NEW list, NEW inp, NEW p \in Nat, Len(list) \in Nat,
         \A i \in 1 .. Len(list) : list[i].last \in Int,
         GoodList(list, inp, p), inp.toks[p + 1].id = Semicolon
  PROVE  GoodList(list, inp, p + 1)
<1>1. \A n \in 1 .. p + 1 : n \in 1 .. p \/ n = p + 1
  OBVIOUS
<1>2. Covers(list, inp, p + 1)
  BY <1>1 DEF GoodList, Covers
<1>3. ASSUME NEW i \in 1 .. Len(list)
      PROVE  Good(list[i], inp) /\ list[i].last <= p + 1
  BY DEF GoodList
<1> QED
  BY <1>2, <1>3 DEF GoodList

\* The next statement is appended: q is how many tokens are complete after it.
LEMMA GoodAppend ==
  ASSUME NEW list \in Seq(Statement), NEW s \in Statement, NEW inp,
         NEW p \in Nat, NEW q \in Nat, GoodList(list, inp, p), Good(s, inp),
         s.first = p + 1, s.last <= q, p <= q,
         \A n \in p + 1 .. q : n \in s.first .. s.last \/ inp.toks[n].id = Semicolon
  PROVE  GoodList(Append(list, s), inp, q)
<1> DEFINE new == Append(list, s)
           m   == Len(list) + 1
<1>1. /\ Len(new) = m /\ m - 1 = Len(list) /\ m \in Nat /\ new[m] = s
      /\ \A i \in 1 .. Len(list) : new[i] = list[i]
      /\ \A i \in 1 .. m : i \in 1 .. Len(list) \/ i = m
  OBVIOUS
<1>2. ASSUME NEW i \in 1 .. Len(list)
      PROVE  list[i].last \in Int /\ list[i].first \in Nat
  <2>1. list[i] \in Statement
    OBVIOUS
  <2> QED
    BY <2>1 DEF Statement
<1>3. s.first \in Nat /\ s.last \in Int
  BY DEF Statement
<1>4. s.first <= s.last
  BY <1>3 DEF Good, StatementOf, IsStatement
<1> HIDE DEF new, m
<1>5. \A i \in 1 .. m : Good(new[i], inp) /\ new[i].last <= q
  <2>1. \A i \in 1 .. Len(list) : Good(list[i], inp) /\ list[i].last <= q
    BY <1>2 DEF GoodList
  <2> QED
    BY <1>1, <2>1
<1>6. ASSUME NEW i \in 1 .. m, NEW j \in 1 .. m, i < j
      PROVE  new[i].last < new[j].first
  <2>1. i \in 1 .. Len(list)
    BY <1>1, <1>6
  <2>2. CASE j \in 1 .. Len(list)
    BY <1>1, <1>6, <2>1, <2>2 DEF GoodList, Covers
  <2>3. CASE j = m
    <3>1. list[i].last <= p /\ list[i].last \in Int
      BY <1>2, <2>1 DEF GoodList
    <3>2. new[j].first = p + 1 /\ new[i] = list[i]
      BY <1>1, <2>1, <2>3
    <3> QED
      BY <3>1, <3>2
  <2> QED
    BY <1>1, <2>2, <2>3
<1>7. ASSUME NEW n \in 1 .. q
      PROVE  inp.toks[n].id = Semicolon \/ \E i \in 1 .. m : n \in new[i].first .. new[i].last
  <2>1. n \in 1 .. p \/ n \in p + 1 .. q
    OBVIOUS
  <2>2. CASE n \in 1 .. p
    <3>1. inp.toks[n].id = Semicolon \/ \E i \in 1 .. Len(list) : n \in list[i].first .. list[i].last
      BY <2>2 DEF GoodList, Covers
    <3>2. \A i \in 1 .. Len(list) : i \in 1 .. m /\ new[i] = list[i]
      BY <1>1
    <3> QED
      BY <3>1, <3>2
  <2>3. CASE n \in p + 1 .. q
    <3>1. m \in 1 .. m /\ new[m] = s
      BY <1>1
    <3> QED
      BY <2>3, <3>1
  <2> QED
    BY <2>1, <2>2, <2>3
<1>8. Covers(new, inp, q)
  BY <1>1, <1>6, <1>7 DEF Covers
<1>9. GoodList(new, inp, q)
  BY <1>1, <1>5, <1>8 DEF GoodList
<1> QED
  BY <1>9 DEF new
-----------------------------------------------------------------------------
\* The Statement that parse returns after the driver accepted is as it should
\* be, and after it the input goes on with its semicolon.
LEMMA ParsedGood ==
  ASSUME IInv, StatementInv, pc = "accepted", tokens # <<>>
  PROVE  /\ Parsed \in Statement /\ Good(Parsed, input)
         /\ first \in Nat \ {0} /\ Parsed.first = first /\ Parsed.last <= scanned
         /\ \A n \in first .. scanned :
              n \in Parsed.first .. Parsed.last \/ input.toks[n].id = Semicolon
<1> DEFINE len  == Len(tokens)
           last == first + len - 1
<1>1. TypeOK /\ ScanInv /\ CutInv /\ TakenInv /\ InDriver
  BY DEF IInv, StatementInv, InDriver
<1>2. first \in Nat \ {0} /\ first > 0 /\ len \in Nat \ {0}
  <2>1. first # 0 /\ first \in Nat
    BY <1>1, Types DEF ScanInv
  <2>2. tokens \in Seq(LexToken)
    BY <1>1 DEF TypeOK
  <2>3. len \in Nat /\ len # 0
    BY <2>2
  <2> QED
    BY <2>1, <2>3
<1>3. first + len <= scanned + 1 /\ scanned \in Nat /\ scanned <= Len(input.toks) /\ Len(input.toks) \in Nat
  BY <1>1, <1>2, Types DEF ScanInv
<1>4. /\ Parsed.first = first /\ Parsed.last = last /\ Parsed.placeholders = lexer.numPlaceholders
      /\ Parsed.from = sql.from /\ Parsed.to = sql.to
  BY DEF Parsed
<1>5. Parsed \in Statement
  <2>1. lexer.numPlaceholders \in Nat /\ lexer.numAnnotations \in Nat
    BY <1>1 DEF TypeOK, Lexer
  <2>2. calls \in Nat
    <3>1. calls \in 0 .. MaxCalls /\ MaxCalls \in Nat
      BY <1>1, CallAssumption DEF TypeOK
    <3> QED
      BY <3>1
  <2>3. last \in Int /\ sql.from \in Nat /\ sql.to \in Nat
    BY <1>1, <1>2, Types
  <2> DEFINE ast == IF tokens = <<>> THEN None ELSE <<calls, first>>
  <2>4. ast \in {None} \cup Nat \X Nat
    BY <1>2, <2>2
  <2> HIDE DEF last, ast
  <2>5. Parsed = [ast |-> ast, from |-> sql.from, to |-> sql.to, first |-> first, last |-> last,
                  placeholders |-> lexer.numPlaceholders, annotations |-> lexer.numAnnotations]
    BY DEF Parsed, last, ast
  <2> QED
    BY <1>2, <2>1, <2>3, <2>4, <2>5 DEF Statement
<1>6. ASSUME NEW n \in first .. last
      PROVE  /\ input.toks[n].id # Semicolon /\ input.toks[n].id # "ERROR"
             /\ input.toks[n].id = "PLACEHOLDER" => input.toks[n].idx + 1 <= lexer.numPlaceholders
  <2> DEFINE i == n - first + 1
  <2>1. i \in 1 .. len /\ first + i - 1 = n
    BY <1>2
  <2> HIDE DEF i
  <2>2. tokens[i].id = input.toks[n].id /\ tokens[i].idx = input.toks[n].idx
    BY <1>1, <1>2, <2>1 DEF ScanInv
  <2>3. tokens[i].id # Semicolon /\ Taken(i)
    BY <1>1, <1>2, <2>1 DEF CutInv, TakenInv
  <2> QED
    BY <2>2, <2>3 DEF Taken
<1>7. first \in 1 .. Len(input.toks) /\ last \in first .. Len(input.toks)
  BY <1>2, <1>3
<1>8. /\ sql.from = input.toks[first].pos /\ sql.to = input.toks[last].end
      /\ first = 1 \/ input.toks[first - 1].id = Semicolon
  BY <1>1, <1>2, AcceptedEnd DEF ScanInv, CutInv
<1>9. /\ IF done THEN last = Len(input.toks) /\ scanned = last
         ELSE scanned = last + 1 /\ input.toks[last + 1].id = Semicolon
  <2>1. CASE done
    <3>1. scanned = Len(input.toks) /\ first + len = Len(input.toks) + 1
      BY <1>2, <2>1, AcceptedEnd
    <3> QED
      BY <1>2, <1>3, <2>1, <3>1
  <2>2. CASE ~done
    <3>1. input.toks[scanned].id = Semicolon /\ first + len = scanned
      BY <1>2, <2>2, AcceptedEnd
    <3>2. scanned = last + 1
      BY <1>2, <1>3, <3>1
    <3> QED
      BY <2>2, <3>1, <3>2
  <2> QED
    BY <2>1, <2>2
<1>10. \/ lexer.numPlaceholders = 0
       \/ \E n \in first .. last : /\ input.toks[n].id = "PLACEHOLDER"
                                   /\ lexer.numPlaceholders = input.toks[n].idx + 1
  <2>1. CASE lexer.numPlaceholders = 0
    BY <2>1
  <2>2. CASE \E i \in 1 .. Len(tokens) : /\ tokens[i].id = "PLACEHOLDER"
                                         /\ lexer.numPlaceholders = tokens[i].idx + 1
    <3>1. PICK i \in 1 .. len : /\ tokens[i].id = "PLACEHOLDER"
                                /\ lexer.numPlaceholders = tokens[i].idx + 1
      BY <2>2
    <3>2. first + i - 1 \in first .. last
      BY <1>2
    <3>3. /\ tokens[i].id = input.toks[first + i - 1].id
          /\ tokens[i].idx = input.toks[first + i - 1].idx
      BY <1>1, <1>2 DEF ScanInv
    <3> QED
      BY <3>1, <3>2, <3>3
  <2> QED
    BY <1>1, <2>1, <2>2 DEF TakenInv
<1> HIDE DEF last
<1>11. StatementOf(input, Parsed)
  BY <1>4, <1>6, <1>7, <1>8, <1>9 DEF StatementOf, IsStatement
<1>12. CountsPlaceholders(input, Parsed)
  BY <1>4, <1>6, <1>10 DEF CountsPlaceholders
<1>13. Good(Parsed, input)
  BY <1>4, <1>6, <1>11, <1>12 DEF Good
<1>14. last <= scanned /\ \A n \in first .. scanned : n \in first .. last \/ n = last + 1
  BY <1>2, <1>3, <1>7, <1>9
<1>15. \A n \in first .. scanned : n \in first .. last \/ input.toks[n].id = Semicolon
  <2>1. CASE done
    BY <1>9, <2>1
  <2>2. CASE ~done
    BY <1>9, <1>14, <2>2
  <2> QED
    BY <2>1, <2>2
<1> QED
  BY <1>2, <1>4, <1>5, <1>13, <1>14, <1>15
-----------------------------------------------------------------------------
\* A step that returns nothing and appends nothing.
LEMMA SameResult ==
  ASSUME ResultInv, UNCHANGED result, (pc # "idle" /\ pc' # "idle") \/ pc' = pc,
         pc # "idle" => GoodList(Contents(stmts), input', Complete')
  PROVE  ResultInv'
<1>1. UNCHANGED <<stmts, arrays, results>>
  BY DEF result
<1>2. MemoryInv'
  BY <1>1 DEF ResultInv, MemoryInv
<1>3. KeptInv'
  BY <1>1 DEF ResultInv, KeptInv, Contents
<1>4. Contents(stmts)' = Contents(stmts)
  BY <1>1 DEF Contents
<1>5. ListInv'
  BY <1>4 DEF ListInv
<1>6. DoneInv'
  BY <1>1 DEF ResultInv, DoneInv
<1> QED
  BY <1>2, <1>3, <1>5, <1>6 DEF ResultInv

\* A call begins with stmtBuf and no statements.
LEMMA CallResult == IInv /\ ResultInv /\ Call => ResultInv'
<1> SUFFICES ASSUME ResultInv, Call PROVE ResultInv'
  OBVIOUS
<1>1. /\ stmts' = NoStmts /\ UNCHANGED <<arrays, results>> /\ pc' = "first"
      /\ scanned' = 0 /\ first' = 0
  BY DEF Call, NoStatement
<1>2. stmts'.arr = 1 /\ stmts'.len = 0 /\ stmts' \in Slice
  BY <1>1 DEF NoStmts, Slice
<1>3. MemoryInv'
  <2>1. arrays[1] \in Seq(Statement) /\ 1 \in 1 .. Len(arrays)
    BY DEF ResultInv, MemoryInv
  <2>2. 0 <= Len(arrays[1])
    BY <2>1
  <2> QED
    BY <1>1, <1>2, <2>1, <2>2 DEF ResultInv, MemoryInv
<1>4. KeptInv'
  BY <1>1, <1>2 DEF ResultInv, KeptInv, Contents
<1>5. Contents(stmts)' = <<>>
  <2>1. SubSeq(arrays'[1], 1, 0) = <<>>
    BY SubSeqEmpty
  <2> QED
    BY <1>2, <2>1 DEF Contents
<1>6. ListInv'
  <2>1. Complete' = 0
    BY <1>1 DEF Complete
  <2>2. Len(<<>>) = 0 /\ 1 .. 0 = {}
    OBVIOUS
  <2>3. GoodList(<<>>, input', 0)
    BY <2>2 DEF GoodList, Covers
  <2> QED
    BY <1>5, <2>1, <2>3 DEF ListInv
<1>7. DoneInv'
  BY <1>1 DEF ResultInv, DoneInv
<1> QED
  BY <1>3, <1>4, <1>6, <1>7 DEF ResultInv

\* Semicolons are no statements.
LEMMA SkipSemicolonResult == IInv /\ ResultInv /\ SkipSemicolon => ResultInv'
<1> SUFFICES ASSUME IInv, ResultInv, SkipSemicolon PROVE ResultInv'
  OBVIOUS
<1>1. /\ TypeOK /\ pc = "first" /\ pc' = pc /\ first = 0 /\ first' = 0 /\ input' = input
      /\ scanned' = scanned + 1 /\ UNCHANGED result /\ input.toks[scanned + 1].id = Semicolon
  BY DEF IInv, ScanInv, SkipSemicolon, NextToken
<1>2. scanned \in Nat /\ Complete = scanned /\ Complete' = scanned + 1
  BY <1>1, Types DEF Complete
<1>3. GoodList(Contents(stmts), input, scanned)
  BY <1>1, <1>2 DEF ResultInv, ListInv
<1>4. /\ Contents(stmts) \in Seq(Statement) /\ Len(Contents(stmts)) \in Nat
      /\ \A i \in 1 .. Len(Contents(stmts)) : Contents(stmts)[i].last \in Int
  <2>1. Contents(stmts) \in Seq(Statement)
    BY ContentsType DEF ResultInv
  <2> DEFINE c == Contents(stmts)
  <2> HIDE DEF c
  <2>2. c \in Seq(Statement)
    BY <2>1 DEF c
  <2>3. ASSUME NEW i \in 1 .. Len(c)
        PROVE  c[i].last \in Int
    <3>1. c[i] \in Statement
      BY <2>2
    <3> QED
      BY <3>1 DEF Statement
  <2>4. Len(c) \in Nat
    BY <2>2
  <2> QED
    BY <2>1, <2>3, <2>4 DEF c
<1>5. GoodList(Contents(stmts), input, scanned + 1)
  BY <1>1, <1>2, <1>3, <1>4, GoodSkip
<1> QED
  BY <1>1, <1>2, <1>5, SameResult

\* The other steps of scanOneStmt and the driver.
LEMMA WorkResult ==
  ASSUME IInv, ResultInv,
         \/ NothingLeft \/ FirstToken \/ RestToken \/ ScanError \/ EndOfStatement
         \/ Lex \/ Shift \/ UpdateNumPlaceholders \/ NewAnnotation \/ SetStmt
         \/ ActionFails \/ HelpAll \/ SyntaxError \/ Accept
  PROVE  ResultInv'
<1>1. TypeOK /\ ScanInv /\ first \in Nat /\ scanned \in Nat
  BY Types DEF IInv
<1>2. CASE FirstToken
  <2>1. /\ pc = "first" /\ pc' = "rest" /\ first = 0 /\ first' = scanned + 1
        /\ UNCHANGED <<input, result>>
    BY <1>1, <1>2 DEF FirstToken, ScanInv
  <2>2. Complete = scanned /\ Complete' = scanned
    BY <1>1, <2>1 DEF Complete
  <2>3. GoodList(Contents(stmts), input, scanned)
    BY <2>1, <2>2 DEF ResultInv, ListInv
  <2> QED
    BY <2>1, <2>2, <2>3, SameResult DEF result
<1>3. CASE NothingLeft \/ RestToken \/ ScanError \/ EndOfStatement
  <2>1. /\ pc # "idle" /\ pc' # "idle" /\ UNCHANGED <<input, first, stmts, arrays, results>>
        /\ first = 0 => scanned' = scanned
    BY <1>1, <1>3 DEF NothingLeft, RestToken, ScanError, EndOfStatement, BeginParse, ScanInv, result
  <2>2. Complete' = Complete
    BY <2>1 DEF Complete
  <2>3. GoodList(Contents(stmts), input, Complete)
    BY <2>1 DEF ResultInv, ListInv
  <2> QED
    BY <2>1, <2>2, <2>3, SameResult DEF result
<1>4. CASE \/ Lex \/ Shift \/ UpdateNumPlaceholders \/ NewAnnotation \/ SetStmt
           \/ ActionFails \/ HelpAll \/ SyntaxError \/ Accept
  <2>1. pc = "parse" /\ pc' # "idle" /\ UNCHANGED <<scan, result>>
    BY <1>4 DEF Lex, Shift, UpdateNumPlaceholders, NewAnnotation, SetStmt, ActionFails, HelpAll,
                SyntaxError, Accept, Fail, Parsing
  <2>2. Complete' = Complete /\ input' = input
    BY <2>1 DEF Complete, scan
  <2>3. GoodList(Contents(stmts), input, Complete)
    BY <2>1 DEF ResultInv, ListInv
  <2> QED
    BY <2>1, <2>2, <2>3, SameResult
<1> QED
  BY <1>2, <1>3, <1>4

\* A statement more, which has its own array or that of the call.
LEMMA StatementParsedResult == IInv /\ StatementInv /\ ResultInv /\ StatementParsed => ResultInv'
<1> SUFFICES ASSUME IInv, StatementInv, ResultInv, StatementParsed PROVE ResultInv'
  OBVIOUS
<1>1. /\ TypeOK /\ MemoryInv /\ KeptInv /\ DoneInv
      /\ pc = "accepted" /\ pc' \in {"first", "return"} /\ first' = 0
      /\ UNCHANGED <<input, scanned, results>>
      /\ IF tokens = <<>> THEN UNCHANGED <<stmts, arrays>> ELSE AppendStmt(Parsed)
  BY DEF IInv, ResultInv, StatementParsed, NoStatement
<1>2. Complete' = scanned /\ scanned \in Nat
  BY <1>1, Types DEF Complete
<1>3. GoodList(Contents(stmts), input, Complete)
  BY <1>1 DEF ResultInv, ListInv
<1>4. CASE tokens = <<>>
  <2>1. first = 0
    BY <1>1, <1>4, Types DEF IInv, ScanInv
  <2>2. Complete = scanned
    BY <2>1 DEF Complete
  <2> QED
    BY <1>1, <1>2, <1>3, <1>4, <2>2, SameResult DEF result
<1>5. CASE tokens # <<>>
  <2>1. /\ Parsed \in Statement /\ Good(Parsed, input)
        /\ first \in Nat \ {0} /\ Parsed.first = first /\ Parsed.last <= scanned
        /\ \A n \in first .. scanned :
             n \in Parsed.first .. Parsed.last \/ input.toks[n].id = Semicolon
    BY <1>1, <1>5, ParsedGood
  <2>2. AppendStmt(Parsed)
    BY <1>1, <1>5
  <2>3. /\ MemoryInv'
        /\ Contents(stmts)' = Append(Contents(stmts), Parsed)
        /\ Len(arrays') >= Len(arrays)
        /\ stmts'.arr \in {stmts.arr, Len(arrays) + 1}
        /\ \A a \in 1 .. Len(arrays) : a # stmts.arr => arrays'[a] = arrays[a]
    BY <1>1, <2>1, <2>2, AppendStmtKeeps
  <2>4. GoodList(Append(Contents(stmts), Parsed), input, scanned)
    <3> DEFINE p == first - 1
    <3>1. p \in Nat /\ p + 1 = first /\ p <= scanned /\ Complete = p
      BY <1>1, <2>1, Types DEF Complete
    <3> HIDE DEF p
    <3>2. \A n \in p + 1 .. scanned :
            n \in Parsed.first .. Parsed.last \/ input.toks[n].id = Semicolon
      BY <2>1, <3>1
    <3>3. Contents(stmts) \in Seq(Statement)
      BY <1>1, ContentsType
    <3>4. Parsed.first = p + 1
      BY <2>1, <3>1
    <3> QED
      BY <1>2, <1>3, <2>1, <3>1, <3>2, <3>3, <3>4, GoodAppend
  <2>5. ListInv'
    BY <1>1, <1>2, <2>3, <2>4 DEF ListInv
  <2>6. KeptInv'
    <3> SUFFICES ASSUME NEW k \in 1 .. Len(results')
                 PROVE  /\ results'[k].slice.arr \in 1 .. Len(arrays')
                        /\ results'[k].slice.arr # 1 => Contents(results[k].slice)' = results'[k].list
                        /\ results'[k].slice.arr = 1 \/ results'[k].slice.arr # stmts'.arr
      BY <1>1 DEF KeptInv
    <3> DEFINE a == results[k].slice.arr
    <3>1. results' = results /\ k \in 1 .. Len(results)
      BY <1>1
    <3>2. /\ a \in 1 .. Len(arrays)
          /\ a = 1 \/ a # stmts.arr
          /\ a # 1 => Contents(results[k].slice) = results[k].list
      BY <1>1, <3>1 DEF KeptInv
    <3>3. Len(arrays) \in Nat /\ Len(arrays') \in Nat
      BY <1>1, <2>3 DEF MemoryInv
    <3> HIDE DEF a
    <3>4. a # 1 => arrays'[a] = arrays[a]
      BY <2>3, <3>2
    <3>5. a # 1 => Contents(results[k].slice)' = Contents(results[k].slice)
      BY <3>1, <3>4 DEF Contents, a
    <3>6. a \in 1 .. Len(arrays) /\ Len(arrays') >= Len(arrays)
      BY <2>3, <3>2
    <3>7. a \in 1 .. Len(arrays') /\ a # Len(arrays) + 1
      BY <3>3, <3>6
    <3>8. a = 1 \/ a # stmts'.arr
      BY <2>3, <3>2, <3>7
    <3> QED
      BY <3>1, <3>2, <3>5, <3>7, <3>8 DEF a
  <2>7. DoneInv'
    BY <1>1 DEF DoneInv
  <2> QED
    BY <2>3, <2>5, <2>6, <2>7 DEF ResultInv
<1> QED
  BY <1>4, <1>5

\* A call returns: its result is added to the others.
LEMMA ReturnResult ==
  ASSUME ResultInv, pc # "idle", pc' = "idle", UNCHANGED <<stmts, arrays>>,
         NEW r \in Result, results' = Append(results, r), r.slice.arr \in 1 .. Len(arrays),
         Contents(r.slice) = r.list,
         IF r.err = NoError THEN GoodList(r.list, r.input, Len(r.input.toks)) ELSE r.list = <<>>
  PROVE  ResultInv'
<1> DEFINE m == Len(results) + 1
<1>1. MemoryInv /\ KeptInv /\ DoneInv /\ results \in Seq(Result)
  BY DEF ResultInv, MemoryInv
<1>2. /\ results' \in Seq(Result) /\ Len(results') = m /\ results'[m] = r
      /\ \A k \in 1 .. Len(results) : results'[k] = results[k]
      /\ \A k \in 1 .. m : k = m \/ (k \in 1 .. Len(results) /\ k # m)
  BY <1>1
<1> HIDE DEF m
<1>3. MemoryInv'
  BY <1>1, <1>2 DEF MemoryInv
<1>4. KeptInv'
  <2> SUFFICES ASSUME NEW k \in 1 .. m
               PROVE  /\ results'[k].slice.arr \in 1 .. Len(arrays')
                      /\ results'[k].slice.arr # 1 \/ k = m =>
                           SubSeq(arrays'[results'[k].slice.arr], 1, results'[k].slice.len) = results'[k].list
    BY <1>2 DEF KeptInv, Contents
  <2>1. CASE k = m
    BY <1>2, <2>1 DEF Contents
  <2>2. CASE k \in 1 .. Len(results) /\ k # m
    <3>1. results'[k] = results[k] /\ arrays' = arrays
      BY <1>2, <2>2
    <3>2. /\ results[k].slice.arr \in 1 .. Len(arrays)
          /\ results[k].slice.arr # 1 => Contents(results[k].slice) = results[k].list
      BY <1>1, <2>2 DEF KeptInv
    <3> QED
      BY <2>2, <3>1, <3>2 DEF Contents
  <2> QED
    BY <1>2, <2>1, <2>2
<1>5. DoneInv'
  <2> SUFFICES ASSUME NEW k \in 1 .. m
               PROVE  IF results'[k].err = NoError
                      THEN GoodList(results'[k].list, results'[k].input, Len(results'[k].input.toks))
                      ELSE results'[k].list = <<>>
    BY <1>2 DEF DoneInv
  <2>1. CASE k = m
    BY <1>2, <2>1
  <2>2. CASE k \in 1 .. Len(results) /\ k # m
    <3>1. results'[k] = results[k]
      BY <1>2, <2>2
    <3> QED
      BY <1>1, <2>2, <3>1 DEF DoneInv
  <2> QED
    BY <1>2, <2>1, <2>2
<1>6. ListInv'
  BY DEF ListInv
<1> QED
  BY <1>3, <1>4, <1>5, <1>6 DEF ResultInv

\* A failed statement takes the others with it (parse.go 159-161).
LEMMA StatementFailedResult == IInv /\ ResultInv /\ StatementFailed => ResultInv'
<1> SUFFICES ASSUME IInv, ResultInv, StatementFailed PROVE ResultInv'
  OBVIOUS
<1> DEFINE r == [err |-> lexer.lastError, slice |-> NoStmts, list |-> <<>>, input |-> input]
<1>1. TypeOK /\ pc = "failed" /\ pc' = "idle" /\ UNCHANGED <<stmts, arrays>>
  BY DEF IInv, StatementFailed
<1>2. lexer.lastError # NoError
  BY <1>1 DEF IInv, FailureExplained
<1>3. results' = Append(results, r)
  BY <1>2 DEF StatementFailed
<1>4. r \in Result
  <2>1. lexer \in Lexer /\ input \in [size : Nat, toks : Seq(ScanToken)]
    BY <1>1 DEF TypeOK
  <2>2. NoStmts \in Slice /\ <<>> \in Seq(Statement)
    BY DEF NoStmts, Slice
  <2>3. lexer.lastError \in [cause : {"none", "lexical", "syntax", "action", "help request"},
                             help : {"none", "hint", "text"}, at : Int]
    BY <2>1 DEF Lexer
  <2> QED
    BY <2>1, <2>2, <2>3 DEF Result
<1>5. /\ r.err # NoError /\ r.list = <<>> /\ r.slice.arr = 1 /\ r.slice = NoStmts
      /\ NoStmts.arr = 1 /\ NoStmts.len = 0
  BY <1>2 DEF NoStmts
<1> HIDE DEF r
<1>6. Contents(r.slice) = r.list
  BY <1>5, SubSeqEmpty DEF Contents
<1>7. r.slice.arr \in 1 .. Len(arrays)
  BY <1>5 DEF ResultInv, MemoryInv
<1> QED
  BY <1>1, <1>3, <1>4, <1>5, <1>6, <1>7, ReturnResult

\* A call returns what it gathered (parse.go 165-170).
LEMMA ReturnStatementsResult == IInv /\ StatementInv /\ ResultInv /\ ReturnStatements => ResultInv'
<1> SUFFICES ASSUME IInv, StatementInv, ResultInv, ReturnStatements PROVE ResultInv'
  OBVIOUS
<1> DEFINE c == Contents(stmts)
           r == [err |-> NoError, slice |-> stmts, list |-> c, input |-> input]
<1>1. TypeOK /\ pc = "return" /\ pc' = "idle" /\ UNCHANGED <<stmts, arrays>>
      /\ results' = Append(results, r)
  BY DEF IInv, ReturnStatements
<1>2. c \in Seq(Statement) /\ stmts \in Slice /\ stmts.arr \in 1 .. Len(arrays)
  BY ContentsType DEF ResultInv, MemoryInv
<1>3. GoodList(c, input, Len(input.toks))
  <2>1. first = 0 /\ scanned = Len(input.toks)
    BY <1>1 DEF IInv, ScanInv, StatementInv, CutInv
  <2>2. Complete = Len(input.toks)
    BY <2>1 DEF Complete
  <2> QED
    BY <1>1, <2>2 DEF ResultInv, ListInv
<1> HIDE DEF c
<1>4. r \in Result
  <2>1. input \in [size : Nat, toks : Seq(ScanToken)]
    BY <1>1 DEF TypeOK
  <2>2. NoError \in [cause : {"none", "lexical", "syntax", "action", "help request"},
                     help : {"none", "hint", "text"}, at : Int]
    BY DEF NoError
  <2> QED
    BY <1>2, <2>1, <2>2 DEF Result
<1>5. r.err = NoError /\ r.list = c /\ r.slice = stmts /\ r.input = input
  OBVIOUS
<1> HIDE DEF r
<1>6. r.slice.arr \in 1 .. Len(arrays) /\ Contents(r.slice) = r.list
  BY <1>2, <1>5 DEF c
<1>7. GoodList(r.list, r.input, Len(r.input.toks))
  BY <1>3, <1>5
<1> QED
  BY <1>1, <1>4, <1>5, <1>6, <1>7, ReturnResult

\* ResultInv where nothing happens.
LEMMA StutterResult == ResultInv /\ UNCHANGED vars => ResultInv'
<1> SUFFICES ASSUME ResultInv, UNCHANGED vars PROVE ResultInv'
  OBVIOUS
<1>1. UNCHANGED result /\ pc' = pc /\ Complete' = Complete /\ input' = input
  BY DEF vars, result, scan, Complete
<1>2. pc # "idle" => GoodList(Contents(stmts), input', Complete')
  BY <1>1 DEF ResultInv, ListInv
<1> QED
  BY <1>1, <1>2, SameResult

\* What a call returned is one good Statement for each statement of its input,
\* and stays so (parse.go 88-171).
THEOREM ResultInvariant == Spec => []ResultInv
<1>1. Init => ResultInv
  <2> SUFFICES ASSUME Init PROVE ResultInv
    OBVIOUS
  <2>1. /\ stmts = [arr |-> 1, len |-> 0] /\ arrays = << <<>> >> /\ results = <<>> /\ pc = "idle"
        /\ Len(results) = 0 /\ Len(arrays) = 1 /\ arrays[1] = <<>>
    BY DEF Init, NoStmts
  <2>2. arrays \in Seq(Seq(Statement)) /\ results \in Seq(Result) /\ stmts \in Slice
    BY <2>1 DEF Slice
  <2>3. stmts.arr = 1 /\ stmts.len = 0 /\ Len(arrays[1]) = 0
    BY <2>1
  <2>4. MemoryInv
    BY <2>1, <2>2, <2>3 DEF MemoryInv
  <2> QED
    BY <2>1, <2>4 DEF ResultInv, KeptInv, ListInv, DoneInv
<1>2. IInv /\ StatementInv /\ ResultInv /\ [Next]_vars => ResultInv'
  BY CallResult, SkipSemicolonResult, WorkResult, StatementParsedResult, StatementFailedResult,
     ReturnStatementsResult, StutterResult
     DEF Next
<1> QED
  BY <1>1, <1>2, ParserInvariant, StatementInvariant, PTL DEF Spec

\* Either an error or one Statement for each statement of the input, in order
\* and with exactly its text; and no error is passed over (parse.go 119-171).
THEOREM StatementsReturned == Spec => []StatementsOfInput
<1>1. ResultInv => StatementsOfInput
  <2> SUFFICES ASSUME ResultInv, NEW k \in 1 .. Len(results), results[k].err = NoError
               PROVE  /\ \A n \in 1 .. Len(results[k].input.toks) :
                           results[k].input.toks[n].id # "ERROR"
                      /\ \A i \in 1 .. Len(results[k].list) :
                           StatementOf(results[k].input, results[k].list[i])
                      /\ Covers(results[k].list, results[k].input, Len(results[k].input.toks))
    BY DEF ResultInv, DoneInv, StatementsOfInput
  <2> DEFINE list == results[k].list
             inp  == results[k].input
  <2>1. GoodList(list, inp, Len(inp.toks))
    BY DEF ResultInv, DoneInv
  <2> HIDE DEF list, inp
  <2>2. Covers(list, inp, Len(inp.toks)) /\ \A i \in 1 .. Len(list) : Good(list[i], inp)
    BY <2>1 DEF GoodList
  <2>3. ASSUME NEW n \in 1 .. Len(inp.toks)
        PROVE  inp.toks[n].id # "ERROR"
    <3>1. CASE inp.toks[n].id = Semicolon
      BY <3>1 DEF Semicolon
    <3>2. CASE \E i \in 1 .. Len(list) : n \in list[i].first .. list[i].last
      BY <2>2, <3>2 DEF Good
    <3> QED
      BY <2>2, <3>1, <3>2 DEF Covers
  <2>4. \A i \in 1 .. Len(list) : StatementOf(inp, list[i])
    BY <2>2 DEF Good
  <2> QED
    BY <2>2, <2>3, <2>4 DEF list, inp
<1> QED
  BY <1>1, ResultInvariant, PTL

\* Placeholders are counted per statement, and results outlive the next calls
\* as documented: those of one statement until the next call, those of several
\* for ever (parse.go 46-54 and 88-153).
THEOREM ResultsOutlive == Spec => []ResultsStand
<1>1. ResultInv => PlaceholderCounts
  <2> SUFFICES ASSUME ResultInv, NEW k \in Succeeded, NEW i \in 1 .. Len(results[k].list)
               PROVE  CountsPlaceholders(results[k].input, results[k].list[i])
    BY DEF PlaceholderCounts
  <2>1. GoodList(results[k].list, results[k].input, Len(results[k].input.toks))
    BY DEF ResultInv, DoneInv, Succeeded
  <2> QED
    BY <2>1 DEF GoodList, Good
<1>2. ResultInv => ResultsKept
  BY DEF ResultInv, KeptInv, ResultsKept
<1> QED
  BY <1>1, <1>2, ResultInvariant, PTL DEF ResultsStand
=============================================================================
