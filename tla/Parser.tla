------------------------------- MODULE Parser -------------------------------
(***************************************************************************)
(* The SQL parser around its grammar: Parser.parseWithDepth, scanOneStmt   *)
(* and parse (parse.go), the lexer that feeds the grammar one statement's  *)
(* tokens (lexer.go), and the skeleton of the generated LALR driver        *)
(* (sql.go).                                                               *)
(*                                                                         *)
(* An input is its size and the tokens the scanner cuts it into; Scanner   *)
(* refines TokenStream, which is what InputAssumption takes from it.       *)
(* Which statements the grammar accepts is left open: after any token the  *)
(* driver may shift, reduce, or find a syntax error.  What is kept is what *)
(* the grammar's actions do to the lexer.                                  *)
(***************************************************************************)
EXTENDS Integers, Sequences

CONSTANTS
  TokenId,      \* the identifiers of the scanner's tokens
  Inputs,       \* what the callers parse
  MaxCalls,     \* bound: calls of one Parser value
  None          \* no token, no statement

Eof       == "EOF"    \* token id 0
Semicolon == ";"

\* The tokens that are marked when one of these follows them.
LookaheadNext(id) ==
  CASE id = "NOT"  -> {"BETWEEN", "IN", "LIKE", "ILIKE", "SIMILAR"}
    [] id = "WITH" -> {"TIME", "ORDINALITY"}
    [] id = "AS"   -> {"OF"}
    [] OTHER       -> {}

LookaheadId(id) ==
  CASE id = "NOT"  -> "NOT_LA"
    [] id = "WITH" -> "WITH_LA"
    [] OTHER       -> "AS_LA"

\* What the scanner guarantees: spans in order, none empty, none past the end,
\* and no token after an ERROR is ever asked for.
InOrder(inp) ==
  /\ \A i \in 1 .. Len(inp.toks) :
       inp.toks[i].pos < inp.toks[i].end /\ inp.toks[i].end <= inp.size
  /\ \A i, j \in 1 .. Len(inp.toks) : i < j => inp.toks[i].end <= inp.toks[j].pos

\* A token's identifier and span; idx is a placeholder's index, from 0.
ScanToken == [id : TokenId, pos : Nat, end : Nat, idx : Nat]

ASSUME InputAssumption ==
  /\ Inputs \subseteq [size : Nat, toks : Seq(ScanToken)]
  /\ \A inp \in Inputs : InOrder(inp)
ASSUME CallAssumption == MaxCalls \in Nat

\* The identifiers Lex makes up itself.
LexerId == {"NOT_LA", "WITH_LA", "AS_LA"}

ASSUME TokenAssumption ==
  /\ Eof \notin TokenId
  /\ None \notin TokenId \cup LexerId \cup {Eof, "HELPTOKEN"}

VARIABLES
  input,    \* the input being parsed
  calls,    \* calls made so far
  pc,       \* where parseWithDepth is
  scanned,  \* how many tokens the scanner has returned
  first,    \* the number of the statement's first token, 0 before it
  tokens,   \* the statement's tokens, positions relative to it
  sql,      \* the statement's text: [from, to) in the input
  done,     \* scanOneStmt reached the end of the input
  lexer,    \* the lexer
  char,     \* the driver's lookahead token
  stmts,    \* the result so far: a slice
  arrays,   \* the arrays of Statements; the first one is Parser.stmtBuf
  results   \* what each call returned: its slice, and what was in it

scan   == <<input, calls, scanned, first, tokens, sql, done>>
result == <<stmts, arrays, results>>
vars   == <<scan, pc, lexer, char, result>>

Size         == sql.to - sql.from
NoError      == [cause |-> "none", help |-> "none", at |-> 0]
NoStmts      == [arr |-> 1, len |-> 0]   \* stmtBuf[:0]
Contents(slice) == SubSeq(arrays[slice.arr], 1, slice.len)

\* lexer.init
LexerInit ==
  [lastPos |-> -1, stmt |-> FALSE, numPlaceholders |-> 0, numAnnotations |-> 0,
   lastError |-> NoError, unreduced |-> FALSE]

Init ==
  /\ input = [size |-> 0, toks |-> <<>>]
  /\ calls = 0
  /\ pc = "idle"
  /\ scanned = 0
  /\ first = 0
  /\ tokens = <<>>
  /\ sql = [from |-> 0, to |-> 0]
  /\ done = FALSE
  /\ lexer = LexerInit
  /\ char = None
  /\ stmts = NoStmts
  /\ arrays = << <<>> >>
  /\ results = <<>>

\* Between two statements, scanOneStmt has nothing of the next one.
NoStatement ==
  /\ first' = 0
  /\ tokens' = <<>>
  /\ sql' = [from |-> 0, to |-> 0]

\* Mutant: the result of the last call is written over.
CallReusesResult ==
  /\ pc = "idle"
  /\ calls < MaxCalls
  /\ calls' = calls + 1
  /\ input' \in Inputs
  /\ scanned' = 0
  /\ NoStatement
  /\ done' = FALSE
  /\ stmts' = [stmts EXCEPT !.len = 0]
  /\ pc' = "first"
  /\ UNCHANGED <<lexer, char, arrays, results>>

\* parseWithDepth is called: the scanner starts over, with no statements.
Call ==
  /\ pc = "idle"
  /\ calls < MaxCalls
  /\ calls' = calls + 1
  /\ input' \in Inputs
  /\ scanned' = 0
  /\ NoStatement
  /\ done' = FALSE
  /\ stmts' = NoStmts
  /\ pc' = "first"
  /\ UNCHANGED <<lexer, char, arrays, results>>
-----------------------------------------------------------------------------
(* scanOneStmt. *)

AtEnd     == scanned = Len(input.toks)
NextToken == input.toks[scanned + 1]

\* The position of the scanner: after the last token it returned.
ScannerPos == IF scanned = 0 THEN 0 ELSE input.toks[scanned].end

Token(t, p) == [id |-> t.id, pos |-> p, idx |-> t.idx]

\* Parse what was scanned.
BeginParse(text, end) ==
  /\ sql' = text
  /\ done' = end
  /\ pc' = "parse"
  /\ lexer' = LexerInit
  /\ char' = None
  /\ UNCHANGED <<input, calls, first, tokens, result>>

SkipSemicolon ==
  /\ pc = "first" /\ ~AtEnd
  /\ NextToken.id = Semicolon
  /\ scanned' = scanned + 1
  /\ UNCHANGED <<input, calls, first, tokens, sql, done, pc, lexer, char, result>>

\* Mutant: the end of the input is not the end of the last statement.
NothingLeftNotDone ==
  /\ pc = "first" /\ AtEnd
  /\ BeginParse([from |-> 0, to |-> 0], FALSE)
  /\ UNCHANGED scanned

\* An empty last statement.
NothingLeft ==
  /\ pc = "first" /\ AtEnd
  /\ BeginParse([from |-> 0, to |-> 0], TRUE)
  /\ UNCHANGED scanned

\* The statement starts at its first token, whose position becomes 0.
FirstToken ==
  /\ pc = "first" /\ ~AtEnd
  /\ NextToken.id # Semicolon
  /\ scanned' = scanned + 1
  /\ first' = scanned + 1
  /\ tokens' = <<Token(NextToken, 0)>>
  /\ sql' = [from |-> NextToken.pos, to |-> NextToken.pos]
  /\ pc' = "rest"
  /\ UNCHANGED <<input, calls, done, lexer, char, result>>

LastScanned == tokens[Len(tokens)].id

\* Mutant: the position is not moved to the statement.
RestTokenAbsolute ==
  /\ pc = "rest" /\ ~AtEnd
  /\ LastScanned # "ERROR"
  /\ NextToken.id # Semicolon
  /\ scanned' = scanned + 1
  /\ tokens' = Append(tokens, Token(NextToken, NextToken.pos))
  /\ UNCHANGED <<input, calls, first, sql, done, pc, lexer, char, result>>

RestToken ==
  /\ pc = "rest" /\ ~AtEnd
  /\ LastScanned # "ERROR"
  /\ NextToken.id # Semicolon
  /\ scanned' = scanned + 1
  /\ tokens' = Append(tokens, Token(NextToken, NextToken.pos - sql.from))
  /\ UNCHANGED <<input, calls, first, sql, done, pc, lexer, char, result>>

\* A lexical error is the end of the input: the text is all that is left.
ScanError ==
  /\ pc = "rest"
  /\ LastScanned = "ERROR"
  /\ BeginParse([sql EXCEPT !.to = input.size], TRUE)
  /\ UNCHANGED scanned

\* Mutant: the text runs to the semicolon's end.
EndOfStatementIncluded ==
  /\ pc = "rest"
  /\ LastScanned # "ERROR"
  /\ IF AtEnd
     THEN /\ BeginParse([sql EXCEPT !.to = input.size], TRUE)
          /\ UNCHANGED scanned
     ELSE /\ NextToken.id = Semicolon
          /\ BeginParse([sql EXCEPT !.to = NextToken.end], FALSE)
          /\ scanned' = scanned + 1

\* The text ends where the scanner was before it saw the end.
EndOfStatement ==
  /\ pc = "rest"
  /\ LastScanned # "ERROR"
  /\ IF AtEnd
     THEN /\ BeginParse([sql EXCEPT !.to = ScannerPos], TRUE)
          /\ UNCHANGED scanned
     ELSE /\ NextToken.id = Semicolon
          /\ BeginParse([sql EXCEPT !.to = ScannerPos], FALSE)
          /\ scanned' = scanned + 1
-----------------------------------------------------------------------------
(* The lexer. *)

\* Mutant: the token itself is looked at.
LexedIdNoAdvance(p) ==
  IF p >= Len(tokens) THEN Eof
  ELSE LET id == tokens[p + 1].id
       IN  IF id \in LookaheadNext(id) THEN LookaheadId(id) ELSE id

\* What Lex returns at position p of the statement's tokens.
LexedId(p) ==
  IF p >= Len(tokens) THEN Eof
  ELSE LET id     == tokens[p + 1].id
           nextId == IF p + 1 < Len(tokens) THEN tokens[p + 2].id ELSE Eof
       IN  IF nextId \in LookaheadNext(id) THEN LookaheadId(id) ELSE id

\* Mutant: the end is the end of the input.
LastTokenInputEnd ==
  IF lexer.lastPos < 0 THEN [id |-> Eof, pos |-> 0]
  ELSE IF lexer.lastPos >= Len(tokens) THEN [id |-> Eof, pos |-> input.size]
  ELSE [id |-> tokens[lexer.lastPos + 1].id, pos |-> tokens[lexer.lastPos + 1].pos]

LastToken ==
  IF lexer.lastPos < 0 THEN [id |-> Eof, pos |-> 0]
  ELSE IF lexer.lastPos >= Len(tokens) THEN [id |-> Eof, pos |-> Size]
  ELSE [id |-> tokens[lexer.lastPos + 1].id, pos |-> tokens[lexer.lastPos + 1].pos]

\* Mutant: an action's error hides the lexical error.
PopulateCauseFirst(cause) == [cause |-> cause, help |-> "none", at |-> LastToken.pos]

\* populateErrorDetails, for an error of this cause.
Populate(cause) ==
  [cause |-> IF LastToken.id = "ERROR" THEN "lexical" ELSE cause,
   help |-> "none", at |-> LastToken.pos]

\* SetHelp: the text if help was asked for, a hint if not.
WithHelp(err) ==
  [err EXCEPT !.cause = IF @ = "none" THEN "help request" ELSE @,
              !.help = IF LastToken.id = "HELPTOKEN" THEN "text" ELSE "hint"]
-----------------------------------------------------------------------------
(* The driver. *)

Parsing == pc = "parse" /\ ~lexer.unreduced

\* Mutant: the driver reads again when its lookahead is 0.
LexAgain ==
  /\ Parsing
  /\ char \in {None, Eof}
  /\ lexer' = [lexer EXCEPT !.lastPos = @ + 1]
  /\ char' = LexedId(lexer.lastPos + 1)
  /\ UNCHANGED <<scan, pc, result>>

Lex ==
  /\ Parsing
  /\ char = None
  /\ lexer' = [lexer EXCEPT !.lastPos = @ + 1]
  /\ char' = LexedId(lexer.lastPos + 1)
  /\ UNCHANGED <<scan, pc, result>>

\* No rule has ERROR in it, and the only one with HELPTOKEN is a statement of
\* its own.
Shift ==
  /\ Parsing
  /\ char \notin {None, Eof, "ERROR", "HELPTOKEN"}
  /\ ~lexer.stmt
  /\ char' = None
  /\ lexer' = [lexer EXCEPT !.unreduced = (char = "PLACEHOLDER")]
  /\ UNCHANGED <<scan, pc, result>>

\* Mutant: the index is taken for the count.
PlaceholderIndexCount ==
  /\ pc = "parse" /\ lexer.unreduced
  /\ LET n == tokens[lexer.lastPos + 1].idx
     IN  lexer' = [lexer EXCEPT !.unreduced = FALSE,
                                !.numPlaceholders = IF @ < n THEN n ELSE @]
  /\ UNCHANGED <<scan, pc, char, result>>

\* A PLACEHOLDER is reduced at once, before the next token is read, and both
\* rules it appears in call UpdateNumPlaceholders.
UpdateNumPlaceholders ==
  /\ pc = "parse" /\ lexer.unreduced
  /\ LET n == tokens[lexer.lastPos + 1].idx + 1
     IN  lexer' = [lexer EXCEPT !.unreduced = FALSE,
                                !.numPlaceholders = IF @ < n THEN n ELSE @]
  /\ UNCHANGED <<scan, pc, char, result>>

\* How many tokens the driver has shifted.
Shifted == IF char = None THEN lexer.lastPos + 1 ELSE lexer.lastPos

\* A table name is reduced: no token is in two of them.
NewAnnotation ==
  /\ Parsing
  /\ ~lexer.stmt
  /\ lexer.numAnnotations < Shifted
  /\ lexer' = [lexer EXCEPT !.numAnnotations = @ + 1]
  /\ UNCHANGED <<scan, pc, char, result>>

\* stmt_block is reduced: no token can follow, but it may have been read.
SetStmt ==
  /\ Parsing
  /\ ~lexer.stmt
  /\ lexer' = [lexer EXCEPT !.stmt = TRUE]
  /\ UNCHANGED <<scan, pc, char, result>>

\* Return 1 with this error.
Fail(err) ==
  /\ lexer' = [lexer EXCEPT !.lastError = err]
  /\ pc' = "failed"
  /\ UNCHANGED <<scan, char, result>>

\* A grammar action calls Error, setErr or unimplemented and returns 1.
ActionFails ==
  /\ Parsing
  /\ Shifted > 0
  /\ ~lexer.stmt
  /\ Fail(Populate("action"))

\* stmt: HELPTOKEN, before anything else: help about everything.
HelpAll ==
  /\ Parsing
  /\ char = "HELPTOKEN" /\ Shifted = 0
  /\ ~lexer.stmt
  /\ Fail([cause |-> "help request", help |-> "text", at |-> 0])

\* No action for the lookahead.  The driver calls Error and looks for a rule
\* that takes an error, whose action returns 1: helpWith, helpWithFunction for
\* a function that resolves, unimplemented or setErr.  Without such a rule, or
\* for a function that does not resolve, the syntax error stands.
SyntaxError ==
  /\ Parsing
  /\ char # None
  /\ char = Eof => ~lexer.stmt
  /\ \E err \in {Populate("syntax"), WithHelp(Populate("syntax")), Populate("action")} :
       Fail(err)

\* The end of the statement after stmt_block.
Accept ==
  /\ Parsing
  /\ lexer.stmt /\ char = Eof
  /\ pc' = "accepted"
  /\ UNCHANGED <<scan, lexer, char, result>>
-----------------------------------------------------------------------------
(* parse and parseWithDepth. *)

\* The Statement that parse returns; its AST is known by its call and first
\* token, and is nil for an empty statement.
Parsed ==
  [ast |-> IF tokens = <<>> THEN None ELSE <<calls, first>>,
   from |-> sql.from, to |-> sql.to, first |-> first, last |-> first + Len(tokens) - 1,
   placeholders |-> lexer.numPlaceholders, annotations |-> lexer.numAnnotations]

\* append(stmts, s): what is behind the slice is written over or kept.  stmtBuf
\* holds one statement, for more there is a new array.
AppendStmt(s) ==
  IF stmts.arr = 1 /\ stmts.len = 1
  THEN /\ arrays' = Append(arrays, Append(Contents(stmts), s))
       /\ stmts' = [arr |-> Len(arrays) + 1, len |-> 2]
  ELSE /\ arrays' = [arrays EXCEPT ![stmts.arr] =
                        Append(Contents(stmts), s) \o SubSeq(@, stmts.len + 2, Len(@))]
       /\ stmts' = [stmts EXCEPT !.len = @ + 1]

\* lexer.cleanup; the counters keep their values, and the driver drops its
\* lookahead.
Cleanup ==
  /\ lexer' = [lexer EXCEPT !.stmt = FALSE, !.lastError = NoError, !.unreduced = FALSE]
  /\ char' = None

StatementParsed ==
  /\ pc = "accepted"
  /\ IF tokens = <<>> THEN UNCHANGED <<stmts, arrays>> ELSE AppendStmt(Parsed)
  /\ pc' = IF done THEN "return" ELSE "first"
  /\ Cleanup
  /\ NoStatement
  /\ UNCHANGED <<input, calls, scanned, done, results>>

\* One statement that fails makes the whole call fail, with no statements.
\* parse makes up an error if the driver left none.
StatementFailed ==
  /\ pc = "failed"
  /\ LET err == IF lexer.lastError = NoError THEN Populate("syntax") ELSE lexer.lastError
     IN  results' = Append(results, [err |-> err, slice |-> NoStmts, list |-> <<>>,
                                     input |-> input])
  /\ pc' = "idle"
  /\ Cleanup
  /\ NoStatement
  /\ UNCHANGED <<input, calls, scanned, done, stmts, arrays>>

ReturnStatements ==
  /\ pc = "return"
  /\ results' = Append(results, [err |-> NoError, slice |-> stmts, list |-> Contents(stmts),
                                 input |-> input])
  /\ pc' = "idle"
  /\ UNCHANGED <<scan, lexer, char, stmts, arrays>>

Next ==
  \/ Call
  \/ SkipSemicolon \/ NothingLeft \/ FirstToken \/ RestToken \/ ScanError \/ EndOfStatement
  \/ Lex \/ Shift \/ UpdateNumPlaceholders \/ NewAnnotation \/ SetStmt
  \/ ActionFails \/ HelpAll \/ SyntaxError \/ Accept
  \/ StatementParsed \/ StatementFailed \/ ReturnStatements

\* A call is one sequential computation and runs to its end; nobody has to
\* call again.
Spec == Init /\ [][Next]_vars /\ WF_vars(Next /\ pc # "idle")
-----------------------------------------------------------------------------
LexToken == [id : TokenId, pos : Int, idx : Nat]
Lexer ==
  [lastPos : Int, stmt : BOOLEAN, numPlaceholders : Nat, numAnnotations : Nat,
   lastError : [cause : {"none", "lexical", "syntax", "action", "help request"},
                help : {"none", "hint", "text"}, at : Int],
   unreduced : BOOLEAN]

Pcs == {"idle", "first", "rest", "parse", "accepted", "failed", "return"}
InDriver == pc \in {"parse", "accepted", "failed"}

TypeOK ==
  /\ input \in [size : Nat, toks : Seq(ScanToken)]
  /\ calls \in 0 .. MaxCalls
  /\ pc \in Pcs
  /\ scanned \in 0 .. Len(input.toks)
  /\ first \in 0 .. scanned
  /\ tokens \in Seq(LexToken)
  /\ sql \in [from : Nat, to : Nat]
  /\ lexer \in Lexer
  /\ char \in TokenId \cup LexerId \cup {Eof, None}

\* What scanOneStmt keeps: the statement's tokens are the input's from first
\* on, and its text holds them all.
ScanInv ==
  /\ InOrder(input)
  /\ pc \in {"idle", "first", "return"} => first = 0
  /\ pc = "rest" => first > 0 /\ first + Len(tokens) = scanned + 1
  /\ first = 0 => tokens = <<>>
  /\ first = 0 => sql = [from |-> 0, to |-> 0]
  /\ first > 0 =>
       /\ tokens # <<>>
       /\ first + Len(tokens) <= scanned + 1
       /\ sql.from = input.toks[first].pos
       /\ \A i \in 1 .. Len(tokens) :
            /\ tokens[i].id = input.toks[first + i - 1].id
            /\ tokens[i].idx = input.toks[first + i - 1].idx
            /\ tokens[i].pos = input.toks[first + i - 1].pos - sql.from
            /\ InDriver => input.toks[first + i - 1].end <= sql.to

\* What the driver keeps: its lookahead is the lexer's last token, of which
\* there is at most one past the end.
DriverInv ==
  /\ InDriver => lexer.lastPos \in -1 .. Len(tokens)
  /\ pc = "parse" =>
       /\ char = None => lexer.lastPos < Len(tokens)
       /\ char # None => lexer.lastPos >= 0 /\ char = LexedId(lexer.lastPos)
       /\ lexer.unreduced => char = None /\ lexer.lastPos >= 0

\* Every token the grammar sees is where its position says it is: at that
\* offset of the statement's own text is the token of that kind that the
\* scanner cut from the input, whole (parse.go 134-148).
TokensNameText ==
  first > 0 => \A i \in 1 .. Len(tokens) :
    LET t == input.toks[first + i - 1]
    IN  /\ tokens[i].id = t.id /\ tokens[i].idx = t.idx
        /\ sql.from + tokens[i].pos = t.pos
        /\ pc \in {"parse", "accepted", "failed"} => t.end <= sql.to

\* The slices of populateErrorDetails are in bounds, and the caret it draws is
\* under the last token the driver read, or at the end of the statement's text
\* (lexer.go 195-230).
CaretOnToken ==
  pc = "failed" /\ lexer.lastError.cause # "help request" =>
    /\ lexer.lastError.at \in 0 .. Size
    /\ sql.from + lexer.lastError.at =
         IF lexer.lastPos \in 0 .. Len(tokens) - 1
         THEN input.toks[first + lexer.lastPos].pos ELSE sql.to

\* A failure always has its error, so that the branch that makes one up is
\* dead (parse.go 179-184), and the error is the lexical one exactly if the
\* driver stopped at the token that could not be scanned (lexer.go 198-203).
FailureExplained ==
  pc = "failed" =>
    /\ lexer.lastError # NoError
    /\ lexer.lastError.cause = "lexical" <=> LastToken.id = "ERROR"

\* The inductive invariant.
IInv == TypeOK /\ ScanInv /\ DriverInv /\ CaretOnToken /\ FailureExplained

\* A token is marked as looking ahead exactly if the next token of the input
\* belongs to the same statement and is one of those it announces; never for a
\* token of the next statement (lexer.go 84-110).
LookaheadInStatement ==
  pc = "parse" /\ char # None /\ lexer.lastPos < Len(tokens) =>
    LET n    == first + lexer.lastPos
        id   == input.toks[n].id
        next == IF n < Len(input.toks) THEN input.toks[n + 1].id ELSE Eof
    IN  char = IF next \in LookaheadNext(id) THEN LookaheadId(id) ELSE id

\* The tokens numbered m to n are all the tokens between two semicolons.
IsStatement(inp, m, n) ==
  /\ m \in 1 .. Len(inp.toks) /\ n \in m .. Len(inp.toks)
  /\ \A i \in m .. n : inp.toks[i].id # Semicolon
  /\ m = 1 \/ inp.toks[m - 1].id = Semicolon
  /\ n = Len(inp.toks) \/ inp.toks[n + 1].id = Semicolon

\* A Statement has the tokens of one statement and exactly their text.
StatementOf(inp, s) ==
  /\ IsStatement(inp, s.first, s.last)
  /\ s.from = inp.toks[s.first].pos /\ s.to = inp.toks[s.last].end

\* The first p tokens of an input are in these statements, in order, but for
\* the semicolons.
Covers(list, inp, p) ==
  /\ \A i, j \in 1 .. Len(list) : i < j => list[i].last < list[j].first
  /\ \A n \in 1 .. p : \/ inp.toks[n].id = Semicolon
                       \/ \E i \in 1 .. Len(list) : n \in list[i].first .. list[i].last

\* A call either fails and returns nothing, or returns one statement for every
\* stretch of tokens between semicolons, in order, each with exactly its own
\* text: nothing is merged, lost or parsed twice, and no input that could not
\* be scanned is accepted (parse.go 119-171).
StatementsOfInput ==
  pc = "idle" => \A k \in 1 .. Len(results) :
    LET r == results[k]
    IN  IF r.err # NoError THEN r.list = <<>>
        ELSE /\ \A n \in 1 .. Len(r.input.toks) : r.input.toks[n].id # "ERROR"
             /\ \A i \in 1 .. Len(r.list) : StatementOf(r.input, r.list[i])
             /\ Covers(r.list, r.input, Len(r.input.toks))

\* A statement's NumPlaceholders is its highest placeholder.
CountsPlaceholders(inp, s) ==
  LET used == {n \in s.first .. s.last : inp.toks[n].id = "PLACEHOLDER"}
  IN  /\ s.placeholders = 0 \/ \E n \in used : s.placeholders = inp.toks[n].idx + 1
      /\ \A n \in used : inp.toks[n].idx + 1 <= s.placeholders

Succeeded == {k \in 1 .. Len(results) : results[k].err = NoError}

\* Placeholders are counted per statement, whatever the statements before it
\* had (parse.go 46-54).
PlaceholderCounts ==
  \A k \in Succeeded : \A i \in 1 .. Len(results[k].list) :
    CountsPlaceholders(results[k].input, results[k].list[i])

\* Results outlive the reuse of a parser: those of several statements always,
\* those of one statement until the next call (parse.go 88 and 153).
ResultsKept ==
  pc = "idle" => \A k \in 1 .. Len(results) :
    results[k].slice.arr # 1 \/ k = Len(results) => Contents(results[k].slice) = results[k].list

\* What a call returned is right and stays so.
ResultsStand == PlaceholderCounts /\ ResultsKept

\* Every call returns.
CallReturns == pc # "idle" ~> pc = "idle"
=============================================================================
