# A verification development for postgresql-parser

The repository is CockroachDB's SQL front end cut out to stand alone: a byte
scanner, a goyacc grammar with the lexer and the driver around it, the syntax
trees with normalization and evaluation, and the utilities they drag along. The
modules in this directory model what keeps state and can go wrong over several
steps, and what turns data into other data in two ways that must agree.

All source paths below are relative to `src/`.

## 1. Inventory

| Component | Source | State | Operations | Here |
|---|---|---|---|---|
| byte arena of the scanner | `pkg/sql/parser/scan.go` 48-97 | `bytesPrealloc`, the slice a literal scanner borrowed, the arrays under both, and every Go string cast from them | `init`, `cleanup`, `allocBytes`, `buffer`, `append`, `returnBuffer`, `finishString`, error returns | `ScanBuffer` |
| scanner | `pkg/sql/parser/scan.go` 99-961 | `in`, `pos`, the token under construction and the locals of the function that scans it | `scan` and the functions it calls | `Scanner`, `Lex` |
| scanner's clients | `scan.go` 963-1021 | the tokens read so far | `Tokens`, `SplitFirstStatement`, `LastLexicalToken` | `Scanner` |
| character classes, name normalisation | `pkg/sql/lex/predicates.go`, `normalize.go` | none | predicates, `NormalizeName` | `Lex`, `LexEncode` |
| SQL encoders | `pkg/sql/lex/encode.go` | none | `EncodeSQLString`, `EncodeSQLBytes`, three identifier encoders, raw byte formats | `LexEncode` (without the raw formats) |
| parser driver | `pkg/sql/parser/parse.go` | `Parser`: scanner, lexer, `stmtBuf`, the slice of statements | `parseWithDepth`, `scanOneStmt`, `parse` | `Parser` |
| lexer | `pkg/sql/parser/lexer.go` | the statement's tokens, `lastPos`, `stmt`, placeholder and annotation counters, `lastError` | `init`, `cleanup`, `Lex`, `lastToken`, `SetStmt`, `UpdateNumPlaceholders`, `NewAnnotation`, error setters, `SetHelp` | `Parser` |
| LALR driver and grammar | `pkg/sql/parser/sql.y`, `sql.go` | lookahead, parse stack | read, shift, reduce, fail, accept | skeleton in `Parser` |
| ring buffer | `pkg/util/ring/ring_buffer.go` | slots, head, tail, nonEmpty | add and remove at both ends, `Reserve`, `Reset` | `RingBuffer`, `Deque` |
| hybrid logical clock | `pkg/util/hlc/hlc.go` | wall and logical time under a mutex, last physical time, upper bound | `Now`, `Update`, bound refresh, jump check | `HLC` |
| stop watch | `pkg/util/timeutil/stopwatch.go` | flag, start time, elapsed | `Start`, `Stop`, `Elapsed` | `StopWatch` |
| timer | `pkg/util/timeutil/timer.go` | library timer, channel, `Read`, two pools | `NewTimer`, `Reset`, `Stop` | `Timer` |
| UUID generator | `pkg/util/uuid/generator.go` | two `sync.Once`, clock sequence, last time, address | `NewV1`; the random and the hashed versions keep no state | `UuidGen` |
| window frames | `pkg/sql/sem/tree/window_funcs.go`, `window_funcs_util.go` | the row, and the peer groups still needed | frame start, end, size, exclusions; `Init` and `Update` of the helper | `WindowFrames` |
| normalization, evaluation | `pkg/sql/sem/tree/normalize.go`, `eval.go` | none | `NormalizeExpr`, `Eval` | `Normalize` (expressions of numbers and booleans) |
| name resolution | `pkg/sql/sem/tree/name_resolution.go`, `pkg/sql/sessiondata/search_path.go` | a name, completed in place | resolution of objects, targets, functions, columns' prefixes | `NameResolution` |
| pattern matching | `pkg/sql/sem/tree/eval.go` 4590-5190 | buffers of a rewritten pattern | LIKE, ILIKE, SIMILAR TO | `Like` (without SIMILAR TO) |
| key encodings | `pkg/util/encoding` | none | encode, decode, `PeekLength`, both directions | `KeyBytes`, `KeyEncoding` |
| value encodings | `pkg/util/encoding` from 1702 | none | encode, decode, `PeekValueLength` | `ValueEncoding` |
| JSON documents | `pkg/util/json` | what is decoded of a document so far | encoding, access, change, containment, inverted index | `JsonEncoding`, `Json` (without parsing and printing) |
| CSV reader and writer | `pkg/util/encoding/csv` | line number, fields of the record | `Read`, `ReadAll`, `Write` | `Csv` |
| bit arrays | `pkg/util/bitarray` | words and the bits used of the last | all but `Rand` | `BitArray` |
| dates and times | `pkg/util/timeutil/pgdate` | fields wanted and found | parsing in three modes | `PgDate` (without date arithmetic) |
| pretty printer | `pkg/util/pretty` | position while it chooses | documents, layouts, choice | `Pretty` |
| syntax trees, formatter, walker | `pkg/sql/sem/tree`, `pkg/walk` | none that outlives a call | format, walk | not modelled |
| types, type checking, casts | `pkg/sql/types`, `type_check.go`, `overload.go` | none | tables of types and overloads | not modelled |
| generated tables | keywords, help messages, error codes | none | lookups | constants |

### How the components interact

A caller owns a `Parser` and calls `Parse`. `parseWithDepth` initialises the
scanner on the whole text and loops: `scanOneStmt` pulls tokens from the scanner
up to a semicolon, an ERROR token or the end, rebases their positions to the
statement's own text and hands text and tokens to `parse`; `parse` initialises
the lexer and runs the generated driver, which calls `Lex` for each token,
`SetStmt`, `UpdateNumPlaceholders` and `NewAnnotation` from the grammar's
actions, and `Error` when there is no way on. A grammar action may return 1 by
itself. Everything is one sequential computation; there is no goroutine, lock or
channel in this path. What crosses calls is memory: the scanner's arena under
strings that live on in tokens and trees, `stmtBuf` under the returned slice,
and counters that `cleanup` does not reset.

Window frames keep peer groups in a ring buffer; `WindowFrames` uses the deque
that `RingBuffer` is shown to implement. Value encodings use the bytes of bit
arrays and addresses. The clock, the stop watch, the timer and the UUID
generator are called by several goroutines. All other parts are called one at a
time and meet in the callers outside this repository only.

### What is hard here, and what makes each component correct

* **Arena.** `finishString` and `scanIdent` cast bytes to strings with
  `unsafe.Pointer` and give the rest of the same array back. Correct when no
  byte of a finished string is ever written again, over any order of literals,
  identifiers, reallocations, errors and new inputs; and when a literal being
  scanned never loses a byte.
* **Scanner.** Backing up (`..`, `$tag`), lookahead of up to three bytes,
  counted nesting, literals that continue after a newline even in the middle of
  a hexadecimal byte, and an end of input that can come anywhere. Correct when
  nothing but white space and whole comments is between tokens, every token
  stands for what its text spells, slices are in bounds, and every scan returns.
* **Encoders.** They must agree with the scanner on case, normalisation,
  reserved words and escapes: what is written must read back as one token of the
  same value.
* **Parser and lexer.** Positions of two frames, lookahead across the end of a
  statement, three layers that can report an error for the same token, the reuse
  of a buffer and of counters. Correct when the positions name the tokens' text,
  statements are cut at exactly the semicolons, errors point at the token that
  failed, and results outlive later calls as documented.
* **Clock, stop watch, UUIDs.** Reads outside the lock, compare-and-swap with a
  second load, a flag published before the value it guards. Correct when
  timestamps grow and stay below the persisted bound, no time is invented, no
  UUID is made twice.
* **Ring buffer, timer.** Boundary cases of growth, and a client protocol on a
  channel: correct when the buffer is a deque, and a pooled library timer never
  brings the expiry of an earlier owner.
* **Window frames.** The helper forgets groups that later rows may ask for;
  RANGE bounds are binary searches that differ in both ends, both directions and
  at NULLs. Correct when every frame has the rows SQL defines.
* **Normalization.** Moves constants between the sides of a comparison in
  several steps that may fail half-way. Correct when no value changes.
* **Encodings, JSON, bit arrays, csv, dates.** Several readers find the end of
  the same bytes each in its own way; a document is held in three forms. Correct
  when what is written is read back, keys sort as values do, and nobody can tell
  the forms apart.
* **LIKE, names, pretty printer.** A shortcut and a general way, a name
  completed in place and used later, a choice by looking at first lines only.
  Correct when shortcut and definition agree, a name keeps its meaning, and the
  choice is the best layout.

`PROJECT.json` lists these hazards line by line with the property that would
catch each.

## 2. Modules

    Lex                   characters, NormalizeName, UTF-8
     |-- Scanner          scan and its clients, one action per loop iteration
     |    |-- TokenStream      (INSTANCE) what any scanner promises
     |    |-- ScannerProofs    `-- ScannerTextProofs
     |    `-- MCScan           inputs and reference definitions
     `-- LexEncode        the encoders
          `-- MCRoundTrip      (with MCScan) encode, then scan
    Parser                parseWithDepth, scanOneStmt, lexer, driver
     |-- MCParser         inputs and the bound on second calls
     `-- ParserProofs
    HLC                   the clock            `-- HLCProofs
    ScanBuffer            the byte arena       `-- ScanBufferProofs
    RingBuffer (INSTANCE Deque), StopWatch, Timer, UuidGen
                                               `-- UtilProofs
    WindowFrames          `-- MCFrames
    JsonEncoding -- Json  `-- MCJson
     MCState    ScanBuffer, RingBuffer, StopWatch, Timer, UuidGen,
                WindowFrames and Json in one run
    Normalize             `-- MCNormalize
    KeyBytes -- KeyEncoding   `-- MCKeys
    ValueEncoding         (INSTANCE KeyBytes) `-- MCValues
     MCData     Normalize, KeyEncoding and ValueEncoding in one run
    NameResolution        (extended by MCText)
                          `-- TreeProofs     (with WindowFrames)
    Csv, BitArray, Like
    PgDate                `-- MCDates
    Pretty                `-- MCPretty
     MCText     these six in one run
    Induction             used by TreeProofs and ScannerTextProofs

`MCState`, `MCData` and `MCText` put parts side by side that never meet: a
variable `focus` says which of them a behaviour is about, and the others stand
still. Their state graph is the disjoint union of the parts' graphs, so that one
run answers for all of them. The five utilities that `MCState` EXTENDS prefix
the names they would share (`RingInit`, `WatchNext`, `TimerSpec`), and their
properties are checked as they are stated in their modules and proved.

**Scanner** has the variables `in`, `pos` (the fields of the Go scanner), `lval`
(the token), `pc` and `loc` (the function that is running and its local
variables), `client`, `toks` and `res`. Every iteration of a Go loop is a step,
every exit of a function a disjunct: `IdentChar`/`IdentEnd`, `NumberDot`,
`NumberExponent`, `OpenBlock`/`CloseBlock`/`BlockEof`, `DoubledQuote`,
`CloseQuote`, `Join`, `Escape`, `DollarTag`, `DollarMark`, `DollarNoTag` and so
on. Bytes are members of an alphabet: an ASCII character is itself, `"c3"`,
`"89"`, `"a9"` are bytes of two-byte letters, `"NUL"` and `"07"` controls. What
the escapes of an `e''` string append, and whether the result is UTF-8, are
computed, not assumed. The constants parsed from numerals (`lval.union`) are not
kept.

**TokenStream** is what the rest of the program needs of a scanner: an input is
cut from left to right into nonempty, disjoint spans, until the caller stops.
`Scanner` implements it (`CutsInput`), and `Parser`'s `InputAssumption` is that
promise about complete token sequences, so that the parser is modelled over
every input a scanner could deliver rather than over text.

**LexEncode** has the encoders as functions from sequences of bytes to sequences
of bytes, with the loop of `EncodeSQLString` as a recursive operator, the
advance by `utf8.RuneLen` of an invalid byte included.

**Parser** has the scanner's progress (`scanned`), the statement being gathered
(`first`, `tokens`, `sql`), the lexer as one record, the driver's lookahead
`char`, and the memory of results (`stmts` as a slice, `arrays`, `results`). The
grammar is left open: after any token the driver may shift it, reduce
`stmt_block`, fail in an action or find a syntax error. So all that is shown
holds whatever sentences the tables accept. Three facts of the grammar are kept,
because properties depend on them: no rule contains ERROR, HELPTOKEN occurs in
one rule only, and a PLACEHOLDER is reduced before the next token is read. Which
of a failing state's recovery rules applies is open too.

**ScanBuffer** has Go slices as records (array, offset, length, capacity) over a
memory of cells. `AppendGrow` leaves the new capacity open, as the Go runtime
does. The values written are arbitrary. The literal scanners are reduced to what
they do to memory: borrow, append any number of bytes, finish or fail.

**RingBuffer** has the slice as a function on its indices, with `head`, `tail`
and `nonEmpty`; `maybeGrow`'s doubling and `grow`'s copy are operators of both
additions. **Deque** is the sequence it stands for. `ReserveFrom` says how full
a buffer is when more room is reserved: see section 6.

**StopWatch** has an action for each atomic access, each access to a plain field
and each reading of the clock, at a step `at[g]` of each goroutine. `Serial`
makes callers take turns. **Timer** has the fields of each client's `Timer`, the
library timers as three numbers (the reset a timer counts down for, the one it
is about to send, the one in its channel) and the two pools; `Fire` and `Send`
are steps of the runtime. **UuidGen** has `DrawSequence`, `ClockSequence` (the
critical section) and `Return`, so that callers may put UUIDs together in
another order than they read the clock.

**HLC** has what is accessed atomically (`lastPhysicalTime`) as an action for
each access, and what a call does under the mutex as one action. The environment
is a physical clock that goes on and may fall back, messages with timestamps of
other nodes, and a store whose writes may fail. When the code calls
`log.Fatalf`, the process stops.

**WindowFrames** walks through a partition row by row as the comment of `Update`
asks, with the helper's groups in a sequence, `headNum` the number of the first
one left. The bounds of ROWS, RANGE and GROUPS frames, the exclusions,
`FrameSize` and `FullPartitionIsInWindow` are those of the code; `InFrame` is
SQL's definition of a frame.

**Normalize** has expressions as nodes with an operator, children and a datum,
`NormalizeExpr` as a function over them and `Eval` with integers that overflow
at `MaxInt`, as int64 does. **KeyBytes** has every key encoder, decoder and
`PeekLength` over bytes of `Base` values; **KeyEncoding** compares the keys of
two rows;
**ValueEncoding** writes rows of tagged values. **JsonEncoding** and **Json**
hold a document decoded, encoded or encoded with cached parts, beside the same
document held plainly.

**Csv** reads line by line as `bufio` delivers; **BitArray** keeps packed words
beside a plain sequence of bits; **PgDate** has `fieldExtract`'s two passes over
chunks; **Pretty** has `be`'s choice beside all layouts of a document; **Like**
has the shortcuts of `optimizedLikeFunc` and the five rewritings of
`likeKey.Pattern` beside the definition of LIKE; **NameResolution** has a
session that connects with a database and a path and perhaps gets a temporary
schema, over an external catalog whose lookups may fail; the iterator over the
path is a function from the number of its steps.

Some operators are marked *Mutant*. They are plausible slips in the operator
they precede, kept to show that the properties notice.

## 3. Runs

Every passing run is exhaustive within its bounds.

| Run | Module, configuration | Bounds | Question |
|---|---|---|---|
| `scan` | `MCRoundTrip`, `MCScan.cfg` | all texts of up to 10 characters of block comments, 5 of line comments, 4 of operators, 5 of numerals, 5 of a word after `x`, 5 of statements with three clients, 6 of strings, 5 of quoted names, 4 inside `e''`, 5 of bit strings, 6 after `x'`, 8 of dollar quotes; what the encoders write for strings of up to 4 bytes, byte arrays and names of up to 3 | is only white space skipped, does each token stand for what its text spells, do the clients stop where they should, does every call return, does what the encoders write come back? |
| `parser` | `MCParser` | all inputs of up to 4 tokens of 7 kinds and every grammar; a second call, of up to 2 tokens of 3 kinds, after one of up to 3 of these | positions, carets, causes, lookahead, the cutting into statements, what survives into the next statement and call, termination |
| `state` | `MCState` | arena: 2 arrays of 3 bytes, 2 byte values; ring: capacity 4, 2 elements; stop watch: 2 goroutines, a clock from 2 to 6; timer: 2 clients, 3 library timers, 4 resets; UUIDs: 2 callers, 3 times, 4 calls; windows: partitions of up to 4 rows for RANGE and 5 for ROWS and GROUPS, offsets 0, 1, 2, 4; JSON: 10 documents, 2 operations | does each part stay what it stands for, through every sequence of its operations? |
| `hlc` | `HLC` | 2 goroutines, 3 calls, one that refreshes the bound, one that watches for jumps, remote times that are ahead | do timestamps grow, stay below what was persisted, and does every call end? |
| `data` | `MCData` | integers up to 31; 16 integers, 31 byte strings and the other families of `MCKeys` around every boundary, in pairs of rows; rows of 2 of the values in `MCValues` | does anything change its value, its order or its end? |
| `text` | `MCText` | csv records of up to 3 fields of 2 characters and every text of 4; bit strings of 6 and 3 bits; the dates of `MCDates`; the documents of `MCPretty` at 5 widths; LIKE patterns of 4 characters, texts of 3, with 5 escapes; 2 databases, 6 paths (one lists the schema "" and the temporary schema by its own name), 8 forms of names | is what was written read back, do two ways to match agree, does a name keep its object, is the chosen layout the best? |
| `scan_unicode`, `stop_watch_shared`, `frames_crossed`, `normalize_turned`, `key_duration`, `json_exists` | see section 6 | as small as the finding allows | the findings of section 6 |

### Why the bounds are enough

* `scan`: ten characters hold a block comment with another in it, closed, and
  two more for overlapping marks (`/*/`, `*/*`) or an operator after it.
  Operators are at most three characters and four show what follows them; five
  characters hold a numeral with a dot, an exponent and its sign, or a range
  with digits on both sides. Six characters hold two adjacent literals, one with
  text, with a line break or a blank between them, or a doubled quote with text
  around it; `$a$$$a$`, where a dollar that does not complete the end tag starts
  another candidate, takes seven; after `x'`, a byte whose two digits are in two
  adjacent literals takes six. Four characters inside `e''` are one `\xHH` or a
  character cut by one.
* `parser`: four tokens hold two statements with a lookahead pair on either side
  of the semicolon, or an empty statement between two. `stmtBuf` takes two
  calls, and the growth of the list two statements in one call, which three
  tokens are. `ERROR` and the like say nothing new about a second call, because
  every call starts with an initialised lexer and scanner.
* `state`: two arrays allow a second input or one reallocation while a string of
  the first lives on; three bytes allow a string before and one after the point
  where a buffer is handed back. A ring of four places wraps with elements on
  both sides and has grown three times. Three library timers let one client's
  fired timer count down beside a pooled one and another client's; four resets
  are two for each client. `SeqSize` 16 has four variants and four distinct
  sequences, which four calls use up. Five rows hold a peer group on both sides
  of a frame; RANGE offsets that lie between, on and past the values, with NULL
  peers, fit in four. JSON's `Stride` is 2 instead of 32 and `Size` 32 instead
  of 2^28, so that documents of a few members cross them; two operations are
  what it takes to leave a document partly decoded and use it.
* `hlc`: two goroutines and three calls are a compare-and-swap that is lost, and
  a call that reads before another one and locks after it. `MaxInt32` 7 is out
  of the reach of three calls.
* `data`: the widths of integers and decimals are constants small enough to take
  every value next to a boundary. `One` 8 makes halves and quarters exact.
  Durations have months and days of one sign and no two are equal for `Compare`,
  the others are finding 5.
* `text`: two characters are a quote and what follows it, or `\r\n`; words of
  three bits make six bits two words; four characters of a pattern hold an
  escape, what it escapes and a wildcard on either side.

`Keyword`, `ExpPrefix`, `AllowedExp`, `Reserved` are small sets of words
standing for the generated tables: one keyword, one reserved word, one prefix.
The encoders are run without experimental prefixes, see section 6.
`MaxPlaceholderIdx` stands for 65536. `IdentNormalized` is about words that are
UTF-8.

Deadlock is not checked where the program ends: a scan that returned, a parser
whose callers have used up their calls, bounded calls, resets and clock
readings, computations that are done, and a clock whose process stopped. Arena
and ring have no such end, but share a run with parts that do.

### Fairness

`Scanner` and `Parser` are each one sequential computation, so weak fairness of
the whole next-state relation says no more than that a running goroutine goes
on: `WF_vars(Next)` for a scan, `WF_vars(pc # "idle" /\ Next)` for a parser,
which leaves open whether anybody calls again. `Returns` and `CallReturns` then
rest on the loops' own progress. The grammar is open, but `NewAnnotation` and
`UpdateNumPlaceholders` are bounded by the tokens shifted, so that the driver
has no way to reduce for ever.

`HLC` has weak fairness of each goroutine's own steps: the Go scheduler runs
every goroutine that can run, and sync.Mutex hands a lock to one that waits long
enough. `CallsEnd` then says that the loop around the compare-and-swap ends,
unless the clock fell back where that is fatal. No other part has a loop whose
end depends on others, and none states fairness.

## 4. Properties worth reading first

* `StringsImmutable` and the conjunct `NoSharedCell` of `IInv` (ScanBuffer): the
  immutability of strings cast without a copy, and the ownership argument behind
  it.
* `TokensCutRight` (Scanner), `LiteralValues` (MCScan): the scanner's loops
  against definitions that look at the whole text at once.
* `RoundTrip` (MCRoundTrip): encoder and scanner composed.
* `CutsInput` (Scanner): the refinement of TokenStream; `IsDeque` (RingBuffer):
  that of Deque.
* `StatementsOfInput` (Parser): a list of statements, one per stretch between
  semicolons, with exactly its text, or an error and nothing.
* `CaretOnToken`, `FailureExplained` (Parser): what a caller is told about a
  failure, although scanner, action, driver and help rule all had a say.
* `ResultsStand` (Parser): what may and may not leak into the next statement or
  call.
* `Causality`, `CoveredByPersisted` (HLC): timestamps grow across goroutines,
  and stay below what a restart would find in the store.
* `TimersApart` (Timer), `NeverTwice` (UuidGen): the reuse of what is pooled,
  and of times.
* `FrameIsDefined` (WindowFrames), `NormalizeKeeps` (Normalize), `KeysInOrder`
  (KeyEncoding), `HeldAlike` (Json), `LayoutIsBest` (Pretty): an implementation
  against what SQL, `Compare` or the definition of a layout says.

## 5. Proofs

Eight modules hold proofs, for every value of the constants under the named
assumptions. One step per action; the actions that touch nothing an invariant
mentions are grouped.

**`ScannerProofs`**, for every input and set of keywords (`ScannerAssumption`).
`CursorInv` is inductive: the cursor stays in the input and past the tokens
handed out (`InputInv`, `TokensInv`), the token under construction begins before
it and after them (`LoopInv`), the two counters of a dollar-quoted string are in
step with the cursor (`DollarInv`), the end is no closing quote (`QuoteInv`),
and a token that is returned is not empty unless it is the end (`ReturnInv`).
`DollarInv` is what `scan.go` 909 rests on: a candidate for the end tag lies
behind the whole start tag, which the counters alone do not say. Then no slice
is out of bounds (`SlicesStayInBounds`) and every step is a step or a stutter of
TokenStream (`CutsItsInput`). `WordInv` says that every word handed out or on
its way is named, whole and ended as it should be, and that `isLower` means what
it says of the characters read so far (`CaseInv`): it gives `WordsTakenWhole`,
and `NamesAreNormalized` under `NoAccentedCapital` (no byte of a capital outside
ASCII; finding 1 is what happens with one). Under `NoNulByte`, for a NUL byte
has the number of the end, `WordInv` gives `EndIsTheEnd` and `ClientInv` gives
`ClientsStopRight`.

**`ScannerTextProofs`**, about the text itself. `TypesHold` is the module's type
invariant, unweakened: `TextInv` says of what tokens, locals and results are
made. A name is made of characters because lower case, NFC and the stripping of
a prefix are; a string because every escape yields bytes. `Char` may be any
alphabet in which no character is called like a token of several characters.
`InputCutRight` states `TokensCutRight`: the gap before each token consists of
blanks and whole comments. `GapInv` says that the text from the last token to
the cursor is a gap (`IsGap`), followed by an open comment or the token under
construction. `IsGap` does not repeat the loops: it takes the least set of
positions that blanks, line comments and block comments lead to (`Reached`), and
finds the end of a block comment by a fold over its text (`Readers`), in which a
mark that overlaps the one before counts for nothing. The proof shows that the
scanner's `depth` is the fold's (`InBlock`), although the scanner steps over two
characters at a mark where the fold sees each character once. Like `EndIsTheEnd`
it supposes `NoNulByte`.

**`ParserProofs`**, for inputs of any length, any number of calls and every
grammar (`InputAssumption`, what the scanner promises; `CallAssumption`;
`TokenAssumption`, the end and "no token" are no token identifiers): every
safety property of `Parser`.

* `ParserInvariant`: `Spec => []IInv`. `CaretOnToken` needs to know that
  `lastPos` is between -1 and one past the last token, which is kept because the
  driver reads only when it has no lookahead and its lookahead is
  `LexedId(lastPos)` (`DriverInv`): once it holds the end it never reads again.
  It needs `ScanInv` for the other half: token i of the statement is token first
  + i - 1 of the input, its position moved by `sql.from`, its end within the
  text. `TokensName`, `ErrorsPointAtToken` and `FailuresExplained` follow.
* `StatementInvariant`: a statement begins after a semicolon and has none in it
  (`CutInv`), ends before one or at the end of the input (`EndInv`), and the
  driver that has taken all of it has met no ERROR and counted every placeholder
  (`TakenInv`). `LooksWithinStatement` follows: the token after the last one of
  a statement belongs to another one, and `Lex` does not look there.
* `ResultInvariant`: a call with more statements than `stmtBuf` has room for has
  an array of its own (`MemoryInv`, `KeptInv`), the list covers the input up to
  where the parser is (`ListInv`), and finished calls keep that (`DoneInv`).
  `StatementsReturned` and `ResultsOutlive` follow.

**`HLCProofs`**, for any number of goroutines and whatever the physical clock
does (`TypeOK`, `LastInv`, `HighestInv`, `RefreshInv`, `BoundInv`).
`LastFollowed` needs no more: whichever goroutine wins the compare-and-swap, the
last reading never goes back unless the clock did. `TimestampsIncrease` and
`TimestampNeverBack` hold under `[]Room`, that the logical time is below the
largest int32; the code increments it without asking (hlc.go:282), and past it
the theorem is false. `BoundIsPersisted` holds under `OneRefresher`, that one
goroutine sets bounds: of two, the one that read the clock earlier could store
its bound over the other's.

**`TreeProofs`** is about two parts of pkg/sql/sem/tree, window frames and
names. Window frames (`FramesAssumption`: partitions are sequences no longer
than the largest int, sorted for RANGE). `FramesAsDefined` states
`FrameIsDefined`: at every row of every partition, of any length, with NULLs and
in both directions, `FrameStartIdx` and `FrameEndIdx` delimit exactly the rows
SQL's definition names, `FrameSize` counts those the exclusion leaves, and
`FullPartitionIsInWindow` overstates no frame. `FrameIInv` is inductive: the
helper's queue holds whole peer groups, each numbered one more than the one
before (`Queue`), among them every one the current row will ask for
(`ReachesBack`, `ReachesAhead`), so that no index into the queue is out of
range. `SearchFinds` shows that the bisection of RANGE frames finds the least
index with its property, by induction on the length of the interval that is
left. Two hypotheses are what the code needs to be right: `OffsetsFit`, that a
ROWS offset added to a row's index does not overflow (window_funcs.go:387 adds
without asking), and `Crossed` = FALSE, no GROUPS frame that ends further back
than it starts (finding 3 is what happens with one). GROUPS offsets may
overflow.

Names (`NamesAssumption`: names have at most three parts; no schema is created
under a name reserved for temporary schemas, and no path lists another
session's): `NamesMeanOne` states `NamesResolve` for every catalog, path and
order of the session's steps, with any number of names in the FROM clause.
`NamesInv` is inductive. `PathInv`: the flags of the search path are about its
schemas, and the temporary schema's name is this session's or none.
`CatalogInv`: no schema is called like the alias, this session's temporary
schema is in the catalog only when the path knows its name, and an object's
schema is in the catalog; without it an object in a schema called `pg_temp`
would change its name's meaning when the session gets its temporary schema.
`FromInv`: a resolved name gives its object in full (`Completed`), read with the
path as it is now, and still has what was written of it (`Names`), so that its
prefix finds it. The iterator is followed through its places, -1 for the
temporary schema, 0 for pg_catalog and 1, 2, ... for the path, from which the
order of what it returns is read off and compared with the documented one. The
attempt showed that the property was once stated too strongly: a path that lists
the temporary schema by its own name instead of the alias has it searched first
all the same (search_path.go 111-114), so that an object made in a schema before
it may be hidden. `SearchedUnlisted` now says which schemas are searched without
being listed, and the run has such a path.

**`Induction`** has what these two need about recursive functions on the
numbers: that there is a function of the kind (`IterationExists`,
`RangeIterationExists`) and that what holds at the start and is kept by each
step holds throughout (`SetInduction`, `RangeInduction`). They are stated for
sets of numbers and functions between sets, and derived from the least element
that every set of numbers has.

**`UtilProofs`** is about four utilities. Stop watch: under `Serial`,
`MeasuresRuns` and `SerialInventsNoTime`. At most one goroutine is in a call
(`OneCaller`), and then the fields are those of that step of the call
(`IdleInv`, `CallInv`). Without `Serial`, finding 2. Timer: `TimersStayApart`,
for any number of clients and library timers. A library timer has one owner, a
pooled one is quiet: it neither counts nor sends nor holds an expiry; and the
expiry of a client's last reset is in exactly one of these places until the
client has read it and set `Read` (`ClientInv`). UUID generator: `UuidsDiffer`,
for any width of the sequence and any clock: every stamp was taken at most as
many steps of the sequence ago as there were, and if none, not later than the
last time (`StampsTaken`); so as long as the sequence has not gone round, a
clock that stands still or goes back gives another one, and all stamps, in calls
or in UUIDs, are apart (`Apart`). Ring buffer: `ImplementsDeque`, for every
capacity, if room is only reserved when the buffer is full; every operation gets
a lemma that says what it does to `Items`.

**`ScanBufferProofs`** (`ByteAssumption`, `BoundAssumption`): `ArenaInvariant`,
`Spec => []IInv`. `StringsImmutable` alone is not inductive: nothing in it says
that the next append does not hit a string. `NoSharedCell` says that neither the
buffer in use nor the preallocated rest owns a cell of any string; it is kept
because `returnBuffer` gives back exactly the capacity behind the string's last
byte, `allocBytes` advances past what it handed out, and a fresh array owns
nothing old (`SliceOK`: everything lies in arrays made before). `BufferIntact`
says that while a literal is scanned `bytesPrealloc` is nil, so that a buffer
has one holder. `StringsNeverOverwritten` and `BufferNeverLosesBytes` follow.

Only model-checked:

* liveness (`Returns`, `CallReturns`, `CallsEnd`), which the proof system does
  not do;
* `LiteralValues` and `RoundTrip`, whose reference definitions and encoder are
  RECURSIVE operators, in whose modules the provers lose their arithmetic;
* `HeldAlike` and `PathsLeadBack`, all of the run `data`, and the run `text` but
  for names: expressions, documents, keys and patterns are trees and nested
  sequences over which the code recurs. Of the library's induction theorems
  those with an operator as parameter cannot be instantiated, and `Induction`
  replaces them for numbers only.

## 6. Findings

1. `scan_unicode`: a word whose only capital is not ASCII passes `isLower` and
   is taken without normalisation (scan.go:527), although the function says it
   will be normalised (504-505).
2. `stop_watch_shared`: `Start` publishes the flag before it writes `startedAt`
   (stopwatch.go:52); a `Stop` between the two measures from the zero time. The
   comment says the stop watch can be used concurrently.
3. `frames_crossed`: GROUPS BETWEEN 0 PRECEDING AND 2 PRECEDING is accepted, and
   asks the helper for a peer group that it has forgotten
   (window_funcs_util.go:163): `GetFirstPeerIdx` panics.
4. `normalize_turned`: `a / -2 < 9223372036854775807` is turned around before it
   is known whether the constant can be moved, and stays so when it cannot
   (normalize.go:323).
5. `key_duration`: the key of a duration sorts by its length, and
   `Duration.Compare` differently when months and days have different signs
   (encoding.go:1035).
6. `json_exists`: `?` does not find a string in an array of which only the
   elements are encoded, as `Concat` and `RemoveIndex` leave it (json.go:1518).

Seen while modelling, without a run of their own because the inputs or the
operation are kept out of the runs above, as the modules say:

* Scanner: `scanDollarQuotedString` gives up at scan.go:937 without moving back
  (`$a ` is the token `$` and then nothing); a NUL byte has token id 0, the id
  of the end of the input, and `Tokens`, `Parse` and the others silently stop
  there.
* Encoders: a name like `experimental_ranges` is written bare and read as the
  keyword without its prefix (encode.go:153); after an invalid byte
  `EncodeSQLString` skips by `utf8.RuneLen` of the replacement character, 3, and
  may copy the rest of a cut character unescaped.
* Ring buffer: `Reserve` of a buffer that holds less than its capacity sets
  `tail` as if it were full (ring_buffer.go:79), which `ReserveFrom` = 1 shows.
* Clock: the logical time is incremented without a look at its 32 bits
  (hlc.go:282).
* LIKE: with an escape character that regular expressions quote (`.`, `*`), the
  rewriting looks for it where it is quoted already (eval.go 5148-5187); the
  closure for `_%` patterns assigns to the pattern it captured (4726-4734), so
  that a matcher called twice may answer differently; U+FFFD in a valid text is
  an error on the direct path only.
* Names: a path with `pg_temp_2` searches another session's temporary schema;
  `SearchPath.Equals` panics on empty paths.
* Dates: leap years are asked of the positive year of a BC date
  (field_extract.go, about 801; `LeapBC` = TRUE shows it); a zone whose name has
  a chunk that begins with j is taken for a Julian date; `yyyymmddThhmmss`
  cannot be read; the buffer has a chunk less than there are fields; `19990108
  -04:30` is taken for a long year; minutes of zones have no range; repeated
  keywords are an assertion error; `ParseTime`'s first attempt ignores the mode.
* CSV: a record of one empty field is written as an empty line, which readers
  skip; the comment of reader.go:25 is stale.
* JSON: the type switch of an object's inverted keys (json.go, about 753) misses
  encoded containers; `{"":1}` and `1` share a key; `JoinNestedOuter` of no
  documents (pretty printer) panics.
* Durations: the comment of `FromInt64` is untrue from 360 days on; `4:5:-0.5`
  slips past the sign check of the Postgres reader.

## 7. Not modelled

* The LALR tables and the sentences they accept (generated, and 1 MB of them),
  and what the actions build; the expression helpers at the end of `parse.go`.
* Tree formatting and walking, types, type checking and casts: large tables of
  straight-line code without state.
* Keyword tables, help messages and error codes: generated; the modules take the
  few words they need as constants.
* Within modelled parts: the text of messages and hints; `lval.union`; the
  Turkish dotless i of `normalize.go` and NFC's reordering of combining marks;
  `EncodeLocaleName` and the raw byte formats; `ManualClock`, the counter of
  backward jumps and the text form of timestamps; random and hashed UUIDs;
  filters and arguments of window functions; functions, CASE, arrays and
  subqueries in expressions; keys of inverted indexes in `pkg/util/encoding` and
  its pretty printers; parsing and printing of JSON, and its sizes; that caches
  inside a document may be shared with another one; `ReuseRecord` of the csv
  reader; date arithmetic, years before -4800 and the upper bound of dates;
  SIMILAR TO; `classifyTablePattern` and `classifyColumnItem`; the memo tables
  of the pretty printer and texts longer than an int16.
* Hazards without a property: a placeholder of 65536 (expr.go:809), the overflow
  of a ROWS offset (window_funcs.go:387), the walker's stop rule (walker.go:45),
  `x // 1` on decimals (normalize.go:155), a failure inside the UUID generator's
  `sync.Once` (generator.go:205), the logical time's overflow (hlc.go:282).

## 8. Plan

1. For `BitArray`: the unused bits of the last word are 0.
2. A lemma that complete TokenStreams have their spans in order, which is what
   `Parser` assumes of its inputs.
3. Lemmas on `Lex` (`NormalizeName` of a normalised name).
4. `Placeholder`: the 16-bit index from `scanPlaceholder` to formatting; raw
   byte formats in `LexEncode`.
