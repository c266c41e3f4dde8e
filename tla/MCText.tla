------------------------------- MODULE MCText -------------------------------
(***************************************************************************)
(* The parts of the repository that read, write and match texts other than *)
(* statements, each with families of them: csv files, bit strings, dates,  *)
(* LIKE patterns, the documents of the pretty printer, and names.  A       *)
(* behaviour is one of the part in focus; the others stand still.          *)
(***************************************************************************)
EXTENDS NameResolution

CONSTANTS
  BitsBegun, BitsCombined, MaxBits,   \* BitArray: lengths of bit strings
  MaxShift,
  TabWidth, Half                      \* Pretty

VARIABLES
  focus,
  origin, crlf, text, reader, rest, numLine, results,
  d, bits, number, integer,
  fn, mode, meant, chunks, fe, stage, idx, again, result,
  doc, width, printed,
  escape, pattern, caseInsensitive, answers

Locations == {"Zone"}
Today     == <<2000, 2, 29>>

\* The inputs are the values of constants of the modules that the words for them
\* are from; the families of dates and papers are in MC modules of their own.
Files     == INSTANCE Csv WITH Written <- {}, Texts <- {}, Readers <- {}
DateWords == INSTANCE MCDates WITH Inputs <- {}, LeapBC <- FALSE
Papers    == INSTANCE MCPretty WITH Docs <- {}, Widths <- {}
Likes     == INSTANCE Like WITH Escapes <- {}, Patterns <- <<>>, Texts <- <<>>

\* csv: fields of at most two characters that the writer or the reader treats on
\* its own, and every text of at most four of them.
FileChars == {"a", Files!Comma, Files!Quote, Files!CR, Files!LF, "#", " ", "\\", "."}
Fields == {<<>>} \cup {<<c>> : c \in FileChars} \cup {<<c, e>> : c, e \in FileChars}
Few    == {<<>>, <<"#">>, <<Files!LF>>, <<Files!Quote, Files!Comma>>, <<" ", "a">>}
Tables ==
  {<<<<f>>>> : f \in Fields} \cup {<<<<f, g>>>> : f \in Few, g \in Few}
    \cup {<<<<f>>, <<g>>, <<<<"a">>, f>>>> : f \in Few, g \in Few}
Texts   == UNION {[1..n -> {"a", Files!Comma, Files!Quote, Files!CR, Files!LF}] : n \in 0..4}
Readers ==
  {Files!Reader(c, n, lazy, trim) :
     c \in {Files!NoChar, "#"}, n \in {-1, 0}, lazy \in BOOLEAN, trim \in BOOLEAN}

UpTo(n)  == UNION {[1..k -> {0, 1}] : k \in 0..n}
BitStrs  == UpTo(BitsBegun)
Operands == UpTo(BitsCombined)
Shifts   == -MaxShift..MaxShift
Inputs  == DateWords!MCInputs
Docs    == Papers!MCDocs
Widths  == Papers!MCWidths

\* LIKE: every pattern of at most four characters, and every text of at most
\* three, of those that matter with an escape character: the two wildcards, the
\* backslash (the only one that regular expressions quote), the escape character
\* and a letter; for the letters, both cases.
Escapes    == {Likes!NoEscape, Likes!BackSlash, Likes!Percent, Likes!Under, "@"}
Letters(e) == {Likes!Percent, Likes!Under, Likes!BackSlash, "a"} \cup ({e} \ {Likes!NoEscape})
Patterns   == [e \in Escapes |-> Likes!BoundedSeq(Letters(e), 4)]
LikeTexts  == [e \in Escapes |-> Likes!BoundedSeq(Letters(e), 3) \cup Likes!BoundedSeq({"a", "A", Likes!Bad}, 2)]

\* Names: two databases, one of which has the name of a schema; names of one, two
\* and three parts, with the temporary schemas by their name and by their alias;
\* paths with and without the implicit schemas.
MCWritten ==
  {<<"t">>, <<"t", "b">>, <<"t", PublicSchema>>, <<"t", "b", "a">>,
   <<"t", PgTempSchemaName>>, <<"t", OthersTemp>>,
   <<"t", PgCatalogName, "">>, <<"t", "">>}
MCSearchPaths ==
  {<<PublicSchema>>, <<"b", PublicSchema>>,
   <<PgTempSchemaName, PublicSchema>>,
   <<PublicSchema, PgCatalogName, PgTempSchemaName>>, <<"", "b", OurTemp>>, <<>>}
MCFunDefs ==
  {<<"", "f">>, <<"b", "f">>, <<"b", "g">>, <<PublicSchema, "g">>}

Csv   == INSTANCE Csv WITH Written <- Tables
Bits  == INSTANCE BitArray WITH WordBits <- 3
Dates == INSTANCE PgDate
Printer == INSTANCE Pretty
Like  == INSTANCE Like WITH Texts <- LikeTexts

ASSUME TextAssumption ==
  Bits!BitAssumption /\ Printer!PrettyAssumption /\ NamesAssumption

csv   == <<origin, crlf, text, reader, rest, numLine, results>>
bit   == <<d, bits, number, integer>>
date  == <<fn, mode, meant, chunks, fe, stage, idx, again, result>>
paper == <<doc, width, printed>>
like  == <<escape, pattern, caseInsensitive, answers>>
all   == <<focus, csv, bit, date, paper, like, vars>>

MCInit ==
  /\ focus \in {"csv", "bits", "date", "paper", "like", "name"}
  /\ IF focus = "csv" THEN Csv!Init
     ELSE /\ origin = <<>> /\ crlf = FALSE /\ text = <<>> /\ reader = <<>>
          /\ rest = <<>> /\ numLine = 0 /\ results = <<>>
  /\ IF focus = "bits" THEN Bits!Init
     ELSE d = <<>> /\ bits = <<>> /\ number = 0 /\ integer = 0
  /\ IF focus = "date" THEN Dates!Init
     ELSE /\ fn = "" /\ mode = "" /\ meant = <<>> /\ chunks = <<>> /\ fe = <<>>
          /\ stage = "" /\ idx = 0 /\ again = FALSE /\ result = <<>>
  /\ IF focus = "paper" THEN Printer!Init
     ELSE doc = <<>> /\ width = 0 /\ printed = <<>>
  /\ IF focus = "like" THEN Like!Init
     ELSE escape = "" /\ pattern = <<>> /\ caseInsensitive = FALSE /\ answers = <<>>
  /\ IF focus = "name" THEN Init
     ELSE connected = FALSE /\ curDb = "" /\ path = <<>> /\ schemas = {} /\ objects = {} /\ from = <<>>

MCNext ==
  \/ focus = "csv"   /\ Csv!Next   /\ UNCHANGED <<focus, bit, date, paper, like, vars>>
  \/ focus = "bits"  /\ Bits!Next  /\ UNCHANGED <<focus, csv, date, paper, like, vars>>
  \/ focus = "date"  /\ Dates!Next /\ UNCHANGED <<focus, csv, bit, paper, like, vars>>
  \/ focus = "paper" /\ Printer!Next /\ UNCHANGED <<focus, csv, bit, date, like, vars>>
  \/ focus = "like"  /\ Like!Next  /\ UNCHANGED <<focus, csv, bit, date, paper, vars>>
  \/ focus = "name"  /\ Next /\ UNCHANGED <<focus, csv, bit, date, paper, like>>

MCSpec == MCInit /\ [][MCNext]_all
-----------------------------------------------------------------------------
\* The records of a csv file are read back, and errors in one reported where they
\* are.
RecordsRead == focus = "csv" => Csv!RecordsReadBack /\ Csv!ErrorsPlaced

\* Packed bits are a sequence of bits.
BitsAreSequence == focus = "bits" => Bits!BitsAreSequence

\* Instants that were written are read back, and no date is read that there was
\* not.
DatesRead == focus = "date" => Dates!DatesReadBack /\ Dates!DatesAreReal

\* A text is matched as the definition of LIKE says, by whichever of the two ways.
LikeMeans == focus = "like" => Like!LikeMeans

\* The pretty printer chooses the best layout, and has its unions in order, which
\* that rests on: they do not depend on the width.
LayoutIsBest ==
  focus = "paper" =>
    Printer!LayoutIsBest /\ (printed = Printer!NotYet /\ width = 0 => Printer!UnionsOrdered(doc))
=============================================================================
