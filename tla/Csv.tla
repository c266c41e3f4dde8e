-------------------------------- MODULE Csv --------------------------------
(***************************************************************************)
(* The reader and the writer of comma-separated values of                  *)
(* pkg/util/encoding/csv.  A text, written from records or not, is read    *)
(* record by record to its end.                                            *)
(*                                                                         *)
(* A text is a sequence of characters, which bufio gives out line by line. *)
(***************************************************************************)
EXTENDS Integers, Sequences

CONSTANTS
  Written,   \* sequences of records to write
  Texts,     \* other texts to read
  Readers    \* the ways to set up a Reader: see Reader

VARIABLES
  origin,    \* the records that were written, or nothing
  crlf,      \* Writer.UseCRLF
  text,      \* what is read
  reader,    \* the Reader's exported fields; FieldsPerRecord changes
  rest,      \* the text from the next line on
  numLine,   \* the line being read
  results    \* what Read returned so far

vars == <<origin, crlf, text, reader, rest, numLine, results>>

Comma   == ","
Quote   == "\""
CR      == "\r"
LF      == "\n"
Spaces  == {" ", "\t", CR, LF}
NoChar  == ""

Reader(Comment, FieldsPerRecord, LazyQuotes, TrimLeadingSpace) ==
  [Comment |-> Comment, FieldsPerRecord |-> FieldsPerRecord,
   LazyQuotes |-> LazyQuotes, TrimLeadingSpace |-> TrimLeadingSpace]

Drop(s, n) == SubSeq(s, n + 1, Len(s))

\* The first place of a character, 0 if there is none.
IndexOf(s, c) ==
  IF \E i \in DOMAIN s : s[i] = c
  THEN CHOOSE i \in DOMAIN s : s[i] = c /\ \A k \in 1..i - 1 : s[k] # c ELSE 0

Starts(s, c) == s # <<>> /\ s[1] = c

RECURSIVE Joined(_)
Joined(ss) == IF ss = <<>> THEN <<>> ELSE Head(ss) \o Joined(Tail(ss))
-----------------------------------------------------------------------------
(* Writer *)

\* Mutant: a line feed alone asks for quotes.
fieldNeedsQuotesLF(field) ==
  /\ field # <<>>
  /\ \/ field = <<"\\", ".">>
     \/ \E i \in DOMAIN field : field[i] \in {Comma, Quote, LF}
     \/ field[1] \in Spaces

fieldNeedsQuotes(field) ==
  /\ field # <<>>
  /\ \/ field = <<"\\", ".">>
     \/ \E i \in DOMAIN field : field[i] \in {Comma, Quote, CR, LF}
     \/ field[1] \in Spaces

LineEnd(useCRLF) == IF useCRLF THEN <<CR, LF>> ELSE <<LF>>

WrittenChar(c, useCRLF) ==
  CASE c = Quote -> <<Quote, Quote>>
    [] c = CR /\ useCRLF -> <<>>
    [] c = LF -> LineEnd(useCRLF)
    [] OTHER  -> <<c>>

WriteField(field, useCRLF) ==
  IF ~fieldNeedsQuotes(field) THEN field
  ELSE <<Quote>> \o Joined([i \in DOMAIN field |-> WrittenChar(field[i], useCRLF)]) \o <<Quote>>

Write(record, useCRLF) ==
  Joined([n \in DOMAIN record |->
            (IF n > 1 THEN <<Comma>> ELSE <<>>) \o WriteField(record[n], useCRLF)])
  \o LineEnd(useCRLF)

WriteAll(records, useCRLF) == Joined([n \in DOMAIN records |-> Write(records[n], useCRLF)])
-----------------------------------------------------------------------------
(* Lines *)

\* The next line with its end, and what is left; at the end of the text the
\* line is empty, and a carriage return before it is dropped.
NoCR(s)  == IF s # <<>> /\ s[Len(s)] = CR THEN SubSeq(s, 1, Len(s) - 1) ELSE s
readLine(s) ==
  LET n == IndexOf(s, LF)
  IN  IF n = 0 THEN [line |-> NoCR(s), rest |-> <<>>, eof |-> s = <<>>]
      ELSE [line |-> SubSeq(s, 1, n), rest |-> Drop(s, n), eof |-> FALSE]

lengthCRLF(s) ==
  LET n == Len(s)
  IN  IF n = 0 \/ s[n] # LF THEN 0 ELSE IF n > 1 /\ s[n - 1] = CR THEN 2 ELSE 1

\* Where readRecord is: in a line, of which fullLine is all; n is its number.
Place(read, n) ==
  [line |-> read.line, fullLine |-> read.line, rest |-> read.rest, n |-> n, eof |-> read.eof]

\* The next line that is neither empty nor a comment.
RECURSIVE FirstLine(_, _, _)
FirstLineAfter(read, n, comment) ==
  IF /\ ~read.eof
     /\ \/ comment # NoChar /\ Starts(read.line, comment)
        \/ Len(read.line) = lengthCRLF(read.line)
  THEN FirstLine(read.rest, n, comment)
  ELSE Place(read, n)
FirstLine(s, n, comment) == FirstLineAfter(readLine(s), n + 1, comment)
-----------------------------------------------------------------------------
(* Records *)

NoError      == "none"
ErrBareQuote == "bare quote"
ErrQuote     == "quote"
ErrFieldCount == "field count"
EOF          == "EOF"

Parsed(fields, err, column, at) ==
  [fields |-> fields, err |-> err, column |-> column, line |-> at.n, rest |-> at.rest]
\* A record that fails ends there; what its last field had so far is lost.
FailAt(fields, err, column, at) == Parsed(fields, err, column, at)
Done(fields, at)                == Parsed(fields, NoError, 0, at)

RECURSIVE TrimLeft(_)
TrimLeft(s) == IF s # <<>> /\ s[1] \in Spaces THEN TrimLeft(Tail(s)) ELSE s

RECURSIVE ParseField(_, _, _), ParseQuoted(_, _, _, _)

\* The column of a character that is followed by these.
ColumnBefore(at, following) == Len(at.fullLine) - Len(following)

ParseBare(at, fields, r, i) ==
  LET field == IF i > 0 THEN SubSeq(at.line, 1, i - 1)
               ELSE SubSeq(at.line, 1, Len(at.line) - lengthCRLF(at.line))
      j     == IndexOf(field, Quote)
  IN  IF ~r.LazyQuotes /\ j > 0
      THEN FailAt(fields, ErrBareQuote, ColumnBefore(at, Drop(at.line, j - 1)), at)
      ELSE IF i > 0 THEN ParseField([at EXCEPT !.line = Drop(@, i)], Append(fields, field), r)
      ELSE Done(Append(fields, field), at)

\* Mutant: a quote before the end of the line is taken for one in the field.
AfterQuoteNoEnd(at, fields, field, r) ==
  CASE Starts(at.line, Quote) ->
         ParseQuoted([at EXCEPT !.line = Tail(@)], fields, field \o <<Quote>>, r)
    [] Starts(at.line, Comma) ->
         ParseField([at EXCEPT !.line = Tail(@)], Append(fields, field), r)
    [] at.line = <<>> \/ at.line = <<LF>> -> Done(Append(fields, field), at)
    [] OTHER ->
         IF r.LazyQuotes THEN ParseQuoted(at, fields, field \o <<Quote>>, r)
         ELSE FailAt(fields, ErrQuote, ColumnBefore(at, at.line) - 1, at)

AfterQuote(at, fields, field, r) ==
  CASE Starts(at.line, Quote) ->
         ParseQuoted([at EXCEPT !.line = Tail(@)], fields, field \o <<Quote>>, r)
    [] Starts(at.line, Comma) ->
         ParseField([at EXCEPT !.line = Tail(@)], Append(fields, field), r)
    [] Len(at.line) = lengthCRLF(at.line) -> Done(Append(fields, field), at)
    [] OTHER ->
         IF r.LazyQuotes THEN ParseQuoted(at, fields, field \o <<Quote>>, r)
         ELSE FailAt(fields, ErrQuote, ColumnBefore(at, at.line) - 1, at)

\* Mutant: the line that a column is counted in stays the first of the record.
NextLineOldColumn(at) == [Place(readLine(at.rest), at.n + 1) EXCEPT !.fullLine = at.fullLine]

\* A quoted field goes on in the next line.
NextLine(at) == Place(readLine(at.rest), at.n + 1)

ParseQuotedTo(at, fields, field, r, i) ==
  IF i > 0
  THEN AfterQuote([at EXCEPT !.line = Drop(@, i)], fields, field \o SubSeq(at.line, 1, i - 1), r)
  ELSE IF at.line # <<>> THEN ParseQuoted(NextLine(at), fields, field \o at.line, r)
  ELSE IF r.LazyQuotes THEN Done(Append(fields, field), at)
  ELSE FailAt(fields, ErrQuote, Len(at.fullLine), at)
ParseQuoted(at, fields, field, r) == ParseQuotedTo(at, fields, field, r, IndexOf(at.line, Quote))

ParseTrimmed(at, fields, r) ==
  IF Starts(at.line, Quote) THEN ParseQuoted([at EXCEPT !.line = Tail(@)], fields, <<>>, r)
  ELSE ParseBare(at, fields, r, IndexOf(at.line, Comma))
ParseField(at, fields, r) ==
  ParseTrimmed(IF r.TrimLeadingSpace THEN [at EXCEPT !.line = TrimLeft(@)] ELSE at, fields, r)

ParseRecord(at, r) == ParseField(at, <<>>, r)
-----------------------------------------------------------------------------
Result(fields, err, line, column) ==
  [fields |-> fields, err |-> err, line |-> line, column |-> column]

\* The fields counted: the first record decides, also one that fails.
Counted(p, startLine) ==
  IF /\ reader.FieldsPerRecord > 0 /\ p.err = NoError
     /\ Len(p.fields) # reader.FieldsPerRecord
  THEN Result(p.fields, ErrFieldCount, startLine, 0)
  ELSE Result(p.fields, p.err, p.line, p.column)

ReadRecord(p, startLine) ==
  /\ results' = Append(results, Counted(p, startLine))
  /\ reader'  = [reader EXCEPT !.FieldsPerRecord = IF @ = 0 THEN Len(p.fields) ELSE @]
  /\ rest'    = p.rest
  /\ numLine' = p.line

Ended == results # <<>> /\ results[Len(results)].err = EOF

ReadEOF(n) ==
  /\ results' = Append(results, Result(<<>>, EOF, n, 0))
  /\ rest'    = <<>>
  /\ numLine' = n
  /\ UNCHANGED reader

\* The caller reads on after an error, as one may who wants the other records.
ReadAt(at) == IF at.eof THEN ReadEOF(at.n) ELSE ReadRecord(ParseRecord(at, reader), at.n)
Read ==
  /\ ~Ended
  /\ ReadAt(FirstLine(rest, numLine, reader.Comment))
  /\ UNCHANGED <<origin, crlf, text>>

Init ==
  /\ \/ origin \in Written /\ crlf \in BOOLEAN /\ text = WriteAll(origin, crlf)
     \/ origin = <<>> /\ crlf = FALSE /\ text \in Texts
  /\ reader \in Readers
  /\ rest = text /\ numLine = 0 /\ results = <<>>

Next == Read

Spec == Init /\ [][Next]_vars
-----------------------------------------------------------------------------
\* What a field is after it was written: with UseCRLF its carriage returns are
\* gone and its line feeds have one.
AsWritten(field) ==
  IF ~crlf THEN field
  ELSE Joined([i \in DOMAIN field |->
                 CASE field[i] = CR -> <<>> [] field[i] = LF -> <<CR, LF>> [] OTHER -> <<field[i]>>])

\* A record is written as a comment.
BeginsComment(record) == reader.Comment # NoChar /\ Starts(record[1], reader.Comment)

\* The records written are the records read, however the reader is set up,
\* without those of one empty field, which are empty lines.
RecordsReadBack ==
  Ended /\ origin # <<>> /\ (\A n \in DOMAIN origin : ~BeginsComment(origin[n])) =>
    LET Stays(record) == record # <<<<>>>>
        kept == SelectSeq(origin, Stays)
    IN  /\ Len(results) = Len(kept) + 1
        /\ \A n \in DOMAIN kept : /\ results[n].err \in {NoError, ErrFieldCount}
                                  /\ results[n].fields = [i \in DOMAIN kept[n] |-> AsWritten(kept[n][i])]

\* How many characters of the text are before a line.
RECURSIVE Before(_, _)
Before(s, line) == IF line = 1 THEN 0 ELSE IndexOf(s, LF) + Before(Drop(s, IndexOf(s, LF)), line - 1)

LineFeeds(s) == Len(SelectSeq(s, LAMBDA c : c = LF))
Lines(s)     == LineFeeds(s) + IF s = <<>> \/ s[Len(s)] = LF THEN 0 ELSE 1

\* At the end of the last line, or on the line after it.
AtEnd(e) ==
  \/ e.line = Lines(text) + 1 /\ e.column = 0
  \/ e.line = Lines(text) /\ e.column = Len(NoCR(Drop(text, Before(text, e.line))))

CharAt(offset) == IF offset \in 0..Len(text) - 1 THEN text[offset + 1] ELSE NoChar

\* An error is at a quote of the text, or where it ends; records that are
\* read without one have the same number of fields, if that is checked; and a
\* line is read once.
ErrorsPlaced ==
  /\ \A n \in DOMAIN results :
       LET e == results[n]
       IN  /\ e.err = ErrBareQuote =>
                CharAt(Before(text, e.line) + e.column) = Quote
           /\ e.err = ErrQuote =>
                \/ AtEnd(e)
                \/ CharAt(Before(text, e.line) + e.column) = Quote
  /\ reader.FieldsPerRecord >= 0 =>
       \A m, n \in DOMAIN results :
         results[m].err = NoError /\ results[n].err = NoError =>
           Len(results[m].fields) = Len(results[n].fields)
  /\ ~Ended /\ rest # <<>> => rest = Drop(text, Before(text, numLine + 1))
=============================================================================
