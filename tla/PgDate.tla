------------------------------- MODULE PgDate -------------------------------
(***************************************************************************)
(* The reader of dates and times of pkg/util/timeutil/pgdate.  A text is a *)
(* sequence of chunks, each a word after a separator.  A first pass takes  *)
(* the keywords out, a second one guesses the field of each number by the  *)
(* fields that are still wanted.                                           *)
(*                                                                         *)
(* An instant is a day, counted as Julian days are, with the seconds and   *)
(* nanoseconds of its clock and the zone of that.  package time, which     *)
(* turns fields into instants, is external: see Instant.                   *)
(***************************************************************************)
EXTENDS Integers, Sequences, FiniteSets

CONSTANTS
  Inputs,    \* records of fn, mode, text and meant: what is parsed, and what
             \* instant the text was written for, or NoInstant
  Locations, \* the names of time zones
  Today      \* the date of fe.now, as <<year, month, day>>

VARIABLES
  fn,        \* ParseDate, ParseTime or ParseTimestamp
  mode,
  meant,
  chunks,    \* textChunks
  fe,        \* fieldExtract
  stage,     \* "keywords", "numbers", "ok", "failed"
  idx,
  again,     \* ParseTime tries the second time
  result

vars == <<fn, mode, meant, chunks, fe, stage, idx, again, result>>

\* Words, and their chunks.
Word(kind, name, v, magnitude) == [kind |-> kind, name |-> name, v |-> v, magnitude |-> magnitude]
Number(v, magnitude)  == Word("number", "", v, magnitude)
NumberZ(v, magnitude) == Word("numberZ", "", v, magnitude)   \* with z or zulu after it
DayTHour(d, h)        == Word("dayTHour", "", d, h)
Julian(v)             == Word("julian", "", v, 0)            \* j and digits
Key(name)             == Word("keyword", name, 0, 0)
Name(name)            == Word("name", name, 0, 0)            \* anything else
NameJ(name)           == Word("nameJ", name, 0, 0)           \* that begins with j
Chunk(sep, word)      == [sep |-> sep, word |-> word]

Year     == "Year"
Month    == "Month"
Day      == "Day"
Era      == "Era"
Hour     == "Hour"
Minute   == "Minute"
Second   == "Second"
Nanos    == "Nanos"
Meridian == "Meridian"
TZHour   == "TZHour"
TZMinute == "TZMinute"
TZSecond == "TZSecond"

dateFields         == {Year, Month, Day, Era}
dateRequiredFields == {Year, Month, Day}
tzFields           == {TZHour, TZMinute, TZSecond}
timeFields         == {Hour, Minute, Second, Nanos, Meridian} \cup tzFields
timeRequiredFields == {Hour, Minute}
dateTimeFields     == dateFields \cup timeFields

\* The buffer of the chunks has one place less than there are fields.
MaxChunks == Cardinality(dateTimeFields) - 1

None   == ""
AM     == -1
PM     == 1
BCE    == -1
CE     == 1
-----------------------------------------------------------------------------
(* Calendar *)

isLeap(year) == year % 4 = 0 /\ (year % 100 # 0 \/ year % 400 = 0)
daysInMonth(leap, month) ==
  CASE month = 2 -> IF leap THEN 29 ELSE 28
    [] month \in {4, 6, 9, 11} -> 30
    [] OTHER -> 31

\* Years before -4800 are beyond the unsigned arithmetic of the code.
dateToJulianDay(year, month, day) ==
  LET m == IF month > 2 THEN month + 1 ELSE month + 13
      y == IF month > 2 THEN year + 4800 ELSE year + 4799
      century == y \div 100
  IN  (y * 365 - 32167) + ((y \div 4 - century) + century \div 4) + ((7834 * m) \div 256) + day

julianDayToDate(j) ==
  LET jd0   == j + 32044
      quad0 == jd0 \div 146097
      extra == (jd0 - quad0 * 146097) * 4 + 3
      jd1   == jd0 + 60 + quad0 * 3 + extra \div 146097
      quad1 == jd1 \div 1461
      jd2   == jd1 - quad1 * 1461
      y     == (jd2 * 4) \div 1461
      jd3   == 123 + IF y # 0 THEN (jd2 + 305) % 365 ELSE (jd2 + 306) % 366
      quad2 == (jd3 * 2141) \div 65536
  IN  <<(y + quad1 * 4) - 4800, ((quad2 + 10) % 12) + 1, jd3 - ((7834 * quad2) \div 256)>>

\* package time: days by the lengths of years and months, whatever the day is.
DaysBeforeMonth(leap, month) ==
  LET D[m \in 1..12] == IF m = 1 THEN 0 ELSE D[m - 1] + daysInMonth(leap, m - 1) IN D[month]
DayNumber(year, month, day) ==
  LET y == year - 1
  IN  1721425 + y * 365 + (y \div 4 - y \div 100) + y \div 400
      + DaysBeforeMonth(isLeap(year), month) + day

NextDay(d) ==
  IF d[3] < daysInMonth(isLeap(d[1]), d[2]) THEN <<d[1], d[2], d[3] + 1>>
  ELSE IF d[2] < 12 THEN <<d[1], d[2] + 1, 1>> ELSE <<d[1] + 1, 1, 1>>
Yesterday == CHOOSE d \in {<<y, m, n>> : y \in {Today[1] - 1, Today[1]}, m \in 1..12, n \in 1..31} :
               d[3] <= daysInMonth(isLeap(d[1]), d[2]) /\ NextDay(d) = Today

SecondsPerDay == 86400
Instant(day, seconds, nanos, location, offset) ==
  [day |-> day + seconds \div SecondsPerDay, seconds |-> seconds % SecondsPerDay,
   nanos |-> nanos, location |-> location, offset |-> offset]
NoInstant == Instant(-1, 0, 0, "none", 0)
\* What a keyword stands for, a location that no other instant has.
Sentinel(name) == Instant(0, 0, 0, name, 0)
-----------------------------------------------------------------------------
(* Fields *)

Wants(e, field) == field \in e.wanted

Fail(e, err) == [e EXCEPT !.err = IF @ = None THEN err ELSE @]

Set(e, field, v) ==
  IF e.err # None THEN e
  ELSE IF ~Wants(e, field) THEN Fail(e, "not wanted")
  ELSE [e EXCEPT !.data[field] = v, !.has = @ \cup {field}, !.wanted = @ \ {field}]

Reset(e, field, v) ==
  IF e.err # None THEN e
  ELSE IF field \notin e.has THEN Fail(e, "not set")
  ELSE [e EXCEPT !.data[field] = v]

Separators(field) ==
  CASE field = Year -> {"-", "/", " ", ","}
    [] field \in {Month, Day} -> {"-", "/", " "}
    [] field = TZHour -> {"-", "+"}
    [] field = Hour -> {" ", "t"}
    [] field \in {Minute, Second, TZMinute, TZSecond} -> {":"}
    [] field = Nanos -> {"."}

SetChunk(e, field, n) ==
  IF n.separator \in Separators(field) THEN Set(e, field, n.v) ELSE Fail(e, "prefix")

SetDate(e, d) == Set(Set(Set(e, Year, d[1]), Month, d[2]), Day, d[3])

SetDayOfYear(e, n) ==
  IF n.separator \notin {" ", "."} THEN Fail(e, "prefix")
  ELSE LET d == julianDayToDate(dateToJulianDay(e.data[Year], 1, 1) + n.v - 1)
       IN  Set(Set(Reset(e, Year, d[1]), Month, d[2]), Day, d[3])
-----------------------------------------------------------------------------
(* The first pass *)

\* At most one separator that is not a space; the first space character counts
\* as one unless it is a blank.
Spaces == {" ", "\t"}
Separator(prefix) ==
  LET S[k \in 0..Len(prefix)] ==
        IF k = 0 THEN " "
        ELSE IF S[k - 1] = " " THEN prefix[k]
        ELSE IF prefix[k] \in Spaces THEN S[k - 1] ELSE "many"
  IN  S[Len(prefix)]

matchedSentinel(e, name) ==
  IF e.sentinel # None THEN Fail(e, "input") ELSE [e EXCEPT !.sentinel = name]

fieldSetterUTC(e) == [e EXCEPT !.location = "UTC", !.wanted = @ \ tzFields]

Months == [jan |-> 1, feb |-> 2, mar |-> 3, apr |-> 4, may |-> 5, jun |-> 6,
           jul |-> 7, aug |-> 8, sep |-> 9, oct |-> 10, nov |-> 11, dec |-> 12]
keywordSetters(e, name) ==
  CASE name \in DOMAIN Months -> Set(e, Month, Months[name])
    [] name = "yesterday" -> SetDate(e, Yesterday)
    [] name = "today"     -> SetDate(e, Today)
    [] name = "tomorrow"  -> SetDate(e, NextDay(Today))
    [] name = "ad" -> Set(e, Era, CE)
    [] name = "bc" -> Set(e, Era, BCE)
    [] name = "am" -> Set(e, Meridian, AM)
    [] name = "pm" -> Set(e, Meridian, PM)
    [] name \in {"allballs", "gmt", "utc", "z", "zulu"} -> fieldSetterUTC(e)
    [] OTHER -> Fail(e, "unsupported")    \* abbreviations of time zones

\* A text month is not the third chunk, after a year and a day.
NoYearDayMonth(e, i) ==
  IF e.err = None /\ i = 3 /\ Wants(e, Year) /\ ~Wants(e, Month) /\ Wants(e, Day)
  THEN Fail(e, "input") ELSE e

Leftover(e, name) == [e EXCEPT !.leftover = Append(@, name)]
AppendNumber(e, chunk) ==
  LET s == Separator(chunk.sep)
  IN  IF s = "many" THEN Leftover(e, "digits")
      ELSE [e EXCEPT !.numbers =
              Append(@, [separator |-> s, v |-> chunk.word.v, magnitude |-> chunk.word.magnitude])]

TakeChunk(e, chunk, i) ==
  LET w == chunk.word
  IN  CASE w.kind = "number"  -> AppendNumber(e, chunk)
        [] w.kind = "numberZ" -> AppendNumber(fieldSetterUTC(e), chunk)
        [] w.kind = "julian"  -> SetDate(e, julianDayToDate(w.v))
        [] w.kind = "name"    -> Leftover(e, w.name)
        [] w.kind = "nameJ"   -> Fail(e, "input")
        [] w.kind = "keyword" ->
             CASE w.name \in {"epoch", "now"} -> matchedSentinel(e, w.name)
               [] w.name = "infinity" ->
                    matchedSentinel(e, IF chunk.sep # <<>> /\ chunk.sep[Len(chunk.sep)] = "-"
                                       THEN "-infinity" ELSE "infinity")
               [] OTHER -> NoYearDayMonth(keywordSetters(e, w.name), i)

TakeLocation(e) ==
  IF e.leftover = <<>> THEN e
  ELSE IF Len(e.leftover) = 1 /\ e.leftover[1] \in Locations
  THEN [e EXCEPT !.location = e.leftover[1],
                 !.required = @ \cup dateRequiredFields,
                 !.wanted   = (@ \cup dateFields) \ (e.has \cup tzFields)]
  ELSE Fail(e, "input")
-----------------------------------------------------------------------------
(* The second pass *)

Power10 == <<1, 10, 100, 1000, 10000, 100000, 1000000, 10000000, 100000000, 1000000000>>

\* A fraction of a second to nine places, further ones cut off.
ToNanos(n) ==
  [n EXCEPT !.v = IF n.magnitude <= 9 THEN @ * Power10[10 - n.magnitude]
                  ELSE @ \div Power10[n.magnitude - 8]]

IsDayOfYear(e, n) ==
  /\ n.magnitude = 3 /\ n.v \in 1..366
  /\ ~Wants(e, Year) /\ Wants(e, Month) /\ Wants(e, Day)

AfterPoint(e, n) ==
  IF IsDayOfYear(e, n) THEN SetDayOfYear(e, n)
  ELSE IF ~Wants(e, Second) /\ Wants(e, Nanos) THEN SetChunk(e, Nanos, ToNanos(n))
  ELSE Fail(e, "input")

Tweaked(e, yes) == IF yes THEN [e EXCEPT !.tweakYear = TRUE] ELSE e
Over(n, d)      == [n EXCEPT !.v = @ \div d]

FirstOfDate(e, n, nextSep) ==
  IF n.magnitude >= 6 /\ n.separator # "-" /\ nextSep \notin {"-", "/"}
  THEN SetChunk(Set(Set([e EXCEPT !.tweakYear = n.magnitude = 6], Day, n.v % 100),
                    Month, (n.v \div 100) % 100),
                Year, Over(n, 10000))
  ELSE IF n.magnitude >= 3 \/ e.mode = "YMD"
  THEN SetChunk(Tweaked(e, n.separator # "-" /\ n.magnitude <= 2), Year,
                [n EXCEPT !.v = IF n.separator = "-" THEN -1 * @ ELSE @])
  ELSE SetChunk(e, IF e.mode = "DMY" THEN Day ELSE Month, n)

\* Mutant: the year that was taken for a day stays one to be adjusted.
LastOfDateTweaked(e, n) ==
  IF e.textMonth /\ n.magnitude >= 3 /\ e.tweakYear
  THEN Reset(Set(e, Day, e.data[Year]), Year, n.v)
  ELSE SetChunk(e, Day, n)

LastOfDate(e, n) ==
  IF e.textMonth /\ n.magnitude >= 3 /\ e.tweakYear
  THEN Reset(Set([e EXCEPT !.tweakYear = FALSE], Day, e.data[Year]), Year, n.v)
  ELSE SetChunk(e, Day, n)

\* The fields of the date that are wanted decide.
InDate(e) == {Year, Month, Day} \cap e.wanted \notin {{}, {Month}}
TakeOfDate(e, n, nextSep) ==
  LET w == {Year, Month, Day} \cap e.wanted
  IN  CASE w = {Year, Month, Day} -> FirstOfDate(e, n, nextSep)
        [] w = {Month, Day} -> Set(e, Month, n.v)
        [] w = {Year, Day} ->
             IF e.textMonth /\ (n.magnitude >= 3 \/ e.mode = "YMD")
             THEN SetChunk(Tweaked(e, n.magnitude <= 2), Year, n)
             ELSE SetChunk(e, Day, n)
        [] w = {Day} -> LastOfDate(e, n)
        [] w = {Year, Month} -> SetChunk(e, Month, n)
        [] w = {Year} -> SetChunk(Tweaked(e, n.magnitude <= 2), Year, n)

\* Hours alone, or with minutes and perhaps seconds after them.
Packed(e, n, hour, minute, second) ==
  CASE n.magnitude \in {1, 2} -> SetChunk(e, hour, n)
    [] n.magnitude = 6 ->
         SetChunk(Set(Set(e, second, n.v % 100), minute, (n.v \div 100) % 100), hour, Over(n, 10000))
    [] n.magnitude = 4 ->
         SetChunk(Set(Set(e, second, 0), minute, n.v % 100), hour, Over(n, 100))
    [] OTHER -> Fail(e, "input")

TakeOfTime(e, n) ==
  IF {Hour, Minute, Second} \subseteq e.wanted THEN Packed(e, n, Hour, Minute, Second)
  ELSE IF Wants(e, Minute) THEN SetChunk(e, Minute, n)
  ELSE IF Wants(e, Second) THEN SetChunk(e, Second, n)
  ELSE Fail(e, "input")

\* A number that does not go on with the zone ends it, and is taken again:
\* none of the zone is wanted then.
EndZone(e, fields) == [e EXCEPT !.has = @ \cup fields, !.wanted = @ \ fields]
TakeOfZone(e, n) ==
  CASE Wants(e, TZHour) /\ n.separator \in {"-", "+"} ->
         Packed([e EXCEPT !.tzSign = IF n.separator = "-" THEN -1 ELSE 1], n, TZHour, TZMinute, TZSecond)
    [] ~Wants(e, TZHour) /\ Wants(e, TZMinute) ->
         IF n.separator = ":" THEN SetChunk(e, TZMinute, n) ELSE TakeOfTime(EndZone(e, tzFields), n)
    [] ~Wants(e, TZHour) /\ ~Wants(e, TZMinute) /\ Wants(e, TZSecond) ->
         IF n.separator = ":" THEN SetChunk(e, TZSecond, n) ELSE TakeOfTime(EndZone(e, {TZSecond}), n)
    [] OTHER -> TakeOfTime(e, n)

interpretNumber(e, i) ==
  LET n       == e.numbers[i]
      nextSep == IF i < Len(e.numbers) THEN e.numbers[i + 1].separator ELSE None
  IN  IF n.separator = "." THEN AfterPoint(e, n)
      ELSE IF IsDayOfYear(e, n) THEN SetDayOfYear(e, n)
      ELSE IF InDate(e) THEN TakeOfDate(e, n, nextSep)
      ELSE TakeOfZone(e, n)
-----------------------------------------------------------------------------
(* Validation *)

AllOrNone(e, fields) == fields \cap e.has = {} \/ fields \subseteq e.has

\* The year of the data, and the one whose Februaries are asked for.  The mutant
\* adjusts a year of two digits as if all were of this century.
FullYearRecent(e) ==
  LET year == e.data[Year]
  IN  IF Era \notin e.has /\ e.tweakYear /\ year < 100 THEN year + 2000 ELSE year
FullYear(e) ==
  LET year == e.data[Year]
  IN  CASE Era \notin e.has /\ e.tweakYear /\ year < 70 -> year + 2000
        [] Era \notin e.has /\ e.tweakYear /\ year \in 70..99 -> year + 1900
        [] OTHER -> year

\* Mutant: every February has 29 days.
ValidDateLeap(e) ==
  LET year  == FullYear(e)
      month == e.data[Month]
  IN  CASE Era \in e.has /\ e.data[Year] <= 0 -> Fail(e, "input")
        [] Era \notin e.has /\ e.tweakYear /\ e.data[Year] < 0 -> Fail(e, "input")
        [] Month \in e.has /\ month \notin 1..12 -> Fail(e, "range")
        [] Month \in e.has /\ month \in 1..12 /\ Day \in e.has
           /\ e.data[Day] \notin 1..daysInMonth(TRUE, month) -> Fail(e, "range")
        [] OTHER -> IF Era \in e.has /\ e.data[Era] < 0 THEN Reset(e, Year, 1 - year)
                    ELSE Reset(e, Year, year)

ValidDate(e) ==
  LET year  == FullYear(e)
      month == e.data[Month]
  IN  CASE Era \in e.has /\ e.data[Year] <= 0 -> Fail(e, "input")
        [] Era \notin e.has /\ e.tweakYear /\ e.data[Year] < 0 -> Fail(e, "input")
        [] Month \in e.has /\ month \notin 1..12 -> Fail(e, "range")
        [] Month \in e.has /\ month \in 1..12 /\ Day \in e.has
           /\ e.data[Day] \notin 1..daysInMonth(isLeap(year), month) -> Fail(e, "range")
        [] OTHER -> IF Era \in e.has /\ e.data[Era] < 0 THEN Reset(e, Year, 1 - year)
                    ELSE Reset(e, Year, year)

\* Mutant: twelve o'clock is left alone in the morning as in the afternoon.
Hour24Noon(e) ==
  LET hour == e.data[Hour]
  IN  IF e.data[Meridian] = PM /\ hour # 12 THEN hour + 12 ELSE hour

Hour24(e) ==
  LET hour == e.data[Hour]
  IN  CASE e.data[Meridian] = AM /\ hour = 12 -> 0
        [] e.data[Meridian] = PM /\ hour # 12 -> hour + 12
        [] OTHER -> hour

ClockSeconds(e) == (e.data[Hour] * 60 + e.data[Minute]) * 60 + e.data[Second]

ValidTime(e) ==
  LET hasDate == dateRequiredFields \cap e.has # {}
      hours   == IF e.data[Meridian] # 0 THEN 0..12 ELSE IF hasDate THEN 0..24 ELSE 0..23
  IN  IF \/ e.data[Hour] \notin hours
         \/ e.data[Minute] \notin 0..59
         \/ e.data[Second] \notin 0..(IF hasDate THEN 60 ELSE 59)
         \/ ClockSeconds(e) > SecondsPerDay
         \/ ClockSeconds(e) = SecondsPerDay /\ e.data[Nanos] > 0
      THEN Fail(e, "range")
      ELSE Reset(e, Hour, Hour24(e))

validate(e) ==
  IF \/ ~AllOrNone(e, dateRequiredFields) \/ ~AllOrNone(e, timeRequiredFields)
     \/ ~(e.required \subseteq e.has)
  THEN Fail(e, "input")
  ELSE LET d == IF Year \in e.has THEN ValidDate(e) ELSE e
       IN  IF d.err = None /\ Hour \in d.has THEN ValidTime(d) ELSE d

\* The bounds of a Date, 4714-11-24 BC the first one; the last one is far off.
lowDays == 0
MakeLocation(e) ==
  IF TZHour \notin e.has THEN [location |-> e.location, offset |-> 0]
  ELSE [location |-> "fixed",
        offset   |-> ((e.data[TZHour] * 60 + e.data[TZMinute]) * 60 + e.data[TZSecond]) * e.tzSign]

MakeTimestamp(e) ==
  LET z == MakeLocation(e)
  IN  Instant(DayNumber(e.data[Year], IF Month \in e.has THEN e.data[Month] ELSE 1, e.data[Day]),
              ClockSeconds(e), e.data[Nanos], z.location, z.offset)

Made(e) ==
  CASE e.sentinel # None -> Sentinel(e.sentinel)
    [] e.sentinel = None /\ fn = "date" ->
         Instant(DayNumber(e.data[Year], e.data[Month], e.data[Day]), 0, 0, "date", 0)
    [] e.sentinel = None /\ fn = "time" -> [MakeTimestamp(e) EXCEPT !.day = 0]
    [] e.sentinel = None /\ fn = "timestamp" -> MakeTimestamp(e)
-----------------------------------------------------------------------------
NoFields == [field \in dateTimeFields |-> 0]
Extract(asked, required, wanted) ==
  [mode |-> asked, data |-> NoFields, has |-> {}, wanted |-> wanted, required |-> required,
   tweakYear |-> FALSE, tzSign |-> 0, sentinel |-> None, location |-> "now",
   numbers |-> <<>>, leftover |-> <<>>, textMonth |-> FALSE, err |-> None]

\* ParseTime asks for no date and in no mode at first.
FirstExtract ==
  IF fn = "time" THEN Extract("YMD", timeRequiredFields, timeFields)
  ELSE Extract(mode, dateRequiredFields, dateTimeFields)

\* chunk(s): a day and an hour with a t between them are two.
Split(s) ==
  LET C[k \in 0..Len(s)] ==
        IF k = 0 THEN <<>>
        ELSE IF s[k].word.kind = "dayTHour"
        THEN C[k - 1] \o <<Chunk(s[k].sep, Number(s[k].word.v, 2)),
                           Chunk(<<"t">>, Number(s[k].word.magnitude, 2))>>
        ELSE Append(C[k - 1], s[k])
  IN  C[Len(s)]

\* Where a failure leads to: ParseTime tries again.
Failed(e) ==
  IF fn = "time" /\ ~again
  THEN /\ fe' = Extract(mode, timeRequiredFields, dateTimeFields)
       /\ again' = TRUE /\ stage' = "keywords" /\ idx' = 1 /\ UNCHANGED result
  ELSE fe' = e /\ stage' = "failed" /\ UNCHANGED <<idx, again, result>>

KeywordChunk ==
  /\ stage = "keywords" /\ idx <= Len(chunks)
  /\ LET e == TakeChunk(fe, chunks[idx], idx)
     IN  IF e.err # None THEN Failed(e)
         ELSE fe' = e /\ idx' = idx + 1 /\ UNCHANGED <<stage, again, result>>
  /\ UNCHANGED <<fn, mode, meant, chunks>>

EndKeywords ==
  /\ stage = "keywords" /\ idx > Len(chunks)
  /\ LET e == IF Len(chunks) \notin 1..MaxChunks THEN Fail(fe, "input") ELSE TakeLocation(fe)
     IN  IF e.err # None THEN Failed(e)
         ELSE IF e.sentinel # None
         THEN fe' = e /\ stage' = "ok" /\ result' = Made(e) /\ UNCHANGED <<idx, again>>
         ELSE /\ fe' = [e EXCEPT !.textMonth = ~Wants(e, Month)]
              /\ stage' = "numbers" /\ idx' = 1 /\ UNCHANGED <<again, result>>
  /\ UNCHANGED <<fn, mode, meant, chunks>>

NumberChunk ==
  /\ stage = "numbers" /\ idx <= Len(fe.numbers)
  /\ LET e == IF fe.wanted = {} THEN Fail(fe, "input")
              ELSE interpretNumber(fe, idx)
     IN  IF e.err # None THEN Failed(e)
         ELSE fe' = e /\ idx' = idx + 1 /\ UNCHANGED <<stage, again, result>>
  /\ UNCHANGED <<fn, mode, meant, chunks>>

EndNumbers ==
  /\ stage = "numbers" /\ idx > Len(fe.numbers)
  /\ LET e == validate(fe)
     IN  IF e.err # None THEN Failed(e)
         ELSE IF fn = "date" /\ Made(e).day < lowDays THEN Failed(Fail(e, "range"))
         ELSE fe' = e /\ stage' = "ok" /\ result' = Made(e) /\ UNCHANGED <<idx, again>>
  /\ UNCHANGED <<fn, mode, meant, chunks>>

Init ==
  /\ \E input \in Inputs :
       /\ fn = input.fn /\ mode = input.mode /\ meant = input.meant
       /\ chunks = Split(input.text) /\ fe = FirstExtract
  /\ stage = "keywords" /\ idx = 1 /\ again = FALSE /\ result = NoInstant

Next == KeywordChunk \/ EndKeywords \/ NumberChunk \/ EndNumbers

Spec == Init /\ [][Next]_vars
-----------------------------------------------------------------------------
\* A text that was written for an instant, in a layout that the mode is for, is
\* read as that instant.
DatesReadBack ==
  meant # NoInstant => stage # "failed" /\ (stage = "ok" => result = meant)

\* What is accepted has all the fields it needs, each once, and they are those
\* of a day there was and a time that day has.
DatesAreReal ==
  /\ fe.has \cap fe.wanted = {}
  /\ stage = "ok" /\ fe.sentinel = None =>
       LET f == fe.data
       IN  /\ fe.required \subseteq fe.has
           /\ Year \in fe.has =>
                f[Month] \in 1..12 /\ f[Day] \in 1..daysInMonth(isLeap(f[Year]), f[Month])
           /\ f[Hour] \in 0..24 /\ f[Minute] \in 0..59 /\ f[Second] \in 0..60
           /\ ClockSeconds(fe) <= SecondsPerDay
=============================================================================
