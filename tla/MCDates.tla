------------------------------ MODULE MCDates ------------------------------
(***************************************************************************)
(* Texts that are written for an instant, in the layouts that the tests of *)
(* pgdate list, and short texts of numbers and keywords in any order.      *)
(***************************************************************************)
EXTENDS PgDate

CONSTANT LeapBC   \* whether a leap day before Christ is among the dates

MCToday == <<2000, 2, 29>>

Dates ==
  {<<1999, 1, 8>>, <<2000, 2, 29>>, <<2000, 3, 1>>, <<2000, 2, 28>>, <<1970, 1, 1>>, <<2069, 12, 31>>,
   <<98, 7, 4>>, <<1900, 2, 28>>, <<12345, 6, 7>>, <<123456, 3, 5>>, <<0, 12, 31>>, <<-98, 1, 8>>,
   <<-4713, 11, 24>>}
  \cup (IF LeapBC THEN {<<-4, 2, 29>>} ELSE {})

\* Numbers in figures, chunks after at most one separator.
Digits(n)  == IF n < 10 THEN 1 ELSE IF n < 100 THEN 2 ELSE IF n < 1000 THEN 3 ELSE IF n < 10000 THEN 4
              ELSE IF n < 100000 THEN 5 ELSE 6
Short(n)   == Number(n, Digits(n))
Two(n)     == Number(n, 2)
Four(n)    == Number(n, IF n < 10000 THEN 4 ELSE Digits(n))
C(s, word) == Chunk(IF s = "" THEN <<>> ELSE <<s>>, word)
Parts(s, words) == [i \in DOMAIN words |-> C(IF i = 1 THEN "" ELSE s, words[i])]
MonthName(m)    == Key(CHOOSE name \in DOMAIN Months : Months[name] = m)

\* The layouts of a date, those with a year of two digits for a recent one only.
LongLayouts(m, d) ==
  LET y == Four(d[1])
      n == MonthName(d[2])
      x == Short(d[3])
  IN  {Parts("-", <<y, Two(d[2]), Two(d[3])>>), Parts("/", <<y, Short(d[2]), x>>),
       Parts("-", <<y, n, x>>), Parts("-", <<x, n, y>>),
       <<C("", n), C(" ", x), Chunk(<<",", " ">>, y)>>}
      \cup (IF m = "MDY" THEN {Parts("/", <<Short(d[2]), x, y>>)}
            ELSE IF m = "DMY" THEN {Parts("/", <<x, Short(d[2]), y>>)} ELSE {})

Packable(d)  == d[1] \in 0..9999
DayInYear(d) == DayNumber(d[1], d[2], d[3]) - DayNumber(d[1], 1, 1) + 1
PackedLayouts(d) ==
  {<<C("", Number(d[1] * 10000 + d[2] * 100 + d[3], 8))>>,
   <<C("", Four(d[1])), C(".", Number(DayInYear(d), 3))>>,
   <<C("", Four(d[1])), C(" ", Number(DayInYear(d), 3))>>}

Recent(d) == d[1] \in 1970..2069
RecentLayouts(m, d) ==
  LET y == Two(d[1] % 100)
      n == MonthName(d[2])
      x == Two(d[3])
  IN  {<<C("", Number((d[1] % 100) * 10000 + d[2] * 100 + d[3], 6))>>}
      \cup CASE m = "YMD" -> {Parts("/", <<y, Two(d[2]), x>>), Parts("-", <<y, n, x>>)}
             [] m = "DMY" -> {Parts("/", <<x, Two(d[2]), y>>), Parts("-", <<x, n, y>>), Parts("-", <<n, x, y>>)}
             [] m = "MDY" -> {Parts("/", <<Two(d[2]), x, y>>), Parts("-", <<x, n, y>>), Parts("-", <<n, x, y>>)}

Before(d) == <<1 - d[1], d[2], d[3]>>
DateTexts(m, d) ==
  {<<C("", Julian(DayNumber(d[1], d[2], d[3])))>>}
  \cup (IF d[1] > 0 THEN LongLayouts(m, d)
        ELSE {s \o <<C(" ", Key("bc"))>> : s \in LongLayouts(m, Before(d))}
               \cup {<<C(IF d[1] < 0 THEN "-" ELSE "", Four(-d[1])), C("-", Two(d[2])), C("-", Two(d[3]))>>})
  \cup (IF Packable(d) THEN PackedLayouts(d) ELSE {})
  \cup (IF Recent(d) THEN RecentLayouts(m, d) ELSE {})
  \cup {<<C("", Key(name))>> : name \in
          (IF d = MCToday THEN {"today"} ELSE {}) \cup (IF d = NextDay(MCToday) THEN {"tomorrow"} ELSE {})
          \cup (IF MCToday = NextDay(d) THEN {"yesterday"} ELSE {})}

\* The layouts of a time, with their second of the day.
Clock(h, m, s) == (h * 60 + m) * 60 + s
TimeText(words, seconds, nanos) == [text |-> words, seconds |-> seconds, nanos |-> nanos]
Hours(s, h, m) == <<C(s, Two(h)), C(":", Two(m))>>
TimeTexts(s) ==
  {TimeText(Hours(s, 4, 5), Clock(4, 5, 0), 0),
   TimeText(Hours(s, 4, 5) \o <<C(":", Two(6))>>, Clock(4, 5, 6), 0),
   TimeText(Hours(s, 4, 5) \o <<C(":", Two(6)), C(".", Number(1, 6))>>, Clock(4, 5, 6), 1000),
   TimeText(Hours(s, 4, 5) \o <<C(":", Two(6)), C(".", Number(123456789, 10))>>, Clock(4, 5, 6), 12345678),
   TimeText(<<C(s, Number(405, 4))>>, Clock(4, 5, 0), 0),
   TimeText(<<C(s, Number(40506, 6))>>, Clock(4, 5, 6), 0),
   TimeText(Hours(s, 4, 5) \o <<C(" ", Key("pm"))>>, Clock(16, 5, 0), 0),
   TimeText(Hours(s, 12, 30) \o <<C(" ", Key("pm"))>>, Clock(12, 30, 0), 0),
   TimeText(Hours(s, 12, 30) \o <<C(" ", Key("am"))>>, Clock(0, 30, 0), 0)}
RolloverTexts(s) ==
  {TimeText(Hours(s, 24, 0), Clock(24, 0, 0), 0),
   TimeText(Hours(s, 23, 59) \o <<C(":", Two(60))>>, Clock(24, 0, 0), 0)}

\* The ways to give the zone.
Zone(words, location, offset) == [text |-> words, location |-> location, offset |-> offset]
Zones ==
  {Zone(<<>>, "now", 0),
   Zone(<<C("", Key("z"))>>, "UTC", 0),
   Zone(<<C(" ", Name("Zone"))>>, "Zone", 0),
   Zone(<<C("+", Two(4))>>, "fixed", Clock(4, 0, 0)),
   Zone(<<C("-", Two(4)), C(":", Two(30))>>, "fixed", -Clock(4, 30, 0)),
   Zone(<<C("-", Number(30, 4))>>, "fixed", -Clock(0, 30, 0)),
   Zone(<<C("+", Number(83015, 6))>>, "fixed", Clock(8, 30, 15)),
   Zone(<<C("-", Two(8)), C(":", Two(30)), C(":", Two(15))>>, "fixed", -Clock(8, 30, 15))}

Input(f, m, text, instant) == [fn |-> f, mode |-> m, text |-> text, meant |-> instant]
Modes == {"YMD", "DMY", "MDY"}
Day0  == <<1999, 1, 8>>
DayOf(d) == DayNumber(d[1], d[2], d[3])

DateInputs ==
  UNION {{Input("date", m, text \o more, Instant(DayOf(d), 0, 0, "date", 0)) :
            text \in DateTexts(m, d), more \in {<<>>, Hours(" ", 24, 0)}} : m \in Modes, d \in Dates}
TimestampInputs ==
  UNION {{Input("timestamp", m, text \o t.text, Instant(DayOf(d), t.seconds, t.nanos, "now", 0)) :
            text \in DateTexts(m, d),
            t \in {TimeText(<<>>, 0, 0), TimeText(Hours(" ", 23, 59), Clock(23, 59, 0), 0)}} :
         m \in Modes, d \in Dates}
ZonedInputs ==
  {Input("timestamp", m, Parts("-", <<Four(1999), Two(1), Two(8)>>) \o t.text \o z.text,
         Instant(DayOf(Day0), t.seconds, t.nanos, z.location, z.offset)) :
     m \in Modes, t \in TimeTexts(" ") \cup RolloverTexts(" ") \cup {TimeText(<<>>, 0, 0)}, z \in Zones}
JoinedInputs ==
  {Input("timestamp", m, <<C("", Four(1999)), C("-", Two(1)), C("-", DayTHour(8, 4)), C(":", Two(5))>> \o z.text,
         Instant(DayOf(Day0), Clock(4, 5, 0), 0, z.location, z.offset)) : m \in Modes, z \in Zones}
\* A place is a zone on a day only.
TimeInputs ==
  {Input("time", m, t.text \o z.text, [Instant(0, t.seconds, t.nanos, z.location, z.offset) EXCEPT !.day = 0]) :
     m \in Modes, t \in TimeTexts(" "), z \in {x \in Zones : x.location # "Zone"}}
  \cup UNION {{Input("time", m, day \o t.text \o z.text,
                      [Instant(0, t.seconds, t.nanos, z.location, z.offset) EXCEPT !.day = 0]) :
                 day \in RecentLayouts(m, Day0), t \in TimeTexts(" "), z \in Zones} : m \in Modes}

\* Anything else, written for nothing.
AnyWords ==
  {Chunk(<<s>>, w) : s \in {" ", "-", ":"}, w \in {Short(2), Two(12), Two(29), Number(366, 3), Four(1999)}}
  \cup {C(" ", Key(name)) : name \in {"feb", "pm", "today"}} \cup {C(" ", NumberZ(12, 2))}
OddTexts == {<<>>, <<C(" ", Name("Nowhere"))>>, [n \in 1..MaxChunks + 1 |-> C(" ", Short(1))],
             <<C("", Key("epoch")), C(" ", Key("now"))>>, <<C("-", Key("infinity"))>>}
AnyInputs ==
  {Input(f, m, text, NoInstant) :
     f \in {"time", "timestamp"}, m \in Modes,
     text \in OddTexts \cup UNION {[1..n -> AnyWords] : n \in 1..3}}

MCInputs == DateInputs \cup TimestampInputs \cup ZonedInputs \cup JoinedInputs \cup TimeInputs \cup AnyInputs
=============================================================================
