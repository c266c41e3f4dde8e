------------------------------- MODULE MCKeys -------------------------------
(***************************************************************************)
(* Pairs of rows with one column of any type and direction, and perhaps an *)
(* int after it, with values around every boundary of the encodings.       *)
(***************************************************************************)
EXTENDS KeyEncoding

\* The values, and the two markers that may stand for one.
WithMarkers(S) ==
  {Cell(v) : v \in S} \cup {[mark |-> m, v |-> CHOOSE v \in S : TRUE] : m \in {"null", "notnull"}}
SeqsOf(S, n) == UNION {[1 .. k -> S] : k \in 0 .. n}

\* The largest int is Half - 1; intSmall is the largest that has one byte.
Half == Max64 \div 2
Ints  == {-Half, 1 - Half, -Base, 1 - Base, 2 - Base, -2, -1, 0, 1,
          intSmall, intSmall + 1, Base - 1, Base, Base + 1, Half - 2, Half - 1}
Uints == {0, 1, intSmall, intSmall + 1, Base - 1, Base, Max64 - 1}

\* Escapes, terminators, their complements, and prefixes of each other.
Strings == SeqsOf({escape, escapedTerm, Base - 2, escaped00}, 2) \cup [1 .. 3 -> {escape, escaped00}]
Bits == {[words |-> w, last |-> l] : w \in SeqsOf({0, intSmall + 1, Max64 - 1}, 2), l \in {1, 16}}

\* Coefficients of one to four digits, with and without zeros at the end, and
\* exponents on both sides of every marker.
Decimals ==
  {Decimal("finite", n, c, e) :
     n \in BOOLEAN, c \in {0, 1, 3, 4, 9, 26}, e \in {-4, -2, -1, 0, 3}}
    \cup {Decimal("infinite", n, 0, 0) : n \in BOOLEAN} \cup {Decimal("nan", FALSE, 0, 0)}
Floats == {0, 1, Base, Infinity, Infinity + 1, SignBit, SignBit + 1, SignBit + Base, SignBit + Infinity}
Durations == {<<0, 0, 0>>, <<0, 1, 0>>, <<0, 1, 1>>, <<1, 0, 0>>, <<1, 1, 1>>,
              <<-1, 0, 0>>, <<-1, -1, -1>>, <<0, 0, -1>>, <<20, 0, 1>>}

MCCells ==
  << [int      |-> WithMarkers(Ints),
      uint     |-> WithMarkers(Uints),
      bytes    |-> WithMarkers(Strings),
      bits     |-> WithMarkers(Bits),
      decimal  |-> WithMarkers(Decimals),
      float    |-> WithMarkers(Floats),
      time     |-> WithMarkers({-Base, -1, 0, 1} \X {0, 3, Base}),
      timetz   |-> WithMarkers({0, 1, 2} \X {-1, 0, 1}),
      duration |-> WithMarkers(Durations)],
     [int |-> {Cell(-Base), Cell(0)}] >>
MCColumns ==
  << [type : DOMAIN MCCells[1], desc : BOOLEAN], [type : {"int"}, desc : {FALSE}] >>

\* Months and days of different signs.
MixedColumns == << [type : {"duration"}, desc : BOOLEAN] >>
MixedCells   == << [duration |-> {Cell(d) : d \in {<<0, 0, 0>>, <<1, -2, 0>>, <<0, 2, 0>>, <<0, 1, 0>>, <<1, 0, 0>>,
                                                   <<1, 1, 0>>, <<2, -1, 0>>, <<0, 2, 1>>, <<1, -1, -1>>}}] >>
=============================================================================
