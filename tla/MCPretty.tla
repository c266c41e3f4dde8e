------------------------------ MODULE MCPretty ------------------------------
(***************************************************************************)
(* Documents that each operator of util.go makes of a few words, and of    *)
(* what another one made.                                                  *)
(***************************************************************************)
EXTENDS Pretty

a  == Text("a", 1)
bb == Text("bb", 2)
c  == Keyword("ccc", 3)
and == Keyword("and", 3)

Words0 == {a, c}
Lists  == {<<a>>, <<a, bb>>, <<c, a, bb>>}
Comma  == Text(",", 1)

Light(x, d) ==
  {NestUnder(x, d), AlignUnder(x, d), BracketDoc(Text("(", 1), d, Text(")", 1)),
   JoinNestedRight(and, <<x, d>>), Align(JoinNestedOuter(and, <<d, x, bb>>)),
   ConcatSpace(x, Align(JoinNestedOuter(Keyword("or", 2), <<d, x>>)))}
Tables(x, d) ==
  {Table("none", <<Row(c, d), Row(bb, x)>>), Table("right", <<Row(c, d), Row(NilDoc, NilDoc), Row(bb, x)>>),
   Table("left", <<Row(bb, d), Row(NilDoc, x), Row(c, NilDoc), Row(a, NoDoc)>>)}

Flat  == {Join(Comma, l) : l \in Lists}
Once  == UNION {Light(x, d) \cup Tables(x, d) : x \in Words0, d \in Flat}
Twice == UNION {Light(a, d) : d \in Light(c, Join(Comma, <<a, bb>>))}
           \cup Tables(a, BracketDoc(a, bb, c)) \cup {AlignUnder(a, d) : d \in Tables(a, bb)}

MCDocs   == Flat \cup Once \cup Twice
MCWidths == {0, 4, 7, 10, 14}
=============================================================================
