------------------------------- MODULE Pretty -------------------------------
(***************************************************************************)
(* The pretty printer of pkg/util/pretty: documents, which have several    *)
(* layouts, and the choice of one for a width.                             *)
(*                                                                         *)
(* A document is a node with the documents under it; those that the code   *)
(* computes from the column when it renders are nodes of their own, align  *)
(* and outer.  A text is a name with a width.  That the code keeps what it *)
(* has computed, to find it again, is left out.                            *)
(***************************************************************************)
EXTENDS Integers, Sequences

CONSTANTS
  Docs,      \* the documents to print
  Widths,    \* and the line widths to print them for
  TabWidth,
  Half       \* int16 counts from -Half to Half - 1

PrettyAssumption == TabWidth \in Nat \ {0} /\ Half \in Nat \ {0}

VARIABLES
  doc,
  width,
  printed    \* the selected document, or the marker NotYet

vars == <<doc, width, printed>>

Int16(n) == ((n + Half) % (2 * Half)) - Half
-----------------------------------------------------------------------------
(* Documents *)

Node(tag, s, n, kids) == [tag |-> tag, s |-> s, n |-> n, kids |-> kids]
NilDoc        == Node("nil", "", 0, <<>>)
Text(s, n)    == Node("text", s, n, <<>>)
Keyword(s, n) == Node("keyword", s, n, <<>>)
Line          == Node("line", "", 0, <<>>)
SoftBreak     == Node("softbreak", "", 0, <<>>)
Pad(n)        == Node("pad", "", n, <<>>)
NestS(n, d)   == Node("nests", "", n, <<d>>)
NestT(d)      == Node("nestt", "", 0, <<d>>)
Union(x, y)   == Node("union", "", 0, <<x, y>>)
Align(d)      == Node("align", "", 0, <<d>>)
textSpace     == Text(" ", 1)

Concat(a, b) ==
  IF a = NilDoc THEN b ELSE IF b = NilDoc THEN a ELSE Node("concat", "", 0, <<a, b>>)

RECURSIVE Concats(_)
Concats(d) ==
  IF d = <<>> THEN NilDoc ELSE IF Len(d) = 1 THEN d[1] ELSE Concat(d[1], Concats(Tail(d)))

ConcatWith(a, between, b) ==
  IF a = NilDoc THEN b ELSE IF b = NilDoc THEN a ELSE Concat(a, Concat(between, b))
ConcatLine(a, b)  == ConcatWith(a, Line, b)
ConcatSpace(a, b) == ConcatWith(a, textSpace, b)

RECURSIVE Stack(_)
Stack(d) ==
  IF d = <<>> THEN NilDoc ELSE IF Len(d) = 1 THEN d[1] ELSE ConcatLine(d[1], Stack(Tail(d)))

\* Mutant: a pad is flattened to itself.
RECURSIVE flattenPad(_)
flattenPad(d) ==
  CASE d.tag \in {"nil", "softbreak"} -> NilDoc
    [] d.tag = "concat" -> Concat(flattenPad(d.kids[1]), flattenPad(d.kids[2]))
    [] d.tag \in {"nestt", "nests", "align"} -> [d EXCEPT !.kids = <<flattenPad(@[1])>>]
    [] d.tag \in {"text", "keyword", "pad"} -> d
    [] d.tag = "line"  -> textSpace
    [] d.tag = "union" -> flattenPad(d.kids[1])
    [] d.tag \in {"outer", "outerFlat"} -> [d EXCEPT !.tag = "outerFlat"]

RECURSIVE flatten(_)
flatten(d) ==
  CASE d.tag \in {"nil", "softbreak", "pad"} -> NilDoc
    [] d.tag = "concat" -> Concat(flatten(d.kids[1]), flatten(d.kids[2]))
    [] d.tag \in {"nestt", "nests", "align"} -> [d EXCEPT !.kids = <<flatten(@[1])>>]
    [] d.tag \in {"text", "keyword"} -> d
    [] d.tag = "line"  -> textSpace
    [] d.tag = "union" -> flatten(d.kids[1])
    [] d.tag \in {"outer", "outerFlat"} -> [d EXCEPT !.tag = "outerFlat"]

Group(d) == Union(flatten(d), d)

RECURSIVE JoinDoc(_, _)
JoinDoc(s, d) ==
  IF d = <<>> THEN NilDoc ELSE IF Len(d) = 1 THEN d[1]
  ELSE Concat(d[1], Concat(s, JoinDoc(s, Tail(d))))
Join(s, d) == JoinDoc(Concat(s, Line), d)

JoinNestedRight(sep, d) ==
  IF d = <<>> THEN NilDoc
  ELSE Concat(d[1], Concats([i \in 1..Len(d) - 1 |->
                               Concat(Line, ConcatSpace(sep, NestT(Group(d[i + 1]))))]))

NestUnder(head, nested) == Group(Concat(head, NestT(Concat(Line, Group(nested)))))

\* Mutant: the two ways to put the document are in the wrong order.
AlignUnderTurned(head, nested) ==
  LET g == Group(nested)
  IN  Group(Union(Concat(head, NestT(Concat(Line, g))), ConcatSpace(head, Align(g))))

AlignUnder(head, nested) ==
  LET g == Group(nested)
  IN  Group(Union(ConcatSpace(head, Align(g)), Concat(head, NestT(Concat(Line, g)))))

BracketDoc(l, x, r) == Group(Concats(<<l, NestT(Concat(SoftBreak, x)), SoftBreak, r>>))

\* The operator lbl in the margin, if the nesting has room for it.
JoinNestedOuter(lbl, d) == Node("outer", lbl.s, lbl.n, <<lbl>> \o d)
OuterAt(o, spaces) ==
  LET sep == o.kids[1]
      d   == Tail(o.kids)
  IN  IF spaces < o.n + 1 THEN JoinNestedRight(sep, d)
      ELSE Concat(d[1], NestS(0 - o.n - 1,
             Concats([i \in 1..Len(d) - 1 |->
                        Concat(Line, ConcatSpace(sep, Align(Group(d[i + 1]))))])))

\* Rows of a label, NilDoc for none, and a document; NoDoc is a nil pointer.
NoDoc == Node("none", "", 0, <<>>)
Row(label, d) == [label |-> label, doc |-> d]
Shown(rows) ==
  SelectSeq(rows, LAMBDA r : r.doc # NoDoc /\ ~(r.label = NilDoc /\ r.doc = NilDoc))

computeLeftColumnWidth(rows) ==
  LET W[k \in 0..Len(rows)] ==
        IF k = 0 THEN 0
        ELSE IF rows[k].doc # NoDoc /\ rows[k].label.n > W[k - 1] THEN rows[k].label.n ELSE W[k - 1]
  IN  W[Len(rows)]

makeAlignedTableItems(leftPad, rows) ==
  LET leftWidth == computeLeftColumnWidth(rows)
      shown     == Shown(rows)
      Left(l)   == IF leftPad THEN Concat(Pad(leftWidth - l.n), l) ELSE Concat(l, Pad(leftWidth - l.n))
  IN  [i \in DOMAIN shown |->
         LET r == shown[i]
         IN  IF r.label = NilDoc THEN Concat(Pad(leftWidth + 1), Align(Group(r.doc)))
             ELSE IF r.doc = NilDoc THEN Left(r.label)
             ELSE ConcatSpace(Left(r.label), Align(Group(r.doc)))]

makeTableNestedSections(rows) ==
  LET shown == Shown(rows)
  IN  [i \in DOMAIN shown |->
         LET r == shown[i]
         IN  IF r.label = NilDoc THEN Group(r.doc)
             ELSE IF r.doc = NilDoc THEN r.label
             ELSE Concat(r.label, NestT(Concat(Line, Group(r.doc))))]

Table(alignment, rows) ==
  LET sections == Stack(makeTableNestedSections(rows))
  IN  IF alignment = "none" THEN Group(sections)
      ELSE Group(Union(Stack(makeAlignedTableItems(alignment = "right", rows)), sections))
-----------------------------------------------------------------------------
(* Selection *)

Pos(tabs, spaces) == [tabs |-> tabs, spaces |-> spaces]
Item(i, d)        == [i |-> i, d |-> d]
Best(tag, s, i)   == [tag |-> tag, s |-> s, i |-> i]

\* What a node that is neither a union nor shown is replaced by.
Replaced(k, i, d) ==
  CASE d.tag = "nil"    -> <<>>
    [] d.tag = "concat" -> <<Item(i, d.kids[1]), Item(i, d.kids[2])>>
    [] d.tag = "nests"  -> <<Item(Pos(i.tabs, Int16(i.spaces + d.n)), d.kids[1])>>
    [] d.tag = "nestt"  -> <<Item(Pos(i.tabs + 1 + i.spaces \div TabWidth, 0), d.kids[1])>>
    [] d.tag = "align"  -> <<Item(i, NestS(k.spaces - i.spaces, d.kids[1]))>>
    [] d.tag = "outer"  -> <<Item(i, OuterAt(d, i.spaces))>>
    [] d.tag = "outerFlat" -> <<Item(i, flatten(OuterAt(d, i.spaces)))>>

\* What a node shows, and the column after it.
IsShown(d) == d.tag \in {"text", "keyword", "line", "softbreak", "pad"}
ShownAs(i, d) ==
  CASE d.tag \in {"text", "keyword"} -> Best(d.tag, d.s, Pos(0, d.n))
    [] d.tag \in {"line", "softbreak"} -> Best("line", "", i)
    [] d.tag = "pad" -> Best("spaces", "", Pos(0, d.n))
After(k, i, d) ==
  IF d.tag \in {"line", "softbreak"} THEN i ELSE Pos(k.tabs, Int16(k.spaces + d.n))

\* Mutant: what follows the document on its line is not looked at.
RECURSIVE fitsText(_, _)
fitsText(w, x) ==
  IF w < 0 THEN FALSE
  ELSE IF x = <<>> \/ x[1].tag \in {"line", "spaces"} THEN TRUE
  ELSE fitsText(Int16(w - x[1].i.spaces), Tail(x))

RECURSIVE fits(_, _)
fits(w, x) ==
  IF w < 0 THEN FALSE
  ELSE IF x = <<>> \/ x[1].tag = "line" THEN TRUE
  ELSE fits(Int16(w - x[1].i.spaces), Tail(x))

remainder(k) == Int16(width - k.spaces - k.tabs * TabWidth)

RECURSIVE be(_, _), better(_, _, _)
better(k, x, other) == IF fits(remainder(k), x) THEN x ELSE be(k, other)
be(k, xlist) ==
  IF xlist = <<>> THEN <<>>
  ELSE LET i == xlist[1].i
           d == xlist[1].d
           z == Tail(xlist)
       IN  IF d.tag = "union"
           THEN better(k, be(k, <<Item(i, d.kids[1])>> \o z), <<Item(i, d.kids[2])>> \o z)
           ELSE IF IsShown(d) THEN <<ShownAs(i, d)>> \o be(After(k, i, d), z)
           ELSE be(k, Replaced(k, i, d) \o z)

NotYet == <<Best("none", "", Pos(0, 0))>>

PrintDoc ==
  /\ printed = NotYet
  /\ printed' = be(Pos(0, 0), <<Item(Pos(0, 0), doc)>>)
  /\ UNCHANGED <<doc, width>>

Init == doc \in Docs /\ width \in Widths /\ printed = NotYet
Next == PrintDoc
Spec == Init /\ [][Next]_vars
-----------------------------------------------------------------------------
\* Every layout of a document: each union is one of its two.
RECURSIVE Layouts(_, _)
Layouts(k, xlist) ==
  IF xlist = <<>> THEN {<<>>}
  ELSE LET i == xlist[1].i
           d == xlist[1].d
           z == Tail(xlist)
       IN  IF d.tag = "union"
           THEN Layouts(k, <<Item(i, d.kids[1])>> \o z) \cup Layouts(k, <<Item(i, d.kids[2])>> \o z)
           ELSE IF IsShown(d) THEN {<<ShownAs(i, d)>> \o l : l \in Layouts(After(k, i, d), z)}
           ELSE Layouts(k, Replaced(k, i, d) \o z)
AllLayouts == Layouts(Pos(0, 0), <<Item(Pos(0, 0), doc)>>)

\* A layout in lines, each with the place it begins at, and the width of one.
LinesOf(l) ==
  LET W[n \in 0..Len(l)] ==
        IF n = 0 THEN <<<<>>>>
        ELSE IF l[n].tag = "line" THEN Append(W[n - 1], <<l[n]>>)
        ELSE [W[n - 1] EXCEPT ![Len(W[n - 1])] = Append(@, l[n])]
  IN  W[Len(l)]
WidthOf(line) ==
  LET W[n \in 0..Len(line)] ==
        IF n = 0 THEN 0 ELSE W[n - 1] + line[n].i.tabs * TabWidth + line[n].i.spaces
  IN  W[Len(line)]

\* The better of two layouts is that with the better of the first lines in which
\* they differ: one that fits, the wider one of two that do, the narrower one of
\* two that do not.
BetterLine(m, n) ==
  IF m <= width THEN n <= m \/ n > width ELSE n >= m
BetterThan(p, l) ==
  \E n \in DOMAIN p :
    /\ n \in DOMAIN l /\ p[n] # l[n]
    /\ \A i \in 1..n - 1 : p[i] = l[i]
    /\ BetterLine(WidthOf(p[n]), WidthOf(l[n]))

Words(l) == SelectSeq(l, LAMBDA x : x.tag \in {"text", "keyword"} /\ x.s # " ")

Has(l, tag) == \E n \in DOMAIN l : l[n].tag = tag

\* What is printed is one of the layouts, with the words of all of them, and the
\* best one; and columns are padded only among several lines.
LayoutIsBest ==
  printed # NotYet =>
    LET all   == AllLayouts
        lines == LinesOf(printed)
    IN  /\ printed \in all
        /\ Has(printed, "spaces") => Has(printed, "line")
        /\ \A l \in all \ {printed} :
             Words(l) = Words(printed) /\ BetterThan(lines, LinesOf(l))

\* The unions in a document, with those that its parts are replaced by.
FirstWidth(l) == WidthOf(LinesOf(l)[1])
RECURSIVE UnionsOrdered(_)
UnionsOrdered(d) ==
  /\ d.tag = "union" =>
       LET First(x) == {FirstWidth(l) : l \in Layouts(Pos(0, 0), <<Item(Pos(0, 0), x)>>)}
       IN  \A m \in First(d.kids[1]), n \in First(d.kids[2]) : m >= n
  /\ \A i \in DOMAIN d.kids : UnionsOrdered(d.kids[i])
=============================================================================
