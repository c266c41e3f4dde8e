---------------------------- MODULE MCNormalize ----------------------------
(***************************************************************************)
(* Normalize over families of expressions: comparisons of arithmetic with  *)
(* one column, BETWEEN, the connectives over three-valued columns, tuples, *)
(* and arithmetic with the neutral elements.                               *)
(***************************************************************************)
EXTENDS Normalize

I(n) == Const(Datum("int", n))
R(n) == Const(Datum("dec", n))
X == Var("int", 1)
Y == Var("dec", 1)
Z == Var("float", 1)
P == Var("bool", 1)
Q == Var("bool", 2)
Truths == {Const(DBool(TRUE)), Const(DBool(FALSE)), NullExpr}

\* C and the expressions that add to, subtract from or divide one of C, or are
\* subtracted from.
Around(C, consts) ==
  C \cup {Binary(op, c, k) : op \in {"+", "-", "/"}, c \in C, k \in consts \ {I(0)}}
    \cup {Binary(op, k, c) : op \in {"+", "-"}, c \in C, k \in consts}
Comparisons(lefts, rights) == {Bool(op, <<l, r>>) : op \in Cmp, l \in lefts, r \in rights}

Linears ==
  Comparisons(Around(Around({X}, {I(1), I(-2)}), {I(2), I(-1)}), {I(3)})
    \cup Comparisons(Around({X}, {I(1), I(-2)}), {I(-1), NullExpr})
    \cup Comparisons({I(-2), NullExpr}, Around(Around({X}, {I(1)}), {I(-2)}))
    \cup Comparisons(Around({Y}, {I(2), I(-2), R(One \div 2)}), {I(1), R(-One \div 2), X})

\* Both sides of a range may be columns or NULL.
Ends == {I(-1), I(2), NullExpr, Binary("+", X, I(1)), Binary("/", I(1), I(0))}
RangeConds ==
  {Bool(op, <<a, b, c>>) : op \in Ranges, a \in {X, Binary("-", I(1), X), I(1), NullExpr}, b \in Ends, c \in Ends}

\* The connectives; the fraction of a decimal that no divisor of 0 has.
Fails == Bool("=", <<Binary("/", I(1), I(0)), I(1)>>)
Atoms == Truths \cup {P, Q, Bool("and", <<NullExpr, Const(DBool(TRUE))>>)}
Simple == Atoms \cup {Bool("not", <<a>>) : a \in {P, NullExpr}}
            \cup {Bool(op, <<a, b>>) : op \in {"and", "or"}, a \in Atoms, b \in Atoms}
Connected ==
  {Bool(op, <<a, b>>) : op \in {"and", "or"}, a \in Simple, b \in {Q, NullExpr, Const(DBool(FALSE))}}
    \cup {Bool(op, <<a, b>>) : op \in {"and", "or"}, a \in {P, NullExpr}, b \in Simple \cup {Fails}}
    \cup {Bool("not", <<Bool("not", <<a>>)>>) : a \in Simple}
    \cup {Bool("if", <<a, b, Q>>) : a \in Simple, b \in {P, Fails, NullExpr}}
    \cup {Bool("coalesce", <<a, b, c>>) : a \in Simple, b \in {P, NullExpr, Const(DBool(TRUE))}, c \in {Q, Fails}}
    \cup {Bool(op, <<a, b>>) : op \in {"distinct", "notdistinct", "!=", "="}, a \in Atoms, b \in Atoms}

Tuple(args) == Node("tuple", args, Datum("tuple", 0))
Tuples == {Tuple(s) : s \in UNION {[1 .. n -> {I(2), I(1), NullExpr, X}] : n \in 0 .. 3}}
Members == {Bool(op, <<a, t>>) : op \in {"in", "notin"}, a \in {X, I(1), NullExpr}, t \in Tuples}

Neutral ==
  {Binary(op, a, b) : op \in Arith \ {"//"}, a \in {X, Y}, b \in {I(0), I(1), R(0), R(One), NullExpr}}
    \cup {Binary(op, a, b) : op \in {"+", "*"}, a \in {I(0), I(1), R(0), R(One), NullExpr}, b \in {X, Y}}
    \cup {Binary("//", X, b) : b \in {I(1), I(2), I(0)}}
Negated == {Node("neg", <<a>>, a.d) : a \in Neutral \cup {X, Y, I(0), R(0)}}
Arithmetic == Neutral \cup Negated \cup {Node("neg", <<a>>, a.d) : a \in Negated}

KeptExprs == Linears \cup RangeConds \cup Connected \cup Members \cup Arithmetic

\* An int column that is divided by a negative number, and compared with the
\* largest int.
TurnedExprs == Comparisons({Binary("/", X, I(-2))}, {I(1), I(MaxInt)})
=============================================================================
