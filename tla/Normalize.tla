----------------------------- MODULE Normalize -----------------------------
(***************************************************************************)
(* NormalizeExpr (pkg/sql/sem/tree/normalize.go), which simplifies a typed *)
(* expression before it is evaluated, and Eval (eval.go), which it must    *)
(* not change.                                                             *)
(*                                                                         *)
(* A node has an operator, children and a datum: its value if it is one,   *)
(* else its type, with the number of the column if it is a variable.       *)
(* Numbers other than integers count the parts of one: they are kept to    *)
(* values whose quotients are exact.                                       *)
(***************************************************************************)
EXTENDS Integers, Sequences, FiniteSets

LOCAL INSTANCE SequencesExt

CONSTANTS
  Exprs,    \* the typed expressions to normalize
  MaxInt,   \* the largest int, 2^63 - 1 in the code
  One       \* how many parts a number other than an int counts

NormalizeAssumption == MaxInt \in Nat /\ One \in Nat \ {0}

VARIABLES
  original,   \* the expression
  expr,       \* what it has become
  normalized  \* whether it was normalized

vars == <<original, expr, normalized>>
-----------------------------------------------------------------------------
(* Data and nodes. *)

Datum(t, n) == [t |-> t, n |-> n]
DNull       == Datum("null", 0)
DBool(b)    == Datum("bool", IF b THEN 1 ELSE 0)
DError      == Datum("error", 0)
IsNumber(d) == d.t \in {"int", "dec", "float"}
Parts(d)    == IF d.t = "int" THEN d.n * One ELSE d.n

Node(op, args, d) == [op |-> op, args |-> args, d |-> d]
Const(d)          == Node("datum", <<>>, d)
Var(t, k)         == Node("var", <<>>, Datum(t, k))
TypeOf(e)         == e.d.t
Bool(op, args)    == Node(op, args, Datum("bool", 0))
NullExpr              == Const(DNull)
Failed            == Node("failed", <<>>, DError)   \* NormalizeVisitor.err is set

Arith == {"+", "-", "*", "/", "//"}
Cmp   == {"=", "<", "<=", ">", ">="}

\* The overloads there are: a float and another number have none.
HasOverload(t, u) == t = u \/ "float" \notin {t, u}
ReturnType(op, t, u) ==
  IF t = "int" /\ u = "int" THEN IF op = "/" THEN "dec" ELSE "int"
  ELSE IF t = "float" THEN t ELSE "dec"
Binary(op, l, r) == Node(op, <<l, r>>, Datum(ReturnType(op, TypeOf(l), TypeOf(r)), 0))
-----------------------------------------------------------------------------
(* Eval *)

\* The quotient without its fraction.
Quotient(a, b) ==
  LET Abs(n) == IF n < 0 THEN -n ELSE n
      q == Abs(a) \div Abs(b)
  IN  IF (a < 0) = (b < 0) THEN q ELSE -q

InRange(d) == IF d.t = "int" /\ d.n \notin -MaxInt - 1 .. MaxInt THEN DError ELSE d

\* The functions of BinOps, on two data that are not NULL.
Apply(op, a, b) ==
  LET t == ReturnType(op, a.t, b.t)
      x == IF t = "int" THEN a.n ELSE Parts(a)
      y == IF t = "int" THEN b.n ELSE Parts(b)
  IN  CASE op = "+" -> InRange(Datum(t, x + y))
        [] op = "-" -> InRange(Datum(t, x - y))
        [] op = "*" -> InRange(Datum(t, IF t = "int" THEN x * y ELSE Quotient(x * y, One)))
        [] op = "/"  /\ y # 0 -> Datum(t, Quotient(x * One, y))
        [] op = "//" /\ y # 0 ->
             IF t # "int" THEN Datum(t, One * Quotient(x, y))
             ELSE Datum(t, IF x = -MaxInt - 1 /\ y = -1 THEN x ELSE Quotient(x, y))
        [] OTHER -> DError

\* Datum.Compare: NULL comes first.
Order(a, b) ==
  IF a.t = "null" \/ b.t = "null"
  THEN (IF a.t = b.t THEN 0 ELSE IF a.t = "null" THEN -1 ELSE 1)
  ELSE IF a.t = "bool" THEN a.n - b.n ELSE Parts(a) - Parts(b)

Holds(op, c) ==
  CASE op = "=" -> c = 0 [] op = "<" -> c < 0 [] op = "<=" -> c <= 0
    [] op = ">" -> c > 0 [] op = ">=" -> c >= 0

Compared(op, a, b) ==
  IF DNull \in {a, b} THEN DNull ELSE DBool(Holds(op, Order(a, b)))

Not(d) == IF d.t = "bool" THEN DBool(d.n = 0) ELSE d

\* In: a tuple that is known to be sorted is searched, another one gone through.
IsIn(a, tuple) ==
  LET D == {tuple.args[i].d : i \in 1 .. Len(tuple.args)}
  IN  CASE D = {} -> DBool(FALSE)
        [] D # {} /\ a = DNull -> DNull
        [] D # {} /\ a # DNull /\ (tuple.op = "sorted" \/ DNull \notin D) ->
             DBool(\E b \in D : Order(a, b) = 0)
        [] OTHER -> IF \E b \in D \ {DNull} : Order(a, b) = 0 THEN DBool(TRUE) ELSE DNull

\* What a RangeCond means, which must be normalized to be evaluated.
Between(e) ==
  LET a == e.args[1] b == e.args[2] c == e.args[3]
      Inside(lo, hi) == Bool("and", <<Bool(">=", <<a, lo>>), Bool("<=", <<a, hi>>)>>)
      in == IF e.op \in {"between", "notbetween"} THEN Inside(b, c)
            ELSE Bool("or", <<Inside(b, c), Inside(c, b)>>)
  IN  IF e.op \in {"between", "symmetric"} THEN in ELSE Bool("not", <<in>>)
Ranges == {"between", "notbetween", "symmetric", "notsymmetric"}

\* An operator applied to the values of its arguments. An error is the result,
\* and so is NULL for what is not about NULL.
Missing == {DError, DNull}
EvalBinary(op, a, b) == IF a \in Missing THEN a ELSE IF b \in Missing THEN b ELSE Apply(op, a, b)
EvalUnary(a)         == IF a \in Missing THEN a ELSE InRange(Datum(a.t, -a.n))
EvalCast(t, a) ==
  IF a \in Missing THEN a ELSE Datum(t, IF t \in {"int", "dec", "float"} THEN Parts(a) ELSE a.n)
EvalComparison(op, a, b) ==
  CASE DError \in {a, b} -> DError
    [] op \in {"distinct", "notdistinct"} -> DBool((op = "notdistinct") = (Order(a, b) = 0))
    [] op = "!=" -> Not(Compared("=", a, b))
    [] OTHER -> Compared(op, a, b)
EvalIn(op, a, tuple) ==
  LET found == IsIn(a, tuple)
  IN  IF a = DError \/ \E i \in 1 .. Len(tuple.args) : tuple.args[i].d = DError THEN DError
      ELSE IF op = "in" THEN found ELSE Not(found)

\* FALSE decides an AND, TRUE an OR; the other side is not evaluated then, and
\* NULL is less than a decision.
EvalJunction(op, a, b) ==
  LET decides == DBool(op = "or")
  IN  CASE a \in {DError, decides} -> a
        [] a \notin {DError, decides} /\ b \in {DError, DNull, decides} -> b
        [] OTHER -> a

\* The value of an expression when the columns have the values of env.
RECURSIVE Eval(_, _)
Eval(e, env) ==
  LET V(i) == Eval(e.args[i], env)
  IN  CASE e.op = "datum"    -> e.d
        [] e.op = "var"      -> env[e.d]
        [] e.op \in Arith    -> EvalBinary(e.op, V(1), V(2))
        [] e.op = "neg"      -> EvalUnary(V(1))
        [] e.op = "cast"     -> EvalCast(TypeOf(e), V(1))
        [] e.op \in Cmp \cup {"!=", "distinct", "notdistinct"} -> EvalComparison(e.op, V(1), V(2))
        [] e.op \in {"and", "or"} -> EvalJunction(e.op, V(1), V(2))
        [] e.op = "not"      -> Not(V(1))
        [] e.op = "if"       -> IF V(1) = DError THEN DError ELSE IF V(1) = DBool(TRUE) THEN V(2) ELSE V(3)
        [] e.op = "coalesce" ->
             IF V(1) # DNull \/ Len(e.args) = 1 THEN V(1) ELSE Eval([e EXCEPT !.args = Tail(@)], env)
        [] e.op \in {"in", "notin"} ->
             LET elems == [i \in 1 .. Len(e.args[2].args) |-> Const(Eval(e.args[2].args[i], env))]
             IN  EvalIn(e.op, V(1), [e.args[2] EXCEPT !.args = elems])
        [] e.op \in Ranges   -> Eval(Between(e), env)
-----------------------------------------------------------------------------
(* NormalizeVisitor *)

NoColumns == [c \in {} |-> DNull]

\* isConst looks no further than the children: what is constant below has
\* become a datum, or a NULL with a cast.
RECURSIVE IsDatum(_)
IsDatum(e) == e.op \in {"datum", "sorted", "unsorted"} \/ (e.op = "cast" /\ IsDatum(e.args[1]))
IsConst(e) == e.op # "var" /\ \A i \in 1 .. Len(e.args) : IsDatum(e.args[i])

\* ReType: a cast if the type would change.
ReType(e, t) == IF TypeOf(e) = t THEN e ELSE Node("cast", <<e>>, Datum(t, 0))

IsNumericZero(e) == e.op = "datum" /\ IsNumber(e.d) /\ e.d.n = 0
IsNumericOne(e)  == e.op = "datum" /\ IsNumber(e.d) /\ Parts(e.d) = One

\* The comparison with its sides exchanged.
Inverted(op) ==
  CASE op = "=" -> "=" [] op = "<" -> ">" [] op = "<=" -> ">=" [] op = ">" -> "<" [] op = ">=" -> "<="

NormalizeUnary(e) ==
  LET a == e.args[1]
  IN  CASE a = NullExpr -> a
        [] IsNumericZero(a) /\ TypeOf(a) # "float" -> a
        [] a.op = "-" ->
             IF HasOverload(TypeOf(a.args[2]), TypeOf(a.args[1])) THEN Binary("-", a.args[2], a.args[1]) ELSE a
        [] a.op = "neg" -> a.args[1]
        [] OTHER -> e

NormalizeBinary(e) ==
  LET l == e.args[1] r == e.args[2]
  IN  CASE NullExpr \in {l, r} -> NullExpr
        [] (e.op \in {"+", "-"} /\ IsNumericZero(r)) \/ (e.op \in {"*", "/", "//"} /\ IsNumericOne(r)) ->
             ReType(l, TypeOf(e))
        [] (e.op = "+" /\ IsNumericZero(l)) \/ (e.op = "*" /\ IsNumericOne(l)) ->
             ReType(r, TypeOf(e))
        [] OTHER -> e

\* AND and OR: FALSE decides the one, TRUE the other. A constant that decides
\* nothing leaves the other side, NULL stays.
JunctionWith(e, c, d) ==
  LET decides == DBool(e.op = "or")
  IN  CASE d = DError  -> Failed
        [] d = decides -> IF c = 1 THEN Const(decides) ELSE e.args[2]
        [] d = DNull   -> [e EXCEPT !.args[c] = NullExpr]
        [] OTHER       -> e.args[3 - c]
NormalizeJunction(e) ==
  LET consts == {i \in 1 .. 2 : IsConst(e.args[i])}
      c == IF 1 \in consts THEN 1 ELSE 2
  IN  CASE e.args[1] = NullExpr /\ e.args[2] = NullExpr -> NullExpr
        [] consts = {} -> e
        [] OTHER -> JunctionWith(e, c, Eval(e.args[c], NoColumns))

NormalizeNot(e) == IF e.args[1].op = "not" THEN e.args[1].args[1] ELSE e

IfWith(e, d) ==
  CASE d = DError -> Failed [] d = DBool(TRUE) -> e.args[2] [] OTHER -> e.args[3]
NormalizeIf(e) == IF IsConst(e.args[1]) THEN IfWith(e, Eval(e.args[1], NoColumns)) ELSE e

\* COALESCE: NULLs at its start are dropped, a first value stands for all.
RECURSIVE NormalizeCoalesce(_)
CoalesceWith(e, d) ==
  CASE d = DError -> Failed
    [] d = DNull  -> NormalizeCoalesce([e EXCEPT !.args = Tail(@)])
    [] OTHER      -> e.args[1]
NormalizeCoalesce(e) ==
  CASE Len(e.args) = 1 -> e.args[1]
    [] Len(e.args) > 1 /\ ~IsConst(e.args[1]) -> e
    [] OTHER -> CoalesceWith(e, Eval(e.args[1], NoColumns))

\* The comparison e with what is left of its left side, and the datum that op
\* makes of a and b on its right; e itself if there is none.
MovedTo(e, left, d) == IF d = DError THEN e ELSE [e EXCEPT !.args = <<left, Const(d)>>]
Moved(e, left, op, a, b) ==
  IF HasOverload(TypeOf(a), TypeOf(b)) THEN MovedTo(e, left, Eval(Binary(op, a, b), NoColumns)) ELSE e

\* A comparison whose left side is arithmetic and whose right side is constant:
\* the constant part of the left side moves to the right.
\* (a op C) cmp B: with a negative divisor the comparison turns around, whether
\* anything moves or not.
Turned(e, d) ==
  CASE d = DError -> Failed
    [] d # DError /\ Order(d, Datum("int", 0)) < 0 -> [e EXCEPT !.op = Inverted(@)]
    [] OTHER -> e
MoveRight(e) ==
  LET l == e.args[1]
      turned == IF l.op = "/" /\ e.op # "=" THEN Turned(e, Eval(l.args[2], NoColumns)) ELSE e
  IN  IF turned = Failed THEN Failed
      ELSE Moved(turned, l.args[1], CASE l.op = "+" -> "-" [] l.op = "-" -> "+" [] l.op = "/" -> "*",
                 e.args[2], l.args[2])

\* Mutant: the comparison keeps its direction when C - a becomes a.
MoveLeftSameWay(e) ==
  LET l == e.args[1]
      from == IF l.op = "+" THEN <<e.args[2], l.args[1]>> ELSE <<l.args[1], e.args[2]>>
  IN  Moved(e, l.args[2], "-", from[1], from[2])

\* Mutant: only sums are moved, a difference stays.
MoveLeftSums(e) ==
  LET l == e.args[1]
  IN  IF l.op = "+" THEN Moved(e, l.args[2], "-", e.args[2], l.args[1]) ELSE e

\* (C + a) cmp B, (C - a) cmp B.
TurnIfMoved(e, m) == IF m # e /\ e.args[1].op = "-" THEN [m EXCEPT !.op = Inverted(@)] ELSE m
MoveLeft(e) ==
  LET l == e.args[1]
      from == IF l.op = "+" THEN <<e.args[2], l.args[1]>> ELSE <<l.args[1], e.args[2]>>
  IN  TurnIfMoved(e, Moved(e, l.args[2], "-", from[1], from[2]))

\* The sides are exchanged if the left one is constant; then constants move to
\* the right as long as the left side is arithmetic.
RECURSIVE NormalizeCmp(_)
GoOn(c, m) == IF m = Failed \/ m.args = c.args \/ m.args[1].op = "var" THEN m ELSE NormalizeCmp(m)
Move(c) ==
  LET a == c.args[1]
  IN  CASE a.op \in {"+", "-", "/"} /\ IsConst(a.args[2]) -> GoOn(c, MoveRight(c))
        [] a.op \in {"+", "-"} /\ ~IsConst(a.args[2]) /\ IsConst(a.args[1]) -> GoOn(c, MoveLeft(c))
        [] OTHER -> c
NormalizeCmp(e) ==
  LET l == e.args[1] r == e.args[2]
      toLeft == [e EXCEPT !.op = Inverted(@), !.args = <<r, l>>]
  IN  CASE NullExpr \in {l, r} -> NullExpr
        [] NullExpr \notin {l, r} /\ (IsConst(l) \/ IsConst(r)) ->
             IF IsConst(l) /\ r.op \notin Arith \cup {"var"} THEN e
             ELSE Move(IF IsConst(l) THEN toLeft ELSE e)
        [] OTHER -> e

\* The elements of a tuple in order, each once; NULL comes first.
SortedData(D) ==
  CHOOSE q \in [1 .. Cardinality(D) -> D] :
    \A i, j \in 1 .. Cardinality(D) : i < j => Order(q[i], q[j]) < 0

NormalizeIn(e) ==
  LET D == {e.args[2].args[i].d : i \in 1 .. Len(e.args[2].args)}
      q == SortedData(D)
  IN  CASE e.args[2].op = "tuple" -> e
        [] e.args[2].op # "tuple" /\ D = {DNull} -> NullExpr
        [] e.args[2].op # "tuple" /\ D = {} -> Const(DBool(e.op = "notin"))
        [] OTHER ->
             IF e.args[1] = NullExpr THEN NullExpr
             ELSE [e EXCEPT !.args[2] =
                     Node(IF DNull \in D THEN "unsorted" ELSE "sorted",
                          [i \in 1 .. Len(q) |-> Const(q[i])], @.d)]

NormalizeDistinct(e) ==
  IF IsConst(e.args[1]) /\ ~IsConst(e.args[2])
  THEN [e EXCEPT !.args = <<e.args[2], e.args[1]>>] ELSE e

\* A tuple of constants is a datum.
NormalizeTuple(e) ==
  LET data == [i \in 1 .. Len(e.args) |-> Const(Eval(e.args[i], NoColumns))]
  IN  IF \E i \in 1 .. Len(e.args) : ~IsConst(e.args[i]) THEN e
      ELSE IF \E i \in 1 .. Len(e.args) : data[i].d = DError THEN Failed
      ELSE Node("unsorted", data, e.d)

\* BETWEEN is two comparisons, which are normalized themselves; its left side
\* for the second one is normalized apart, to the same.
Side(op, a, b) == IF b = NullExpr THEN NullExpr ELSE NormalizeCmp(Bool(op, <<a, b>>))
Both(op, l, r) == IF Failed \in {l, r} THEN Failed ELSE NormalizeJunction(Bool(op, <<l, r>>))
Transform(e, from, to) ==
  LET ops == IF e.op \in {"notbetween", "notsymmetric"} THEN <<"or", "<", ">">> ELSE <<"and", ">=", "<=">>
  IN  Both(ops[1], Side(ops[2], e.args[1], from), Side(ops[3], e.args[1], to))
EitherWay(e, two) == Both(IF e.op = "symmetric" THEN "or" ELSE "and", two[1], two[2])
NormalizeRange(e) ==
  LET from == e.args[2] to == e.args[3]
      two  == [i \in 1 .. 2 |-> Transform(e, e.args[1 + i], e.args[4 - i])]
  IN  CASE e.args[1] = NullExpr \/ (from = NullExpr /\ to = NullExpr) -> NullExpr
        [] e.args[1] # NullExpr /\ {from, to} # {NullExpr} /\ e.op \in {"between", "notbetween"} ->
             Transform(e, from, to)
        [] OTHER -> EitherWay(e, two)

NormalizeNode(e) ==
  CASE e.op = "neg" -> NormalizeUnary(e)
    [] e.op \in Arith -> NormalizeBinary(e)
    [] e.op \in {"and", "or"} -> NormalizeJunction(e)
    [] e.op = "not" -> NormalizeNot(e)
    [] e.op = "if" -> NormalizeIf(e)
    [] e.op = "coalesce" -> NormalizeCoalesce(e)
    [] e.op \in Cmp -> NormalizeCmp(e)
    [] e.op = "!=" -> IF NullExpr \in {e.args[1], e.args[2]} THEN NullExpr ELSE e
    [] e.op \in {"in", "notin"} -> NormalizeIn(e)
    [] e.op \in {"distinct", "notdistinct"} -> NormalizeDistinct(e)
    [] e.op = "tuple" -> NormalizeTuple(e)
    [] e.op \in Ranges -> NormalizeRange(e)
    [] OTHER -> e

\* VisitPost: what is constant then is evaluated, unless that fails.
Folded(n, d) ==
  CASE d = DError -> n [] d = DNull -> ReType(NullExpr, TypeOf(n)) [] OTHER -> Const(d)
Fold(n) ==
  IF n = Failed \/ n.op \in {"tuple", "sorted", "unsorted"} \/ ~IsConst(n) THEN n
  ELSE Folded(n, Eval(n, NoColumns))
VisitPost(e) == Fold(NormalizeNode(e))

\* NormalizeExpr: the children first; an error of one is the error of all.
RECURSIVE NormalizeExpr(_)
NormalizeExpr(e) ==
  LET args == [i \in 1 .. Len(e.args) |-> NormalizeExpr(e.args[i])]
  IN  IF \E i \in 1 .. Len(args) : args[i] = Failed THEN Failed
      ELSE VisitPost([e EXCEPT !.args = args])
-----------------------------------------------------------------------------
Init == original \in Exprs /\ expr = original /\ normalized = FALSE

\* A plan may be normalized again.
Next == /\ expr # Failed
        /\ expr' = NormalizeExpr(expr)
        /\ normalized' = TRUE
        /\ UNCHANGED original

Spec == Init /\ [][Next]_vars
-----------------------------------------------------------------------------
\* What the columns may hold: every int of a small range, some fractions.
Values(t) ==
  {DNull} \cup
    CASE t = "int"  -> {Datum(t, n) : n \in {-MaxInt - 1, MaxInt} \cup -3 .. 3}
      [] t = "bool" -> {DBool(TRUE), DBool(FALSE)}
      [] OTHER      -> {Datum(t, n * (One \div 2)) : n \in -5 .. 5}

RECURSIVE Leaves(_)
Leaves(e) ==
  IF e.args = <<>> THEN <<e>> ELSE FlattenSeq([i \in 1 .. Len(e.args) |-> Leaves(e.args[i])])
Vars(e)    == {i \in 1 .. Len(Leaves(e)) : Leaves(e)[i].op = "var"}
Columns(e) == {Leaves(e)[i].d : i \in Vars(e)}
Rows(e) ==
  {env \in [Columns(e) -> UNION {Values(c.t) : c \in Columns(e)}] :
     \A c \in Columns(e) : env[c] \in Values(c.t)}

Keeps(was, env) ==
  was = DError \/ (expr # Failed /\ Eval(expr, env) = was
                      /\ (expr = NullExpr \/ TypeOf(expr) = TypeOf(original)))

\* Normalizing keeps what an expression evaluates to, whatever is in the
\* columns, and its type; it fails only for an expression that cannot be
\* evaluated either (normalize.go 668-671 and 723-727).
NormalizeKeeps ==
  expr # original => \A env \in Rows(original) : Keeps(Eval(original, env), env)

\* Sums, differences and comparisons only.
RECURSIVE Linear(_)
Linear(e) ==
  e.op \in {"var", "datum"} \/ (e.op \in {"+", "-"} \cup Cmp /\ \A i \in 1 .. 2 : Linear(e.args[i]))

\* A comparison of sums and differences of constants with one column ends with
\* the column alone on its left side and a datum on its right, as index
\* selection needs it, where nothing overflows (normalize.go 222-243).
ColumnAlone ==
  normalized /\ original.op \in Cmp /\ Linear(original) /\ Cardinality(Vars(original)) = 1 =>
    expr.op = "datum" \/ (expr.args[1].op = "var" /\ expr.args[2].op = "datum")
=============================================================================
