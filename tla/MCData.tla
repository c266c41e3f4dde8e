------------------------------- MODULE MCData -------------------------------
(***************************************************************************)
(* The parts of the repository that turn data into other data, each with   *)
(* families of it: the expression being normalized, and the encodings of   *)
(* keys and of rows.  A behaviour is one of the part in focus; the others  *)
(* stand still.                                                            *)
(***************************************************************************)
EXTENDS Integers, Sequences, FiniteSets

CONSTANT MaxValues   \* ValueEncoding

VARIABLES
  focus,
  original, expr, normalized,
  columns, left, right, leftKey, rightKey,
  values, bytes

\* The families that MCNormalize, MCKeys and MCValues have are the values of
\* constants of the modules they extend.
Families == INSTANCE MCNormalize WITH MaxInt <- 31, One <- 8, Exprs <- {}
KeyRows  == INSTANCE MCKeys WITH Base <- 40, Width <- 2, Radix <- 3, MaxMedium <- 1,
                                 NanoDay <- 2, DaysPerMonth <- 3, Columns <- <<>>, Cells <- <<>>
RowVals  == INSTANCE MCValues WITH Columns <- {}, Payloads <- <<>>, row <- values

Exprs      == Families!KeptExprs
KeyColumns == KeyRows!MCColumns
KeyCells   == KeyRows!MCCells
RowColumns == RowVals!MCColumns
Payloads   == RowVals!MCPayloads

Norm == INSTANCE Normalize WITH MaxInt <- 31, One <- 8
Keys == INSTANCE KeyEncoding WITH Base <- 40, Width <- 2, Radix <- 3, MaxMedium <- 1,
                                  NanoDay <- 2, DaysPerMonth <- 3,
                                  Columns <- KeyColumns, Cells <- KeyCells
Vals == INSTANCE ValueEncoding WITH Columns <- RowColumns, row <- values

ASSUME DataAssumption ==
  Norm!NormalizeAssumption /\ Keys!KeyAssumption /\ Vals!K!KeyAssumption

norm   == <<original, expr, normalized>>
keys   == <<columns, left, right, leftKey, rightKey>>
vals   == <<values, bytes>>
all    == <<focus, norm, keys, vals>>

MCInit ==
  /\ focus \in {"expr", "key", "row"}
  /\ Keys!Init /\ Vals!Init
  /\ IF focus = "expr" THEN Norm!Init ELSE original = {} /\ expr = {} /\ normalized = FALSE

MCNext ==
  \/ focus = "expr" /\ Norm!Next /\ UNCHANGED <<focus, keys, vals>>
  \/ focus = "key"  /\ Keys!Next /\ UNCHANGED <<focus, norm, vals>>
  \/ focus = "row"  /\ Vals!Next /\ UNCHANGED <<focus, norm, keys>>

MCSpec == MCInit /\ [][MCNext]_all
-----------------------------------------------------------------------------
\* A normalized expression is worth what it was, and a linear comparison ends with
\* its column alone on the left.
NormalizeKeeps == focus = "expr" => Norm!NormalizeKeeps /\ Norm!ColumnAlone

\* Keys sort as the rows they encode do.
KeysInOrder == focus = "key" => Keys!KeysInOrder

\* Keys and rows of values are read back from their bytes alone.
EncodingsReadBack ==
  /\ focus = "key" => Keys!KeysReadBack
  /\ focus = "row" => Vals!ValuesReadBack
=============================================================================
