------------------------------ MODULE MCValues ------------------------------
(***************************************************************************)
(* Rows of at most two values, with payloads around every boundary of the  *)
(* encodings and column numbers around those of the tag.                   *)
(***************************************************************************)
EXTENDS ValueEncoding, TLC

Fill(n, c) == [i \in 1 .. n |-> c]

\* Coefficients of no, one and two bytes, and exponents that leave the decimal
\* point before, after and inside them.
Decimals ==
  {K!Decimal("finite", n, c, e) : n \in BOOLEAN, c \in {0, 1, 256}, e \in {-3, -1, 0, 250}}
    \cup {K!Decimal("infinite", n, 0, 0) : n \in BOOLEAN} \cup {K!Decimal("nan", FALSE, 0, 0)}

MCPayloads ==
  (T.Null :> {<<>>}) @@ (T.True :> {<<>>}) @@ (T.False :> {<<>>})
    @@ (T.Int :> {0, -1, 1, 63, 64, -64, -65, 8191, 8192, 1000000})
    @@ (T.Float :> {Fill(8, 0), Fill(8, 255)}) @@ (T.UUID :> {Fill(16, 128)})
    @@ (T.IPAddr :> {<<0>> \o Fill(5, 200), <<1>> \o Fill(17, 3)})
    @@ (T.Bytes :> {<<>>, <<128>>, Fill(127, 0), Fill(128, 255)})
    @@ (T.Array :> {<<0>>}) @@ (T.JSON :> {<<>>, <<15>>})
    @@ (T.Time :> {<<-1, 0>>, <<64, 1000000>>}) @@ (T.TimeTZ :> {<<1, -64>>})
    @@ (T.Duration :> {<<0, -1, 64>>, <<-65, 1, 0>>})
    @@ (T.Decimal :> Decimals)
    @@ (T.BitArray :> {[len |-> 0, words |-> <<>>], [len |-> 1, words |-> <<128, 0>>],
                       [len |-> 16, words |-> <<255, 1>>], [len |-> 17, words |-> <<1, 2, 128, 0>>]})
    @@ (T.Tuple :> {<<>>, <<[typ |-> T.Int, v |-> 64], [typ |-> T.JSON, v |-> <<7>>],
                            [typ |-> T.Tuple, v |-> <<[typ |-> T.Null, v |-> <<>>]>>]>>})
MCColumns == {NoColumnID, 8, 1024}
=============================================================================
