------------------------------ MODULE MCParser ------------------------------
(***************************************************************************)
(* Parser over every sequence of at most MaxToks tokens of Ids, one        *)
(* character each and a blank apart.                                       *)
(***************************************************************************)
EXTENDS Parser

CONSTANTS Ids, MaxToks,
          Leads   \* how much white space may precede an input

\* PLACEHOLDER3 is $3, the others are $1.
TokenOf(id, pos) ==
  [id |-> IF id = "PLACEHOLDER3" THEN "PLACEHOLDER" ELSE id, pos |-> pos, end |-> pos + 1,
   idx |-> IF id = "PLACEHOLDER3" THEN 2 ELSE 0]

\* Each token is one character wide and followed by a blank; nothing follows
\* an ERROR.
MCInputs ==
  {[size |-> lead + 2 * Len(ids),
    toks |-> [i \in 1 .. Len(ids) |-> TokenOf(ids[i], lead + 2 * (i - 1))]] :
     ids \in {s \in UNION {[1 .. n -> Ids] : n \in 0 .. MaxToks} :
                \A i \in 1 .. Len(s) - 1 : s[i] # "ERROR"},
     lead \in Leads}

\* A parser is called again only after a short input, and for a shorter one,
\* without the tokens that are special to the scanner or to Lex.
Plain(inp, n) ==
  Len(inp.toks) <= n /\ \A m \in 1 .. Len(inp.toks) : inp.toks[m].id \in {"a", Semicolon, "PLACEHOLDER"}
MCNext ==
  /\ pc = "idle" /\ calls = 1 => Plain(input, 3)
  /\ Next
  /\ pc = "idle" /\ calls = 1 => Plain(input', 2)
MCSpec == Init /\ [][MCNext]_vars /\ WF_vars(pc # "idle" /\ Next)
=============================================================================
