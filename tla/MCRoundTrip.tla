---------------------------- MODULE MCRoundTrip ----------------------------
(***************************************************************************)
(* Writing a name, a string or a byte array as SQL and scanning it again,  *)
(* for every short value, next to the texts of MCScan.                     *)
(***************************************************************************)
EXTENDS MCScan, LexEncode

CONSTANT Encoders   \* the encoders a run looks at, by their value's name

\* Characters of the values and how many of them, per encoder: strings and
\* names are UTF-8, byte arrays are not, and bad strings are not either.
NameChars == {"a", "A", "\"", "_", "1", "$", "c3", "89", "a9", " "}
Domain ==
  [string       |-> [chars |-> {"a", "'", "\\", "\n", "07", "c3", "a9"}, len |-> 4],
   bytes        |-> [chars |-> {"a", "'", "\\", "\n", "07", "c3", "a9", "\"", "NUL"}, len |-> 3],
   restricted   |-> [chars |-> NameChars, len |-> 3],
   unrestricted |-> [chars |-> NameChars, len |-> 3],
   experimental |-> [chars |-> {"x", "_", "a"}, len |-> 3],
   badString    |-> [chars |-> {"89", "a", "c3", "a9"}, len |-> 4]]

Encode(kind, v) ==
  CASE kind \in {"string", "badString"}          -> EncodeSQLString(v)
    [] kind = "bytes"                            -> EncodeSQLBytes(v)
    [] kind \in {"restricted", "experimental"}   -> EncodeRestrictedSQLIdent(v)
    [] kind = "unrestricted"                     -> EncodeUnrestrictedSQLIdent(v)

\* What the token that comes back may be.
Expected ==
  [string |-> {"SCONST"}, badString |-> {"SCONST", "ERROR"}, bytes |-> {"BCONST"},
   restricted |-> {"IDENT", "KEYWORD"}, experimental |-> {"IDENT", "KEYWORD"},
   unrestricted |-> {"IDENT", "KEYWORD"}]

Encodable(kind) ==
  {v \in UNION {[1 .. n -> Domain[kind].chars] : n \in 0 .. Domain[kind].len} :
     kind \in {"bytes", "badString"} \/ Valid(v)}
Encoded    == [kind \in Encoders |-> {<<Encode(kind, v), v>> : v \in Encodable(kind)}]
Written    == [kind \in Encoders |-> {e[1] : e \in Encoded[kind]}]
OneToOne   == \A kind \in Encoders : Cardinality(Written[kind]) = Cardinality(Encoded[kind])
MCInputs   == [c \in Clients |->
                 TextFamilies(c) \cup
                   IF c = "Tokens" THEN {Written[kind] : kind \in Encoders} ELSE {}]
MCKeywords == {<<"a">>, <<"a", "a">>}
MCReserved == {<<"a", "a">>}
NoWords    == {}

\* A restricted name never comes back as a reserved word, which the grammar
\* would not accept as a name.
NeverReserved ==
  pc = "done" /\ "restricted" \in Encoders /\ in \in Written["restricted"] =>
    \A i \in 1 .. Len(toks) : toks[i].id = "KEYWORD" => toks[i].str \notin Reserved

\* What the formatter writes is one token that stands for the value written:
\* no value is cut, joined, re-cased or changed on the way out and back in, and
\* no name comes back reserved (encode.go 70-233, scan.go 497-577 and 790-884).
RoundTrip ==
  /\ OneToOne
  /\ NeverReserved
  /\ pc = "done" => \A kind \in Encoders : in \in Written[kind] =>
       /\ Len(toks) = 1
       /\ <<in, toks[1].str>> \in Encoded[kind]
       /\ toks[1].id \in Expected[kind]
=============================================================================
