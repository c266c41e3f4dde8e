------------------------------- MODULE MCJson -------------------------------
(***************************************************************************)
(* Documents with containers in containers, with more members than Stride, *)
(* with keys that are indexes or have a 0 byte, and one that is too long   *)
(* to be encoded.                                                          *)
(***************************************************************************)
EXTENDS Json

Letter(n) == <<96 + n>>
a         == Letter(1)
b         == Letter(2)
Index0    == <<48>>
Index1    == <<49>>
IndexEnd  == <<45, 49>>

Object(keys, values) == JObject([i \in DOMAIN keys |-> Member(keys[i], values[i])])
Empty == Object(<<>>, <<>>)

Wide == Object(<<<<0>>, Index1, a, b>>,
               <<Empty, JString(a), Object(<<a, b>>, <<JNumber(1), JNull>>), JArray(<<>>)>>)

MCDocs ==
  {JNull, JString(a), JNumber(1), JArray(<<>>), Empty,
   JArray(<<JString(a), JTrue, JString(b), JNumber(1)>>),
   JArray(<<JArray(<<JString(a), JNull>>), Object(<<a, b>>, <<JNull, JString(a)>>), JFalse>>),
   Object(<<a, b>>, <<JArray(<<JString(a), JNumber(1), JNumber(0)>>), JNull>>),
   Wide, JArray(<<Wide, Wide, JFalse>>)}
MCOthers ==
  {JString(a), JArray(<<JString(a)>>), Object(<<a>>, <<JArray(<<JNumber(1)>>)>>), Empty}
MCKeys  == {a, Index1, IndexEnd}
MCPaths == {<<a>>, <<Index1>>, <<IndexEnd>>, <<a, b>>, <<Index1, a>>, <<a, Index0>>}

StringDocs == {JArray(<<JString(a), JString(b)>>)}
=============================================================================
