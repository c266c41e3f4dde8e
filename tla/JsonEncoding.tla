---------------------------- MODULE JsonEncoding ----------------------------
(***************************************************************************)
(* JSON documents as pkg/util/json holds them: decoded (json.go), encoded  *)
(* (encode.go, jentry.go), or encoded and decoded on demand (encoded.go),  *)
(* with parts held either way.                                             *)
(*                                                                         *)
(* A text is a sequence of characters, a number is an integer, and one     *)
(* number, one header and one JEntry take a cell of an encoding each.      *)
(***************************************************************************)
EXTENDS Integers, Sequences

CONSTANTS
  Stride,   \* offlenStride: how often a JEntry is an offset, not a length
  Size      \* one more than maxByteLength, a power of two

JsonAssumption == Stride \in Nat \ {0} /\ Size \in Nat \ {0}

NullType   == 1
StringType == 2
NumberType == 3
FalseType  == 4
TrueType   == 5
ArrayType  == 6
ObjectType == 7
-----------------------------------------------------------------------------
(* Documents.  A member of a container has a key, empty in an array. *)

Json(type, text, members) ==
  [type |-> type, encoded |-> FALSE, text |-> text, members |-> members, cached |-> <<>>]

JNull        == Json(NullType, <<>>, <<>>)
JFalse       == Json(FalseType, <<>>, <<>>)
JTrue        == Json(TrueType, <<>>, <<>>)
JString(s)   == Json(StringType, s, <<>>)
JNumber(n)   == Json(NumberType, <<n>>, <<>>)
Member(k, j) == [k |-> k, v |-> j]
JArray(js)   == Json(ArrayType, <<>>, [i \in DOMAIN js |-> Member(<<>>, js[i])])
JObject(kvs) == Json(ObjectType, <<>>, kvs)

\* No document: the nil that means "not found", and an error.
NoValue == Json(0, <<>>, <<>>)
Failure == Json(-1, <<>>, <<>>)

\* A jsonEncoded, whose text is its encoding and which was not decoded yet.
Encoded(type, cells) == [Json(type, cells, <<>>) EXCEPT !.encoded = TRUE]

IsContainer(j)    == j.type \in {ArrayType, ObjectType}
isScalar(j)       == ~IsContainer(j)
alreadyDecoded(j) == j.encoded /\ j.cached # <<>>

\* Less in the order of Go's strings.
RECURSIVE Precedes(_, _)
Precedes(s, t) ==
  /\ t # <<>>
  /\ \/ s = <<>>
     \/ s[1] < t[1]
     \/ s[1] = t[1] /\ Precedes(Tail(s), Tail(t))

RECURSIVE Joined(_)
Joined(ss) == IF ss = <<>> THEN <<>> ELSE Head(ss) \o Joined(Tail(ss))

Drop(s, n) == SubSeq(s, n + 1, Len(s))
-----------------------------------------------------------------------------
(* Headers and JEntries *)

NullTag      == 0
StringTag    == 1
NumberTag    == 2
FalseTag     == 3
TrueTag      == 4
ContainerTag == 5
TagOf(type) ==
  CASE type = NullType   -> NullTag
    [] type = StringType -> StringTag
    [] type = NumberType -> NumberTag
    [] type = FalseType  -> FalseTag
    [] type = TrueType   -> TrueTag
    [] OTHER             -> ContainerTag

ArrayContainer  == 4
ObjectContainer == 2
ScalarContainer == 1

Header(container, n) == container * 2 * Size + n
HeaderTag(h)         == h \div (2 * Size)
HeaderLen(h)         == h % (2 * Size)

IsOff(cell)  == cell \div Size >= 8
OffLen(cell) == cell % Size
\* A JEntry and the length it has to one who knows where its data begins.
JEntry(tag, length) == [tag |-> tag, length |-> length]
getJEntryAt(cell, offset) ==
  JEntry((cell \div Size) % 8,
         IF IsOff(cell) THEN (OffLen(cell) - offset) % (16 * Size) ELSE OffLen(cell))

\* The i-th entry, from 0, of data of these lengths that end at this offset.
EncodedEntry(i, tag, length, end) ==
  IF i % Stride = 0 THEN (8 + tag) * Size + end ELSE tag * Size + length

\* The entries of data, the first of which is the i-th and begins at offset.
RECURSIVE EntriesFrom(_, _, _, _)
EntriesFrom(tags, data, i, offset) ==
  IF data = <<>> THEN <<>>
  ELSE <<EncodedEntry(i, Head(tags), Len(Head(data)), offset + Len(Head(data)))>>
       \o EntriesFrom(Tail(tags), Tail(data), i + 1, offset + Len(Head(data)))

ArrayCells(tags, data) ==
  <<Header(ArrayContainer, Len(data))>> \o EntriesFrom(tags, data, 0, 0) \o Joined(data)
\* The index starts again with the values, the offset goes on.
ObjectCells(keys, tags, data) ==
  <<Header(ObjectContainer, Len(data))>>
  \o EntriesFrom([i \in DOMAIN keys |-> StringTag], keys, 0, 0)
  \o EntriesFrom(tags, data, 0, Len(Joined(keys)))
  \o Joined(keys) \o Joined(data)

RECURSIVE Encode(_)
Encode(j) ==
  IF j.encoded \/ ~IsContainer(j) THEN j.text
  ELSE IF j.type = ArrayType
  THEN ArrayCells([i \in DOMAIN j.members |-> TagOf(j.members[i].v.type)],
                  [i \in DOMAIN j.members |-> Encode(j.members[i].v)])
  ELSE ObjectCells([i \in DOMAIN j.members |-> j.members[i].k],
                   [i \in DOMAIN j.members |-> TagOf(j.members[i].v.type)],
                   [i \in DOMAIN j.members |-> Encode(j.members[i].v)])

\* Mutant: nothing is too long.
checkLengthNever(j) == TRUE

\* checkLength passes: what a container holds is shorter than the container.
checkLength(j) == Len(Encode(j)) <= Size - 1

\* The lengths are added up as if they fit.
EncodeJSON(j) ==
  IF IsContainer(j) THEN Encode(j)
  ELSE <<Header(ScalarContainer, 0), TagOf(j.type) * Size + Len(j.text)>> \o j.text
-----------------------------------------------------------------------------
(* All of an encoding decoded: each operator returns what it read and the  *)
(* cells it left.                                                          *)

Read(js, rest) == [js |-> js, rest |-> rest]

RECURSIVE decodeJEntries(_, _, _)
decodeJEntries(n, b, off) ==
  IF n = 0 THEN <<>>
  ELSE <<getJEntryAt(b[1], off)>>
       \o decodeJEntries(n - 1, Tail(b), off + getJEntryAt(b[1], off).length)

RECURSIVE decodeValues(_, _), decodeContainer(_, _), DecodeJSON(_)

decodeJSONValue(e, b) ==
  CASE e.tag = NullTag   -> Read(<<JNull>>, b)
    [] e.tag = FalseTag  -> Read(<<JFalse>>, b)
    [] e.tag = TrueTag   -> Read(<<JTrue>>, b)
    [] e.tag = NumberTag -> Read(<<JNumber(b[1])>>, Tail(b))
    [] e.tag = StringTag -> Read(<<JString(SubSeq(b, 1, e.length))>>, Drop(b, e.length))
    [] OTHER             -> DecodeJSON(b)

\* The first value with the others, which are read from what it left.
ReadOn(first, entries) == [decodeValues(entries, first.rest) EXCEPT !.js = first.js \o @]
decodeValues(entries, b) ==
  IF entries = <<>> THEN Read(<<>>, b)
  ELSE ReadOn(decodeJSONValue(Head(entries), b), Tail(entries))

ObjectOf(n, keysAndValues) ==
  JObject([i \in 1..n |-> Member(keysAndValues[i].text, keysAndValues[n + i])])
Closed(tag, n, read) ==
  Read(<<IF tag = ArrayContainer THEN JArray(read.js) ELSE ObjectOf(n, read.js)>>, read.rest)
\* The keys are read like the values that follow them.
decodeContainer(h, b) ==
  LET entries == IF HeaderTag(h) = ArrayContainer THEN HeaderLen(h) ELSE 2 * HeaderLen(h)
  IN  Closed(HeaderTag(h), HeaderLen(h),
             decodeValues(decodeJEntries(entries, b, 0), Drop(b, entries)))

DecodeJSON(b) ==
  IF HeaderTag(b[1]) = ScalarContainer
  THEN decodeJSONValue(getJEntryAt(b[2], 0), Drop(b, 2))
  ELSE decodeContainer(b[1], Tail(b))

\* jsonEncoded.decode; what it returns is all decoded, without a cache.
decode(j) ==
  CASE j.type = StringType -> JString(j.text)
    [] j.type = NumberType -> JNumber(j.text[1])
    [] OTHER               -> DecodeJSON(j.text).js[1]
-----------------------------------------------------------------------------
(* An encoding decoded where it is needed *)

newEncoded(e, v) ==
  CASE e.tag = NullTag   -> JNull
    [] e.tag = FalseTag  -> JFalse
    [] e.tag = TrueTag   -> JTrue
    [] e.tag = StringTag -> Encoded(StringType, v)
    [] e.tag = NumberTag -> Encoded(NumberType, v)
    [] OTHER -> Encoded(IF HeaderTag(v[1]) = ArrayContainer THEN ArrayType ELSE ObjectType, v)

\* newEncodedFromRoot, of what EncodeJSON wrote.
FromEncoding(b) ==
  IF HeaderTag(b[1]) # ScalarContainer
  THEN Encoded(IF HeaderTag(b[1]) = ArrayContainer THEN ArrayType ELSE ObjectType, b)
  ELSE LET tag == getJEntryAt(b[2], 0).tag
       IN  Encoded(CHOOSE t \in NullType..TrueType : TagOf(t) = tag, Drop(b, 2))

JLen(j) ==
  IF ~IsContainer(j) THEN 0
  ELSE IF j.encoded THEN HeaderLen(j.text[1]) ELSE Len(j.members)

\* How many cells are before the data of a container.
DataStart(j) == 1 + (IF j.type = ArrayType THEN 1 ELSE 2) * JLen(j)

\* Mutant: the lengths passed on the way are forgotten at an offset.
RECURSIVE BeginningForgets(_, _, _)
BeginningForgets(b, curIdx, offset) ==
  IF curIdx < 0 THEN offset
  ELSE IF IsOff(b[2 + curIdx]) THEN OffLen(b[2 + curIdx])
  ELSE BeginningForgets(b, curIdx - 1, offset + OffLen(b[2 + curIdx]))

\* Stepping back from an entry to the last offset, or to the start.
RECURSIVE BeginningFrom(_, _, _)
BeginningFrom(b, curIdx, offset) ==
  IF curIdx < 0 THEN offset
  ELSE IF IsOff(b[2 + curIdx]) THEN OffLen(b[2 + curIdx]) + offset
  ELSE BeginningFrom(b, curIdx - 1, offset + OffLen(b[2 + curIdx]))
beginningOfIdx(j, idx) == BeginningFrom(j.text, idx - 1, 0)

\* The n-th entry, from 0, and its data.
Slice(j, begin, e) ==
  [entry |-> e, data |-> SubSeq(j.text, DataStart(j) + begin + 1, DataStart(j) + begin + e.length)]
SliceAt(j, n, begin)  == Slice(j, begin, getJEntryAt(j.text[2 + n], begin))
GetNthDataRange(j, n) == SliceAt(j, n, beginningOfIdx(j, n))
Held(slice)           == newEncoded(slice.entry, slice.data)

\* The slices of all the entries, each found where the one before it ends.
RECURSIVE SlicesFrom(_, _, _)
SliceThen(j, n, begin, slice) == <<slice>> \o SlicesFrom(j, n + 1, begin + slice.entry.length)
SlicesFrom(j, n, begin) ==
  IF n = DataStart(j) - 1 THEN <<>> ELSE SliceThen(j, n, begin, SliceAt(j, n, begin))

WithMembers(j, slices) ==
  IF j.type = ArrayType THEN JArray([i \in 1..JLen(j) |-> Held(slices[i])])
  ELSE JObject([i \in 1..JLen(j) |-> Member(slices[i].data, Held(slices[JLen(j) + i]))])
shallowDecode(j) ==
  IF ~j.encoded THEN j
  ELSE IF alreadyDecoded(j) THEN j.cached[1]
  ELSE IF isScalar(j) THEN IF j.type \in {StringType, NumberType} THEN decode(j)
                           ELSE Json(j.type, <<>>, <<>>)
  ELSE WithMembers(j, SlicesFrom(j, 0, 0))

\* decodeIfNeeded, and the receiver of every operation that decodes it all.
Decoded(j) ==
  IF ~j.encoded THEN j
  ELSE IF j.type \in {NullType, FalseType, TrueType} THEN Json(j.type, <<>>, <<>>)
  ELSE decode(j)

\* A document with what decoding left in it for later.
CacheOf(j, decoded) == IF j.encoded /\ IsContainer(j) THEN [j EXCEPT !.cached = <<decoded>>] ELSE j
AfterDecode(j)      == CacheOf(j, Decoded(j))
AfterShallow(j) ==
  IF j.type = ObjectType /\ ~alreadyDecoded(j) THEN CacheOf(j, shallowDecode(j)) ELSE j
-----------------------------------------------------------------------------
\* The document that j is, with all of it decoded.
RECURSIVE Plain(_)
PlainMembers(members) == [i \in DOMAIN members |-> [members[i] EXCEPT !.v = Plain(@)]]
Plain(j) ==
  IF j.encoded THEN Decoded(j) ELSE [j EXCEPT !.members = PlainMembers(@)]
=============================================================================
