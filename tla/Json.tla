-------------------------------- MODULE Json --------------------------------
(***************************************************************************)
(* The operations of pkg/util/json on a document, which must answer the    *)
(* same however the document and its parts are held, and the keys of its   *)
(* inverted index.                                                         *)
(*                                                                         *)
(* A step makes a document of the one there is, by one of the operators or *)
(* by writing and reading it; `plain` undergoes the same decoded.          *)
(***************************************************************************)
EXTENDS JsonEncoding, FiniteSets

CONSTANTS
  Docs,     \* the documents to begin with, decoded
  Others,   \* the documents that are put into them, held in any way
  Keys,     \* the texts looked for
  Paths,    \* the paths looked for
  MaxOps    \* bounds the steps

VARIABLES
  held,     \* the document
  plain,    \* the document of which nothing was ever encoded
  ops       \* how many steps there were

vars == <<held, plain, ops>>
-----------------------------------------------------------------------------
(* Compare *)

Sign(less, more) == IF less THEN -1 ELSE IF more THEN 1 ELSE 0

\* The first of the results that is not 0.
RECURSIVE FirstNotZero(_)
FirstNotZero(s) ==
  IF s = <<>> THEN 0 ELSE IF Head(s) # 0 THEN Head(s) ELSE FirstNotZero(Tail(s))

RECURSIVE Compare(_, _)
CompareMembers(x, y) ==
  FirstNotZero([n \in 1..2 * Len(x) |->
    LET i == (n + 1) \div 2
    IN  IF n % 2 = 1 THEN Sign(Precedes(x[i].k, y[i].k), Precedes(y[i].k, x[i].k))
        ELSE Compare(x[i].v, y[i].v)])
Compare(a, b) ==
  IF a.type # b.type THEN Sign(a.type < b.type, a.type > b.type)
  ELSE IF a.encoded THEN Compare(shallowDecode(a), b)
  ELSE IF b.encoded THEN Compare(a, Decoded(b))
  ELSE IF a.type = NumberType THEN Sign(a.text[1] < b.text[1], a.text[1] > b.text[1])
  ELSE IF a.type = StringType THEN Sign(Precedes(a.text, b.text), Precedes(b.text, a.text))
  ELSE IF Len(a.members) # Len(b.members)
       THEN Sign(Len(a.members) < Len(b.members), Len(a.members) > Len(b.members))
  ELSE CompareMembers(a.members, b.members)
-----------------------------------------------------------------------------
(* Fetch *)

\* sort.Search: the first of 0..Len(s)-1 from which s, given from 1, is true.
RECURSIVE SearchIn(_, _, _)
SearchIn(s, i, j) ==
  IF i >= j THEN i
  ELSE LET h == (i + j) \div 2
       IN  IF ~s[h + 1] THEN SearchIn(s, h + 1, j) ELSE SearchIn(s, i, h)
Search(s) == SearchIn(s, 0, Len(s))

\* The member with a key, from 1; 0 if there is none.
findPairIndexByKey(members, key) ==
  LET i == 1 + Search([n \in DOMAIN members |-> ~Precedes(members[n].k, key)])
  IN  IF i \in DOMAIN members /\ members[i].k = key THEN i ELSE 0

\* strconv.Atoi, of one digit; anything else is no number.
IsIndex(s) ==
  \/ Len(s) = 1 /\ s[1] \in 48..57
  \/ Len(s) = 2 /\ s[1] = 45 /\ s[2] \in 48..57
Atoi(s) == IF Len(s) = 1 THEN s[1] - 48 ELSE 48 - s[2]

FromEnd(idx, n) == IF idx < 0 THEN n + idx ELSE idx

\* Found in an encoding by a binary search that looks up each key it tries.
EncodedKey(j, n) == GetNthDataRange(j, n).data
FetchEncodedKey(j, key, i) ==
  IF i < JLen(j) /\ EncodedKey(j, i) = key THEN Held(GetNthDataRange(j, JLen(j) + i))
  ELSE NoValue
RECURSIVE FetchValKey(_, _)
FetchValKey(j, key) ==
  IF j.type # ObjectType THEN NoValue
  ELSE IF alreadyDecoded(j) THEN FetchValKey(j.cached[1], key)
  ELSE IF j.encoded
  THEN FetchEncodedKey(j, key, Search([n \in 1..JLen(j) |-> ~Precedes(EncodedKey(j, n - 1), key)]))
  ELSE LET i == findPairIndexByKey(j.members, key)
       IN  IF i = 0 THEN NoValue ELSE j.members[i].v

RECURSIVE FetchValIdx(_, _)
FetchValIdx(j, idx) ==
  IF j.type # ArrayType \/ FromEnd(idx, JLen(j)) \notin 0..JLen(j) - 1 THEN NoValue
  ELSE IF alreadyDecoded(j) THEN FetchValIdx(j.cached[1], idx)
  ELSE IF j.encoded THEN Held(GetNthDataRange(j, FromEnd(idx, JLen(j))))
  ELSE j.members[FromEnd(idx, JLen(j)) + 1].v

FetchValKeyOrIdx(j, key) ==
  CASE j.type = ObjectType                -> FetchValKey(j, key)
    [] j.type = ArrayType /\ IsIndex(key) -> FetchValIdx(j, Atoi(key))
    [] OTHER                              -> NoValue

RECURSIVE FetchPath(_, _)
FetchPath(j, path) ==
  IF path = <<>> \/ j = NoValue THEN j
  ELSE FetchPath(FetchValKeyOrIdx(j, Head(path)), Tail(path))

\* The operator ?, which sees no string of an array that is held encoded.
RECURSIVE Exists(_, _)
Exists(j, key) ==
  CASE alreadyDecoded(j)    -> Exists(j.cached[1], key)
    [] j.type = ObjectType  -> FetchValKey(j, key) # NoValue
    [] j.type = StringType  -> Decoded(j).text = key
    [] j.type = ArrayType /\ j.encoded ->
         \E i \in 0..JLen(j) - 1 : Held(GetNthDataRange(j, i)) = Encoded(StringType, key)
    [] j.type = ArrayType /\ ~j.encoded ->
         \E i \in DOMAIN j.members : j.members[i].v = JString(key)
    [] OTHER -> FALSE
-----------------------------------------------------------------------------
(* Concat, the removals, and StripNulls *)

\* What a scalar, or an object before an array, becomes with another.
scalarConcat(left, other) ==
  CASE other.type = ArrayType ->
         JArray(<<left>> \o [i \in 1..JLen(other) |-> shallowDecode(other).members[i].v])
    [] other.type = ObjectType -> Failure
    [] OTHER -> JArray(<<left, other>>)

\* Two sorted lists of members in one; the right one's goes before the left's.
RECURSIVE Merged(_, _)
Merged(l, r) ==
  IF l = <<>> \/ r = <<>> THEN l \o r
  ELSE IF Precedes(r[1].k, l[1].k) THEN <<r[1]>> \o Merged(l, Tail(r))
  ELSE IF r[1].k = l[1].k THEN <<r[1]>> \o Merged(Tail(l), Tail(r))
  ELSE <<l[1]>> \o Merged(Tail(l), r)

ConcatTo(l, other) ==
  CASE l.type = ArrayType ->
         [l EXCEPT !.members =
            @ \o IF other.type = ArrayType THEN shallowDecode(other).members
                 ELSE <<Member(<<>>, other)>>]
    [] l.type = ObjectType /\ other.type = ObjectType ->
         JObject(Merged(l.members, shallowDecode(other).members))
    [] l.type = ObjectType /\ other.type \notin {ArrayType, ObjectType} -> Failure
    [] OTHER -> scalarConcat(l, other)
Concat(j, other) == ConcatTo(shallowDecode(j), other)

Without(members, i) == SubSeq(members, 1, i - 1) \o Drop(members, i)

RemoveStringOf(l, s) ==
  CASE l.type = ArrayType ->
         LET Stays(m) == m.v.type # StringType \/ Decoded(m.v).text # s
         IN  [l EXCEPT !.members = SelectSeq(@, Stays)]
    [] l.type = ObjectType ->
         LET i == findPairIndexByKey(l.members, s)
         IN  IF i = 0 THEN l ELSE [l EXCEPT !.members = Without(@, i)]
    [] OTHER -> Failure
RemoveString(j, s) == RemoveStringOf(shallowDecode(j), s)

RemoveIndexOf(l, idx) ==
  IF l.type # ArrayType THEN Failure
  ELSE IF FromEnd(idx, Len(l.members)) \notin 0..Len(l.members) - 1 THEN l
  ELSE [l EXCEPT !.members = Without(@, FromEnd(idx, Len(@)) + 1)]
RemoveIndex(j, idx) == RemoveIndexOf(shallowDecode(j), idx)

\* A container with a part replaced, or the failure to make that part.
WithPart(l, i, part) == IF part = Failure THEN Failure ELSE [l EXCEPT !.members[i].v = part]

RECURSIVE doRemovePath(_, _)
RemovePathAt(l, path, i) ==
  IF i \notin DOMAIN l.members THEN l
  ELSE WithPart(l, i, doRemovePath(shallowDecode(l.members[i].v), Tail(path)))
doRemovePath(l, path) ==
  IF isScalar(l) \/ path = <<>> THEN l
  ELSE IF l.type = ArrayType /\ ~IsIndex(path[1]) THEN Failure
  ELSE IF Len(path) = 1 THEN IF l.type = ArrayType THEN RemoveIndexOf(l, Atoi(path[1]))
                             ELSE RemoveStringOf(l, path[1])
  ELSE RemovePathAt(l, path, IF l.type = ArrayType
                             THEN FromEnd(Atoi(path[1]), Len(l.members)) + 1
                             ELSE findPairIndexByKey(l.members, path[1]))
RemovePath(j, path) == IF isScalar(j) THEN Failure ELSE doRemovePath(shallowDecode(j), path)

\* Some member of an object in it is null.
RECURSIVE NeedsToStrip(_)
NeedsToStrip(l) ==
  \E i \in DOMAIN l.members : \/ l.type = ObjectType /\ l.members[i].v.type = NullType
                              \/ NeedsToStrip(shallowDecode(l.members[i].v))

\* What is before the first member to strip stays as it is held.
RECURSIVE StripNulls(_)
StripFrom(l, i) ==
  LET Stays(m) == l.type # ObjectType \/ m.v.type # NullType
      stays    == SelectSeq(Drop(l.members, i - 1), Stays)
  IN  [l EXCEPT !.members = SubSeq(@, 1, i - 1)
                            \o [n \in DOMAIN stays |-> [stays[n] EXCEPT !.v = StripNulls(@)]]]
FirstToStrip(l) ==
  CHOOSE i \in DOMAIN l.members :
    /\ NeedsToStrip([l EXCEPT !.members = <<@[i]>>])
    /\ ~NeedsToStrip([l EXCEPT !.members = SubSeq(@, 1, i - 1)])
StripNullsOf(l) == IF NeedsToStrip(l) THEN StripFrom(l, FirstToStrip(l)) ELSE l
StripNulls(j)   == StripNullsOf(shallowDecode(j))
-----------------------------------------------------------------------------
(* DeepSet and DeepInsert *)

\* Mutant: the member that has the key already stays where it is.
SetKeyKeepsOld(l, key, to, createMissing) ==
  LET Before(m) == ~Precedes(key, m.k)
      After(m)  == Precedes(key, m.k)
  IN  [l EXCEPT !.members =
         SelectSeq(@, Before)
         \o (IF createMissing THEN <<Member(key, to)>> ELSE <<>>)
         \o SelectSeq(@, After)]

SetKey(l, key, to, createMissing) ==
  LET Before(m) == Precedes(m.k, key)
      After(m)  == Precedes(key, m.k)
      exists    == findPairIndexByKey(l.members, key) # 0
  IN  [l EXCEPT !.members =
         SelectSeq(@, Before)
         \o (IF exists \/ createMissing THEN <<Member(key, to)>> ELSE <<>>)
         \o SelectSeq(@, After)]

InsertedAt(l, i, to) ==
  [l EXCEPT !.members = SubSeq(@, 1, i) \o <<Member(<<>>, to)>> \o Drop(@, i)]

SetIndex(l, idx, to, createMissing) ==
  IF idx \in 0..Len(l.members) - 1 THEN [l EXCEPT !.members[idx + 1].v = to]
  ELSE IF ~createMissing THEN l
  ELSE InsertedAt(l, IF idx < 0 THEN 0 ELSE Len(l.members), to)

setValKeyOrIdx(l, key, to, createMissing) ==
  CASE l.type = ObjectType -> SetKey(l, key, to, createMissing)
    [] l.type = ArrayType  ->
         IF ~IsIndex(key) THEN Failure
         ELSE SetIndex(l, FromEnd(Atoi(key), Len(l.members)), to, createMissing)
    [] OTHER -> l

insertValKeyOrIdx(l, key, newVal, insertAfter) ==
  CASE l.type = ObjectType ->
         IF findPairIndexByKey(l.members, key) # 0 THEN Failure ELSE SetKey(l, key, newVal, TRUE)
    [] l.type = ArrayType ->
         IF ~IsIndex(key) THEN Failure
         ELSE LET n   == Len(l.members)
                  idx == FromEnd(Atoi(key), n) + (IF insertAfter THEN 1 ELSE 0)
              IN  InsertedAt(l, IF idx <= 0 THEN 0 ELSE IF idx >= n THEN n ELSE idx, newVal)
    [] OTHER -> l

\* The part of an opened container to go on with, and it put back.
PutBack(l, key, sub, createMissing) ==
  IF sub = Failure THEN Failure ELSE setValKeyOrIdx(l, key, sub, createMissing)

RECURSIVE deepSet(_, _, _, _), deepInsert(_, _, _, _)
deepSet(l, path, to, createMissing) ==
  IF Len(path) = 1 THEN setValKeyOrIdx(l, path[1], to, createMissing)
  ELSE IF FetchValKeyOrIdx(l, path[1]) = NoValue THEN l
  ELSE PutBack(l, path[1],
               deepSet(shallowDecode(FetchValKeyOrIdx(l, path[1])), Tail(path), to, createMissing),
               createMissing)
deepInsert(l, path, to, insertAfter) ==
  IF Len(path) = 1 THEN insertValKeyOrIdx(l, path[1], to, insertAfter)
  ELSE IF FetchValKeyOrIdx(l, path[1]) = NoValue THEN l
  ELSE PutBack(l, path[1],
               deepInsert(shallowDecode(FetchValKeyOrIdx(l, path[1])), Tail(path), to, insertAfter),
               TRUE)

DeepSet(j, path, to, createMissing) ==
  IF isScalar(j) THEN Failure
  ELSE IF path = <<>> THEN j ELSE deepSet(shallowDecode(j), path, to, createMissing)
DeepInsert(j, path, to, insertAfter) ==
  IF isScalar(j) THEN Failure
  ELSE IF path = <<>> THEN j ELSE deepInsert(shallowDecode(j), path, to, insertAfter)
-----------------------------------------------------------------------------
(* ObjectBuilder *)

\* Where pairSorter puts a pair among sorted ones that were added after it.
RECURSIVE PutPair(_, _)
PutPair(pair, pairs) ==
  IF pairs = <<>> \/ Precedes(pair.k, pairs[1].k) THEN <<pair>> \o pairs
  ELSE <<pairs[1]>> \o PutPair(pair, Tail(pairs))
RECURSIVE SortPairs(_)
SortPairs(pairs) == IF pairs = <<>> THEN <<>> ELSE PutPair(Head(pairs), SortPairs(Tail(pairs)))

\* The first of the pairs with a key, which is the one that was added last.
UniquePairs(pairs) ==
  LET first == {i \in DOMAIN pairs : i = 1 \/ pairs[i].k # pairs[i - 1].k}
  IN  Joined([i \in DOMAIN pairs |-> IF i \in first THEN <<pairs[i]>> ELSE <<>>])
Build(pairs) == JObject(UniquePairs(SortPairs(pairs)))
-----------------------------------------------------------------------------
(* Contains *)

\* A sequence in the order of Compare.
RECURSIVE Inserted(_, _), Ordered(_)
Inserted(j, js) ==
  IF js = <<>> \/ Compare(j, js[1]) = -1 THEN <<j>> \o js ELSE <<js[1]>> \o Inserted(j, Tail(js))
Ordered(js) == IF js = <<>> THEN <<>> ELSE Inserted(Head(js), Ordered(Tail(js)))

\* The values of an array that are of some types.
Elements(j, types) ==
  LET Among(m) == m.v.type \in types
      among    == SelectSeq(j.members, Among)
  IN  [i \in DOMAIN among |-> among[i].v]
Scalars == NullType..TrueType

\* Each scalar is searched for in what is left of the sorted others.
RECURSIVE ScalarsIn(_, _)
\* Mutant: a scalar that was found is not searched for again.
FoundOnceAt(remaining, vals, found) ==
  /\ found < Len(remaining)
  /\ Compare(remaining[found + 1], vals[1]) = 0
  /\ ScalarsIn(Drop(remaining, found + 1), Tail(vals))

FoundAt(remaining, vals, found) ==
  /\ found < Len(remaining)
  /\ Compare(remaining[found + 1], vals[1]) = 0
  /\ ScalarsIn(Drop(remaining, found), Tail(vals))
ScalarsIn(remaining, vals) ==
  vals = <<>> \/ FoundAt(remaining, vals,
                         Search([i \in DOMAIN remaining |-> Compare(remaining[i], vals[1]) >= 0]))

\* preprocessForContains, of one level.
Preprocessed(j) == IF alreadyDecoded(j) THEN j.cached[1] ELSE Decoded(j)

RECURSIVE ContainsAll(_, _), MembersIn(_, _)
\* Members are looked for in one pass over the two sorted lists.
MembersIn(l, r) ==
  \/ r = <<>>
  \/ /\ l # <<>>
     /\ IF Precedes(l[1].k, r[1].k) THEN MembersIn(Tail(l), r)
        ELSE l[1].k = r[1].k /\ ContainsAll(l[1].v, r[1].v) /\ MembersIn(Tail(l), Tail(r))
EachIn(js, others) ==
  \A n \in DOMAIN others : \E i \in DOMAIN js : ContainsAll(js[i], others[n])
ContainsAll(a, b) ==
  CASE a.type = ObjectType /\ b.type = ObjectType ->
         MembersIn(Preprocessed(a).members, Preprocessed(b).members)
    [] a.type = ArrayType /\ b.type = ArrayType ->
         LET x == Preprocessed(a)
             y == Preprocessed(b)
         IN  /\ ScalarsIn(Ordered(Elements(x, Scalars)), Ordered(Elements(y, Scalars)))
             /\ EachIn(Elements(x, {ObjectType}), Elements(y, {ObjectType}))
             /\ EachIn(Elements(x, {ArrayType}), Elements(y, {ArrayType}))
    [] OTHER -> isScalar(a) /\ isScalar(b) /\ Compare(a, b) = 0

\* The operator @>; an array contains a scalar that is one of its elements.
Contains(a, b) ==
  IF a.type = ArrayType /\ isScalar(b)
  THEN \E i \in 1..JLen(a) : Compare(shallowDecode(a).members[i].v, b) = 0
  ELSE ContainsAll(a, b)

\* The simple form of it the tests compare with.
RECURSIVE SlowContainsAll(_, _)
SlowContainsAll(a, b) ==
  CASE a.type = ObjectType /\ b.type = ObjectType ->
         \A n \in DOMAIN b.members :
           \E i \in DOMAIN a.members : /\ a.members[i].k = b.members[n].k
                                       /\ SlowContainsAll(a.members[i].v, b.members[n].v)
    [] a.type = ArrayType /\ b.type = ArrayType ->
         \A n \in DOMAIN b.members :
           \E i \in DOMAIN a.members : SlowContainsAll(a.members[i].v, b.members[n].v)
    [] OTHER -> a = b
slowContains(a, b) ==
  IF a.type = ArrayType /\ isScalar(b)
  THEN \E i \in DOMAIN a.members : a.members[i].v = b
  ELSE SlowContainsAll(a, b)
-----------------------------------------------------------------------------
(* Paths and the keys of the inverted index.  The bytes of encoding.go.    *)

escape                   == 0
escapedTerm              == 1
escapedJSONObjectKeyTerm == 2
escapedJSONArray         == 3
escaped00                == 255
bytesMarker              == 18
numberMarker             == 23   \* the marker of a number, which is in a cell
jsonInvertedIndex        == 53
jsonEmptyArray           == 54
jsonEmptyObject          == 55
TrueByte                 == 10
FalseByte                == 11

Escaped(s) == Joined([i \in DOMAIN s |-> IF s[i] = escape THEN <<escape, escaped00>> ELSE <<s[i]>>])
EncodeJSONKey(s, end) ==
  Escaped(s) \o IF end THEN <<>> ELSE <<escape, escapedJSONObjectKeyTerm>>
ScalarKey(j) ==
  CASE j.type = NullType   -> <<0>>
    [] j.type = FalseType  -> <<FalseByte>>
    [] j.type = TrueType   -> <<TrueByte>>
    [] j.type = NumberType -> <<numberMarker>> \o j.text
    [] OTHER -> <<bytesMarker>> \o Escaped(j.text) \o <<escape, escapedTerm>>

\* Whether a key ends there: the test is on how the value is held.
EndsPath(v) == v.encoded \/ JLen(v) = 0

\* The keys of a document after a prefix, as a set: an array's are made unique.
RECURSIVE IndexKeysOf(_, _)
IndexKeysOf(prefix, l) ==
  CASE isScalar(l) -> {prefix \o <<escape, escapedTerm>> \o ScalarKey(l)}
    [] l.type = ArrayType /\ l.members = <<>> ->
         {prefix \o <<escape, escapedTerm, jsonEmptyArray>>}
    [] l.type = ObjectType /\ l.members = <<>> ->
         {prefix \o <<escape, escapedTerm, jsonEmptyObject>>}
    [] l.type = ArrayType /\ l.members # <<>> ->
         UNION {IndexKeysOf(prefix \o <<escape, escapedJSONArray>>, Decoded(l.members[i].v)) :
                  i \in DOMAIN l.members}
    [] OTHER ->
         UNION {IndexKeysOf(prefix \o EncodeJSONKey(l.members[i].k, EndsPath(l.members[i].v)),
                            Decoded(l.members[i].v)) : i \in DOMAIN l.members}
EncodeInvertedIndexKeys(j) == IndexKeysOf(<<jsonInvertedIndex>>, Decoded(j))

\* An object adds its members' up, an array counts the keys that differ.
RECURSIVE SumOf(_)
SumOf(s) == IF s = <<>> THEN 0 ELSE Head(s) + SumOf(Tail(s))
\* Mutant: the elements of an array are added up too.
RECURSIVE entriesAddedUp(_)
entriesAddedUp(j) ==
  IF JLen(j) = 0 THEN 1
  ELSE SumOf([i \in 1..JLen(j) |-> entriesAddedUp(Decoded(j).members[i].v)])

RECURSIVE numInvertedIndexEntries(_)
numInvertedIndexEntries(j) ==
  CASE JLen(j) = 0 -> 1
    [] JLen(j) # 0 /\ j.type = ArrayType -> Cardinality(IndexKeysOf(<<>>, Decoded(j)))
    [] OTHER -> SumOf([i \in 1..JLen(j) |-> numInvertedIndexEntries(Decoded(j).members[i].v)])

\* The paths to the leaves, each a document of its own.
RECURSIVE AllPaths(_)
AllPaths(j) ==
  IF JLen(j) = 0 THEN {Decoded(j)}
  ELSE UNION {{[Decoded(j) EXCEPT !.members = <<[Decoded(j).members[i] EXCEPT !.v = p]>>] :
                 p \in AllPaths(Decoded(j).members[i].v)} : i \in 1..JLen(j)}

RECURSIVE HasContainerLeaf(_)
HasContainerLeaf(j) ==
  IsContainer(j) /\ (JLen(j) = 0 \/ \E i \in 1..JLen(j) : HasContainerLeaf(Decoded(j).members[i].v))
-----------------------------------------------------------------------------
(* Steps *)

IsDocument(j) == j.type > 0

\* The two answers are the documents to go on with, if they are documents.
Answer(h, p) == held' = h /\ plain' = p /\ ops' = ops + 1

\* A document as it is and, if it is not too long, stored and fetched.
Stored(j)    == FromEncoding(EncodeJSON(j))
EitherWay(j) == {j} \cup IF checkLength(j) THEN {Stored(j)} ELSE {}

Init ==
  /\ plain \in Docs
  /\ held \in EitherWay(plain)
  /\ ops = 0

Store == checkLength(held) /\ Answer(Stored(held), plain)

\* It is printed, or compared: what was decoded for that stays with it.
Format == Answer(AfterDecode(held), plain)
Iterate == Answer(AfterShallow(held), plain)

Fetch ==
  \E path \in Paths : Answer(FetchPath(held, path), FetchPath(plain, path))

ConcatOther ==
  \E o \in Others : \E other \in EitherWay(o) :
    \/ Answer(Concat(held, other), Concat(plain, o))
    \/ Answer(Concat(other, held), Concat(o, plain))

Remove ==
  \/ \E s \in Keys : Answer(RemoveString(held, s), RemoveString(plain, s))
  \/ \E s \in Keys : IsIndex(s) /\ Answer(RemoveIndex(held, Atoi(s)), RemoveIndex(plain, Atoi(s)))
  \/ \E path \in Paths : Answer(RemovePath(held, path), RemovePath(plain, path))
  \/ Answer(StripNulls(held), StripNulls(plain))

Put ==
  \E path \in Paths, o \in Others, b \in BOOLEAN : \E other \in EitherWay(o) :
    \/ Answer(DeepSet(held, path, other, b), DeepSet(plain, path, o, b))
    \/ Answer(DeepInsert(held, path, other, b), DeepInsert(plain, path, o, b))

BuildObject ==
  \E k \in Keys, l \in Keys :
    Answer(Build(<<Member(k, held), Member(l, JNull)>>), Build(<<Member(k, plain), Member(l, JNull)>>))

Next ==
  /\ IsDocument(held) /\ ops < MaxOps
  /\ Store \/ Format \/ Iterate \/ Fetch \/ ConcatOther \/ Remove \/ Put \/ BuildObject

Spec == Init /\ [][Next]_vars
-----------------------------------------------------------------------------
\* What an operation makes of a document is the same document however it and
\* its parts are held, and what is asked of it is answered alike.
HeldAlike ==
  /\ Plain(held) = plain
  /\ IsDocument(held) =>
       /\ Compare(held, plain) = 0 /\ Compare(plain, held) = 0
       /\ JLen(held) = JLen(plain)
       /\ HasContainerLeaf(held) = HasContainerLeaf(plain)
       /\ AllPaths(held) = AllPaths(plain)
       /\ \A s \in Keys : Plain(FetchValKeyOrIdx(held, s)) = FetchValKeyOrIdx(plain, s)
       /\ \A o \in Others : \A other \in EitherWay(o) :
            /\ Compare(held, other) = Compare(plain, o)
            /\ Contains(held, other) = slowContains(plain, o)
            /\ Contains(other, held) = slowContains(o, plain)

\* The same of the operator ?.
ExistsAlike == IsDocument(held) => \A s \in Keys : Exists(held, s) = Exists(plain, s)

\* What is set at a path is fetched from it, or from the end of the array that
\* has not got so many elements; its neighbours stay, what is removed from an
\* object is gone, and of two values built into an object with one key the
\* later is fetched.
PutIsFetched ==
  \A path \in Paths, o \in Others :
    LET n     == Len(path)
        key   == path[n]
        above == SubSeq(path, 1, n - 1)
        l     == FetchPath(plain, above)
        set   == DeepSet(plain, path, o, TRUE)
        idx   == FromEnd(Atoi(key), JLen(l))
    IN  /\ l.type = ObjectType =>
             /\ FetchPath(set, path) = o
             /\ FetchPath(RemovePath(plain, path), path) = NoValue
             /\ \A k \in Keys \ {key} :
                  FetchPath(set, above \o <<k>>) = FetchPath(plain, above \o <<k>>)
        /\ l.type = ArrayType /\ IsIndex(key) =>
             FetchValIdx(FetchPath(set, above), IF idx < 0 THEN 0 ELSE IF idx < JLen(l) THEN idx ELSE -1)
               = o
        /\ n = 1 => \A k \in Keys :
             FetchValKey(Build(<<Member(k, plain), Member(key, o)>>), key) = o

\* A document that contains another has its index keys, unless an empty
\* container is to be contained, and it contains a path whose key it has.
IndexFindsContained ==
  IsDocument(plain) =>
    /\ numInvertedIndexEntries(plain) = Cardinality(EncodeInvertedIndexKeys(plain))
    /\ \A o \in Others \cup AllPaths(plain) :
         IsContainer(o) =>
           /\ Contains(plain, o) /\ ~HasContainerLeaf(o) =>
                EncodeInvertedIndexKeys(o) \subseteq EncodeInvertedIndexKeys(plain)
           /\ EncodeInvertedIndexKeys(o) \subseteq EncodeInvertedIndexKeys(plain)
                /\ Cardinality(AllPaths(o)) = 1 => Contains(plain, o)
=============================================================================
