-------------------------------- MODULE Like --------------------------------
(***************************************************************************)
(* LIKE: a text is matched against a pattern in which % stands for any     *)
(* text, _ for any one character and a character after the escape one for  *)
(* itself (pkg/sql/sem/tree/eval.go).  Simple patterns are matched by      *)
(* direct comparison (optimizedLikeFunc), all others by a regular          *)
(* expression the pattern is rewritten into, in place and in five passes   *)
(* (likeKey.Pattern).  The property is that nobody can tell which of the   *)
(* two it was: both decide what the definition of LIKE says.               *)
(*                                                                         *)
(* A text is a sequence of characters, of which Bad is the one that        *)
(* utf8.DecodeRune reports as an error.  Package regexp is external.       *)
(***************************************************************************)
EXTENDS Integers, Sequences, FiniteSetsExt, SequencesExt

CONSTANTS
  Escapes,       \* the escape characters; NoEscape turns escapes off
  Patterns,      \* of every escape character, its patterns
  Texts          \* and the texts they are matched against

VARIABLES
  escape,
  pattern,
  caseInsensitive,
  answers        \* of every text, or <<>>

vars == <<escape, pattern, caseInsensitive, answers>>

NoEscape  == "NUL"
BackSlash == "\\"
Percent   == "%"
Under     == "_"
Bad       == "bad"
Meta      == {BackSlash, ".", "+", "*", "?", "(", ")", "|", "[", "]", "{", "}", "^", "$"}

Upper(s) == [i \in DOMAIN s |-> IF s[i] = "a" THEN "A" ELSE s[i]]
-----------------------------------------------------------------------------
\* t is in s at position i.
Starts(s, i, t) == i + Len(t) - 1 <= Len(s) /\ SubSeq(s, i, i + Len(t) - 1) = t

\* Package strings.
IndexOf(s, t) ==
  LET at == {i \in 1 .. Len(s) - Len(t) + 1 : Starts(s, i, t)}
  IN  IF at = {} THEN 0 ELSE Min(at)

From(s, i) == SubSeq(s, i, Len(s))

RECURSIVE Count(_, _)
Count(s, t) ==
  LET k == IndexOf(s, t) IN IF k = 0 THEN 0 ELSE 1 + Count(From(s, k + Len(t)), t)

RECURSIVE ReplaceEach(_, _, _)
ReplaceEach(s, old, new) ==
  LET k == IndexOf(s, old)
  IN  IF k = 0 THEN s
      ELSE SubSeq(s, 1, k - 1) \o new \o ReplaceEach(From(s, k + Len(old)), old, new)

\* What is copied into a buffer of a fixed length.
Into(n, s) == SubSeq(s, 1, Min({n, Len(s)}))
-----------------------------------------------------------------------------
Text(s)  == [err |-> FALSE, text |-> s]
Refused  == [err |-> TRUE, text |-> <<>>]

\* The escape tokens that end right before position i.
RECURSIVE TokensBefore(_, _, _)
TokensBefore(s, i, token) ==
  LET j == i - Len(token)
  IN  IF j >= 1 /\ Starts(s, j, token) THEN 1 + TokensBefore(s, j, token) ELSE 0

\* Mutant: an escaped escape token escapes.
AnySuffix(s, suffix, token) == Last(s) = suffix /\ TokensBefore(s, Len(s), token) = 0

hasUnescapedSuffix(s, suffix, token) ==
  Last(s) = suffix /\ TokensBefore(s, Len(s), token) % 2 = 0

\* Remove n more escape tokens of rest; of two in a row the second stays.
RECURSIVE Unescape(_, _, _, _, _)
Unescape(n, done, rest, token, emit) ==
  IF n = 0 THEN Text(done \o rest)
  ELSE LET k    == IndexOf(rest, token)
           kept == done \o SubSeq(rest, 1, k - 1)
           next == k + Len(token)
       IN  IF k = Len(rest) - Len(token) + 1 /\ emit THEN Refused
           ELSE IF Starts(rest, k, token \o token)
                THEN Unescape(n - 1, kept \o token, From(rest, next + Len(token)), token, emit)
                ELSE Unescape(n - 1, kept, From(rest, next), token, emit)

\* Mutant: escaped escape tokens are counted twice.
UnescapeDouble(p, token, emit) ==
  LET n == Count(p, token)
  IN  IF n = 0 THEN Text(p)
      ELSE LET r == Unescape(n - Count(p, token \o token), <<>>, p, token, emit)
           IN  IF r.err THEN r ELSE Text(Into(Len(p) - n * Len(token), r.text))

unescapePattern(p, token, emit) ==
  LET n == Count(p, token) - Count(p, token \o token)
      r == Unescape(n, <<>>, p, token, emit)
  IN  IF r.err THEN r ELSE Text(Into(Len(p) - n * Len(token), r.text))

\* Replace the next n occurrences of old, from position start on, by new.
RECURSIVE ReplaceFrom(_, _, _, _, _, _)
ReplaceFrom(n, s, start, old, new, token) ==
  IF n = 0 THEN From(s, start)
  ELSE LET k    == start - 1 + IndexOf(From(s, start), old)
           kept == IF TokensBefore(s, k, token) % 2 = 1 THEN old ELSE new
       IN  SubSeq(s, start, k - 1) \o kept \o ReplaceFrom(n - 1, s, k + Len(old), old, new, token)

\* Mutant: the buffer has no room for what new is longer.
ReplaceInPlace(s, old, new, token) ==
  Into(Len(s), ReplaceFrom(Count(s, old), s, 1, old, new, token))

replaceUnescaped(s, old, new, token) ==
  LET n    == Count(s, old)
      more == n * (Len(new) - Len(old))
  IN  Into(Len(s) + (IF more > 0 THEN more ELSE 0), ReplaceFrom(n, s, 1, old, new, token))
-----------------------------------------------------------------------------
\* Direct comparison: a matcher, or None for a pattern that needs more.
Matcher(how, text, first, last) == [how |-> how, text |-> text, first |-> first, last |-> last]
None     == Matcher("none", <<>>, FALSE, FALSE)
LastIsEscape == Matcher("error", <<>>, FALSE, FALSE)

OneCharacter(c, e) ==
  IF c \notin {Percent, Under} THEN None
  ELSE IF e = c THEN LastIsEscape
  ELSE Matcher(IF c = Percent THEN "any" ELSE "one", <<>>, FALSE, FALSE)

optimizedLikeFunc(p, e) ==
  LET anyEnd         == hasUnescapedSuffix(p, Percent, <<e>>) /\ e # Percent
      anyStart       == p[1] = Percent /\ e # Percent
      singleAnyEnd   == hasUnescapedSuffix(p, Under, <<e>>) /\ e # Under
      singleAnyStart == p[1] = Under /\ e # Under
      un             == unescapePattern(p, <<e>>, TRUE)
      text           == un.text
  IN  IF p = <<>> THEN Matcher("empty", <<>>, FALSE, FALSE)
      ELSE IF Len(p) = 1 THEN OneCharacter(p[1], e)
      ELSE IF \E i \in 2 .. Len(p) - 1 : p[i] \in {Percent, Under} THEN None
      ELSE IF un.err THEN LastIsEscape
      ELSE IF anyEnd /\ anyStart THEN Matcher("contains", Front(Tail(text)), FALSE, FALSE)
      ELSE IF anyEnd THEN Matcher("prefix", Front(text), singleAnyStart, FALSE)
      ELSE IF anyStart THEN Matcher("suffix", Tail(text), FALSE, singleAnyEnd)
      ELSE IF singleAnyStart \/ singleAnyEnd THEN Matcher("equal", text, singleAnyStart, singleAnyEnd)
      ELSE None

Yes(b) == IF b THEN "yes" ELSE "no"

\* s without its first and its last character, as asked.
Trimmed(s, first, last) == SubSeq(s, IF first THEN 2 ELSE 1, IF last THEN Len(s) - 1 ELSE Len(s))

\* The call of a matcher, on a text that is not empty.
Compare(m, s, fold) ==
  LET Case(t) == IF fold THEN Upper(t) ELSE t
      rest == Case(Trimmed(s, m.first, m.last))
      text == Case(Trimmed(m.text, m.first, m.last))
  IN  CASE m.how = "empty"    -> Yes(s = <<>>)
        [] m.how = "any"      -> "yes"
        [] m.how = "contains" -> Yes(IndexOf(rest, text) # 0)
        [] \/ m.how \in {"one", "equal"} /\ s[1] = Bad
           \/ m.first /\ s[1] = Bad
           \/ m.last /\ Last(s) = Bad
           \/ m.how = "equal" /\ Last(s) = Bad  -> "error"
        [] m.how = "one"      -> Yes(Len(s) = 1)
        [] m.how = "prefix"   -> Yes(IsPrefix(text, rest))
        [] m.how = "suffix"   -> Yes(IsSuffix(text, rest))
        [] m.how = "equal"    -> Yes((m.first /\ m.last => Len(s) > 1) /\ rest = text)
-----------------------------------------------------------------------------
\* Regular expressions.
RECURSIVE QuoteMeta(_)
QuoteMeta(s) ==
  IF s = <<>> THEN <<>>
  ELSE (IF s[1] \in Meta THEN <<BackSlash, s[1]>> ELSE <<s[1]>>) \o QuoteMeta(Tail(s))

Two == <<BackSlash, BackSlash>>

\* The step of the two passes at the front of s: what it takes, what it gives,
\* whether that differs, and whether it is an error.
Custom(take, give, differs) == [take |-> take, give |-> give, differs |-> differs, err |-> FALSE]
CustomError == [take |-> 0, give |-> <<>>, differs |-> FALSE, err |-> TRUE]

EscapeStep(s, e) ==
  IF s[1] = e
  THEN IF Len(s) = 1 THEN CustomError
       ELSE IF s[2] = e THEN Custom(2, <<e>>, TRUE) ELSE Custom(1, Two, TRUE)
  ELSE IF s[1] # BackSlash THEN Custom(1, <<s[1]>>, FALSE)
  ELSE IF Len(s) = 1 THEN CustomError
  ELSE IF s[2] = BackSlash THEN Custom(2, Two \o Two, TRUE)
  ELSE IF s[2] # e THEN Custom(2, SubSeq(s, 1, 2), FALSE)
  ELSE IF Len(s) = 2 THEN CustomError
  ELSE IF Starts(s, 3, <<BackSlash, e>>) THEN Custom(4, <<BackSlash, e>>, TRUE)
  ELSE Custom(2, <<BackSlash>>, TRUE)

\* The first pass: whether the pattern changes, and its new length.
RECURSIVE calculateLengthAfterReplacingCustomEscape(_, _)
calculateLengthAfterReplacingCustomEscape(s, e) ==
  IF s = <<>> THEN [err |-> FALSE, changed |-> FALSE, retLen |-> 0]
  ELSE LET step == EscapeStep(s, e)
           rest == calculateLengthAfterReplacingCustomEscape(From(s, step.take + 1), e)
       IN  IF step.err THEN [err |-> TRUE, changed |-> FALSE, retLen |-> 0]
           ELSE [err     |-> rest.err,
                 changed |-> step.differs \/ rest.changed,
                 retLen  |-> Len(step.give) + rest.retLen]

\* The second pass: the new pattern, until it has its length.
RECURSIVE CustomPass(_, _, _)
CustomPass(s, e, left) ==
  IF left <= 0 THEN <<>>
  ELSE LET step == EscapeStep(s, e)
       IN  step.give \o CustomPass(From(s, step.take + 1), e, left - Len(step.give))

replaceCustomEscape(s, e) ==
  LET length == calculateLengthAfterReplacingCustomEscape(s, e)
  IN  IF length.err THEN Refused
      ELSE IF ~length.changed THEN Text(s)
      ELSE Text(CustomPass(s, e, length.retLen))

\* What stands for % and for _ when e is the escape character.
ForPercent(e) == IF e \in {".", "*"} THEN <<".", e, "*">> ELSE <<".", "*">>
ForUnder(e)   == IF e = "." THEN <<".", ".">> ELSE <<".">>

PatternOfEscape(p, e) ==
  LET token == QuoteMeta(<<e>>)
      p1 == IF e = Percent THEN p ELSE replaceUnescaped(p, <<Percent>>, ForPercent(e), token)
      p2 == IF e = Under THEN p1 ELSE replaceUnescaped(p1, <<Under>>, ForUnder(e), token)
      p3 == replaceUnescaped(p2, <<e>> \o Two, Two, token)
      p4 == replaceCustomEscape(p3, e)
  IN  IF p4.err THEN p4 ELSE unescapePattern(p4.text, Two, FALSE)

LikePattern(s, e) ==
  LET p == QuoteMeta(s)
  IN  IF e = NoEscape
      THEN Text(ReplaceEach(ReplaceEach(p, <<Percent>>, <<".", "*">>), <<Under>>, <<".">>))
      ELSE IF e = BackSlash
      THEN unescapePattern(
             replaceUnescaped(replaceUnescaped(p, <<Percent>>, <<".", "*">>, Two), <<Under>>, <<".">>, Two),
             Two, TRUE)
      ELSE PatternOfEscape(p, e)

\* The anchored expression re on the text s: an escaped character, .* and . are
\* all that a pattern of the escape characters here is rewritten into.
RECURSIVE Regexp(_, _)
Regexp(re, s) ==
  IF re = <<>> THEN s = <<>>
  ELSE IF Starts(re, 1, <<".", "*">>)
  THEN \E k \in 1 .. Len(s) + 1 : Regexp(From(re, 3), From(s, k))
  ELSE IF s = <<>> THEN FALSE
  ELSE IF re[1] = BackSlash
  THEN Len(re) > 1 /\ re[2] \in Meta /\ re[2] = s[1] /\ Regexp(From(re, 3), Tail(s))
  ELSE (re[1] = "." \/ (re[1] \notin Meta /\ re[1] = s[1])) /\ Regexp(Tail(re), Tail(s))

anchorPattern(re, s, fold) == IF fold THEN Regexp(Upper(re), Upper(s)) ELSE Regexp(re, s)
-----------------------------------------------------------------------------
\* The matching of all texts: the empty one is decided without a pattern.
Answers(p, e, fold) ==
  LET m  == optimizedLikeFunc(p, e)
      re == LikePattern(p, e)
  IN  [s \in Texts[e] |->
         IF s = <<>> THEN Yes(\A i \in DOMAIN p : p[i] = Percent /\ e # Percent)
         ELSE IF m.how = "error" THEN "error"
         ELSE IF m.how # "none" THEN Compare(m, s, fold)
         ELSE IF re.err THEN "error"
         ELSE Yes(anchorPattern(re.text, s, fold))]

Match ==
  /\ answers = <<>>
  /\ answers' = Answers(pattern, escape, caseInsensitive)
  /\ UNCHANGED <<escape, pattern, caseInsensitive>>

Init ==
  /\ escape \in Escapes
  /\ pattern \in Patterns[escape]
  /\ caseInsensitive \in BOOLEAN
  /\ answers = <<>>

Next == Match
Spec == Init /\ [][Next]_vars
-----------------------------------------------------------------------------
\* What LIKE means.
RECURSIVE Means(_, _, _)
Means(p, e, s) ==
  IF p = <<>> THEN s = <<>>
  ELSE IF p[1] = e THEN s # <<>> /\ s[1] = p[2] /\ Means(From(p, 3), e, Tail(s))
  ELSE IF p[1] = Percent THEN \E k \in 1 .. Len(s) + 1 : Means(Tail(p), e, From(s, k))
  ELSE s # <<>> /\ p[1] \in {Under, s[1]} /\ Means(Tail(p), e, Tail(s))

\* A pattern that ends in an escape character that escapes nothing.
Dangling(p, e) ==
  p # <<>> /\ Last(p) = e /\ TokensBefore(p, Len(p), <<e>>) % 2 = 0

\* Every text is answered as the definition says, whichever way it is matched; a
\* pattern that ends in its escape character is refused, and nothing else is but
\* texts with an invalid character, at their ends (eval.go 4600-4754 and
\* 5121-5203).
LikeMeans ==
  answers # <<>> =>
    \A s \in Texts[escape] \ {<<>>} :
      LET Case(t) == IF caseInsensitive THEN Upper(t) ELSE t
      IN  IF Dangling(pattern, escape) THEN answers[s] = "error"
          ELSE \/ answers[s] = Yes(Means(Case(pattern), escape, Case(s)))
               \/ answers[s] = "error" /\ Bad \in {s[1], Last(s)}
=============================================================================
