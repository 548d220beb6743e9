-------------------------------- MODULE Glob --------------------------------
(***************************************************************************)
(* MatchGlob (string_cmd.cpp), the matcher of KEYS, one turn of its loop   *)
(* at a time, against a definition of the patterns it is said to support.  *)
(* Characters are their codes, which may be negative as a char may be;     *)
(* positions count from 1.                                                 *)
(***************************************************************************)
EXTENDS Integers, Sequences, SequencesExt

CONSTANTS
    Keys,       \* the strings that are matched
    Patterns    \* against these

ASSUME InputsAssumption == Keys \subseteq Seq(Int) /\ Patterns \subseteq Seq(Int)

Star   == 42
Dash   == 45
AnyOne == 63
Open   == 91
Close  == 93
Caret  == 94

VARIABLES
    str, pattern,   \* the arguments
    si, pi,         \* what is compared next
    starIdx,        \* the last star that was met, or 0
    matchIdx,       \* how far the string is left to that star
    result          \* "none" while the loop runs, then "match" or "mismatch"

vars == <<str, pattern, si, pi, starIdx, matchIdx, result>>

Init ==
    /\ str \in Keys
    /\ pattern \in Patterns
    /\ si = 1
    /\ pi = 1
    /\ starIdx = 0
    /\ matchIdx = 1
    /\ result = "none"

-----------------------------------------------------------------------------

Running == result = "none" /\ si <= Len(str)

\* The character of the pattern that is next, if there is one.
NextIs(c) == pi <= Len(pattern) /\ pattern[pi] = c

\* The first branch: a question mark, or the same character, also if that is a star
\* or a bracket.
Literal == NextIs(AnyOne) \/ NextIs(str[si])

MatchOne ==
    /\ Running
    /\ Literal
    /\ si' = si + 1
    /\ pi' = pi + 1
    /\ UNCHANGED <<str, pattern, starIdx, matchIdx, result>>

MeetStar ==
    /\ Running
    /\ ~ Literal /\ NextIs(Star)
    /\ starIdx' = pi
    /\ matchIdx' = si
    /\ pi' = pi + 1
    /\ UNCHANGED <<str, pattern, si, result>>

\* A mutant: the star is not left one more character.
BacktrackStuck ==
    /\ Running
    /\ ~ Literal /\ ~ NextIs(Star) /\ starIdx # 0
    /\ pi' = starIdx + 1
    /\ si' = matchIdx
    /\ UNCHANGED <<str, pattern, starIdx, matchIdx, result>>

\* The last star takes one more character.
Backtrack ==
    /\ Running
    /\ ~ Literal /\ ~ NextIs(Star) /\ starIdx # 0
    /\ pi' = starIdx + 1
    /\ matchIdx' = matchIdx + 1
    /\ si' = matchIdx'
    /\ UNCHANGED <<str, pattern, starIdx, result>>

\* pattern.find(']', from), or 0.
FindClose(from) ==
    LET closes == {i \in from .. Len(pattern) : pattern[i] = Close}
    IN  IF closes = {} THEN 0 ELSE CHOOSE i \in closes : \A j \in closes : i <= j

\* A character c and the class from position cs to close, as the loop goes through
\* it: a range takes three positions, if they are all there.
InClass(c, cs, close) ==
    LET in[ci \in 1 .. close] ==
            IF ci = close THEN FALSE
            ELSE IF ci + 2 < close /\ pattern[ci + 1] = Dash
            THEN (pattern[ci] <= c /\ c <= pattern[ci + 2]) \/ in[ci + 3]
            ELSE pattern[ci] = c \/ in[ci + 1]
    IN  in[cs]

\* The class at pi takes the character at si.
ClassTakes ==
    LET close  == FindClose(pi)
        negate == pi + 1 <= Len(pattern) /\ pattern[pi + 1] = Caret
    IN  close # 0 /\ (negate # InClass(str[si], IF negate THEN pi + 2 ELSE pi + 1, close))

\* A class is looked at only while no star has been met: Backtrack comes first.
AtClass == ~ Literal /\ NextIs(Open) /\ starIdx = 0

MatchClass ==
    /\ Running
    /\ AtClass /\ ClassTakes
    /\ si' = si + 1
    /\ pi' = FindClose(pi) + 1
    /\ UNCHANGED <<str, pattern, starIdx, matchIdx, result>>

\* return false.
Mismatch ==
    /\ Running
    /\ ~ Literal /\ ~ NextIs(Star) /\ starIdx = 0
    /\ NextIs(Open) => ~ ClassTakes
    /\ result' = "mismatch"
    /\ UNCHANGED <<str, pattern, si, pi, starIdx, matchIdx>>

\* Mutants: stars at the end are not passed; the end of the pattern is not looked at.
FinishAtOnce ==
    /\ result = "none" /\ si > Len(str)
    /\ result' = IF pi = Len(pattern) + 1 THEN "match" ELSE "mismatch"
    /\ UNCHANGED <<str, pattern, si, pi, starIdx, matchIdx>>

FinishAnyhow ==
    /\ result = "none" /\ si > Len(str)
    /\ result' = "match"
    /\ UNCHANGED <<str, pattern, si, pi, starIdx, matchIdx>>

\* The end of the string: nothing but stars may be left of the pattern.
Finish ==
    /\ result = "none" /\ si > Len(str)
    /\ result' = IF \A i \in pi .. Len(pattern) : pattern[i] = Star THEN "match" ELSE "mismatch"
    /\ UNCHANGED <<str, pattern, si, pi, starIdx, matchIdx>>

Next == MatchOne \/ MeetStar \/ Backtrack \/ MatchClass \/ Mismatch \/ Finish

Spec == Init /\ [][Next]_vars /\ WF_vars(Next)

-----------------------------------------------------------------------------

\* The characters of a class: its elements are read from the left, and three characters
\* with a dash in the middle are a range.
Class(from, close) ==
    LET members[i \in 1 .. close] ==
            IF i = close THEN {}
            ELSE IF i + 2 < close /\ pattern[i + 1] = Dash
            THEN (pattern[i] .. pattern[i + 2]) \cup members[i + 3]
            ELSE {pattern[i]} \cup members[i + 1]
    IN  members[from]

IsClass(j) == pattern[j] = Open /\ FindClose(j) # 0

Negated(j) == j < Len(pattern) /\ pattern[j + 1] = Caret

\* What stands at j, and is no star, describes the character c.
Describes(j, c) ==
    IF IsClass(j) THEN Negated(j) # (c \in Class(IF Negated(j) THEN j + 2 ELSE j + 1, FindClose(j)))
    ELSE pattern[j] \in {AnyOne, c}

Behind(j) == IF IsClass(j) THEN FindClose(j) + 1 ELSE j + 1

\* What the patterns mean: the positions from which on the string matches the pattern
\* from j on.
Places ==
    LET from[j \in 1 .. Len(pattern) + 1] ==
            IF j > Len(pattern) THEN {Len(str) + 1}
            ELSE IF pattern[j] = Star THEN {i \in 1 .. Len(str) + 1 : \E k \in from[j + 1] : i <= k}
            ELSE {i \in 1 .. Len(str) : Describes(j, str[i]) /\ i + 1 \in from[Behind(j)]}
    IN  from

Matches == 1 \in Places[1]

\* A key without a bracket is not matched by a pattern that does not describe it,
\* though stars and brackets of the pattern are compared with the key first.
NoFalseMatch == result = "match" /\ Open \notin ToSet(str) => Matches

\* The matcher returns what the pattern means if the key has neither stars nor
\* opening brackets in it and the pattern no class behind a star.
MatchExact ==
    /\ result # "none"
    /\ {Star, Open} \cap ToSet(str) = {}
    /\ \A i, j \in DOMAIN pattern : i < j /\ pattern[i] = Star => pattern[j] # Open
    => (result = "match" <=> Matches)

\* The loop ends, however often it goes back to a star.
Terminates == <>(result # "none")
=============================================================================
