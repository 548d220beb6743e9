------------------------------ MODULE SkipList -----------------------------
(***************************************************************************)
(* SkipList (skiplist.cpp): nodes linked on several levels, a backward     *)
(* chain, a tail, and the map from members to scores beside them.  Insert  *)
(* and Delete are followed pointer by pointer: a search that goes down the *)
(* levels and remembers a node on each, then the change of the links.      *)
(*                                                                         *)
(* rank and span are computed by the code and read by nothing: left out.   *)
(***************************************************************************)
EXTENDS ZSetCmds

CONSTANTS
    ScoreSet,   \* the scores Insert is given; one that is no integer is nan
    Nodes,      \* addresses of nodes: a bound on how many are alive
    Header,     \* header_
    MaxLevel    \* kMaxLevel: 32

\* struct SkipListNode without its links.
SkipListNodes == [score : ScoreSet, member : Elems, levels : 1 .. MaxLevel]

ASSUME NodesAssumption ==
    /\ Header \notin Nodes
    /\ Null \notin Nodes \cup {Header}
    /\ Null \notin SkipListNodes

ASSUME MaxLevelAssumption == MaxLevel \in Nat \ {0}

Levels == 0 .. MaxLevel - 1

VARIABLES
    node,       \* score, member and levels of each node, Null where none lives
    forward,    \* forward[i][n]: the node after n on level i, or Null
    backward,   \* backward[n]: the node before n on level 0, or Null
    tail, level, size, score_map,
    \* The call in progress:
    call,       \* "idle", "insert", "delete", or "replace": Delete inside Insert
    member,     \* its member
    newScore,   \* the score Insert was given
    oldScore,   \* the score the map had for the member, Null if none
    cur, i, tied,   \* the search: its node, its level, past the first loop
    update,     \* update[i]: where the search left level i
    answer      \* what the last call returned

links == <<node, forward, backward, tail, level, size>>
arguments == <<call, member, newScore, oldScore>>
vars == <<links, score_map, arguments, cur, i, tied, update, answer>>

Alive == {n \in Nodes : node[n] # Null}

\* The nodes that have a link on level l.
OnLevel(l) == {n \in Alive : node[n].levels > l}

TypeOK ==
    /\ node \in [Nodes -> SkipListNodes \cup {Null}]
    /\ forward \in [Levels -> [Nodes \cup {Header} -> Nodes \cup {Null}]]
    /\ backward \in [Nodes -> Nodes \cup {Null}]
    /\ tail \in Nodes \cup {Null}
    /\ level \in 1 .. MaxLevel
    /\ size \in Nat
    /\ score_map \in [Elems -> ScoreSet \cup {Null}]
    /\ call \in {"idle", "insert", "delete", "replace"}
    /\ member \in Elems \cup {Null}
    /\ {newScore, oldScore} \subseteq ScoreSet \cup {Null}
    /\ cur \in Nodes \cup {Header}
    /\ i \in -1 .. MaxLevel - 1
    /\ tied \in BOOLEAN
    /\ update \in [Levels -> Nodes \cup {Header}]
    /\ answer \in BOOLEAN

-----------------------------------------------------------------------------

\* Doubles: nothing is less than nan, or equal to it.
Less(s, t) == s \in Int /\ t \in Int /\ s < t
Same(s, t) == s \in Int /\ s = t

Init ==
    /\ node = [n \in Nodes |-> Null]
    /\ forward = [l \in Levels |-> [n \in Nodes \cup {Header} |-> Null]]
    /\ backward = [n \in Nodes |-> Null]
    /\ tail = Null
    /\ level = 1
    /\ size = 0
    /\ score_map = [m \in Elems |-> Null]
    /\ call = "idle"
    /\ member = Null
    /\ newScore = Null
    /\ oldScore = Null
    /\ cur = Header
    /\ i = -1
    /\ tied = FALSE
    /\ update = [l \in Levels |-> Header]
    /\ answer = FALSE

\* A search begins at the header, on the highest of lev levels.
Seek(lev) ==
    /\ cur' = Header
    /\ i' = lev - 1
    /\ tied' = FALSE
    /\ update' = [l \in Levels |-> Header]

\* The call ends.
Return(result) ==
    /\ call' = "idle"
    /\ answer' = result
    /\ member' = Null
    /\ newScore' = Null
    /\ oldScore' = Null
    /\ Seek(0)

\* The member leaves the map before its node is looked for.
Begin(c, m, s) ==
    /\ call' = c
    /\ member' = m
    /\ newScore' = s
    /\ oldScore' = score_map[m]
    /\ Seek(level)
    /\ score_map' = [score_map EXCEPT ![m] = Null]
    /\ UNCHANGED answer

\* Mutants: a member that is there with another score is not deleted first; the
\* score it has is not looked at.
InsertBeside(s, m) ==
    /\ call = "idle"
    /\ IF Same(score_map[m], s)
       THEN Return(FALSE) /\ UNCHANGED score_map
       ELSE Begin("insert", m, s)
    /\ UNCHANGED links

InsertAlways(s, m) ==
    /\ call = "idle"
    /\ Begin(IF score_map[m] = Null THEN "insert" ELSE "replace", m, s)
    /\ UNCHANGED links

\* Insert is called.  A member with another score is deleted first.
Insert(s, m) ==
    /\ call = "idle"
    /\ IF Same(score_map[m], s)
       THEN Return(FALSE) /\ UNCHANGED score_map
       ELSE Begin(IF score_map[m] = Null THEN "insert" ELSE "replace", m, s)
    /\ UNCHANGED links

\* Delete is called.
Delete(m) ==
    /\ call = "idle"
    /\ IF score_map[m] = Null
       THEN Return(FALSE) /\ UNCHANGED score_map
       ELSE Begin("delete", m, Null)
    /\ UNCHANGED links

\* The score that is searched for.
score == IF call = "insert" THEN newScore ELSE oldScore

\* The node the search sees ahead of it on its level.
Ahead == forward[i][cur]

Searching == call # "idle" /\ i >= 0

\* The first loop of a level passes lower scores, the second one passes lower
\* members with the same score.
PassesScore == ~ tied /\ Ahead # Null /\ Less(node[Ahead].score, score)

PassesTie ==
    /\ Ahead # Null
    /\ Same(node[Ahead].score, score)
    /\ node[Ahead].member < member

\* Mutant: the second loop does not move on.
AdvanceStalling ==
    /\ Searching
    /\ PassesScore \/ PassesTie
    /\ cur' = IF PassesScore THEN Ahead ELSE cur
    /\ tied' = ~ PassesScore
    /\ UNCHANGED <<links, score_map, arguments, i, update, answer>>

\* One turn of either loop.
Advance ==
    /\ Searching
    /\ PassesScore \/ PassesTie
    /\ cur' = Ahead
    /\ tied' = ~ PassesScore
    /\ UNCHANGED <<links, score_map, arguments, i, update, answer>>

\* Neither loop goes on: the next level down.
Descend ==
    /\ Searching
    /\ ~ PassesScore /\ ~ PassesTie
    /\ update' = [update EXCEPT ![i] = cur]
    /\ i' = i - 1
    /\ tied' = FALSE
    /\ UNCHANGED <<links, score_map, arguments, cur, answer>>

\* The search is over and the links change.
Found == call # "idle" /\ i = -1

\* Mutant: the node behind the new one keeps its way back.
OneWay(new, prev, next) ==
    [backward EXCEPT ![new] = IF prev = Header THEN Null ELSE prev]

\* The backward chain with a node put between two others.
Between(new, prev, next) ==
    [n \in Nodes |-> CASE n = new -> IF prev = Header THEN Null ELSE prev
                      [] n # new /\ n = next -> new
                      [] OTHER -> backward[n]]

\* The new node, at an address that is free, on levels 0 .. top - 1.  Above the
\* present levels it follows the header.
Link(top, new) ==
    LET before == [l \in Levels |-> IF l < level THEN update[l] ELSE Header]
    IN  /\ Found
        /\ call = "insert"
        /\ node[new] = Null
        /\ node' = [node EXCEPT
                      ![new] = [score |-> score, member |-> member, levels |-> top]]
        /\ forward' = [l \in Levels |->
                         IF l < top
                         THEN [forward[l] EXCEPT ![new] = forward[l][before[l]],
                                                 ![before[l]] = new]
                         ELSE forward[l]]
        /\ backward' = Between(new, before[0], forward[0][before[0]])
        /\ tail' = IF forward[0][before[0]] = Null THEN new ELSE tail
        /\ level' = IF top > level THEN top ELSE level
        /\ size' = size + 1
        /\ score_map' = [score_map EXCEPT ![member] = score]
        /\ Return(TRUE)

\* Mutant: level 0 goes too.
UsedOrNone(first, lev) ==
    CHOOSE k \in 0 .. lev :
        /\ k = 0 \/ first[k - 1] # Null
        /\ \A j \in k .. lev - 1 : first[j] = Null

\* The levels in use when the first link of every level is "first": the empty
\* ones at the top go, level 0 stays.
Used(first, lev) ==
    CHOOSE k \in 1 .. lev :
        /\ k = 1 \/ first[k - 1] # Null
        /\ \A j \in k .. lev - 1 : first[j] = Null

\* Mutant: the node stays on its upper levels.
BottomBypassing(gone) ==
    [forward EXCEPT ![0] = [@ EXCEPT ![update[0]] = forward[0][gone], ![gone] = Null]]

\* The forward links without a node, on each level on which the search stopped
\* ahead of it.
Bypassing(gone) ==
    [l \in Levels |->
        IF l < level /\ forward[l][update[l]] = gone
        THEN [forward[l] EXCEPT ![update[l]] = forward[l][gone], ![gone] = Null]
        ELSE [forward[l] EXCEPT ![gone] = Null]]

Unlink(gone) ==
    LET next == forward[0][gone]
    IN  /\ forward' = Bypassing(gone)
        /\ backward' = [n \in Nodes |-> CASE n = gone -> Null
                                          [] n # gone /\ n = next -> backward[gone]
                                          [] OTHER -> backward[n]]
        /\ tail' = IF next = Null THEN backward[gone] ELSE tail
        /\ level' = Used([l \in Levels |-> forward'[l][Header]], level)
        /\ node' = [node EXCEPT ![gone] = Null]
        /\ size' = size - 1

\* The node behind the search is the member's, or the list stays as it is: the
\* map has forgotten the member either way.  Inside Insert the result is not
\* looked at, and a search for the new score follows.
Erase ==
    LET gone  == forward[0][cur]
        found == gone # Null /\ node[gone].member = member
    IN  /\ Found
        /\ call \in {"delete", "replace"}
        /\ IF found THEN Unlink(gone) ELSE UNCHANGED links
        /\ IF call = "replace"
           THEN call' = "insert" /\ Seek(level') /\ UNCHANGED <<member, newScore, oldScore, answer>>
           ELSE Return(found)
        /\ UNCHANGED score_map

Step == Advance \/ Descend \/ Erase \/ \E top \in 1 .. MaxLevel, new \in Nodes : Link(top, new)

Next ==
    \/ \E m \in Elems : Delete(m)
    \/ \E m \in Elems, s \in ScoreSet : Insert(s, m)
    \/ Step

Spec == Init /\ [][Next]_vars

\* A call is code that runs on.
FairSpec == Spec /\ WF_vars(Step)

-----------------------------------------------------------------------------
(* The readers, which walk the bottom level.                               *)

GetScore(m) == score_map[m]

\* Mutant: nodes with a lower score count, those with the same score do not.
GetRankByScore(m) ==
    IF score_map[m] = Null THEN Null
    ELSE Cardinality({n \in Alive : Less(node[n].score, score_map[m])})

\* The number of nodes ahead of m, Null if the walk does not meet m.
GetRank(m) ==
    LET s == score_map[m]
        from[n \in Alive \cup {Null}] ==
            IF n = Null THEN Null
            ELSE LET rest == from[forward[0][n]]
                 IN  IF \/ Less(node[n].score, s)
                        \/ Same(node[n].score, s) /\ node[n].member < m
                     THEN IF rest = Null THEN Null ELSE rest + 1
                     ELSE IF node[n].member = m THEN 0 ELSE rest
    IN  IF s = Null THEN Null ELSE from[forward[0][Header]]

\* The members from rank start to rank stop.
MembersByRank(start, stop) ==
    LET from[n \in Alive \cup {Null}] ==
            IF n = Null THEN << >> ELSE <<node[n].member>> \o from[forward[0][n]]
    IN  Slice(from[forward[0][Header]], start, stop)

\* The members with scores from min to max (RangeByScore, which no command uses):
\* lower ones are passed, and the walk stops at the first higher one.
MembersByScore(min, max) ==
    LET from[n \in Alive \cup {Null}] ==
            IF n = Null \/ ~ (Less(node[n].score, max) \/ Same(node[n].score, max))
            THEN << >>
            ELSE <<node[n].member>> \o from[forward[0][n]]
        pass[n \in Alive \cup {Null}] ==
            IF n # Null /\ Less(node[n].score, min) THEN pass[forward[0][n]] ELSE n
    IN  from[pass[forward[0][Header]]]

-----------------------------------------------------------------------------

\* The order of the list: by score, then by member.
Precedes(a, b) ==
    \/ node[a].score < node[b].score
    \/ node[a].score = node[b].score /\ node[a].member < node[b].member

\* n is the first, or the last, of the nodes S, and Null if there is none.
IsFirst(n, S) ==
    IF n = Null THEN S = {} ELSE n \in S /\ \A o \in S \ {n} : Precedes(n, o)
IsLast(n, S) ==
    IF n = Null THEN S = {} ELSE n \in S /\ \A o \in S \ {n} : Precedes(o, n)

After(n, S) == IF n = Header THEN S ELSE {o \in S : Precedes(n, o)}

\* Whatever calls were made and wherever the present one is, the links of each
\* level lead from the header through all nodes that have this level, in order
\* and once each, and no level above the highest node is in use: a search on
\* any level can miss nothing and ends.
LevelsLinked ==
    /\ \A l \in Levels : \A n \in OnLevel(l) \cup {Header} :
          IsFirst(forward[l][n], After(n, OnLevel(l)))
    /\ \A l \in Levels : l > 0 => (l < level <=> OnLevel(l) # {})

\* The way back is the way forth: each node knows the one ahead of it, and the
\* tail is the last.
BackwardMirrors ==
    /\ \A n \in Alive : IsLast(backward[n], {o \in Alive : Precedes(o, n)})
    /\ IsLast(tail, Alive)

\* The list and the map hold the same members with the same scores, and the
\* size is their number; a member that is being deleted has left the map but
\* not yet the list.
IndexAgrees ==
    /\ size = Cardinality(Alive)
    /\ \A n, o \in Alive : node[n].member = node[o].member => n = o
    /\ \A m \in Elems :
          LET s == IF call \in {"delete", "replace"} /\ m = member
                   THEN oldScore ELSE score_map[m]
          IN  {node[n].score : n \in {n \in Alive : node[n].member = m}}
                = IF s = Null THEN {} ELSE {s}

\* What is left of a sorted set without the scores below min and above max.
ScoredWithin(zset, min, max) ==
    [m \in Elems |-> IF zset[m] # Null /\ min <= zset[m] /\ zset[m] <= max THEN zset[m] ELSE Null]

\* Between calls the walks of GetRank, RangeByRank and RangeByScore tell what the
\* score map says: it is all that the handlers, as ZSetCmds has them, look at.
ReadersAgree ==
    LET width == Cardinality(Elems) + 1
    IN  call = "idle" =>
          /\ \A m \in Elems :
                GetRank(m) = IF score_map[m] = Null THEN Null ELSE Rank(score_map, m)
          /\ \A start, stop \in -width .. width :
                MembersByRank(start, stop) = RangeByRank(score_map, start, stop)
          /\ \A min, max \in ScoreSet :
                MembersByScore(min, max) = ByRank(ScoredWithin(score_map, min, max))

\* The contents as callers see them: those of before until a call returns.
Contents == IF call = "idle" THEN score_map ELSE [score_map EXCEPT ![member] = oldScore]

Abstract == INSTANCE SortedSet WITH zset <- Contents

\* Call by call, with answers, the skip list is a function from members to
\* scores, although a new score is a deletion and an insertion.
ImplementsSortedSet == Abstract!Spec

\* Every search ends, and so does every call.
CallsReturn == call # "idle" ~> call = "idle"
=============================================================================
