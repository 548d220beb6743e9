----------------------------- MODULE SortedSet -----------------------------
(***************************************************************************)
(* What the handlers of zset_cmd.cpp take a skip list to be: a score for   *)
(* each member, changed by one call at a time, with the answer each call   *)
(* gives.  Ranks and ranges are those of ZSetCmds over this function.      *)
(***************************************************************************)
EXTENDS ZSetCmds

CONSTANT ScoreSet   \* the scores callers give

VARIABLES
    zset,   \* the score of each member, Null where there is none
    answer  \* what the last finished call returned

vars == <<zset, answer>>

Init ==
    /\ zset = [m \in Elems |-> Null]
    /\ answer = FALSE

\* TRUE unless m already has this very score.
Insert(s, m) ==
    /\ answer' = (zset[m] # s)
    /\ zset' = [zset EXCEPT ![m] = s]

\* TRUE if there was such a member.
Delete(m) ==
    /\ answer' = (zset[m] # Null)
    /\ zset' = [zset EXCEPT ![m] = Null]

Next == \E m \in Elems : Delete(m) \/ \E s \in ScoreSet : Insert(s, m)

Spec == Init /\ [][Next]_vars
=============================================================================
