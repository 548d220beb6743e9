--------------------------- MODULE EagerKeyspace ---------------------------
(***************************************************************************)
(* What expiry promises, without a mechanism: a keyspace from which a key  *)
(* vanishes at the very moment its time comes.  Every command is then      *)
(* executed on live objects only.                                          *)
(***************************************************************************)
EXTENDS Integers, FiniteSets, SequencesExt

CONSTANTS
    Keys, Null, Commands, MaxTime,
    Execute(_, _, _),   \* the results of a command on a keyspace at a time
    Number(_)           \* the reply that is a number

VARIABLES db, now, reply

vars == <<db, now, reply>>

Init ==
    /\ db = [k \in Keys |-> Null]
    /\ now = 0
    /\ reply = << >>

\* The handlers, given nothing that is due.  DEL may count keys that have
\* already vanished, never more than it names.
Results(c) ==
    IF c.name = "DEL" /\ c.args # << >>
    THEN LET named == ToSet(c.args)
             least == Cardinality({k \in named : db[k] # Null})
         IN  {[db |-> [k \in Keys |-> IF k \in named THEN Null ELSE db[k]],
               reply |-> Number(n)] : n \in least .. Cardinality(named)}
    ELSE Execute(c, db, now)

Command(c) ==
    /\ \E r \in Results(c) : db' = r.db /\ reply' = r.reply
    /\ UNCHANGED now

\* Time comes for the objects whose deadline is reached.
Elapse ==
    /\ now < MaxTime
    /\ now' = now + 1
    /\ db' = [k \in Keys |->
                IF db[k] # Null /\ db[k].exp \in Nat /\ db[k].exp <= now'
                THEN Null ELSE db[k]]
    /\ UNCHANGED reply

Next == Elapse \/ \E c \in Commands : Command(c)

Spec == Init /\ [][Next]_vars
=============================================================================
