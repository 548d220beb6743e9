------------------------------ MODULE Keyspace -----------------------------
(***************************************************************************)
(* The running keyspace: Dict and ExpireManager under the commands of all  *)
(* clients, the clock, and the periodic expiry of RedisServer::Tick.  One  *)
(* thread does all of it, so a command is one step; what interleaves is    *)
(* time, commands and expiry checks.                                       *)
(***************************************************************************)
EXTENDS Router

CONSTANTS
    Commands,       \* the commands clients send
    SampleSize,     \* keys in one sample of PeriodicCheck: 20
    MaxLoops,       \* samples in one PeriodicCheck at most (kMaxLoops): 16
    CheckPeriod,    \* the least time between two periodic checks: 100 ms
    MaxTime,        \* bound: the clock stops here
    MaxList         \* bound: no command that makes a list longer is sent

ASSUME CommandsAssumption == \A c \in Commands : WellFormed(c)

ASSUME PeriodAssumption ==
    /\ SampleSize \in Nat \ {0}
    /\ MaxLoops \in Nat \ {0}
    /\ CheckPeriod \in Nat
    /\ MaxTime \in Nat
    /\ MaxList \in Nat

VARIABLES
    db,         \* db_, the keyspace
    now,        \* Clock::now()
    lastCheck,  \* last_expire_check_
    reply       \* the reply to the last command

vars == <<db, now, lastCheck, reply>>

TypeOK ==
    /\ db \in Databases
    /\ now \in Nat
    /\ lastCheck \in Nat

-----------------------------------------------------------------------------

WithinBounds(d) ==
    \A k \in Keys : HasType(d[k], "list") => Len(d[k].list) <= MaxList

Init ==
    /\ db = EmptyDb
    /\ now = 0
    /\ lastCheck = 0
    /\ reply = << >>

\* A client's command is executed.
ProcessCommand(c) ==
    /\ \E r \in Execute(c, db, now) :
          /\ WithinBounds(r.db)
          /\ db' = r.db
          /\ reply' = r.reply
    /\ UNCHANGED <<now, lastCheck>>

\* Time passes.
Elapse ==
    /\ now < MaxTime
    /\ now' = now + 1
    /\ UNCHANGED <<db, lastCheck, reply>>

\* Mutant: a sample that is one key short.
SampleOneShort(n) == IF n < SampleSize - 1 THEN n ELSE SampleSize - 1

\* The number of keys drawn from the n that are left.
SampleOf(n) == IF n < SampleSize THEN n ELSE SampleSize

\* Mutant: a sample without live keys ends the check.
FruitfulIfMixed(sample, due) ==
    Cardinality(sample \cap due) \in 1 .. Cardinality(sample) - 1

\* More than a quarter of the sample was expired: PeriodicCheck goes on.
Fruitful(sample, due) == 4 * Cardinality(sample \cap due) > Cardinality(sample)

\* The samples one PeriodicCheck can draw, in order, when the keys in use are
\* "used" and those of them in "due" are expired.
Rounds(used, due) ==
    LET Left(rs, i) == used \ UNION {rs[j] : j \in 1 .. i}
    IN  {rs \in SeqOf(SUBSET used, MaxLoops) :
           /\ \A i \in 1 .. Len(rs) :
                 /\ rs[i] \subseteq Left(rs, i - 1)
                 /\ Left(rs, i - 1) # {}
                 /\ Cardinality(rs[i]) = SampleOf(Cardinality(Left(rs, i - 1)))
                 /\ i < Len(rs) => Fruitful(rs[i], due)
           /\ \/ Left(rs, Len(rs)) = {} \/ Len(rs) = MaxLoops
              \/ Len(rs) > 0 /\ ~ Fruitful(rs[Len(rs)], due)}

\* At most once per CheckPeriod, expired keys among the sampled ones go.
PeriodicExpireCheck ==
    /\ now - lastCheck >= CheckPeriod
    /\ lastCheck' = now
    /\ \E rs \in Rounds(Used(db), Expired(db, now)) :
          db' = Without(db, (UNION ToSet(rs)) \cap Expired(db, now))
    /\ UNCHANGED <<now, reply>>

Next ==
    \/ \E c \in Commands : ProcessCommand(c)
    \/ Elapse
    \/ PeriodicExpireCheck

Spec == Init /\ [][Next]_vars

\* Time does not stop, and the loop of main() reaches PeriodicExpireCheck at
\* the end of every Tick, whatever the clients do.
FairSpec == Spec /\ WF_vars(Elapse) /\ WF_vars(PeriodicExpireCheck)

-----------------------------------------------------------------------------
(* What clients are meant to see.                                          *)

\* The keyspace without the objects whose time has passed.
Live(d, t) == Without(d, Expired(d, t))

EagerDb == Live(db, now)

Eager == INSTANCE EagerKeyspace WITH db <- EagerDb

\* Lazy and periodic expiry cannot be told from a keyspace in which every key
\* vanishes at the moment it is due: no handler reads, keeps alive, retypes or
\* lists an object whose time has passed, whatever was or was not cleaned up
\* before (DEL alone may count such keys).
LazyExpiryInvisible == Eager!Spec

\* The number of elements in an object.
Content(o) ==
    IF o = Null THEN 0
    ELSE CASE o.type = "string" -> 1
           [] o.type = "hash" -> Cardinality(Present(o.hash))
           [] o.type = "list" -> Len(o.list)
           [] o.type = "set"  -> Cardinality(o.set)
           [] o.type = "zset" -> Cardinality(Present(o.zset))

\* The key of a command on one key.
Target(c) == IF c.args = << >> THEN Null ELSE c.args[1]

Hollow(o) == o # Null /\ Content(o) = 0

\* Whatever takes the last element out of a container (HDEL, SREM, SPOP, LPOP,
\* RPOP, ZREM) also removes the key, and what creates one fills it: EXISTS and TYPE
\* never show a key that holds nothing.  Only a ZADD can leave one, by failing on its
\* first score.
NoEmptyContainer ==
    [][\A k \in Keys : Hollow(db'[k]) /\ ~ Hollow(db[k]) =>
         \E c \in Commands :
            c.name = "ZADD" /\ Target(c) = k /\ ProcessCommand(c) /\ reply' = Error]_vars

\* The counts that write commands answer are what happened to the key: what
\* HSET, SADD and ZADD say they added is what it grew by, what HDEL, SREM and
\* ZREM say they removed is what it shrank by, a push answers the new length,
\* and the pops answer as many elements as are gone.
CountsAgree ==
    [][\A c \in Commands :
         ProcessCommand(c) /\ c.name \in KeyNames /\ Target(c) # Null =>
           LET before == Content(Live(db, now)[Target(c)])
               after  == Content(Live(db, now)'[Target(c)])
               counted == Len(reply') = 2 /\ reply'[1] = ":"
           IN  /\ c.name \in {"HSET", "SADD", "ZADD"} /\ counted =>
                     reply'[2] = after - before
               /\ c.name \in {"HDEL", "SREM", "ZREM"} /\ counted =>
                     reply'[2] = before - after
               /\ c.name \in {"LPUSH", "RPUSH"} /\ counted => reply'[2] = after
               /\ c.name \in {"LPOP", "RPOP", "SPOP"} /\ Len(reply') = 2 =>
                     before - after = CASE reply'[1] = "$" -> 1
                                        [] reply'[1] = "*" -> Len(reply'[2])
                                        [] reply'[1] = "~" -> Cardinality(reply'[2])
      ]_vars

\* A key that clients can see before and after a step keeps its type unless
\* SET overwrote it, and its deadline unless SET, EXPIRE or PEXPIRE did: the
\* GetOrCreate helpers never replace an object in place, not even with one
\* whose time has passed under the same key.
ObjectsKept ==
    [][\A k \in Keys :
         LET old == Live(db, now)[k]
             new == Live(db, now)'[k]
             By(names) == \E c \in Commands : /\ c.name \in names
                                              /\ Target(c) = k
                                              /\ ProcessCommand(c)
         IN  old # Null /\ new # Null =>
               /\ old.type # new.type => By({"SET"})
               /\ old.exp # new.exp => By({"SET", "EXPIRE", "PEXPIRE"})]_vars

\* Memory comes back: an expired key goes (or is given a new life) even if no command
\* names it again, while a check is sure to reach it: one sample covers the keyspace,
\* or all of it is expired, so that each sample is followed by another one, and not
\* too large for that.  The last CheckPeriod before the clock's bound is left out.
ExpiredReclaimed ==
    \A k \in Keys :
        LET n == Cardinality(Used(db))
            reached == \/ n <= SampleSize
                       \/ n <= SampleSize * MaxLoops /\ Used(db) = Expired(db, now)
        IN  now <= MaxTime - CheckPeriod /\ IsExpired(db[k], now) /\ reached
                ~> ~ IsExpired(db[k], now) \/ ~ reached

\* A check keeps its pace with a burst: when everything in use is expired, each
\* sample is fruitful, and MaxLoops full samples go in one check.
BurstReclaimed ==
    [][PeriodicExpireCheck /\ Used(db) = Expired(db, now) =>
         LET n == Cardinality(Used(db))
         IN  Cardinality(Used(db)') =
                IF n <= SampleSize * MaxLoops THEN 0 ELSE n - SampleSize * MaxLoops]_vars
=============================================================================
