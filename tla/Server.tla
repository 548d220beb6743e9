------------------------------- MODULE Server ------------------------------
(***************************************************************************)
(* RedisServer: the keyspace with its two files, the append-only log of    *)
(* the write commands (aof.cpp) and the snapshot (rdb.cpp), through starts, *)
(* graceful stops and crashes of the process.  A crash loses the memory    *)
(* and keeps the files.                                                    *)
(***************************************************************************)
EXTENDS Keyspace

CONSTANTS
    MaxLog,     \* bound: no command is served once the log has this length
    MaxStarts   \* bound: number of starts after the first

ASSUME BoundsAssumption == MaxLog \in Nat /\ MaxStarts \in Nat

VARIABLES
    mode,       \* "up", "down", or "loading" in LoadPersistedData
    aof,        \* appendonly.aof: the commands logged, never truncated
    rdb,        \* dump.rdb: the keyspace last saved (as good as none if empty)
    pos,        \* while loading: the number of commands replayed
    starts,     \* the number of starts
    \* History, which no step of the server depends on:
    acked,      \* the keyspace when the process last served
    trail       \* trail[i + 1]: the keyspace when aof[i] was logged

files    == <<aof, rdb>>
history  == <<acked, trail>>
svars    == <<vars, mode, files, pos, starts, history>>

ServerTypeOK ==
    /\ TypeOK
    /\ mode \in {"up", "down", "loading"}
    /\ aof \in Seq(Commands)
    /\ rdb \in Databases
    /\ pos \in 0 .. Len(aof)
    /\ starts \in Nat
    /\ acked \in Databases
    /\ trail \in Seq(Databases)
    /\ Len(trail) = Len(aof) + 1

-----------------------------------------------------------------------------

\* Mutant: a command missing from the table of writes.
WritesWithoutRPop ==
    {"SET", "DEL", "HSET", "HDEL", "LPUSH", "RPUSH", "LPOP", "SADD", "SREM", "SPOP",
     "ZADD", "ZREM", "EXPIRE", "PEXPIRE"}

WriteCommands ==
    {"SET", "DEL", "HSET", "HDEL", "LPUSH", "RPUSH", "LPOP", "RPOP", "SADD", "SREM",
     "SPOP", "ZADD", "ZREM", "EXPIRE", "PEXPIRE"}

IsWriteCommand(name) == name \in WriteCommands

\* Mutant: only writes that answer OK are logged.
LoggedIfOk(c, answer) == IsWriteCommand(c.name) /\ answer = Simple("OK")

\* A write is logged unless its reply begins with "-ERR": one refused with
\* "-WRONGTYPE" is.
Logged(c, answer) == IsWriteCommand(c.name) /\ answer # Error

ServerInit ==
    /\ Init
    /\ mode = "up"
    /\ aof = << >>
    /\ rdb = EmptyDb
    /\ pos = 0
    /\ starts = 0
    /\ acked = EmptyDb
    /\ trail = <<EmptyDb>>

\* Mutant: AppendToAof writes the name and forgets the words.
ServeLoggingName(c) ==
    /\ mode = "up"
    /\ Len(aof) < MaxLog
    /\ ProcessCommand(c)
    /\ aof' = IF Logged(c, reply') THEN Append(aof, [c EXCEPT !.args = << >>]) ELSE aof
    /\ trail' = IF Logged(c, reply') THEN Append(trail, db') ELSE trail
    /\ UNCHANGED <<mode, rdb, pos, starts, acked>>

\* A command of a client, and AppendToAof.
Serve(c) ==
    /\ mode = "up"
    /\ Len(aof) < MaxLog
    /\ ProcessCommand(c)
    /\ aof' = IF Logged(c, reply') THEN Append(aof, c) ELSE aof
    /\ trail' = IF Logged(c, reply') THEN Append(trail, db') ELSE trail
    /\ UNCHANGED <<mode, rdb, pos, starts, acked>>

ExpireCheck ==
    /\ mode = "up"
    /\ PeriodicExpireCheck
    /\ UNCHANGED <<mode, files, pos, starts, history>>

ClockTick ==
    /\ Elapse
    /\ UNCHANGED <<mode, files, pos, starts, history>>

\* The process is gone, and what clients have been told is in acked.
GoDown ==
    /\ mode' = "down"
    /\ acked' = IF mode = "up" THEN db ELSE acked
    /\ db' = EmptyDb
    /\ reply' = << >>
    /\ pos' = 0
    /\ UNCHANGED <<now, lastCheck, aof, starts, trail>>

Crash ==
    /\ mode \in {"up", "loading"}
    /\ GoDown
    /\ UNCHANGED rdb

\* SIGINT or SIGTERM, seen by main() between two Ticks.  An empty keyspace is
\* not saved.
Stop ==
    /\ mode = "up"
    /\ GoDown
    /\ rdb' = IF Used(db) # {} THEN db ELSE rdb

\* What Load makes of an entry that is cut off in the file.  Whatever is missing is
\* read as zeros: a type as that of a string, a word as a shorter or an empty one,
\* which is another of Elems.  Cut ahead of its type, an entry is a string with no
\* deadline, or with a part of that of the object.
CutStrings(o) ==
    {SetExpire(CreateString(e), at) :
        e \in Elems, at \in IF o = Null \/ o.exp = NoExpiry THEN {NoExpiry}
                            ELSE {NoExpiry} \cup 0 .. o.exp}

\* "new" has no more elements than "old", and all but two of them from there: the one
\* that was cut, and the empty one that those behind it are read as.
Salvaged(old, new) ==
    /\ Cardinality(Present(new)) <= Cardinality(Present(old))
    /\ Cardinality({x \in Present(new) : new[x] # old[x]}) <= 2

\* The payloads of a container cut behind its type.  The count says how many elements
\* are read, unless it is cut itself; a score that is cut is next to nothing.
CutHashes(hash) == {h \in [Elems -> Elems \cup {Null}] : Salvaged(hash, h)}

CutAfter(list, m, cut, empty) ==
    SubSeq(list, 1, m) \o [i \in 1 .. Len(list) - m |-> IF i = 1 THEN cut ELSE empty]

Empties(n, empty) == [i \in 1 .. n |-> empty]

CutLists(list) ==
    {CutAfter(list, m, cut, empty) : m \in 0 .. Len(list), cut \in Elems, empty \in Elems}
    \cup {Empties(n, empty) : n \in 0 .. Len(list), empty \in Elems}

CutSets(set) ==
    {s \in SUBSET Elems : Cardinality(s) <= Cardinality(set) /\ Cardinality(s \ set) <= 2}

CutZSets(zset) ==
    {z \in [Elems -> {zset[m] : m \in Elems} \cup {0, Null}] :
        Salvaged(zset, z) /\ \A m \in Present(z) : z[m] \in {zset[m], 0}}

Remnants(o) ==
    {Null} \cup CutStrings(o) \cup
    IF HasType(o, "hash") THEN {[o EXCEPT !.hash = h] : h \in CutHashes(o.hash)}
    ELSE IF HasType(o, "list") THEN {[o EXCEPT !.list = l] : l \in CutLists(o.list)}
    ELSE IF HasType(o, "set")  THEN {[o EXCEPT !.set = s] : s \in CutSets(o.set)}
    ELSE IF HasType(o, "zset") THEN {[o EXCEPT !.zset = z] : z \in CutZSets(o.zset)}
    ELSE {}

\* The process dies in RdbSaver::Save, which has already truncated the file: some
\* keys have been written, and the entry of one more is cut.  If its key is, that may
\* look like any other, one that was written included.
StopInterrupted ==
    /\ mode = "up"
    /\ Used(db) # {}
    /\ GoDown
    /\ \E written \in SUBSET Used(db), cut \in Keys :
       \E o \in Remnants(IF cut \in written THEN Null ELSE db[cut]) :
          rdb' = [k \in Keys |->
                    IF k = cut THEN o ELSE IF k \in written THEN db[k] ELSE Null]

\* The constructor, and Init as far as RdbSaver::Load.
Start ==
    /\ mode = "down"
    /\ starts < MaxStarts
    /\ starts' = starts + 1
    /\ mode' = "loading"
    /\ db' = rdb
    /\ lastCheck' = now
    /\ UNCHANGED <<now, reply, files, pos, history>>

\* Mutants: the last command is replayed first; a key of the snapshot is not
\* touched; a refused command stops the replay.
ReplayBackwards ==
    /\ mode = "loading"
    /\ pos < Len(aof)
    /\ \E r \in Execute(aof[Len(aof) - pos], db, now) : db' = r.db
    /\ pos' = pos + 1
    /\ UNCHANGED <<now, lastCheck, reply, mode, files, starts, history>>

ReplayUnderSnapshot ==
    /\ mode = "loading"
    /\ pos < Len(aof)
    /\ \E r \in Execute(aof[pos + 1], db, now) :
          db' = [k \in Keys |-> IF rdb[k] # Null THEN rdb[k] ELSE r.db[k]]
    /\ pos' = pos + 1
    /\ UNCHANGED <<now, lastCheck, reply, mode, files, starts, history>>

ReplayUntilRefused ==
    /\ mode = "loading"
    /\ pos < Len(aof)
    /\ \E r \in Execute(aof[pos + 1], db, now) : r.reply # WrongType /\ db' = r.db
    /\ pos' = pos + 1
    /\ UNCHANGED <<now, lastCheck, reply, mode, files, starts, history>>

\* One command of AofLogger::Replay, at the time of the replay.
ReplayOne ==
    /\ mode = "loading"
    /\ pos < Len(aof)
    /\ \E r \in Execute(aof[pos + 1], db, now) : db' = r.db
    /\ pos' = pos + 1
    /\ UNCHANGED <<now, lastCheck, reply, mode, files, starts, history>>

\* Init returns, and main() enters its loop.
Ready ==
    /\ mode = "loading"
    /\ pos = Len(aof)
    /\ mode' = "up"
    /\ pos' = 0
    /\ UNCHANGED <<vars, files, starts, history>>

NextWithoutStop ==
    \/ \E c \in Commands : Serve(c)
    \/ ExpireCheck
    \/ ClockTick
    \/ Crash
    \/ Start
    \/ ReplayOne
    \/ Ready

ServerNext == NextWithoutStop \/ Stop \/ StopInterrupted

ServerSpec == ServerInit /\ [][ServerNext]_svars

\* A server that is only ever killed, so that no snapshot exists.
CrashSpec == ServerInit /\ [][NextWithoutStop]_svars

\* One that is killed, or stopped in good order.
StopSpec == ServerInit /\ [][NextWithoutStop \/ Stop]_svars

\* LoadPersistedData is straight-line code: it runs on unless the process dies.
LoadingSpec == ServerSpec /\ WF_svars(ReplayOne) /\ WF_svars(Ready)

-----------------------------------------------------------------------------

\* When everything is loaded the keyspace is, for clients, the one the process
\* served when it went down: nothing acknowledged is lost, nothing comes back
\* and nothing is applied twice.
Loaded == mode = "loading" /\ pos = Len(aof)

RecoveryExact == Loaded => Live(db, now) = Live(acked, now)

\* A replay goes through the very keyspaces in which the log was written: each
\* command is executed again on what it was executed on.
ReplayRetraces == mode = "loading" => db = trail[pos + 1]

\* What is not logged need not be: a command that IsWriteCommand does not name,
\* or that answers with -ERR, leaves what clients see as it was.
UnloggedHarmless ==
    [][\A c \in Commands :
         Serve(c) /\ ~ Logged(c, reply') => Live(db, now)' = Live(db, now)]_svars

\* The keys a logged command can change.
Names(c) == IF c.name = "DEL" THEN ToSet(c.args) ELSE {c.args[1]}

\* What a SET without options leaves under the key it names, and a DEL.
Wins(c, k, d) ==
    /\ c.name = "SET" /\ Len(c.args) = 2 => d[k] = CreateString(c.args[2])
    /\ c.name = "DEL" => d[k] = Null

\* For each key, the last of the first n logged commands that names it wins.
LastWritesIn(n) ==
    \A i \in 1 .. n : \A k \in Names(aof[i]) :
        (\A j \in i + 1 .. n : k \notin Names(aof[j])) => Wins(aof[i], k, db)

\* Whatever else went into the log and the snapshot, and wherever the snapshot was
\* cut (Remnants), a key whose last logged command is a SET without options or a DEL has that
\* value, or is gone, after every restart.
LastWriteWins == Loaded => LastWritesIn(Len(aof))

\* The trail tells the whole story: each logged command led from one keyspace of
\* it to the next, the last was served when the process went down, and the
\* snapshot is one of them.  It does not after a start over a torn snapshot.
TrailComplete ==
    /\ \A i \in 1 .. Len(aof) :
          \E r \in Execute(aof[i], trail[i], now) : trail[i + 1] = r.db
    /\ acked = trail[Len(trail)]
    /\ rdb \in ToSet(trail)

\* Commands that set what they name, whatever there was.
Repeatable(c) ==
    \/ c.name \in {"DEL", "HSET", "HDEL"}
    \/ c.name = "SET" /\ Len(c.args) = 2

\* The log is replayed over a snapshot that holds its effects already; if every
\* command of it is repeatable, and the snapshot is whole, of whatever moment, the
\* keyspace is restored all the same.
RecoveryRepeatable ==
    Loaded /\ TrailComplete /\ (\A i \in 1 .. Len(aof) : Repeatable(aof[i]))
        => Live(db, now) = Live(acked, now)

\* A start ends with the server ready, or with another crash.
StartupCompletes == mode = "loading" ~> mode \in {"up", "down"}

-----------------------------------------------------------------------------
(* Why a replay is exact when the server is only ever killed.              *)

\* Commands whose effect is a function of the keyspace: no deadline, no draw,
\* and no ZADD that fails half way.
Durable(c) ==
    /\ c.name \notin {"EXPIRE", "PEXPIRE", "SPOP"}
    /\ c.name = "SET" => \A i \in 3 .. Len(c.args) : c.args[i] \notin {EX, PX}
    /\ c.name = "ZADD" => ScoredPairs(c.args) = PairStarts(c.args)

Lasting(o) == o # Null => o.exp = NoExpiry

Persistent(d) == \A k \in Keys : Lasting(d[k])

\* The inductive invariant behind RecoveryExact: each logged command leads from
\* one keyspace of the trail to the next, from the empty one to the one being
\* served, or the one acknowledged, and a replay has reached its place in it.
RecoveryInv ==
    /\ ServerTypeOK
    /\ rdb = EmptyDb
    /\ trail[1] = EmptyDb
    /\ \A i \in 1 .. Len(trail) : Persistent(trail[i])
    /\ \A i \in 1 .. Len(aof) :
          \E r \in Execute(aof[i], trail[i], 0) : trail[i + 1] = r.db
    /\ mode = "up" => db = trail[Len(trail)]
    /\ mode # "up" => acked = trail[Len(trail)]
    /\ mode = "loading" => db = trail[pos + 1]
    /\ mode # "loading" => pos = 0

\* The inductive invariant behind LastWriteWins: only writes with words are logged,
\* and a replay has settled every key as far as it has come.
LastWriteInv ==
    /\ ServerTypeOK
    /\ \A i \in 1 .. Len(aof) : IsWriteCommand(aof[i].name) /\ aof[i].args # << >>
    /\ mode = "loading" => LastWritesIn(pos)
    /\ mode # "loading" => pos = 0
=============================================================================
