------------------------------ MODULE Snapshot ------------------------------
(***************************************************************************)
(* RdbSaver (rdb.cpp) over the bytes of dump.rdb: what Save writes, also   *)
(* when the process dies on the way, and what Load makes of it.            *)
(*                                                                         *)
(* The sizes are scaled down: a byte is a digit to base Base, and what     *)
(* takes four or eight bytes (lengths, deadlines, scores) takes two.       *)
(***************************************************************************)
EXTENDS Integers, Sequences, FiniteSets, SequencesExt

CONSTANTS
    Base,       \* 256
    Databases,  \* the keyspaces the process may hold
    NoExpiry,   \* nullopt
    TicksPerMs, \* steps of the clock in a millisecond
    MaxStarts   \* bound: number of starts

ASSUME BaseAssumption == Base \in Nat /\ Base > 8

ASSUME ClockAssumption == TicksPerMs \in Nat \ {0} /\ MaxStarts \in Nat

ASSUME NoExpiryAssumption == NoExpiry \notin Nat

Byte == 0 .. Base - 1

\* What fits into two digits.
Wide == 0 .. Base * Base - 1

IsWord(w) == w \in Seq(Byte) /\ Len(w) \in Wide

AreWords(S) == IsFiniteSet(S) /\ Cardinality(S) \in Wide /\ \A w \in S : IsWord(w)

\* A value that has the shape of its type.
IsValue(type, value) ==
    \/ type = "string" /\ IsWord(value)
    \/ type = "list" /\ value \in Seq(Seq(Byte)) /\ Len(value) \in Wide
                     /\ \A i \in DOMAIN value : IsWord(value[i])
    \/ type = "set" /\ AreWords(value)
    \/ type \in {"hash", "zset"} /\ AreWords(DOMAIN value)
          /\ value = [f \in DOMAIN value |-> value[f]]
          /\ \A f \in DOMAIN value : IF type = "hash" THEN IsWord(value[f]) ELSE value[f] \in Wide

IsDeadline(t) == t # NoExpiry => t \in Nat /\ t \div TicksPerMs \in Wide

\* RedisObject.
IsObject(o) ==
    /\ o = [type |-> o.type, value |-> o.value, expire_at |-> o.expire_at]
    /\ IsDeadline(o.expire_at)
    /\ IsValue(o.type, o.value)

IsKeyspace(d) ==
    /\ IsFiniteSet(DOMAIN d)
    /\ d = [k \in DOMAIN d |-> d[k]]
    /\ \A k \in DOMAIN d : IsWord(k) /\ IsObject(d[k])

ASSUME DatabasesAssumption == \A d \in Databases : IsKeyspace(d)

VARIABLES
    up,         \* the process runs
    db,         \* its keyspace, a function from the keys that exist
    file,       \* the bytes of dump.rdb, none if there is no such file
    starts,     \* the number of starts
    \* History:
    saved,      \* the keyspace of which that is the snapshot
    order       \* the order in which its keys were written

vars == <<up, db, file, starts, saved, order>>

-----------------------------------------------------------------------------
(* Save.                                                                   *)

Eof      == Base - 1
SelectDb == Base - 2
ExpireMs == Base - 4

Types == <<"string", "hash", "list", "set", "zset">>

Magic == <<1, 2>>

\* WriteU32, WriteI64 and WriteDouble: the low digit first.
WriteWide(v) == <<v % Base, (v \div Base) % Base>>

WriteString(s) == WriteWide(Len(s)) \o s

WriteExpire(exp) ==
    IF exp = NoExpiry THEN << >> ELSE <<ExpireMs>> \o WriteWide(exp \div TicksPerMs)

\* The members of a sorted set, from the lowest score on; in which order those with
\* the same score come is left open.
ByScore(scores) ==
    CHOOSE s \in SetToSeqs(DOMAIN scores) : \A i, j \in DOMAIN s : i < j => scores[s[i]] <= scores[s[j]]

\* What a value consists of, in the order of writing; for a hash and a set that of
\* a hash table.
Items(o) ==
    CASE o.type = "list" -> o.value
      [] o.type = "set"  -> SetToSeq(o.value)
      [] o.type = "hash" -> SetToSeq(DOMAIN o.value)
      [] o.type = "zset" -> ByScore(o.value)

WriteItem(o, x) ==
    CASE o.type \in {"list", "set"} -> WriteString(x)
      [] o.type = "hash"            -> WriteString(x) \o WriteString(o.value[x])
      [] o.type = "zset"            -> WriteString(x) \o WriteWide(o.value[x])

SaveItems(o, items) ==
    WriteWide(Len(items)) \o FlattenSeq([i \in 1 .. Len(items) |-> WriteItem(o, items[i])])

SaveValue(o) == IF o.type = "string" THEN WriteString(o.value) ELSE SaveItems(o, Items(o))

TypeByte(o) == (CHOOSE t \in DOMAIN Types : Types[t] = o.type) - 1

\* A mutant: the deadline comes behind the type.
SaveObjectLateExpire(o) == <<TypeByte(o)>> \o WriteExpire(o.expire_at) \o SaveValue(o)

SaveObject(o) == WriteExpire(o.expire_at) \o <<TypeByte(o)>> \o SaveValue(o)

Header == Magic \o <<1, SelectDb>> \o WriteWide(0)

\* A key with its object.
SaveEntry(d, k) == WriteString(k) \o SaveObject(d[k])

\* The file as far as the first n keys.
Entries(d, keys, n) == Header \o FlattenSeq([i \in 1 .. n |-> SaveEntry(d, keys[i])])

Save(d, keys) == Entries(d, keys, Len(keys)) \o <<Eof>> \o WriteWide(0)

-----------------------------------------------------------------------------
(* Load.  A stream is where it is, whether it is good, and what was read    *)
(* last; of what the file does not hold zeros are read.                    *)

ReadBytes(bytes, s, n) ==
    LET there == IF s.ok THEN Min({n, Len(bytes) - s.at}) ELSE 0
    IN  [at |-> s.at + there, ok |-> s.ok /\ there = n,
         v  |-> [i \in 1 .. n |-> IF i <= there THEN bytes[s.at + i] ELSE 0]]

ReadU8(bytes, s) == LET r == ReadBytes(bytes, s, 1) IN [r EXCEPT !.v = @[1]]

ReadWide(bytes, s) == LET r == ReadBytes(bytes, s, 2) IN [r EXCEPT !.v = @[1] + Base * @[2]]

ReadString(bytes, s) == LET len == ReadWide(bytes, s) IN ReadBytes(bytes, len, len.v)

\* A mutant: ReadI64 does not set v to 0, and what the file does not hold are the
\* ones that happen to be in memory.
ReadExpireUnset(bytes, s) ==
    LET marker == ReadU8(bytes, s)
        ms     == ReadWide(bytes, marker)
    IN  IF marker.v = ExpireMs THEN [ms EXCEPT !.v = IF ms.ok THEN @ * TicksPerMs ELSE -1]
        ELSE [at |-> s.at, ok |-> marker.ok, v |-> NoExpiry]

\* The byte that is no marker is put back, unless the stream has failed.
ReadExpire(bytes, s) ==
    LET marker == ReadU8(bytes, s)
        ms     == ReadWide(bytes, marker)
    IN  IF marker.v = ExpireMs THEN [ms EXCEPT !.v = @ * TicksPerMs]
        ELSE [at |-> s.at, ok |-> marker.ok, v |-> NoExpiry]

\* One of the things that a value of this type consists of.
ReadItem(bytes, s, type) ==
    LET first  == ReadString(bytes, s)
        second == IF type = "hash" THEN ReadString(bytes, first) ELSE ReadWide(bytes, first)
    IN  IF type \in {"list", "set"} THEN first ELSE [second EXCEPT !.v = <<first.v, @>>]

NextItem(bytes, before, type) ==
    [ReadItem(bytes, before, type) EXCEPT !.v = Append(before.v, @)]

\* The stream behind each of the n items that come next.
ItemsRead(bytes, from, n, type) ==
    LET after[i \in 0 .. n] ==
            IF i = 0 THEN [from EXCEPT !.v = << >>] ELSE NextItem(bytes, after[i - 1], type)
    IN  after

\* A count and as many things.
ReadAll(bytes, s, type) ==
    LET count == ReadWide(bytes, s)
    IN  ItemsRead(bytes, count, count.v, type)[count.v]

\* The last of the pairs with the same first element counts.
LastOf(pairs) ==
    [f \in {p[1] : p \in ToSet(pairs)} |->
        pairs[Max({i \in DOMAIN pairs : pairs[i][1] = f})][2]]

\* What the items make.
Collected(type, items) ==
    CASE type = "list"             -> items
      [] type = "set"              -> ToSet(items)
      [] type \in {"hash", "zset"} -> LastOf(items)

LoadObject(bytes, s, type) ==
    IF type = "string" THEN ReadString(bytes, s)
    ELSE [ReadAll(bytes, s, type) EXCEPT !.v = Collected(type, @)]

\* Dict::Set.
Put(d, k, o) == [x \in DOMAIN d \cup {k} |-> IF x = k THEN o ELSE d[x]]

\* A key with its object is added to what the stream holds; no object comes of an
\* unknown type.
LoadEntry(bytes, s) ==
    LET key  == ReadString(bytes, s)
        exp  == ReadExpire(bytes, key)
        type == ReadU8(bytes, exp)
        name == Types[type.v + 1]
        obj  == LoadObject(bytes, type, name)
    IN  IF type.v + 1 \notin DOMAIN Types THEN [type EXCEPT !.v = s.v]
        ELSE [obj EXCEPT !.v = Put(s.v, key.v, [type |-> name, value |-> @, expire_at |-> exp.v])]

\* One turn of the loop of Load, with a stream that holds what has been loaded.  It
\* ends at the end of the file, at a failure and at the byte that marks the end.
NextKey(bytes, before) ==
    IF ~ before.ok \/ before.at = Len(bytes) \/ bytes[before.at + 1] = Eof THEN before
    ELSE LoadEntry(bytes, before)

\* Each turn takes a byte at least.
KeysRead(bytes, from) ==
    LET after[i \in 0 .. Len(bytes)] == IF i = 0 THEN from ELSE NextKey(bytes, after[i - 1])
    IN  after

LoadKeys(bytes, from) == KeysRead(bytes, from)[Len(bytes)]

\* A mutant: nothing is kept of a file that is cut short.
LoadWholeOnly(bytes) ==
    LET loaded == LoadKeys(bytes, [at |-> Len(Header), ok |-> Len(bytes) > Len(Header), v |-> << >>])
    IN  IF loaded.ok /\ loaded.at < Len(bytes) THEN loaded.v ELSE << >>

\* Load into an empty keyspace.
Load(bytes) ==
    LET magic  == ReadBytes(bytes, [at |-> 0, ok |-> TRUE, v |-> << >>], Len(Magic))
        marker == ReadU8(bytes, ReadU8(bytes, magic))
        start  == IF marker.v = SelectDb THEN ReadWide(bytes, marker)
                  ELSE [marker EXCEPT !.at = IF marker.ok THEN @ - 1 ELSE @]
    IN  IF magic.v # Magic THEN << >> ELSE LoadKeys(bytes, [start EXCEPT !.v = << >>]).v

-----------------------------------------------------------------------------

\* A process that has been serving commands.
Init ==
    /\ up = TRUE
    /\ db \in Databases
    /\ file = << >>
    /\ starts = 0
    /\ saved = << >>
    /\ order = << >>

\* Commands have been served.  (Bound: by the first process only.)
Serve ==
    /\ up
    /\ starts = 0
    /\ db' \in Databases
    /\ UNCHANGED <<up, file, starts, saved, order>>

\* RedisServer::Stop.  The keys are written in the order of a hash table; an empty
\* keyspace is not saved.
Stop ==
    /\ up
    /\ starts < MaxStarts
    /\ up' = FALSE
    /\ IF DOMAIN db = {} THEN UNCHANGED <<file, saved, order>>
       ELSE /\ order' \in SetToSeqs(DOMAIN db)
            /\ file' = Save(db, order')
            /\ saved' = db
    /\ UNCHANGED <<db, starts>>

\* The process dies in Save.  The old snapshot is gone, of the new one there is
\* what has been written so far.
CrashInSave ==
    /\ up
    /\ starts < MaxStarts
    /\ up' = FALSE
    /\ DOMAIN db # {}
    /\ order' \in SetToSeqs(DOMAIN db)
    /\ \E written \in {Save(db, order')} :
       \E n \in 0 .. Len(written) - 1 : file' = SubSeq(written, 1, n)
    /\ saved' = db
    /\ UNCHANGED <<db, starts>>

Start ==
    /\ ~ up
    /\ starts < MaxStarts
    /\ up' = TRUE
    /\ db' = Load(file)
    /\ starts' = starts + 1
    /\ UNCHANGED <<file, saved, order>>

Next == Serve \/ Stop \/ CrashInSave \/ Start

Spec == Init /\ [][Next]_vars

-----------------------------------------------------------------------------

\* A file is made of bytes, and what is loaded of it, whole or cut off, is a keyspace:
\* values have the shape of their types and fit into a file again.
TypeOK ==
    /\ file \in Seq(Byte)
    /\ IsKeyspace(db)

\* A deadline comes back without its fraction of a millisecond.
Rounded(o) ==
    [o EXCEPT !.expire_at = IF @ = NoExpiry THEN @ ELSE (@ \div TicksPerMs) * TicksPerMs]

\* The length of a key is read where the end marker may be, the low byte first.
LooksLikeEof(k) == Len(k) % Base = Eof

\* The number of keys in order before the first that looks like the end.
Seen == Max({n \in 0 .. Len(order) : \A i \in 1 .. n : ~ LooksLikeEof(order[i])})

Whole == saved # << >> /\ file = Save(saved, order)

\* A snapshot that was written to its end is read back: every key with its type,
\* value and deadline, up to the first key whose length looks like the end marker,
\* and no other.
SnapshotReadsBack ==
    [][Start /\ Whole =>
         db' = [k \in {order[i] : i \in 1 .. Seen} |-> Rounded(saved[k])]]_vars

\* Neither empty nor with a zero in it, so that no other key, cut short and filled
\* up with zeros, is mistaken for it.
Plain(k) == k # << >> /\ 0 \notin ToSet(k)

\* Of one that was cut off, plain keys that had been written come back as they
\* were, and at most one key comes with them, that of the entry that was cut.
TornSnapshotKept ==
    [][Start /\ saved # << >> =>
         LET kept == {i \in 1 .. Seen : Len(Entries(saved, order, i)) <= Len(file)}
         IN  /\ \A i \in kept : Plain(order[i]) =>
                    order[i] \in DOMAIN db' /\ db'[order[i]] = Rounded(saved[order[i]])
             /\ Cardinality(DOMAIN db') <= Cardinality(kept) + 1]_vars

\* What the README says of it: the whole keyspace, saved when the server stops and
\* loaded when it starts.
SnapshotComplete == [][Start /\ Whole => DOMAIN db' = DOMAIN saved]_vars
=============================================================================
