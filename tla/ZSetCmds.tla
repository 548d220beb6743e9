----------------------------- MODULE ZSetCmds ------------------------------
(***************************************************************************)
(* The handlers of zset_cmd.cpp.  The skip list is modelled by what it     *)
(* holds, a score for each member; the order of its nodes is Before.       *)
(***************************************************************************)
EXTENDS Objects

GetZSet(o, now) ==
    LET obj == LazyCheck(o, now) IN IF HasType(obj, "zset") THEN obj ELSE Null

GetOrCreateZSet(o, now) ==
    IF LazyCheck(o, now) = Null THEN CreateZSet ELSE GetZSet(o, now)

\* The pairs ZADD gets to: those ahead of the first score that is not one.
ScoredPairs(args) ==
    {i \in PairStarts(args) : \A j \in PairStarts(args) : j <= i => args[j] \in Scores}

Scored(zset, args) ==
    [m \in Elems |->
        LET at == LastAt({i + 1 : i \in ScoredPairs(args)}, args, m)
        IN  IF at = {} THEN zset[m] ELSE args[(CHOOSE i \in at : TRUE) - 1]]

\* A bad score stops the command with an error, and the pairs ahead of it, or
\* the sorted set created for them, stay.
ZAddCmd(args, o, now) ==
    LET obj   == GetOrCreateZSet(o, now)
        added == {args[i + 1] : i \in ScoredPairs(args)} \ Present(obj.zset)
    IN  IF Len(args) < 3 \/ Len(args) % 2 # 1 THEN Outcome(o, Error)
        ELSE IF obj = Null THEN Outcome(LazyCheck(o, now), WrongType)
        ELSE Outcome([obj EXCEPT !.zset = Scored(obj.zset, args)],
                     IF ScoredPairs(args) = PairStarts(args)
                     THEN Number(Cardinality(added)) ELSE Error)

\* Mutant: the last member takes no key with it.
ZRemKeepingEmpty(args, o, now) ==
    LET obj  == GetZSet(o, now)
        gone == {args[i] : i \in 2 .. Len(args)} \cap Present(obj.zset)
    IN  IF Len(args) < 2 THEN Outcome(o, Error)
        ELSE IF obj = Null THEN Outcome(LazyCheck(o, now), Number(0))
        ELSE Outcome([obj EXCEPT !.zset = [m \in Elems |-> IF m \in gone THEN Null ELSE @[m]]],
                     Number(Cardinality(gone)))

ZRemCmd(args, o, now) ==
    LET obj  == GetZSet(o, now)
        gone == {args[i] : i \in 2 .. Len(args)} \cap Present(obj.zset)
        zset == [m \in Elems |-> IF m \in gone THEN Null ELSE obj.zset[m]]
    IN  IF Len(args) < 2 THEN Outcome(o, Error)
        ELSE IF obj = Null THEN Outcome(LazyCheck(o, now), Number(0))
        ELSE Outcome(IF Present(zset) = {} THEN Null ELSE [obj EXCEPT !.zset = zset],
                     Number(Cardinality(gone)))

\* The order of the list: by score, then by member (ZSetEntry::operator<).
Before(zset, a, b) == zset[a] < zset[b] \/ (zset[a] = zset[b] /\ a < b)

Rank(zset, m) == Cardinality({x \in Present(zset) : Before(zset, x, m)})

\* The members in the order of the list.
ByRank(zset) ==
    [i \in 1 .. Cardinality(Present(zset)) |-> CHOOSE m \in Present(zset) : Rank(zset, m) = i - 1]

\* A command that only looks: it answers missing unless the key holds a
\* sorted set.
ZSetReader(o, now, missing, Answer(_)) ==
    LET obj == GetZSet(o, now)
    IN  Outcome(LazyCheck(o, now), IF obj = Null THEN missing ELSE Answer(obj.zset))

\* The same for a command that names a member.
MemberReader(args, o, now, Answer(_)) ==
    IF Len(args) < 2 THEN Outcome(o, Error)
    ELSE ZSetReader(o, now, NilBulk,
                    LAMBDA z : IF z[args[2]] = Null THEN NilBulk ELSE Answer(z))

ZScoreCmd(args, o, now) == MemberReader(args, o, now, LAMBDA z : Bulk(z[args[2]]))
ZRankCmd(args, o, now)  == MemberReader(args, o, now, LAMBDA z : Number(Rank(z, args[2])))
ZRevRankCmd(args, o, now) ==
    MemberReader(args, o, now,
                 LAMBDA z : Number(Cardinality(Present(z)) - 1 - Rank(z, args[2])))

RangeByRank(zset, start, stop) == Slice(ByRank(zset), start, stop)

\* ZRANGE and ZREVRANGE, the members that Ranked selects with their scores on
\* request.
RangeCmd(args, o, now, Ranked(_)) ==
    LET WithScores(z, s) ==
            [i \in 1 .. 2 * Len(s) |->
                IF i % 2 = 1 THEN s[(i + 1) \div 2] ELSE z[s[i \div 2]]]
    IN  IF Len(args) < 3 \/ args[2] \notin Int \/ args[3] \notin Int
        THEN Outcome(o, Error)
        ELSE ZSetReader(o, now, EmptyArray,
                        LAMBDA z : Array(IF Len(args) >= 4 /\ args[4] = WITHSCORES
                                         THEN WithScores(z, Ranked(z)) ELSE Ranked(z)))

ZRangeCmd(args, o, now) ==
    RangeCmd(args, o, now, LAMBDA z : RangeByRank(z, args[2], args[3]))
\* Ranks counted from the highest.
ZRevRangeCmd(args, o, now) ==
    RangeCmd(args, o, now, LAMBDA z : Slice(Reverse(ByRank(z)), args[2], args[3]))
ZCardCmd(args, o, now) ==
    ZSetReader(o, now, Number(0), LAMBDA z : Number(Cardinality(Present(z))))

ZSetNames == {"ZADD", "ZREM", "ZSCORE", "ZRANK", "ZREVRANK", "ZRANGE", "ZREVRANGE",
              "ZCARD"}

ZSetHandler(name, args, o, now) ==
    CASE name = "ZADD"      -> ZAddCmd(args, o, now)
      [] name = "ZREM"      -> ZRemCmd(args, o, now)
      [] name = "ZSCORE"    -> ZScoreCmd(args, o, now)
      [] name = "ZRANK"     -> ZRankCmd(args, o, now)
      [] name = "ZREVRANK"  -> ZRevRankCmd(args, o, now)
      [] name = "ZRANGE"    -> ZRangeCmd(args, o, now)
      [] name = "ZREVRANGE" -> ZRevRangeCmd(args, o, now)
      [] name = "ZCARD"     -> ZCardCmd(args, o, now)
=============================================================================
