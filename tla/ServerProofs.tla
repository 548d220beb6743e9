---------------------------- MODULE ServerProofs ---------------------------
(***************************************************************************)
(* First of the keyspace, for every set of keys, values and commands: no   *)
(* handler ever leaves under a key something that is not an object;        *)
(* expiry, lazy or periodic, cannot be told from keys that vanish the      *)
(* moment they are due; objects are never replaced in place; the counts    *)
(* that commands answer are right, and none of them leaves a container     *)
(* without elements.                                                       *)
(*                                                                         *)
(* Then of the server, what comes back after a start, for every keyspace,  *)
(* log and interleaving of commands, crashes, stops and starts: with       *)
(* durable commands and kills only, exactly what was acknowledged; with a  *)
(* snapshot of any moment and plain writes, the same; and always the last  *)
(* plain write of a key.                                                   *)
(***************************************************************************)
EXTENDS Server, FiniteSetTheorems, SequenceTheorems, Induction, TLAPS

-----------------------------------------------------------------------------
(* Types.                                                                  *)

LEMMA LazyCheckType ==
    ASSUME NEW o \in MaybeObjects, NEW t
    PROVE  LazyCheck(o, t) \in MaybeObjects
  BY DEF LazyCheck, MaybeObjects

LEMMA SetExpireType ==
    ASSUME NEW o \in Objects, NEW at \in Expiry
    PROVE  SetExpire(o, at) \in Objects
  BY DEF SetExpire, Objects, StringObjects, HashObjects, ListObjects, SetObjects,
         ZSetObjects

LEMMA DeadlineType ==
    ASSUME NEW t \in Nat, NEW unit \in Nat, NEW n \in Nat
    PROVE  t + n * unit \in Nat
  OBVIOUS

LEMMA SetDeadlineType ==
    ASSUME NEW args \in Seq(Words), NEW t \in Nat, ~ SetRejected(args)
    PROVE  SetDeadline(args, t) \in Expiry
<1>1. CASE LastTimed(args) = {}
  BY <1>1 DEF SetDeadline, Expiry
<1>2. CASE LastTimed(args) # {}
  <2> DEFINE i == CHOOSE i \in LastTimed(args) : TRUE
  <2>1. i \in LastTimed(args)
    BY <1>2
  <2>2. args[i + 1] \in Nat
    BY <2>1 DEF LastTimed, SetRejected
  <2>3. (IF args[i] = EX THEN SecondMs ELSE 1) \in Nat
    BY SecondAssumption DEF SecondAssumption
  <2>4. SetDeadline(args, t) = t + args[i + 1] * (IF args[i] = EX THEN SecondMs ELSE 1)
    BY <1>2 DEF SetDeadline
  <2> QED
    BY <2>2, <2>3, <2>4, DeadlineType DEF Expiry
<1> QED
  BY <1>1, <1>2

-----------------------------------------------------------------------------
(* One lemma per file of handlers.                                         *)

LEMMA StringHandlerType ==
    ASSUME NEW args \in Seq(Words), NEW o \in MaybeObjects, NEW t \in Nat,
           NEW name \in StringNames,
           name = "SET" /\ Len(args) >= 2 => args[2] \in Elems,
           NEW out \in StringHandler(name, args, o, t)
    PROVE  out.obj \in MaybeObjects
<1> DEFINE old == LazyCheck(o, t)
<1>1. old \in MaybeObjects
  BY LazyCheckType
<1>2. CASE name = "SET"
  <2>1. out \in SetCmd(args, o, t)
    BY <1>2 DEF StringHandler
  <2>2. CASE Len(args) < 2 \/ SetRejected(args)
    BY <2>1, <2>2 DEF SetCmd, Outcome
  <2>3. CASE ~ (Len(args) < 2 \/ SetRejected(args))
    <3>1. args[2] \in Elems
      BY <2>3, <1>2
    <3>2. CreateString(args[2]) \in Objects
      BY <3>1 DEF CreateString, Objects, StringObjects, Expiry
    <3>3. SetExpire(CreateString(args[2]), SetDeadline(args, t)) \in Objects
      BY <2>3, <3>2, SetDeadlineType, SetExpireType
    <3> QED
      BY <1>1, <2>1, <2>3, <3>3 DEF SetCmd, Outcome, MaybeObjects
  <2> QED
    BY <2>2, <2>3
<1>3. ASSUME NEW unit \in Nat, out \in ExpireCmd(args, o, t, unit)
      PROVE  out.obj \in MaybeObjects
  <2>1. CASE Len(args) < 2 \/ args[2] \notin Int
    BY <1>3, <2>1 DEF ExpireCmd, Outcome
  <2>2. CASE ~ (Len(args) < 2 \/ args[2] \notin Int) /\ old # Null /\ args[2] > 0
    <3>1. t + args[2] * unit \in Expiry
      BY <2>2, DeadlineType DEF Expiry
    <3>2. SetExpire(old, t + args[2] * unit) \in Objects
      BY <1>1, <2>2, <3>1, SetExpireType DEF MaybeObjects
    <3> QED
      BY <1>3, <2>2, <3>2 DEF ExpireCmd, Outcome, MaybeObjects
  <2>3. CASE ~ (Len(args) < 2 \/ args[2] \notin Int) /\ ~ (old # Null /\ args[2] > 0)
    BY <1>3, <2>3 DEF ExpireCmd, Outcome, MaybeObjects
  <2> QED
    BY <2>1, <2>2, <2>3
<1>4. CASE name = "EXPIRE"
  BY <1>3, <1>4, SecondAssumption DEF StringHandler, SecondAssumption
<1>5. CASE name = "PEXPIRE"
  BY <1>3, <1>5 DEF StringHandler
<1>6. CASE name \in {"GET", "TTL", "PTTL", "TYPE"}
  BY <1>1, <1>6 DEF StringHandler, GetCmd, TtlCmd, TypeCmd, Outcome
<1> QED
  BY <1>2, <1>4, <1>5, <1>6 DEF StringNames

LEMMA HashHandlerType ==
    ASSUME NEW args \in Seq(Words), NEW o \in MaybeObjects, NEW t \in Nat,
           NEW name \in HashNames,
           name = "HSET" => \A i \in 2 .. Len(args) : args[i] \in Elems,
           NEW out \in HashHandler(name, args, o, t)
    PROVE  out.obj \in MaybeObjects
<1>1. LazyCheck(o, t) \in MaybeObjects
  BY LazyCheckType
<1>2. GetHash(o, t) \in HashObjects \cup {Null}
  BY <1>1 DEF GetHash, HasType, MaybeObjects, Objects, StringObjects, ListObjects,
              SetObjects, ZSetObjects
<1>3. ASSUME NEW obj \in HashObjects, NEW hash \in [Elems -> Elems \cup {Null}]
      PROVE  [obj EXCEPT !.hash = hash] \in MaybeObjects
  BY <1>3 DEF HashObjects, MaybeObjects, Objects
<1>4. CASE name = "HSET"
  <2> DEFINE obj == GetOrCreateHash(o, t)
  <2>1. out \in HSetCmd(args, o, t)
    BY <1>4 DEF HashHandler
  <2>2. obj \in HashObjects \cup {Null}
    BY <1>2 DEF GetOrCreateHash, CreateHash, HashObjects, Expiry
  <2>3. CASE Len(args) < 3 \/ Len(args) % 2 # 1
    BY <2>1, <2>3 DEF HSetCmd, Outcome
  <2>4. CASE ~ (Len(args) < 3 \/ Len(args) % 2 # 1) /\ obj = Null
    BY <1>1, <2>1, <2>4 DEF HSetCmd, Outcome
  <2>5. CASE ~ (Len(args) < 3 \/ Len(args) % 2 # 1) /\ obj # Null
    <3>1. \A i \in PairStarts(args) : args[i + 1] \in Elems
      <4> SUFFICES ASSUME NEW i \in PairStarts(args) PROVE i + 1 \in 2 .. Len(args)
        BY <1>4
      <4> QED
        BY <2>5 DEF PairStarts
    <3>2. \A f : LastAt(PairStarts(args), args, f) \subseteq PairStarts(args)
      BY DEF LastAt
    <3>3. Assigned(obj.hash, args) \in [Elems -> Elems \cup {Null}]
      BY <2>2, <2>5, <3>1, <3>2 DEF Assigned, HashObjects
    <3> QED
      BY <1>3, <2>1, <2>2, <2>5, <3>3 DEF HSetCmd, Outcome
  <2> QED
    BY <2>3, <2>4, <2>5
<1>5. CASE name = "HDEL"
  <2> DEFINE obj == GetHash(o, t)
             gone == {args[i] : i \in 2 .. Len(args)} \cap Present(obj.hash)
             hash == [f \in Elems |-> IF f \in gone THEN Null ELSE obj.hash[f]]
  <2>1. out \in HDelCmd(args, o, t)
    BY <1>5 DEF HashHandler
  <2>2. CASE Len(args) < 2 \/ obj = Null
    BY <1>1, <2>1, <2>2 DEF HDelCmd, Outcome
  <2>3. CASE ~ (Len(args) < 2 \/ obj = Null)
    <3>1. hash \in [Elems -> Elems \cup {Null}]
      BY <1>2, <2>3 DEF HashObjects
    <3>2. [obj EXCEPT !.hash = hash] \in MaybeObjects
      BY <1>2, <1>3, <2>3, <3>1
    <3>3. out.obj \in {Null, [obj EXCEPT !.hash = hash]}
      BY <2>1, <2>3 DEF HDelCmd, Outcome
    <3> QED
      BY <3>2, <3>3 DEF MaybeObjects
  <2> QED
    BY <2>2, <2>3
<1>6. CASE name \in HashNames \ {"HSET", "HDEL"}
  BY <1>1, <1>6 DEF HashNames, HashHandler, HGetCmd, HExistsCmd, HStrLenCmd, HKeysCmd,
     HGetAllCmd, HValsCmd, HLenCmd, FieldReader, HashReader, Outcome
<1> QED
  BY <1>4, <1>5, <1>6

LEMMA ListHandlerType ==
    ASSUME NEW args \in Seq(Words), NEW o \in MaybeObjects, NEW t \in Nat,
           NEW name \in ListNames,
           name \in {"LPUSH", "RPUSH"} => \A i \in 2 .. Len(args) : args[i] \in Elems,
           NEW out \in ListHandler(name, args, o, t)
    PROVE  out.obj \in MaybeObjects
<1>1. LazyCheck(o, t) \in MaybeObjects
  BY LazyCheckType
<1>2. GetList(o, t) \in ListObjects \cup {Null}
  BY <1>1 DEF GetList, HasType, MaybeObjects, Objects, StringObjects, HashObjects,
              SetObjects, ZSetObjects
<1>3. ASSUME NEW obj \in ListObjects, NEW list \in Seq(Elems)
      PROVE  [obj EXCEPT !.list = list] \in MaybeObjects
  BY <1>3 DEF ListObjects, MaybeObjects, Objects
<1>4. CASE name \in {"LPUSH", "RPUSH"}
  <2> DEFINE obj == GetOrCreateList(o, t)
  <2>1. obj \in ListObjects \cup {Null}
    BY <1>2 DEF GetOrCreateList, CreateList, ListObjects, Expiry
  <2>2. CASE Len(args) < 2
    BY <1>4, <2>2 DEF ListHandler, LPushCmd, RPushCmd, Push, Outcome
  <2>3. CASE ~ Len(args) < 2 /\ obj = Null
    BY <1>1, <1>4, <2>3 DEF ListHandler, LPushCmd, RPushCmd, Push, Outcome
  <2>4. CASE ~ Len(args) < 2 /\ obj # Null
    <3>1. Pushed(args) \in Seq(Elems)
      BY <1>4, <2>4 DEF Pushed
    <3>2. Reverse(Pushed(args)) \in Seq(Elems)
      BY <3>1 DEF Reverse
    <3>3. obj.list \in Seq(Elems)
      BY <2>1, <2>4 DEF ListObjects
    <3>4. /\ Reverse(Pushed(args)) \o obj.list \in Seq(Elems)
          /\ obj.list \o Pushed(args) \in Seq(Elems)
      BY <3>1, <3>2, <3>3
    <3>5. out.obj \in {[obj EXCEPT !.list = Reverse(Pushed(args)) \o obj.list],
                       [obj EXCEPT !.list = obj.list \o Pushed(args)]}
      BY <1>4, <2>4 DEF ListHandler, LPushCmd, RPushCmd, Push, Outcome
    <3> QED
      BY <1>3, <2>1, <2>4, <3>4, <3>5
  <2> QED
    BY <2>2, <2>3, <2>4
<1>5. CASE name \in {"LPOP", "RPOP"}
  <2> DEFINE obj  == GetList(o, t)
             n    == PopCount(args, obj.list)
             keep == Len(obj.list) - n
  <2>1. CASE BadCount(args)
    BY <1>5, <2>1 DEF ListHandler, LPopCmd, RPopCmd, Outcome
  <2>2. CASE ~ BadCount(args) /\ obj = Null
    BY <1>1, <1>5, <2>2 DEF ListHandler, LPopCmd, RPopCmd, Outcome
  <2>3. CASE ~ BadCount(args) /\ obj # Null
    <3>1. obj.list \in Seq(Elems)
      BY <1>2, <2>3 DEF ListObjects
    <3>2. n \in 0 .. Len(obj.list)
      BY <2>3, <3>1 DEF PopCount, BadCount
    <3>3. /\ SubSeq(obj.list, n + 1, Len(obj.list)) \in Seq(Elems)
          /\ SubSeq(obj.list, 1, keep) \in Seq(Elems)
      BY <3>1, <3>2
    <3>4. ASSUME NEW popped, NEW rest \in Seq(Elems), out \in Popped(args, obj, popped, rest)
          PROVE  out.obj \in MaybeObjects
      <4>1. out.obj = IF rest = << >> THEN Null ELSE [obj EXCEPT !.list = rest]
        BY <3>4 DEF Popped, Outcome
      <4> QED
        BY <1>2, <1>3, <2>3, <4>1 DEF MaybeObjects
    <3>5. \E popped : \/ out \in Popped(args, obj, popped,
                                       SubSeq(obj.list, n + 1, Len(obj.list)))
                      \/ out \in Popped(args, obj, popped, SubSeq(obj.list, 1, keep))
      BY <1>5, <2>3 DEF ListHandler, LPopCmd, RPopCmd
    <3> QED
      BY <3>3, <3>4, <3>5
  <2> QED
    BY <2>1, <2>2, <2>3
<1>6. CASE name \in ListNames \ {"LPUSH", "RPUSH", "LPOP", "RPOP"}
  BY <1>1, <1>6 DEF ListNames, ListHandler, LLenCmd, LRangeCmd, LIndexCmd, Outcome
<1> QED
  BY <1>4, <1>5, <1>6

LEMMA SetHandlerType ==
    ASSUME NEW args \in Seq(Words), NEW o \in MaybeObjects, NEW t \in Nat,
           NEW name \in SetNames,
           name = "SADD" => \A i \in 2 .. Len(args) : args[i] \in Elems,
           NEW out \in SetHandler(name, args, o, t)
    PROVE  out.obj \in MaybeObjects
<1>1. LazyCheck(o, t) \in MaybeObjects
  BY LazyCheckType
<1>2. GetSet(o, t) \in SetObjects \cup {Null}
  BY <1>1 DEF GetSet, HasType, MaybeObjects, Objects, StringObjects, HashObjects,
              ListObjects, ZSetObjects
<1>3. ASSUME NEW obj \in SetObjects, NEW members \in SUBSET Elems
      PROVE  WithMembers(obj, members) \in MaybeObjects
  BY <1>3 DEF SetObjects, MaybeObjects, Objects, WithMembers
<1>4. CASE name = "SADD"
  <2> DEFINE obj == GetOrCreateSet(o, t)
  <2>1. out \in SAddCmd(args, o, t)
    BY <1>4 DEF SetHandler
  <2>2. obj \in SetObjects \cup {Null}
    BY <1>2 DEF GetOrCreateSet, CreateSet, SetObjects, Expiry
  <2>3. CASE Len(args) < 2 \/ obj = Null
    BY <1>1, <2>1, <2>3 DEF SAddCmd, Outcome
  <2>4. CASE ~ (Len(args) < 2 \/ obj = Null)
    <3>1. obj.set \cup Members(args) \in SUBSET Elems
      BY <1>4, <2>2, <2>4 DEF SetObjects, Members
    <3>2. out.obj = WithMembers(obj, obj.set \cup Members(args))
      BY <2>1, <2>4 DEF SAddCmd, Outcome
    <3> QED
      BY <1>3, <2>2, <2>4, <3>1, <3>2
  <2> QED
    BY <2>3, <2>4
<1>5. CASE name \in {"SREM", "SPOP"}
  <2> DEFINE obj == GetSet(o, t)
  <2>1. CASE obj = Null
    BY <1>1, <1>5, <2>1 DEF SetHandler, SRemCmd, SPopCmd, Outcome
  <2>2. CASE obj # Null
    <3>1. obj.set \in SUBSET Elems
      BY <1>2, <2>2 DEF SetObjects
    <3>2. CASE name = "SREM"
      <4>1. out \in SRemCmd(args, o, t)
        BY <3>2 DEF SetHandler
      <4>2. out.obj \in {o, WithMembers(obj, obj.set \ Members(args))}
        BY <2>2, <4>1 DEF SRemCmd, Outcome
      <4> QED
        BY <1>2, <1>3, <2>2, <3>1, <4>2
    <3>3. CASE name = "SPOP"
      <4>1. out \in SPopCmd(args, o, t)
        BY <3>3 DEF SetHandler
      <4>2. CASE Len(args) >= 2 /\ args[2] \notin Nat
        BY <4>1, <4>2 DEF SPopCmd, Outcome
      <4>3. CASE ~ (Len(args) >= 2 /\ args[2] \notin Nat)
        <5>1. \E P : out.obj = WithMembers(obj, obj.set \ P)
          BY <2>2, <4>1, <4>3 DEF SPopCmd
        <5> QED
          BY <1>2, <1>3, <2>2, <3>1, <5>1
      <4> QED
        BY <4>2, <4>3
    <3> QED
      BY <1>5, <3>2, <3>3
  <2> QED
    BY <2>1, <2>2
<1>6. CASE name \in SetNames \ {"SADD", "SREM", "SPOP"}
  BY <1>1, <1>6 DEF SetNames, SetHandler, SIsMemberCmd, SMembersCmd, SCardCmd, SetReader,
     Outcome
<1> QED
  BY <1>4, <1>5, <1>6

LEMMA ZSetHandlerType ==
    ASSUME NEW args \in Seq(Words), NEW o \in MaybeObjects, NEW t \in Nat,
           NEW name \in ZSetNames, NEW out \in ZSetHandler(name, args, o, t)
    PROVE  out.obj \in MaybeObjects
<1>1. LazyCheck(o, t) \in MaybeObjects
  BY LazyCheckType
<1>2. GetZSet(o, t) \in ZSetObjects \cup {Null}
  BY <1>1 DEF GetZSet, HasType, MaybeObjects, Objects, StringObjects, HashObjects,
              ListObjects, SetObjects
<1>3. ASSUME NEW obj \in ZSetObjects, NEW zset \in [Elems -> Scores \cup {Null}]
      PROVE  [obj EXCEPT !.zset = zset] \in MaybeObjects
  BY <1>3 DEF ZSetObjects, MaybeObjects, Objects
<1>4. CASE name = "ZADD"
  <2> DEFINE obj == GetOrCreateZSet(o, t)
  <2>1. out \in ZAddCmd(args, o, t)
    BY <1>4 DEF ZSetHandler
  <2>2. obj \in ZSetObjects \cup {Null}
    BY <1>2 DEF GetOrCreateZSet, CreateZSet, ZSetObjects, Expiry
  <2>3. CASE Len(args) < 3 \/ Len(args) % 2 # 1
    BY <2>1, <2>3 DEF ZAddCmd, Outcome
  <2>4. CASE ~ (Len(args) < 3 \/ Len(args) % 2 # 1) /\ obj = Null
    BY <1>1, <2>1, <2>4 DEF ZAddCmd, Outcome
  <2>5. CASE ~ (Len(args) < 3 \/ Len(args) % 2 # 1) /\ obj # Null
    <3>1. \A j \in {i + 1 : i \in ScoredPairs(args)} : args[j - 1] \in Scores
      <4> SUFFICES ASSUME NEW i \in ScoredPairs(args) PROVE args[(i + 1) - 1] \in Scores
        OBVIOUS
      <4>1. i \in Nat /\ (i + 1) - 1 = i
        BY DEF ScoredPairs, PairStarts
      <4>2. args[i] \in Scores
        BY <4>1 DEF ScoredPairs
      <4> QED
        BY <4>1, <4>2
    <3>2. \A I, m : LastAt(I, args, m) \subseteq I
      BY DEF LastAt
    <3>3. Scored(obj.zset, args) \in [Elems -> Scores \cup {Null}]
      BY <2>2, <2>5, <3>1, <3>2 DEF Scored, ZSetObjects
    <3> QED
      BY <1>3, <2>1, <2>2, <2>5, <3>3 DEF ZAddCmd, Outcome
  <2> QED
    BY <2>3, <2>4, <2>5
<1>5. CASE name = "ZREM"
  <2> DEFINE obj == GetZSet(o, t)
             gone == {args[i] : i \in 2 .. Len(args)} \cap Present(obj.zset)
             zset == [m \in Elems |-> IF m \in gone THEN Null ELSE obj.zset[m]]
  <2>1. out \in ZRemCmd(args, o, t)
    BY <1>5 DEF ZSetHandler
  <2>2. CASE Len(args) < 2 \/ obj = Null
    BY <1>1, <2>1, <2>2 DEF ZRemCmd, Outcome
  <2>3. CASE ~ (Len(args) < 2 \/ obj = Null)
    <3>1. zset \in [Elems -> Scores \cup {Null}]
      BY <1>2, <2>3 DEF ZSetObjects
    <3>2. [obj EXCEPT !.zset = zset] \in MaybeObjects
      BY <1>2, <1>3, <2>3, <3>1
    <3>3. out.obj \in {Null, [obj EXCEPT !.zset = zset]}
      BY <2>1, <2>3 DEF ZRemCmd, Outcome
    <3> QED
      BY <3>2, <3>3 DEF MaybeObjects
  <2> QED
    BY <2>2, <2>3
<1>6. CASE name \in ZSetNames \ {"ZADD", "ZREM"}
  BY <1>1, <1>6 DEF ZSetNames, ZSetHandler, ZScoreCmd, ZRankCmd, ZRevRankCmd, ZRangeCmd,
     ZRevRangeCmd, ZCardCmd, RangeCmd, MemberReader, ZSetReader, Outcome
<1> QED
  BY <1>4, <1>5, <1>6

-----------------------------------------------------------------------------
(* Commands, steps, and the theorem.                                       *)

LEMMA WithoutType ==
    ASSUME NEW d \in Databases, NEW ks
    PROVE  Without(d, ks) \in Databases
  BY DEF Without, Databases, MaybeObjects

LEMMA KeyHandlerType ==
    ASSUME NEW c, WellFormed(c), c.name \in KeyNames, NEW o \in MaybeObjects,
           NEW t \in Nat, NEW out \in KeyHandler(c.name, c.args, o, t)
    PROVE  out.obj \in MaybeObjects
<1>1. CASE c.name \in StringNames
  BY <1>1, StringHandlerType DEF WellFormed, KeyHandler, StringNames, HashNames,
     ListNames, SetNames, ZSetNames
<1>2. CASE c.name \in HashNames
  BY <1>2, HashHandlerType DEF WellFormed, KeyHandler, StringNames, HashNames,
     ListNames, SetNames, ZSetNames
<1>3. CASE c.name \in ListNames
  BY <1>3, ListHandlerType DEF WellFormed, KeyHandler, StringNames, HashNames,
     ListNames, SetNames, ZSetNames
<1>4. CASE c.name \in SetNames
  BY <1>4, SetHandlerType DEF WellFormed, KeyHandler, StringNames, HashNames,
     ListNames, SetNames, ZSetNames
<1>5. CASE c.name \in ZSetNames
  BY <1>5, ZSetHandlerType DEF WellFormed, KeyHandler, StringNames, HashNames,
     ListNames, SetNames, ZSetNames
<1> QED
  BY <1>1, <1>2, <1>3, <1>4, <1>5 DEF KeyNames

LEMMA ExecuteType ==
    ASSUME NEW c, WellFormed(c), NEW d \in Databases, NEW t \in Nat,
           NEW r \in Execute(c, d, t)
    PROVE  r.db \in Databases
<1>1. CASE ~ Registered(c.name) \/ c.name \in ServerNames \/ c.args = << >>
  BY <1>1 DEF Execute, Result
<1>2. CASE /\ ~ (~ Registered(c.name) \/ c.name \in ServerNames \/ c.args = << >>)
           /\ c.name \in {"DEL", "EXISTS", "KEYS"}
  BY <1>2, WithoutType DEF Execute, Result, DelCmd, ExistsCmd, KeysCmd
<1>3. CASE /\ ~ (~ Registered(c.name) \/ c.name \in ServerNames \/ c.args = << >>)
           /\ c.name \notin {"DEL", "EXISTS", "KEYS"}
  <2>1. c.name \in KeyNames /\ c.args[1] \in Keys
    BY <1>3 DEF Registered, WellFormed
  <2>2. PICK out \in KeyHandler(c.name, c.args, d[c.args[1]], t) :
              r.db = [d EXCEPT ![c.args[1]] = out.obj]
    BY <1>3 DEF Execute
  <2>3. out.obj \in MaybeObjects
    BY <2>1, KeyHandlerType DEF Databases
  <2> QED
    BY <2>1, <2>2, <2>3 DEF Databases
<1> QED
  BY <1>1, <1>2, <1>3

\* Whatever the keys, the values and the commands, and however commands, time
\* and expiry checks interleave, every key holds nothing or an object with
\* the payload its type calls for and a deadline that is a point in time: no
\* handler stores a result of the wrong kind through the object it was given.
THEOREM TypeCorrect == Spec => []TypeOK
<1>1. Init => TypeOK
  BY DEF Init, TypeOK, EmptyDb, Databases, MaybeObjects
<1>2. TypeOK /\ [Next]_vars => TypeOK'
  <2> SUFFICES ASSUME TypeOK, [Next]_vars PROVE TypeOK'
    OBVIOUS
  <2>1. ASSUME NEW c \in Commands, ProcessCommand(c) PROVE TypeOK'
    <3>1. WellFormed(c)
      BY CommandsAssumption DEF CommandsAssumption
    <3> QED
      BY <2>1, <3>1, ExecuteType DEF ProcessCommand, TypeOK
  <2>2. CASE Elapse
    BY <2>2 DEF Elapse, TypeOK
  <2>3. CASE PeriodicExpireCheck
    BY <2>3, WithoutType DEF PeriodicExpireCheck, TypeOK
  <2>4. CASE UNCHANGED vars
    BY <2>4 DEF vars, TypeOK
  <2> QED
    BY <2>1, <2>2, <2>3, <2>4 DEF Next
<1> QED
  BY <1>1, <1>2, PTL DEF Spec

-----------------------------------------------------------------------------
(* A handler looks at what is stored under its key only through the lazy   *)
(* check; what it leaves alone, it leaves to a later check.                *)

\* The outcomes outs on o are those, checked, on the checked object old.
Alike(outs, checked, o, old) ==
    \/ outs = checked
    \/ outs = Outcome(o, Error) /\ checked = Outcome(old, Error)

LEMMA LazyCheckTwice ==
    ASSUME NEW o, NEW t
    PROVE  LazyCheck(LazyCheck(o, t), t) = LazyCheck(o, t)
  BY DEF LazyCheck, IsExpired

LEMMA StringHandlerAlike ==
    ASSUME NEW args, NEW o, NEW t, NEW name \in StringNames
    PROVE  Alike(StringHandler(name, args, o, t),
                 StringHandler(name, args, LazyCheck(o, t), t), o, LazyCheck(o, t))
<1> DEFINE old == LazyCheck(o, t)
<1>1. LazyCheck(old, t) = old
  BY LazyCheckTwice
<1> HIDE DEF old
<1>2. old = LazyCheck(o, t)
  BY DEF old
<1>3. Alike(StringHandler(name, args, o, t), StringHandler(name, args, old, t), o, old)
  BY <1>1, <1>2 DEF StringNames, StringHandler, SetCmd, GetCmd, ExpireCmd, TtlCmd,
     TypeCmd, Alike
<1> QED
  BY <1>2, <1>3

LEMMA HashHandlerAlike ==
    ASSUME NEW args, NEW o, NEW t, NEW name \in HashNames
    PROVE  Alike(HashHandler(name, args, o, t),
                 HashHandler(name, args, LazyCheck(o, t), t), o, LazyCheck(o, t))
<1> DEFINE old == LazyCheck(o, t)
<1>1. LazyCheck(old, t) = old
  BY LazyCheckTwice
<1> HIDE DEF old
<1>2. old = LazyCheck(o, t)
  BY DEF old
<1>3. GetHash(old, t) = GetHash(o, t) /\ GetOrCreateHash(old, t) = GetOrCreateHash(o, t)
  BY <1>1, <1>2 DEF GetHash, GetOrCreateHash
<1>4. Alike(HashHandler(name, args, o, t), HashHandler(name, args, old, t), o, old)
  BY <1>1, <1>2, <1>3 DEF HashNames, HashHandler, HSetCmd, HDelCmd, HGetCmd, HExistsCmd,
     HStrLenCmd, HKeysCmd, HGetAllCmd, HValsCmd, HLenCmd, FieldReader, HashReader, Alike
<1> QED
  BY <1>2, <1>4

LEMMA ListHandlerAlike ==
    ASSUME NEW args, NEW o, NEW t, NEW name \in ListNames
    PROVE  Alike(ListHandler(name, args, o, t),
                 ListHandler(name, args, LazyCheck(o, t), t), o, LazyCheck(o, t))
<1> DEFINE old == LazyCheck(o, t)
<1>1. LazyCheck(old, t) = old
  BY LazyCheckTwice
<1> HIDE DEF old
<1>2. old = LazyCheck(o, t)
  BY DEF old
<1>3. GetList(old, t) = GetList(o, t) /\ GetOrCreateList(old, t) = GetOrCreateList(o, t)
  BY <1>1, <1>2 DEF GetList, GetOrCreateList
<1>4. Alike(ListHandler(name, args, o, t), ListHandler(name, args, old, t), o, old)
  BY <1>1, <1>2, <1>3 DEF ListNames, ListHandler, LPushCmd, RPushCmd, Push, LPopCmd,
     RPopCmd, LLenCmd, LRangeCmd, LIndexCmd, Alike
<1> QED
  BY <1>2, <1>4

LEMMA SetHandlerAlike ==
    ASSUME NEW args, NEW o, NEW t, NEW name \in SetNames
    PROVE  Alike(SetHandler(name, args, o, t),
                 SetHandler(name, args, LazyCheck(o, t), t), o, LazyCheck(o, t))
<1> DEFINE old == LazyCheck(o, t)
<1>1. LazyCheck(old, t) = old
  BY LazyCheckTwice
<1> HIDE DEF old
<1>2. old = LazyCheck(o, t)
  BY DEF old
<1>3. GetSet(old, t) = GetSet(o, t) /\ GetOrCreateSet(old, t) = GetOrCreateSet(o, t)
  BY <1>1, <1>2 DEF GetSet, GetOrCreateSet
<1>4. Alike(SetHandler(name, args, o, t), SetHandler(name, args, old, t), o, old)
  BY <1>1, <1>2, <1>3 DEF SetNames, SetHandler, SAddCmd, SRemCmd, SIsMemberCmd,
     SMembersCmd, SCardCmd, SPopCmd, SetReader, Alike
<1> QED
  BY <1>2, <1>4

LEMMA ZSetHandlerAlike ==
    ASSUME NEW args, NEW o, NEW t, NEW name \in ZSetNames
    PROVE  Alike(ZSetHandler(name, args, o, t),
                 ZSetHandler(name, args, LazyCheck(o, t), t), o, LazyCheck(o, t))
<1> DEFINE old == LazyCheck(o, t)
<1>1. LazyCheck(old, t) = old
  BY LazyCheckTwice
<1> HIDE DEF old
<1>2. old = LazyCheck(o, t)
  BY DEF old
<1>3. GetZSet(old, t) = GetZSet(o, t) /\ GetOrCreateZSet(old, t) = GetOrCreateZSet(o, t)
  BY <1>1, <1>2 DEF GetZSet, GetOrCreateZSet
<1>4. Alike(ZSetHandler(name, args, o, t), ZSetHandler(name, args, old, t), o, old)
  BY <1>1, <1>2, <1>3 DEF ZSetNames, ZSetHandler, ZAddCmd, ZRemCmd, ZScoreCmd, ZRankCmd,
     ZRevRankCmd, ZRangeCmd, ZRevRangeCmd, RangeCmd, ZCardCmd, MemberReader, ZSetReader,
     Alike
<1> QED
  BY <1>2, <1>4

\* Which file handles which command.
LEMMA HandlerOf ==
    ASSUME NEW name, NEW args, NEW o, NEW t
    PROVE  /\ name \in StringNames =>
                 KeyHandler(name, args, o, t) = StringHandler(name, args, o, t)
           /\ name \in HashNames =>
                 KeyHandler(name, args, o, t) = HashHandler(name, args, o, t)
           /\ name \in ListNames =>
                 KeyHandler(name, args, o, t) = ListHandler(name, args, o, t)
           /\ name \in SetNames =>
                 KeyHandler(name, args, o, t) = SetHandler(name, args, o, t)
           /\ name \in ZSetNames =>
                 KeyHandler(name, args, o, t) = ZSetHandler(name, args, o, t)
  BY DEF KeyHandler, StringNames, HashNames, ListNames, SetNames, ZSetNames

LEMMA KeyHandlerAlike ==
    ASSUME NEW args, NEW o, NEW t, NEW name \in KeyNames
    PROVE  Alike(KeyHandler(name, args, o, t),
                 KeyHandler(name, args, LazyCheck(o, t), t), o, LazyCheck(o, t))
  BY HandlerOf, StringHandlerAlike, HashHandlerAlike, ListHandlerAlike, SetHandlerAlike,
     ZSetHandlerAlike DEF KeyNames

-----------------------------------------------------------------------------
(* What a handler leaves of a live object: never one that is due, never    *)
(* one of another type or with another deadline, SET and EXPIRE apart.     *)

Follows(name, old, new, t) ==
    new # Null =>
        /\ ~ IsExpired(new, t)
        /\ old # Null =>
              /\ new.type # old.type => name = "SET"
              /\ new.exp # old.exp => name \in {"SET", "EXPIRE", "PEXPIRE"}

\* new differs from obj in its payload only.
SameLife(obj, new) == new.type = obj.type /\ new.exp = obj.exp

LEMMA SameLifeFollows ==
    ASSUME NEW name, NEW old, NEW obj, NEW new, NEW t, ~ IsExpired(old, t),
           obj # Null, obj = old \/ (old = Null /\ obj.exp = NoExpiry),
           SameLife(obj, new)
    PROVE  Follows(name, old, new, t)
  BY DEF Follows, SameLife, IsExpired

LEMMA SetDeadlineAhead ==
    ASSUME NEW args \in Seq(Words), NEW t \in Nat, ~ SetRejected(args)
    PROVE  \/ SetDeadline(args, t) = NoExpiry
           \/ SetDeadline(args, t) \in Nat /\ SetDeadline(args, t) > t
<1>1. CASE LastTimed(args) # {}
  <2> DEFINE i == CHOOSE i \in LastTimed(args) : TRUE
             unit == IF args[i] = EX THEN SecondMs ELSE 1
  <2>1. i \in LastTimed(args)
    BY <1>1
  <2>2. args[i + 1] \in Nat \ {0}
    BY <2>1 DEF LastTimed, SetRejected
  <2>3. unit \in Nat \ {0}
    BY SecondAssumption DEF SecondAssumption
  <2>4. SetDeadline(args, t) = t + args[i + 1] * unit
    BY <1>1 DEF SetDeadline
  <2> HIDE DEF i, unit
  <2>5. args[i + 1] * unit \in Nat \ {0}
    BY <2>2, <2>3
  <2> QED
    BY <2>4, <2>5
<1> QED
  BY <1>1 DEF SetDeadline

LEMMA StringHandlerFollows ==
    ASSUME NEW args \in Seq(Words), NEW old \in MaybeObjects, NEW t \in Nat,
           ~ IsExpired(old, t), NEW name \in StringNames,
           NEW out \in StringHandler(name, args, old, t)
    PROVE  Follows(name, old, out.obj, t)
<1>1. LazyCheck(old, t) = old
  BY DEF LazyCheck
<1>2. CASE name = "SET"
  <2> DEFINE new == SetExpire(CreateString(args[2]), SetDeadline(args, t))
  <2>1. out.obj = old \/ (~ SetRejected(args) /\ out.obj = new)
    BY <1>1, <1>2 DEF StringHandler, SetCmd, Outcome
  <2>2. new.exp = SetDeadline(args, t)
    BY DEF SetExpire, CreateString
  <2>3. ~ SetRejected(args) => ~ IsExpired(new, t)
    <3> HIDE DEF new
    <3> QED
      BY <2>2, SetDeadlineAhead DEF IsExpired
  <2> QED
    BY <1>2, <2>1, <2>3 DEF Follows
<1>3. ASSUME NEW unit \in Nat \ {0}, out \in ExpireCmd(args, old, t, unit)
      PROVE  \/ out.obj \in {old, Null}
             \/ /\ old # Null
                /\ ~ IsExpired(out.obj, t)
                /\ out.obj.type = old.type
  <2>1. CASE old # Null /\ Len(args) >= 2 /\ args[2] \in Int /\ args[2] > 0
    <3>1. out.obj = SetExpire(old, t + args[2] * unit)
      BY <1>1, <1>3, <2>1 DEF ExpireCmd, Outcome
    <3>2. old \in Objects
      BY <2>1 DEF MaybeObjects
    <3>3. out.obj.exp = t + args[2] * unit /\ out.obj.type = old.type
      BY <3>1, <3>2 DEF SetExpire, Objects, StringObjects, HashObjects, ListObjects,
         SetObjects, ZSetObjects
    <3>4. args[2] * unit \in Nat \ {0}
      BY <2>1
    <3> QED
      BY <2>1, <3>3, <3>4 DEF IsExpired
  <2>2. CASE ~ (old # Null /\ Len(args) >= 2 /\ args[2] \in Int /\ args[2] > 0)
    BY <1>1, <1>3, <2>2 DEF ExpireCmd, Outcome
  <2> QED
    BY <2>1, <2>2
<1>4. CASE name \in {"EXPIRE", "PEXPIRE"}
  <2>1. \E unit \in Nat \ {0} : out \in ExpireCmd(args, old, t, unit)
    BY <1>4, SecondAssumption DEF StringHandler, SecondAssumption
  <2> QED
    BY <1>3, <1>4, <2>1 DEF Follows
<1>5. CASE name \in {"GET", "TTL", "PTTL", "TYPE"}
  BY <1>1, <1>5 DEF StringHandler, GetCmd, TtlCmd, TypeCmd, Outcome, Follows
<1> QED
  BY <1>2, <1>4, <1>5 DEF StringNames

LEMMA HashHandlerFollows ==
    ASSUME NEW args, NEW old \in MaybeObjects, NEW t,
           ~ IsExpired(old, t), NEW name \in HashNames,
           NEW out \in HashHandler(name, args, old, t)
    PROVE  Follows(name, old, out.obj, t)
<1>1. LazyCheck(old, t) = old
  BY DEF LazyCheck
<1>2. Follows(name, old, old, t) /\ Follows(name, old, Null, t)
  BY DEF Follows
<1>3. ASSUME NEW obj \in HashObjects, NEW hash
      PROVE  SameLife(obj, [obj EXCEPT !.hash = hash])
  BY DEF HashObjects, SameLife
<1>4. /\ GetHash(old, t) # Null => GetHash(old, t) = old /\ old \in HashObjects
      /\ \/ GetOrCreateHash(old, t) = GetHash(old, t)
         \/ old = Null /\ GetOrCreateHash(old, t) = CreateHash
  BY <1>1 DEF GetHash, GetOrCreateHash, HasType, MaybeObjects, Objects, StringObjects,
     HashObjects, ListObjects, SetObjects, ZSetObjects
<1>5. CreateHash \in HashObjects /\ CreateHash.exp = NoExpiry
  BY DEF CreateHash, HashObjects, Expiry
<1>6. CASE name = "HSET"
  <2> DEFINE obj == GetOrCreateHash(old, t)
  <2>1. \/ out.obj = old
        \/ obj # Null /\ out.obj = [obj EXCEPT !.hash = Assigned(obj.hash, args)]
    <3>1. out \in HSetCmd(args, old, t)
      BY <1>6 DEF HashHandler
    <3> QED
      BY <1>1, <3>1 DEF HSetCmd, Outcome
  <2>2. obj # Null =>
           obj \in HashObjects /\ (obj = old \/ (old = Null /\ obj.exp = NoExpiry))
    BY <1>4, <1>5
  <2> HIDE DEF obj
  <2>3. out.obj = old \/ (obj # Null /\ SameLife(obj, out.obj))
    BY <1>3, <2>1, <2>2
  <2> QED
    BY <1>2, <2>2, <2>3, SameLifeFollows
<1>7. CASE name = "HDEL"
  <2> DEFINE obj  == GetHash(old, t)
             gone == {args[i] : i \in 2 .. Len(args)} \cap Present(obj.hash)
             hash == [f \in Elems |-> IF f \in gone THEN Null ELSE obj.hash[f]]
  <2>1. \/ out.obj \in {old, Null}
        \/ obj # Null /\ out.obj = [obj EXCEPT !.hash = hash]
    BY <1>1, <1>7 DEF HashHandler, HDelCmd, Outcome
  <2>2. obj # Null => obj \in HashObjects /\ obj = old
    BY <1>4
  <2> HIDE DEF obj, hash
  <2>3. out.obj \in {old, Null} \/ (obj # Null /\ SameLife(obj, out.obj))
    BY <1>3, <2>1, <2>2
  <2> QED
    BY <1>2, <2>2, <2>3, SameLifeFollows
<1>8. CASE name \in HashNames \ {"HSET", "HDEL"}
  <2>1. out.obj = old
    BY <1>1, <1>8 DEF HashNames, HashHandler, HGetCmd, HExistsCmd, HStrLenCmd, HKeysCmd,
       HGetAllCmd, HValsCmd, HLenCmd, FieldReader, HashReader, Outcome
  <2> QED
    BY <1>2, <2>1
<1> QED
  BY <1>6, <1>7, <1>8

LEMMA ZSetHandlerFollows ==
    ASSUME NEW args, NEW old \in MaybeObjects, NEW t,
           ~ IsExpired(old, t), NEW name \in ZSetNames,
           NEW out \in ZSetHandler(name, args, old, t)
    PROVE  Follows(name, old, out.obj, t)
<1>1. LazyCheck(old, t) = old
  BY DEF LazyCheck
<1>2. Follows(name, old, old, t) /\ Follows(name, old, Null, t)
  BY DEF Follows
<1>3. ASSUME NEW obj \in ZSetObjects, NEW zset
      PROVE  SameLife(obj, [obj EXCEPT !.zset = zset])
  BY DEF ZSetObjects, SameLife
<1>4. /\ GetZSet(old, t) # Null => GetZSet(old, t) = old /\ old \in ZSetObjects
      /\ \/ GetOrCreateZSet(old, t) = GetZSet(old, t)
         \/ old = Null /\ GetOrCreateZSet(old, t) = CreateZSet
  BY <1>1 DEF GetZSet, GetOrCreateZSet, HasType, MaybeObjects, Objects, StringObjects,
     HashObjects, ListObjects, SetObjects, ZSetObjects
<1>5. CreateZSet \in ZSetObjects /\ CreateZSet.exp = NoExpiry
  BY DEF CreateZSet, ZSetObjects, Expiry
<1>6. CASE name = "ZADD"
  <2> DEFINE obj == GetOrCreateZSet(old, t)
  <2>1. \/ out.obj = old
        \/ obj # Null /\ out.obj = [obj EXCEPT !.zset = Scored(obj.zset, args)]
    <3>1. out \in ZAddCmd(args, old, t)
      BY <1>6 DEF ZSetHandler
    <3> QED
      BY <1>1, <3>1 DEF ZAddCmd, Outcome
  <2>2. obj # Null =>
           obj \in ZSetObjects /\ (obj = old \/ (old = Null /\ obj.exp = NoExpiry))
    BY <1>4, <1>5
  <2> HIDE DEF obj
  <2>3. out.obj = old \/ (obj # Null /\ SameLife(obj, out.obj))
    BY <1>3, <2>1, <2>2
  <2> QED
    BY <1>2, <2>2, <2>3, SameLifeFollows
<1>7. CASE name = "ZREM"
  <2> DEFINE obj  == GetZSet(old, t)
             gone == {args[i] : i \in 2 .. Len(args)} \cap Present(obj.zset)
             zset == [m \in Elems |-> IF m \in gone THEN Null ELSE obj.zset[m]]
  <2>1. \/ out.obj \in {old, Null}
        \/ obj # Null /\ out.obj = [obj EXCEPT !.zset = zset]
    BY <1>1, <1>7 DEF ZSetHandler, ZRemCmd, Outcome
  <2>2. obj # Null => obj \in ZSetObjects /\ obj = old
    BY <1>4
  <2> HIDE DEF obj, zset
  <2>3. out.obj \in {old, Null} \/ (obj # Null /\ SameLife(obj, out.obj))
    BY <1>3, <2>1, <2>2
  <2> QED
    BY <1>2, <2>2, <2>3, SameLifeFollows
<1>8. CASE name \in ZSetNames \ {"ZADD", "ZREM"}
  <2>1. out.obj = old
    BY <1>1, <1>8 DEF ZSetNames, ZSetHandler, ZScoreCmd, ZRankCmd, ZRevRankCmd, ZRangeCmd,
       ZRevRangeCmd, RangeCmd, ZCardCmd, MemberReader, ZSetReader, Outcome
  <2> QED
    BY <1>2, <2>1
<1> QED
  BY <1>6, <1>7, <1>8

LEMMA ListHandlerFollows ==
    ASSUME NEW args, NEW old \in MaybeObjects, NEW t,
           ~ IsExpired(old, t), NEW name \in ListNames,
           NEW out \in ListHandler(name, args, old, t)
    PROVE  Follows(name, old, out.obj, t)
<1>1. LazyCheck(old, t) = old
  BY DEF LazyCheck
<1>2. Follows(name, old, old, t) /\ Follows(name, old, Null, t)
  BY DEF Follows
<1>3. ASSUME NEW obj \in ListObjects, NEW list
      PROVE  SameLife(obj, [obj EXCEPT !.list = list])
  BY DEF ListObjects, SameLife
<1>4. /\ GetList(old, t) # Null => GetList(old, t) = old /\ old \in ListObjects
      /\ \/ GetOrCreateList(old, t) = GetList(old, t)
         \/ old = Null /\ GetOrCreateList(old, t) = CreateList
  BY <1>1 DEF GetList, GetOrCreateList, HasType, MaybeObjects, Objects, StringObjects,
     HashObjects, ListObjects, SetObjects, ZSetObjects
<1>5. CreateList \in ListObjects /\ CreateList.exp = NoExpiry
  BY DEF CreateList, ListObjects, Expiry
<1>6. CASE name \in {"LPUSH", "RPUSH"}
  <2> DEFINE obj == GetOrCreateList(old, t)
  <2>1. \/ out.obj = old
        \/ obj # Null /\ out.obj = [obj EXCEPT !.list = Reverse(Pushed(args)) \o obj.list]
        \/ obj # Null /\ out.obj = [obj EXCEPT !.list = obj.list \o Pushed(args)]
    <3>1. CASE Len(args) < 2 \/ obj = Null
      <4>1. out.obj = old
        BY <1>1, <1>6, <3>1 DEF ListHandler, LPushCmd, RPushCmd, Push, Outcome
      <4> QED
        BY <4>1
    <3>2. CASE ~ (Len(args) < 2 \/ obj = Null)
      <4>1. out.obj \in {[obj EXCEPT !.list = Reverse(Pushed(args)) \o obj.list],
                         [obj EXCEPT !.list = obj.list \o Pushed(args)]}
        BY <1>6, <3>2 DEF ListHandler, LPushCmd, RPushCmd, Push, Outcome
      <4> QED
        BY <3>2, <4>1
    <3> QED
      BY <3>1, <3>2
  <2>2. obj # Null =>
           obj \in ListObjects /\ (obj = old \/ (old = Null /\ obj.exp = NoExpiry))
    BY <1>4, <1>5
  <2> HIDE DEF obj
  <2>3. out.obj = old \/ (obj # Null /\ SameLife(obj, out.obj))
    <3>1. out.obj = old \/ (obj # Null /\ \E list : out.obj = [obj EXCEPT !.list = list])
      BY <2>1, Zenon
    <3> QED
      BY <1>3, <2>2, <3>1
  <2> QED
    BY <1>2, <2>2, <2>3, SameLifeFollows
<1>7. CASE name \in {"LPOP", "RPOP"}
  <2> DEFINE obj == GetList(old, t)
  <2>1. CASE BadCount(args) \/ obj = Null
    <3>1. out.obj = old
      BY <1>1, <1>7, <2>1 DEF ListHandler, LPopCmd, RPopCmd, Outcome
    <3> QED
      BY <1>2, <3>1
  <2>2. CASE ~ BadCount(args) /\ obj # Null
    <3>1. \E popped, rest : out \in Popped(args, obj, popped, rest)
      BY <1>7, <2>2 DEF ListHandler, LPopCmd, RPopCmd
    <3>2. obj = old /\ obj \in ListObjects
      BY <1>4, <2>2
    <3> HIDE DEF obj
    <3>3. out.obj = Null \/ \E rest : out.obj = [obj EXCEPT !.list = rest]
      BY <3>1 DEF Popped, Outcome
    <3>4. out.obj = Null \/ SameLife(obj, out.obj)
      BY <1>3, <3>2, <3>3
    <3> QED
      BY <1>2, <2>2, <3>2, <3>4, SameLifeFollows
  <2> QED
    BY <2>1, <2>2
<1>8. CASE name \in ListNames \ {"LPUSH", "RPUSH", "LPOP", "RPOP"}
  <2>1. out.obj = old
    BY <1>1, <1>8 DEF ListNames, ListHandler, LLenCmd, LRangeCmd, LIndexCmd, Outcome
  <2> QED
    BY <1>2, <2>1
<1> QED
  BY <1>6, <1>7, <1>8

LEMMA SetHandlerFollows ==
    ASSUME NEW args, NEW old \in MaybeObjects, NEW t,
           ~ IsExpired(old, t), NEW name \in SetNames,
           NEW out \in SetHandler(name, args, old, t)
    PROVE  Follows(name, old, out.obj, t)
<1>1. LazyCheck(old, t) = old
  BY DEF LazyCheck
<1>2. Follows(name, old, old, t) /\ Follows(name, old, Null, t)
  BY DEF Follows
<1>3. ASSUME NEW obj \in SetObjects, NEW members
      PROVE  WithMembers(obj, members) = Null \/ SameLife(obj, WithMembers(obj, members))
  BY DEF SetObjects, SameLife, WithMembers
<1>4. /\ GetSet(old, t) # Null => GetSet(old, t) = old /\ old \in SetObjects
      /\ \/ GetOrCreateSet(old, t) = GetSet(old, t)
         \/ old = Null /\ GetOrCreateSet(old, t) = CreateSet
  BY <1>1 DEF GetSet, GetOrCreateSet, HasType, MaybeObjects, Objects, StringObjects,
     HashObjects, ListObjects, SetObjects, ZSetObjects
<1>5. CreateSet \in SetObjects /\ CreateSet.exp = NoExpiry
  BY DEF CreateSet, SetObjects, Expiry
<1>6. CASE name = "SADD"
  <2> DEFINE obj == GetOrCreateSet(old, t)
  <2>1. \/ out.obj = old
        \/ obj # Null /\ \E members : out.obj = WithMembers(obj, members)
    <3>1. out \in SAddCmd(args, old, t)
      BY <1>6 DEF SetHandler
    <3> QED
      BY <1>1, <3>1 DEF SAddCmd, Outcome
  <2>2. obj # Null =>
           obj \in SetObjects /\ (obj = old \/ (old = Null /\ obj.exp = NoExpiry))
    BY <1>4, <1>5
  <2> HIDE DEF obj
  <2>3. out.obj \in {old, Null} \/ (obj # Null /\ SameLife(obj, out.obj))
    BY <1>3, <2>1, <2>2
  <2> QED
    BY <1>2, <2>2, <2>3, SameLifeFollows
<1>7. CASE name \in {"SREM", "SPOP"}
  <2> DEFINE obj == GetSet(old, t)
  <2>2. \/ out.obj = old
        \/ obj # Null /\ \E members : out.obj = WithMembers(obj, members)
    <3>1. CASE name = "SREM"
      BY <1>1, <3>1 DEF SetHandler, SRemCmd, Outcome
    <3>2. CASE name = "SPOP"
      <4>1. out \in SPopCmd(args, old, t)
        BY <3>2 DEF SetHandler
      <4>2. CASE Len(args) >= 2 /\ args[2] \notin Nat
        BY <4>1, <4>2 DEF SPopCmd, Outcome
      <4>3. CASE ~ (Len(args) >= 2 /\ args[2] \notin Nat) /\ obj = Null
        BY <1>1, <4>1, <4>3 DEF SPopCmd, Outcome
      <4>4. CASE ~ (Len(args) >= 2 /\ args[2] \notin Nat) /\ obj # Null
        <5>1. \E P : out.obj = WithMembers(obj, obj.set \ P)
          BY <4>1, <4>4 DEF SPopCmd
        <5> QED
          BY <4>4, <5>1
      <4> QED
        BY <4>2, <4>3, <4>4
    <3> QED
      BY <1>7, <3>1, <3>2
  <2>3. obj # Null => obj \in SetObjects /\ obj = old
    BY <1>4
  <2> HIDE DEF obj
  <2>4. out.obj \in {old, Null} \/ (obj # Null /\ SameLife(obj, out.obj))
    BY <1>3, <2>2, <2>3
  <2> QED
    BY <1>2, <2>3, <2>4, SameLifeFollows
<1>8. CASE name \in SetNames \ {"SADD", "SREM", "SPOP"}
  <2>1. out.obj = old
    BY <1>1, <1>8 DEF SetNames, SetHandler, SIsMemberCmd, SMembersCmd, SCardCmd, SetReader,
       Outcome
  <2> QED
    BY <1>2, <2>1
<1> QED
  BY <1>6, <1>7, <1>8

LEMMA KeyHandlerFollows ==
    ASSUME NEW c, WellFormed(c), c.name \in KeyNames, NEW old \in MaybeObjects,
           NEW t \in Nat, ~ IsExpired(old, t),
           NEW out \in KeyHandler(c.name, c.args, old, t)
    PROVE  Follows(c.name, old, out.obj, t)
<1>1. c.args \in Seq(Words)
  BY DEF WellFormed
<1> QED
  BY <1>1, HandlerOf, StringHandlerFollows, HashHandlerFollows, ListHandlerFollows,
     SetHandlerFollows, ZSetHandlerFollows DEF KeyNames

-----------------------------------------------------------------------------
(* Commands on the keyspace and on the live part of it.                    *)

LEMMA LiveAt ==
    ASSUME NEW d \in Databases, NEW t
    PROVE  /\ Live(d, t) \in Databases
           /\ \A k \in Keys : /\ Live(d, t)[k] = LazyCheck(d[k], t)
                              /\ ~ IsExpired(Live(d, t)[k], t)
           /\ Expired(Live(d, t), t) = {}
  BY DEF Live, Without, Databases, Expired, LazyCheck, IsExpired, MaybeObjects

LEMMA WithoutLive ==
    ASSUME NEW d \in Databases, NEW t, NEW ks
    PROVE  /\ Live(Without(d, ks), t) = Without(Live(d, t), ks)
           /\ ks \subseteq Expired(d, t) => Live(Without(d, ks), t) = Live(d, t)
  BY DEF Live, Without, Databases, Expired, IsExpired

\* What the handler of a key does to the stored object, whatever of it is due,
\* it does to the live one, with the same answer.
LEMMA KeyHandlerLazy ==
    ASSUME NEW c, WellFormed(c), c.name \in KeyNames, NEW o \in MaybeObjects,
           NEW t \in Nat, NEW out \in KeyHandler(c.name, c.args, o, t)
    PROVE  \E new \in KeyHandler(c.name, c.args, LazyCheck(o, t), t) :
              /\ new.obj = LazyCheck(out.obj, t)
              /\ new.reply = out.reply
              /\ Follows(c.name, LazyCheck(o, t), LazyCheck(out.obj, t), t)
<1> DEFINE old == LazyCheck(o, t)
<1>1. old \in MaybeObjects /\ ~ IsExpired(old, t)
  BY LazyCheckType DEF LazyCheck, IsExpired
<1>2. ASSUME NEW new \in KeyHandler(c.name, c.args, old, t)
      PROVE  Follows(c.name, old, new.obj, t) /\ LazyCheck(new.obj, t) = new.obj
  BY <1>1, KeyHandlerFollows DEF Follows, LazyCheck
<1>3. Alike(KeyHandler(c.name, c.args, o, t), KeyHandler(c.name, c.args, old, t), o, old)
  BY KeyHandlerAlike
<1>4. CASE KeyHandler(c.name, c.args, o, t) = KeyHandler(c.name, c.args, old, t)
  BY <1>2, <1>4
<1>5. CASE /\ KeyHandler(c.name, c.args, o, t) = Outcome(o, Error)
           /\ KeyHandler(c.name, c.args, old, t) = Outcome(old, Error)
  <2>1. out.obj = o /\ out.reply = Error
    BY <1>5 DEF Outcome
  <2> DEFINE new == [obj |-> old, reply |-> Error]
  <2>2. new \in KeyHandler(c.name, c.args, old, t)
    BY <1>5 DEF Outcome
  <2> QED
    BY <1>2, <2>1, <2>2
<1> QED
  BY <1>3, <1>4, <1>5 DEF Alike

\* DEL apart, the results on the keyspace are those on its live part.
LEMMA ExecuteLazy ==
    ASSUME NEW c, WellFormed(c), c.name # "DEL" \/ c.args = << >>,
           NEW d \in Databases, NEW t \in Nat, NEW r \in Execute(c, d, t)
    PROVE  \E q \in Execute(c, Live(d, t), t) : q.db = Live(r.db, t) /\ q.reply = r.reply
<1> DEFINE own == ~ Registered(c.name) \/ c.name \in ServerNames \/ c.args = << >>
           live == Live(d, t)
<1>1. CASE own
  <2>1. \E x : /\ Execute(c, d, t) = Result(d, x)
               /\ Execute(c, live, t) = Result(live, x)
    BY <1>1 DEF Execute
  <2> QED
    BY <2>1 DEF Result
<1>2. CASE ~ own /\ c.name = "EXISTS"
  <2> DEFINE S == ToSet(c.args)
             checked == Without(d, S \cap Expired(d, t))
             n == Cardinality({i \in 1 .. Len(c.args) : checked[c.args[i]] # Null})
             m == Cardinality({i \in 1 .. Len(c.args) : live[c.args[i]] # Null})
  <2>1. Without(live, S \cap Expired(live, t)) = live
    BY LiveAt DEF Without, Databases
  <2>2. /\ Execute(c, d, t) = Result(checked, Number(n))
        /\ Execute(c, live, t) = Result(live, Number(m))
    BY <1>2, <2>1 DEF Execute, ExistsCmd
  <2>3. ASSUME NEW i \in 1 .. Len(c.args) PROVE checked[c.args[i]] = live[c.args[i]]
    <3>1. c.args[i] \in Keys /\ c.args[i] \in S
      BY <1>2 DEF WellFormed, ToSet
    <3> QED
      BY <3>1 DEF Live, Without
  <2>4. n = m
    BY <2>3
  <2>5. Live(checked, t) = live
    BY WithoutLive
  <2> HIDE DEF n, m, checked
  <2> QED
    BY <2>2, <2>4, <2>5 DEF Result
<1>3. CASE ~ own /\ c.name = "KEYS"
  <2>1. Without(d, Expired(d, t)) = live /\ Without(live, Expired(live, t)) = live
    BY LiveAt DEF Live, Without, Databases
  <2>2. Execute(c, d, t) = Execute(c, live, t) /\ \E x : Execute(c, d, t) = Result(live, x)
    BY <1>3, <2>1 DEF Execute, KeysCmd
  <2>3. Live(live, t) = live
    BY <2>1 DEF Live
  <2>4. r.db = live /\ r \in Execute(c, live, t)
    BY <2>2 DEF Result
  <2> QED
    BY <2>3, <2>4
<1>4. CASE ~ own /\ c.name \notin {"EXISTS", "KEYS"}
  <2> DEFINE k == c.args[1]
  <2>1. c.name \in KeyNames /\ k \in Keys /\ c.name \notin {"DEL", "EXISTS", "KEYS"}
    BY <1>4 DEF Registered, WellFormed
  <2>2. /\ Execute(c, d, t) = {[db |-> [d EXCEPT ![k] = out.obj], reply |-> out.reply] :
                                 out \in KeyHandler(c.name, c.args, d[k], t)}
        /\ Execute(c, live, t) = {[db |-> [live EXCEPT ![k] = out.obj], reply |-> out.reply] :
                                    out \in KeyHandler(c.name, c.args, live[k], t)}
    BY <1>4, <2>1 DEF Execute
  <2> HIDE DEF k
  <2>3. d[k] \in MaybeObjects /\ live[k] = LazyCheck(d[k], t)
    BY <2>1, LiveAt DEF Databases
  <2>4. PICK out \in KeyHandler(c.name, c.args, d[k], t) :
              r.db = [d EXCEPT ![k] = out.obj] /\ r.reply = out.reply
    BY <2>2
  <2>5. PICK new \in KeyHandler(c.name, c.args, live[k], t) :
              new.obj = LazyCheck(out.obj, t) /\ new.reply = out.reply
    BY <2>1, <2>3, KeyHandlerLazy
  <2>6. Live(r.db, t) = [live EXCEPT ![k] = new.obj]
    BY <2>1, <2>4, <2>5 DEF Live, Without, Databases, Expired, LazyCheck
  <2> DEFINE q == [db |-> [live EXCEPT ![k] = new.obj], reply |-> new.reply]
  <2>7. q \in Execute(c, live, t)
    BY <2>2
  <2> QED
    BY <2>4, <2>5, <2>6, <2>7
<1> QED
  BY <1>1, <1>2, <1>3, <1>4

\* DEL removes the same keys, and counts at least the live ones, at most all.
LEMMA DelLazy ==
    ASSUME NEW c, WellFormed(c), c.name = "DEL", NEW d \in Databases, NEW t,
           NEW r \in DelCmd(c.args, d)
    PROVE  /\ Live(r.db, t) = Without(Live(d, t), ToSet(c.args))
           /\ \E n \in Cardinality({k \in ToSet(c.args) : Live(d, t)[k] # Null})
                       .. Cardinality(ToSet(c.args)) : r.reply = Number(n)
<1> DEFINE named == ToSet(c.args)
           used == named \cap Used(d)
           live == {k \in named : Live(d, t)[k] # Null}
<1>1. r.db = Without(d, named) /\ r.reply = Number(Cardinality(used))
  BY DEF DelCmd, Result
<1>2. named \subseteq Keys /\ named = {c.args[i] : i \in 1 .. Len(c.args)}
  BY DEF WellFormed, ToSet
<1>3. IsFiniteSet(named)
  <2>1. IsFiniteSet(1 .. Len(c.args))
    <3>1. Len(c.args) \in Int
      BY DEF WellFormed
    <3> QED
      BY <3>1, FS_Interval
  <2>2. c.args \in Surjection(1 .. Len(c.args), named)
    BY <1>2 DEF Surjection, WellFormed
  <2> QED
    BY <2>1, <2>2, FS_Surjection
<1>4. live \subseteq used
  BY <1>2, LiveAt DEF LazyCheck, Used
<1> HIDE DEF named, live
<1>5. /\ IsFiniteSet(used)
      /\ Cardinality(used) <= Cardinality(named)
  BY <1>3, FS_Subset
<1>6. /\ Cardinality(live) <= Cardinality(used)
      /\ IsFiniteSet(live)
  BY <1>4, <1>5, FS_Subset
<1>7. Cardinality(used) \in Cardinality(live) .. Cardinality(named)
  BY <1>3, <1>5, <1>6, FS_CardinalityType
<1> QED
  BY <1>1, <1>7, WithoutLive DEF named, live

-----------------------------------------------------------------------------
(* The refinement.                                                         *)

LEMMA CommandLazy ==
    ASSUME TypeOK, NEW c \in Commands, ProcessCommand(c)
    PROVE  Eager!Command(c)
<1>1. db \in Databases /\ now \in Nat /\ WellFormed(c)
  BY CommandsAssumption DEF TypeOK, CommandsAssumption
<1>2. PICK r \in Execute(c, db, now) : db' = r.db /\ reply' = r.reply /\ now' = now
  BY DEF ProcessCommand
<1>3. EagerDb' = Live(r.db, now)
  BY <1>2 DEF EagerDb
<1>4. CASE c.name = "DEL" /\ c.args # << >>
  <2> DEFINE named == ToSet(c.args)
             least == Cardinality({k \in named : EagerDb[k] # Null})
  <2>1. r \in DelCmd(c.args, db)
    BY <1>2, <1>4 DEF Execute, Registered, ServerNames
  <2>2. PICK n \in least .. Cardinality(named) : reply' = Number(n)
    <3>1. \E n \in Cardinality({k \in ToSet(c.args) : Live(db, now)[k] # Null})
                    .. Cardinality(ToSet(c.args)) : r.reply = Number(n)
      BY <1>1, <1>4, <2>1, DelLazy
    <3> QED
      BY <1>2, <3>1, Zenon DEF EagerDb
  <2>3. EagerDb' = [k \in Keys |-> IF k \in named THEN Null ELSE EagerDb[k]]
    <3>1. EagerDb' = Without(EagerDb, named)
      BY <1>1, <1>3, <1>4, <2>1, DelLazy DEF EagerDb
    <3> QED
      BY <3>1 DEF Without
  <2>4. Eager!Results(c) =
           {[db |-> [k \in Keys |-> IF k \in named THEN Null ELSE EagerDb[k]],
             reply |-> Number(m)] : m \in least .. Cardinality(named)}
    BY <1>4 DEF Eager!Results, Eager!ToSet, ToSet, Eager!Cardinality, Cardinality
  <2> DEFINE q == [db |-> EagerDb', reply |-> reply']
  <2>5. q \in Eager!Results(c)
    BY <2>2, <2>3, <2>4
  <2> QED
    BY <1>2, <2>5 DEF Eager!Command, q
<1>5. CASE ~ (c.name = "DEL" /\ c.args # << >>)
  <2>1. PICK q \in Execute(c, EagerDb, now) : q.db = Live(r.db, now) /\ q.reply = r.reply
    BY <1>1, <1>2, <1>5, ExecuteLazy DEF EagerDb
  <2>2. Eager!Results(c) = Execute(c, EagerDb, now)
    BY <1>5 DEF Eager!Results
  <2> QED
    BY <1>2, <1>3, <2>1, <2>2 DEF Eager!Command
<1> QED
  BY <1>4, <1>5

LEMMA ElapseLazy ==
    ASSUME TypeOK, Elapse
    PROVE  Eager!Elapse
<1>1. /\ EagerDb = [k \in Keys |-> LazyCheck(db[k], now)]
      /\ EagerDb' = [k \in Keys |-> LazyCheck(db[k], now + 1)]
  BY DEF Elapse, EagerDb, Live, Without, Expired, LazyCheck
<1>2. ASSUME NEW o \in MaybeObjects
      PROVE  LazyCheck(o, now + 1) =
                IF /\ LazyCheck(o, now) # Null
                   /\ LazyCheck(o, now).exp \in Nat
                   /\ LazyCheck(o, now).exp <= now + 1
                THEN Null ELSE LazyCheck(o, now)
  <2>1. CASE o = Null
    BY <2>1 DEF LazyCheck, IsExpired
  <2>2. CASE o # Null
    <3>1. o.exp \in Nat \cup {NoExpiry} /\ NoExpiry \notin Nat
      BY <2>2, WordsAssumption DEF MaybeObjects, Objects, StringObjects, HashObjects,
         ListObjects, SetObjects, ZSetObjects, Expiry, WordsAssumption
    <3> QED
      BY <2>2, <3>1 DEF LazyCheck, IsExpired, TypeOK
  <2> QED
    BY <2>1, <2>2
<1>3. \A k \in Keys : db[k] \in MaybeObjects
  BY DEF TypeOK, Databases
<1> QED
  BY <1>1, <1>2, <1>3 DEF Elapse, Eager!Elapse

LEMMA CheckLazy ==
    ASSUME TypeOK, PeriodicExpireCheck
    PROVE  UNCHANGED Eager!vars
<1>1. PICK ks \in SUBSET Expired(db, now) : db' = Without(db, ks) /\ now' = now /\ reply' = reply
  BY DEF PeriodicExpireCheck
<1>2. EagerDb' = EagerDb
  BY <1>1, WithoutLive DEF EagerDb, TypeOK
<1> QED
  BY <1>1, <1>2 DEF Eager!vars

\* Whatever is cleaned up when, by lazy checks, by DEL or by samples of the
\* periodic check: clients see the keyspace, and get the replies, of one in
\* which every object is gone the moment it is due.
THEOREM LazyExpiryNeverShows == Spec => LazyExpiryInvisible
<1>1. Init => Eager!Init
  <2>1. Init => EagerDb = [k \in Keys |-> Null]
    BY DEF Init, EagerDb, Live, Without, EmptyDb, Expired, IsExpired
  <2> QED
    BY <2>1 DEF Init, Eager!Init
<1>2. TypeOK /\ [Next]_vars => [Eager!Next]_(Eager!vars)
  <2> SUFFICES ASSUME TypeOK, [Next]_vars PROVE [Eager!Next]_(Eager!vars)
    OBVIOUS
  <2>1. CASE \E c \in Commands : ProcessCommand(c)
    BY <2>1, CommandLazy DEF Eager!Next
  <2>2. CASE Elapse
    BY <2>2, ElapseLazy DEF Eager!Next
  <2>3. CASE PeriodicExpireCheck
    BY <2>3, CheckLazy
  <2>4. CASE UNCHANGED vars
    BY <2>4 DEF vars, Eager!vars, EagerDb
  <2> QED
    BY <2>1, <2>2, <2>3, <2>4 DEF Next
<1> QED
  BY <1>1, <1>2, TypeCorrect, PTL DEF Spec, LazyExpiryInvisible, Eager!Spec

-----------------------------------------------------------------------------
(* Objects keep type and deadline.                                         *)

\* A command on one key puts what its handler answers under the key; every
\* other command leaves alone or removes.
LEMMA ExecuteShape ==
    ASSUME NEW c, WellFormed(c), NEW d \in Databases, NEW t, NEW r \in Execute(c, d, t)
    PROVE  \/ \E ks : r.db = Without(d, ks)
           \/ /\ c.name \in KeyNames /\ c.args # << >> /\ c.args[1] \in Keys
              /\ \E out \in KeyHandler(c.name, c.args, d[c.args[1]], t) :
                    /\ r.db = [d EXCEPT ![c.args[1]] = out.obj]
                    /\ r.reply = out.reply
<1>1. d = Without(d, {})
  BY DEF Databases, Without
<1>2. CASE c.args = << >> \/ c.name \in ServerNames \/ ~ Registered(c.name)
  BY <1>1, <1>2 DEF Execute, Result
<1>3. CASE c.args # << >> /\ c.name \in {"DEL", "EXISTS", "KEYS"}
  <2>1. c.name \notin ServerNames /\ Registered(c.name)
    BY <1>3 DEF ServerNames, Registered
  <2> QED
    BY <1>3, <2>1 DEF Execute, DelCmd, ExistsCmd, KeysCmd, Result
<1>4. CASE ~ (c.args = << >> \/ c.name \in ServerNames \/ ~ Registered(c.name))
              /\ c.name \notin {"DEL", "EXISTS", "KEYS"}
  <2>1. c.name \in KeyNames /\ c.args[1] \in Keys
    BY <1>4 DEF Registered, WellFormed
  <2>2. r \in {[db |-> [d EXCEPT ![c.args[1]] = out.obj], reply |-> out.reply] :
                  out \in KeyHandler(c.name, c.args, d[c.args[1]], t)}
    BY <1>4 DEF Execute
  <2> QED
    BY <1>4, <2>1, <2>2
<1> QED
  BY <1>2, <1>3, <1>4

LEMMA CommandKeeps ==
    ASSUME TypeOK, NEW c \in Commands, ProcessCommand(c), NEW k \in Keys,
           EagerDb[k] # Null, EagerDb'[k] # Null
    PROVE  /\ EagerDb[k].type # EagerDb'[k].type => c.name = "SET" /\ Target(c) = k
           /\ EagerDb[k].exp # EagerDb'[k].exp =>
                c.name \in {"SET", "EXPIRE", "PEXPIRE"} /\ Target(c) = k
<1>1. db \in Databases /\ now \in Nat /\ WellFormed(c)
  BY CommandsAssumption DEF TypeOK, CommandsAssumption
<1>2. PICK r \in Execute(c, db, now) : db' = r.db /\ now' = now
  BY DEF ProcessCommand
<1>3. /\ EagerDb[k] = LazyCheck(db[k], now)
      /\ EagerDb'[k] = LazyCheck(db'[k], now)
  BY <1>2 DEF EagerDb, Live, Without, Expired, LazyCheck
<1>4. CASE \E ks : db' = Without(db, ks)
  BY <1>3, <1>4 DEF Without, LazyCheck, IsExpired
<1>5. ASSUME c.name \in KeyNames, c.args # << >>, c.args[1] \in Keys,
             NEW out \in KeyHandler(c.name, c.args, db[c.args[1]], now),
             db' = [db EXCEPT ![c.args[1]] = out.obj]
      PROVE  /\ EagerDb[k].type # EagerDb'[k].type => c.name = "SET" /\ Target(c) = k
             /\ EagerDb[k].exp # EagerDb'[k].exp =>
                  c.name \in {"SET", "EXPIRE", "PEXPIRE"} /\ Target(c) = k
  <2>1. CASE k = c.args[1]
    <3>1. db[k] \in MaybeObjects /\ db'[k] = out.obj /\ Target(c) = k
      BY <1>1, <1>5, <2>1 DEF Databases, Target
    <3>2. Follows(c.name, EagerDb[k], EagerDb'[k], now)
      BY <1>1, <1>3, <1>5, <2>1, <3>1, KeyHandlerLazy
    <3> QED
      BY <3>1, <3>2 DEF Follows
  <2>2. CASE k # c.args[1]
    BY <1>1, <1>3, <1>5, <2>2 DEF Databases
  <2> QED
    BY <2>1, <2>2
<1>6. \/ \E ks : r.db = Without(db, ks)
      \/ /\ c.name \in KeyNames /\ c.args # << >> /\ c.args[1] \in Keys
         /\ \E out \in KeyHandler(c.name, c.args, db[c.args[1]], now) :
               /\ r.db = [db EXCEPT ![c.args[1]] = out.obj]
               /\ r.reply = out.reply
  BY <1>1, ExecuteShape
<1> QED
  BY <1>2, <1>4, <1>5, <1>6

\* Time and the periodic check leave a visible object as it is, or end it.
LEMMA OtherStepKeeps ==
    ASSUME TypeOK, Elapse \/ PeriodicExpireCheck, NEW k \in Keys,
           EagerDb[k] # Null, EagerDb'[k] # Null
    PROVE  EagerDb'[k] = EagerDb[k]
<1>1. CASE Elapse
  BY <1>1 DEF Elapse, EagerDb, Live, Without, Expired
<1>2. CASE PeriodicExpireCheck
  BY <1>2, CheckLazy DEF Eager!vars
<1> QED
  BY <1>1, <1>2

\* A visible object keeps its type but for SET, and its deadline but for SET,
\* EXPIRE and PEXPIRE, on its own key: no other command, on any key, at any
\* time, before or after whatever cleaning, replaces it.
THEOREM ObjectsAreKept == Spec => ObjectsKept
<1> DEFINE ByOne(k, names) == \E c \in Commands : /\ c.name \in names
                                               /\ Target(c) = k
                                               /\ ProcessCommand(c)
           Fine(k) == EagerDb[k] # Null /\ EagerDb'[k] # Null =>
                        /\ EagerDb[k].type # EagerDb'[k].type => ByOne(k, {"SET"})
                        /\ EagerDb[k].exp # EagerDb'[k].exp =>
                             ByOne(k, {"SET", "EXPIRE", "PEXPIRE"})
<1>1. TypeOK /\ [Next]_vars => [\A k \in Keys : Fine(k)]_vars
  <2> SUFFICES ASSUME TypeOK, Next, NEW k \in Keys PROVE Fine(k)
    OBVIOUS
  <2>1. ASSUME NEW c \in Commands, ProcessCommand(c) PROVE Fine(k)
    BY <2>1, CommandKeeps
  <2>2. CASE Elapse \/ PeriodicExpireCheck
    BY <2>2, OtherStepKeeps
  <2> QED
    BY <2>1, <2>2 DEF Next
<1>2. [\A k \in Keys : Fine(k)]_vars =>
      [\A k \in Keys :
         LET old == Live(db, now)[k]
             new == Live(db, now)'[k]
             By(names) == \E c \in Commands : /\ c.name \in names
                                              /\ Target(c) = k
                                              /\ ProcessCommand(c)
         IN  old # Null /\ new # Null =>
               /\ old.type # new.type => By({"SET"})
               /\ old.exp # new.exp => By({"SET", "EXPIRE", "PEXPIRE"})]_vars
  BY DEF EagerDb
<1> QED
  BY <1>1, <1>2, TypeCorrect, PTL DEF Spec, ObjectsKept

-----------------------------------------------------------------------------
(* A burst of expired keys goes in full samples.                           *)

\* At most one more key is in use after a step.
LEMMA UsedFinite ==
    ASSUME TypeOK, IsFiniteSet(Used(db)), [Next]_vars
    PROVE  IsFiniteSet(Used(db)')
<1>1. ASSUME NEW ks, db' = Without(db, ks) PROVE IsFiniteSet(Used(db)')
  <2>1. Used(db)' \in SUBSET Used(db)
    BY <1>1 DEF Used, Without
  <2> QED
    BY <2>1, FS_Subset
<1>2. ASSUME NEW c \in Commands, ProcessCommand(c) PROVE IsFiniteSet(Used(db)')
  <2>1. db \in Databases /\ WellFormed(c)
    BY CommandsAssumption DEF TypeOK, CommandsAssumption
  <2>2. PICK r \in Execute(c, db, now) : db' = r.db
    BY <1>2 DEF ProcessCommand
  <2>3. \/ \E ks : r.db = Without(db, ks)
        \/ \E k, o : r.db = [db EXCEPT ![k] = o]
    <3>1. \/ \E ks : r.db = Without(db, ks)
          \/ \E out \in KeyHandler(c.name, c.args, db[c.args[1]], now) :
                r.db = [db EXCEPT ![c.args[1]] = out.obj]
      BY <2>1, ExecuteShape
    <3> QED
      BY <3>1
  <2>4. ASSUME NEW k, NEW o, db' = [db EXCEPT ![k] = o] PROVE IsFiniteSet(Used(db)')
    <3>1. IsFiniteSet(Used(db) \cup {k})
      BY FS_AddElement
    <3>2. Used(db)' \in SUBSET (Used(db) \cup {k})
      BY <2>1, <2>4 DEF Used, Databases
    <3> QED
      BY <3>1, <3>2, FS_Subset
  <2> QED
    BY <1>1, <2>2, <2>3, <2>4
<1>3. CASE Elapse \/ UNCHANGED vars
  BY <1>3 DEF Elapse, vars, Used
<1>4. CASE PeriodicExpireCheck
  BY <1>1, <1>4 DEF PeriodicExpireCheck
<1> QED
  BY <1>2, <1>3, <1>4 DEF Next

LEMMA RemoveSubset ==
    ASSUME NEW S, IsFiniteSet(S), NEW T \in SUBSET S
    PROVE  /\ IsFiniteSet(S \ T)
           /\ Cardinality(S \ T) = Cardinality(S) - Cardinality(T)
<1>1. /\ IsFiniteSet(S \ T)
      /\ Cardinality(S \ T) = Cardinality(S) - Cardinality(S \cap T)
  BY FS_Difference
<1>2. S \cap T = T
  OBVIOUS
<1> QED
  BY <1>1, <1>2

\* The keys of used that are in none of the first i samples.
LeftAfter(used, rs, i) == used \ UNION {rs[j] : j \in 1 .. i}

\* What remains of n keys when as many as k go.
Minus(n, k) == IF n <= k THEN 0 ELSE n - k

\* When all keys in use are due, a check that is allowed to go on goes on:
\* each sample but the last is as large as can be.
LEMMA FullSamples ==
    ASSUME NEW used, IsFiniteSet(used), NEW rs \in Rounds(used, used)
    PROVE  /\ Len(rs) \in 0 .. MaxLoops
           /\ \A i \in 0 .. Len(rs) :
                 /\ IsFiniteSet(LeftAfter(used, rs, i))
                 /\ Cardinality(LeftAfter(used, rs, i)) =
                      Minus(Cardinality(used), SampleSize * i)
           /\ LeftAfter(used, rs, Len(rs)) = {} \/ Len(rs) = MaxLoops
<1> DEFINE n == Cardinality(used)
<1>1. /\ rs \in SeqOf(SUBSET used, MaxLoops)
      /\ \A i \in 1 .. Len(rs) :
            /\ rs[i] \subseteq LeftAfter(used, rs, i - 1)
            /\ LeftAfter(used, rs, i - 1) # {}
            /\ Cardinality(rs[i]) = SampleOf(Cardinality(LeftAfter(used, rs, i - 1)))
      /\ \/ LeftAfter(used, rs, Len(rs)) = {} \/ Len(rs) = MaxLoops
         \/ Len(rs) > 0 /\ ~ Fruitful(rs[Len(rs)], used)
  BY DEF Rounds, LeftAfter
<1>2. rs \in Seq(SUBSET used) /\ Len(rs) \in 0 .. MaxLoops
  BY <1>1, PeriodAssumption DEF SeqOf, PeriodAssumption
<1>3. n \in Nat /\ SampleSize \in Nat \ {0} /\ MaxLoops \in Nat \ {0}
  BY FS_CardinalityType, PeriodAssumption DEF PeriodAssumption
<1> DEFINE Holds(i) == /\ IsFiniteSet(LeftAfter(used, rs, i))
                       /\ Cardinality(LeftAfter(used, rs, i)) = Minus(n, SampleSize * i)
           T == {i \in Nat : i <= Len(rs) => Holds(i)}
<1>4. 0 \in T
  <2>1. LeftAfter(used, rs, 0) = used /\ Minus(n, SampleSize * 0) = n
    BY <1>3 DEF LeftAfter, Minus
  <2> QED
    BY <2>1
<1>5. ASSUME NEW i \in T PROVE i + 1 \in T
  <2> SUFFICES ASSUME i + 1 <= Len(rs) PROVE Holds(i + 1)
    OBVIOUS
  <2> DEFINE left == LeftAfter(used, rs, i)
             sample == rs[i + 1]
  <2>1. IsFiniteSet(left) /\ Cardinality(left) = Minus(n, SampleSize * i)
    BY <1>2
  <2>2. sample \subseteq left /\ left # {} /\ Cardinality(sample) = SampleOf(Cardinality(left))
    BY <1>1, <1>2
  <2>3. LeftAfter(used, rs, i + 1) = left \ sample
    <3>1. 1 .. i + 1 = (1 .. i) \cup {i + 1}
      OBVIOUS
    <3> QED
      BY <3>1 DEF LeftAfter
  <2>4. /\ IsFiniteSet(left \ sample)
        /\ Cardinality(left \ sample) = Cardinality(left) - Cardinality(sample)
    BY <2>1, <2>2, RemoveSubset
  <2>5. SampleSize * i \in Nat /\ SampleSize * (i + 1) = SampleSize * i + SampleSize
    BY <1>3
  <2>6. Minus(n, SampleSize * i) - SampleOf(Minus(n, SampleSize * i)) = Minus(n, SampleSize * (i + 1))
    BY <1>3, <2>5 DEF Minus, SampleOf
  <2> QED
    BY <2>1, <2>2, <2>3, <2>4, <2>6
<1>6. T = Nat
  BY <1>4, <1>5, Inductive
<1>7. \A i \in 0 .. Len(rs) : Holds(i)
  BY <1>2, <1>6
<1>8. Len(rs) > 0 => Fruitful(rs[Len(rs)], used)
  <2> SUFFICES ASSUME Len(rs) > 0 PROVE Fruitful(rs[Len(rs)], used)
    OBVIOUS
  <2> DEFINE i == Len(rs)
             left == LeftAfter(used, rs, i - 1)
  <2>1. i \in 1 .. Len(rs) /\ i - 1 \in 0 .. Len(rs)
    BY <1>2
  <2>2. IsFiniteSet(left)
    BY <1>7, <2>1
  <2>3. left # {} /\ Cardinality(rs[i]) = SampleOf(Cardinality(left)) /\ rs[i] \subseteq used
    BY <1>1, <2>1 DEF LeftAfter
  <2>4. Cardinality(left) \in Nat \ {0}
    BY <2>2, <2>3, FS_CardinalityType, FS_EmptySet
  <2>5. Cardinality(rs[i]) \in Nat \ {0}
    BY <1>3, <2>3, <2>4 DEF SampleOf
  <2>6. rs[i] \cap used = rs[i]
    BY <2>3
  <2>7. Cardinality(rs[i] \cap used) = Cardinality(rs[i])
    BY <2>6, Zenon
  <2>8. \A m \in Nat \ {0} : 4 * m > m
    OBVIOUS
  <2> HIDE DEF left
  <2> QED
    BY <2>5, <2>7, <2>8 DEF Fruitful
<1> QED
  BY <1>1, <1>2, <1>7, <1>8

\* However large the burst: one check of the periodic expiry takes MaxLoops
\* full samples of it, or all of it.
THEOREM BurstsAreReclaimed == Spec => BurstReclaimed
<1> DEFINE Fine == PeriodicExpireCheck /\ Used(db) = Expired(db, now) =>
                     LET n == Cardinality(Used(db))
                     IN  Cardinality(Used(db)') =
                            IF n <= SampleSize * MaxLoops THEN 0
                            ELSE n - SampleSize * MaxLoops
           Finite == IsFiniteSet(Used(db))
<1>1. Init => Finite
  <2>1. Init => Used(db) = {}
    BY DEF Init, Used, EmptyDb
  <2> QED
    BY <2>1, FS_EmptySet
<1>2. TypeOK /\ Finite /\ [Next]_vars => Finite'
  BY UsedFinite
<1>3. TypeOK /\ Finite /\ [Next]_vars => [Fine]_vars
  <2> SUFFICES ASSUME Finite, PeriodicExpireCheck, Used(db) = Expired(db, now)
               PROVE  Cardinality(Used(db)') = Minus(Cardinality(Used(db)), SampleSize * MaxLoops)
    BY DEF Minus
  <2> DEFINE used == Used(db)
             n == Cardinality(used)
  <2>1. PICK rs \in Rounds(used, used) : db' = Without(db, (UNION ToSet(rs)) \cap used)
    BY DEF PeriodicExpireCheck
  <2> DEFINE left == LeftAfter(used, rs, Len(rs))
  <2>2. Used(db)' = left
    BY <2>1 DEF Used, Without, LeftAfter, ToSet
  <2>3. /\ Len(rs) \in 0 .. MaxLoops
        /\ IsFiniteSet(left)
        /\ Cardinality(left) = Minus(n, SampleSize * Len(rs))
        /\ left = {} \/ Len(rs) = MaxLoops
    BY FullSamples
  <2>4. n \in Nat /\ SampleSize \in Nat \ {0} /\ MaxLoops \in Nat \ {0}
    BY FS_CardinalityType, PeriodAssumption DEF PeriodAssumption
  <2>5. CASE Len(rs) = MaxLoops
    BY <2>2, <2>3, <2>5
  <2>6. CASE left = {} /\ Len(rs) < MaxLoops
    <3>1. Cardinality(left) = 0
      BY <2>6, FS_EmptySet
    <3>2. SampleSize * Len(rs) \in Nat /\ SampleSize * Len(rs) <= SampleSize * MaxLoops
      BY <2>3, <2>4
    <3>3. n <= SampleSize * Len(rs)
      BY <2>3, <2>4, <3>1, <3>2 DEF Minus
    <3> HIDE DEF n, left
    <3> QED
      BY <2>2, <2>4, <3>1, <3>2, <3>3 DEF Minus, n
  <2> QED
    BY <2>3, <2>4, <2>5, <2>6
<1> HIDE DEF Fine
<1>4. [Fine]_vars => [PeriodicExpireCheck /\ Used(db) = Expired(db, now) =>
         LET n == Cardinality(Used(db))
         IN  Cardinality(Used(db)') =
                IF n <= SampleSize * MaxLoops THEN 0 ELSE n - SampleSize * MaxLoops]_vars
  BY DEF Fine
<1> HIDE DEF Finite
<1> QED
  BY <1>1, <1>2, <1>3, <1>4, TypeCorrect, PTL DEF Spec, BurstReclaimed
-----------------------------------------------------------------------------
(* What an object contains, and what commands answer about it.             *)

\* The fields or members of an object.
Inside(o) ==
    IF o = Null \/ o.type \notin {"hash", "set", "zset"} THEN {}
    ELSE IF o.type = "hash" THEN Present(o.hash)
    ELSE IF o.type = "set" THEN o.set
    ELSE Present(o.zset)

FiniteInside(o) == IsFiniteSet(Inside(o))

\* o contains the elements of S and nothing else.
Holding(o, S) == Inside(o) = S /\ Content(o) = Cardinality(S)

\* What CountsAgree asks of a command that finds "before" elements, leaves
\* "after" and answers r.
Agrees(name, before, after, r) ==
    LET counted == Len(r) = 2 /\ r[1] = ":"
    IN  /\ name \in {"HSET", "SADD", "ZADD"} /\ counted => r[2] = after - before
        /\ name \in {"HDEL", "SREM", "ZREM"} /\ counted => r[2] = before - after
        /\ name \in {"LPUSH", "RPUSH"} /\ counted => r[2] = after
        /\ name \in {"LPOP", "RPOP", "SPOP"} /\ Len(r) = 2 =>
              before - after = CASE r[1] = "$" -> 1
                                 [] r[1] = "*" -> Len(r[2])
                                 [] r[1] = "~" -> Cardinality(r[2])

ReplyNames == {"HSET", "SADD", "ZADD", "HDEL", "SREM", "ZREM", "LPUSH", "RPUSH", "LPOP",
               "RPOP", "SPOP"}

LEMMA FiniteImage ==
    ASSUME NEW f, NEW I, IsFiniteSet(I)
    PROVE  IsFiniteSet({f[i] : i \in I})
<1> DEFINE g == [i \in I |-> f[i]]
           T == {f[i] : i \in I}
<1>1. g \in Surjection(I, T)
  BY DEF Surjection
<1> HIDE DEF g, T
<1>2. IsFiniteSet(T)
  BY <1>1, FS_Surjection
<1> QED
  BY <1>2 DEF T

\* Of the indices at which x is found, there is a last one.
LEMMA LastFound ==
    ASSUME NEW args \in Seq(Words), NEW I \in SUBSET (1 .. Len(args)), NEW i \in I
    PROVE  LastAt(I, args, args[i]) # {}
<1> DEFINE J == {j \in I : args[j] = args[i]}
           T == {Len(args) - j : j \in J}
<1>1. T \in SUBSET Nat /\ T # {}
  <2>1. i \in J /\ Len(args) - i \in T
    OBVIOUS
  <2>2. \A j \in J : Len(args) - j \in Nat
    OBVIOUS
  <2> QED
    BY <2>1, <2>2
<1>2. PICK m \in T : \A n \in T : m <= n
  BY <1>1, Least
<1>3. PICK j \in J : m = Len(args) - j
  BY <1>2, Zenon
<1>4. \A n \in J : n <= j
  <2> SUFFICES ASSUME NEW n \in J PROVE n <= j
    OBVIOUS
  <2>1. Len(args) - n \in T
    OBVIOUS
  <2>2. m <= Len(args) - n
    BY <1>2, <2>1
  <2>3. Len(args) \in Nat /\ n \in Nat /\ j \in Nat
    OBVIOUS
  <2> HIDE DEF J, T
  <2> QED
    BY <1>3, <2>2, <2>3
<1>5. j \in LastAt(I, args, args[i])
  BY <1>3, <1>4 DEF LastAt
<1> QED
  BY <1>5

LEMMA ContentType ==
    ASSUME NEW o \in MaybeObjects, FiniteInside(o)
    PROVE  Content(o) \in Nat
<1>1. CASE o = Null \/ o.type = "string"
  BY <1>1 DEF Content
<1>2. CASE o # Null /\ o.type = "list"
  <2>1. o.list \in Seq(Elems)
    BY <1>2 DEF MaybeObjects, Objects, StringObjects, HashObjects, ListObjects, SetObjects,
       ZSetObjects
  <2> QED
    BY <1>2, <2>1 DEF Content
<1>3. CASE o # Null /\ o.type \in {"hash", "set", "zset"}
  BY <1>3, FS_CardinalityType DEF Content, Inside, FiniteInside
<1> QED
  BY <1>1, <1>2, <1>3 DEF MaybeObjects, Objects, StringObjects, HashObjects, ListObjects,
     SetObjects, ZSetObjects

LEMMA NothingHeld == Holding(Null, {})
  BY FS_EmptySet DEF Holding, Inside, Content

\* Errors, missing keys and commands that do not count.
LEMMA Uncounted ==
    ASSUME NEW name, NEW before, NEW after, NEW r,
           name \notin ReplyNames \/ r \in {Error, WrongType, NilBulk}
    PROVE  Agrees(name, before, after, r)
<1>1. r \in {Error, WrongType, NilBulk} => Len(r) = 1
  BY DEF Error, WrongType, NilBulk
<1> QED
  BY <1>1 DEF Agrees, ReplyNames

LEMMA Untouched ==
    ASSUME NEW name \in {"HDEL", "SREM", "ZREM"}, NEW before \in Nat
    PROVE  Agrees(name, before, before, Number(0))
  BY DEF Agrees, Number

LEMMA Grown ==
    ASSUME NEW S, IsFiniteSet(S), NEW T, IsFiniteSet(T), NEW old, Holding(old, S),
           NEW new, Holding(new, S \cup T), NEW name \in {"HSET", "SADD", "ZADD"}
    PROVE  /\ FiniteInside(new)
           /\ Agrees(name, Content(old), Content(new), Number(Cardinality(T \ S)))
<1>1. S \cup T = S \cup (T \ S) /\ S \cap (T \ S) = {}
  OBVIOUS
<1>2. IsFiniteSet(T \ S)
  BY FS_Difference
<1>3. /\ IsFiniteSet(S \cup (T \ S))
      /\ Cardinality(S \cup (T \ S)) =
           Cardinality(S) + Cardinality(T \ S) - Cardinality(S \cap (T \ S))
  BY <1>2, FS_Union
<1>4. /\ Cardinality(S) \in Nat /\ Cardinality(T \ S) \in Nat
      /\ Cardinality(S \cap (T \ S)) = 0
  <2>1. Cardinality(S) \in Nat /\ Cardinality(T \ S) \in Nat
    BY <1>2, FS_CardinalityType
  <2>2. Cardinality(S \cap (T \ S)) = Cardinality({})
    BY <1>1, Zenon
  <2> QED
    BY <2>1, <2>2, FS_EmptySet
<1>5. IsFiniteSet(S \cup T) /\ Cardinality(T \ S) = Cardinality(S \cup T) - Cardinality(S)
  <2>1. IsFiniteSet(S \cup T) /\ Cardinality(S \cup T) = Cardinality(S \cup (T \ S))
    BY <1>1, <1>3, Zenon
  <2> QED
    BY <1>3, <1>4, <2>1
<1> QED
  BY <1>5 DEF FiniteInside, Holding, Agrees, Number

LEMMA Shrunk ==
    ASSUME NEW S, IsFiniteSet(S), NEW T, NEW old, Holding(old, S),
           NEW new, Holding(new, S \ T), NEW name \in {"HDEL", "SREM", "ZREM"}
    PROVE  /\ FiniteInside(new)
           /\ Agrees(name, Content(old), Content(new), Number(Cardinality(T \cap S)))
<1>1. S \ T = S \ (T \cap S)
  OBVIOUS
<1>2. /\ IsFiniteSet(S \ (T \cap S))
      /\ Cardinality(S \ (T \cap S)) = Cardinality(S) - Cardinality(T \cap S)
      /\ IsFiniteSet(T \cap S)
  BY RemoveSubset, FS_Subset
<1>3. Cardinality(S) \in Nat /\ Cardinality(T \cap S) \in Nat
  BY <1>2, FS_CardinalityType
<1>4. IsFiniteSet(S \ T) /\ Cardinality(T \cap S) = Cardinality(S) - Cardinality(S \ T)
  BY <1>1, <1>2, <1>3
<1> QED
  BY <1>4 DEF FiniteInside, Holding, Agrees, Number

-----------------------------------------------------------------------------
(* One lemma per file of handlers, on objects that are not due.            *)

Counts(name, old, out) ==
    FiniteInside(out.obj) /\ Agrees(name, Content(old), Content(out.obj), out.reply)

LEMMA HashHeld ==
    ASSUME NEW obj \in HashObjects, NEW hash \in [Elems -> Elems \cup {Null}]
    PROVE  /\ Holding(obj, Present(obj.hash))
           /\ Holding([obj EXCEPT !.hash = hash], Present(hash))
           /\ Holding(IF Present(hash) = {} THEN Null ELSE [obj EXCEPT !.hash = hash],
                      Present(hash))
<1> DEFINE new == [obj EXCEPT !.hash = hash]
<1>1. new \in HashObjects /\ new.hash = hash
  BY DEF HashObjects
<1>2. ASSUME NEW o \in HashObjects PROVE Holding(o, Present(o.hash))
  <2>1. o # Null /\ o.type = "hash"
    BY NullAssumption DEF Objects, HashObjects
  <2> QED
    BY <2>1 DEF Holding, Inside, Content
<1> HIDE DEF new
<1>3. Holding(new, Present(hash))
  BY <1>1, <1>2
<1>4. Present(hash) = {} => Holding(Null, Present(hash))
  BY NothingHeld
<1> QED
  BY <1>2, <1>3, <1>4 DEF new

LEMMA HashHandlerCounts ==
    ASSUME NEW args \in Seq(Words), NEW old \in MaybeObjects, NEW t \in Nat,
           ~ IsExpired(old, t), FiniteInside(old), NEW name \in HashNames,
           name = "HSET" => \A i \in 2 .. Len(args) : args[i] \in Elems,
           NEW out \in HashHandler(name, args, old, t)
    PROVE  Counts(name, old, out)
<1>1. LazyCheck(old, t) = old
  BY DEF LazyCheck
<1>2. GetHash(old, t) = IF HasType(old, "hash") THEN old ELSE Null
  BY <1>1 DEF GetHash
<1>3. HasType(old, "hash") => old \in HashObjects
  BY DEF HasType, MaybeObjects, Objects, StringObjects, ListObjects, SetObjects, ZSetObjects
<1>4. Null \notin HashObjects
  BY NullAssumption DEF Objects
<1>5. ASSUME out.obj = old, out.reply \in {Error, WrongType} PROVE Counts(name, old, out)
  BY <1>5, Uncounted DEF Counts
<1>6. CASE name = "HSET"
  <2> DEFINE obj == GetOrCreateHash(old, t)
             named == {args[i] : i \in PairStarts(args)}
             hash == Assigned(obj.hash, args)
             bad == Len(args) < 3 \/ Len(args) % 2 # 1
  <2>1. out \in HSetCmd(args, old, t)
    BY <1>6 DEF HashHandler
  <2>2. CASE bad \/ obj = Null
    <3>1. out.obj = old /\ out.reply \in {Error, WrongType}
      BY <1>1, <2>1, <2>2 DEF HSetCmd, Outcome
    <3> QED
      BY <1>5, <3>1
  <2>3. CASE ~ (bad \/ obj = Null)
    <3>1. /\ out.obj = [obj EXCEPT !.hash = hash]
          /\ out.reply = Number(Cardinality(named \ Present(obj.hash)))
      BY <2>1, <2>3 DEF HSetCmd, Outcome
    <3>2. obj \in HashObjects /\ Holding(old, Present(obj.hash))
      <4>1. CASE old = Null
        <5>1. obj = CreateHash
          BY <1>1, <4>1 DEF GetOrCreateHash
        <5>2. CreateHash \in HashObjects /\ Present(CreateHash.hash) = {}
          BY DEF CreateHash, HashObjects, Expiry, Present
        <5> QED
          BY <4>1, <5>1, <5>2, NothingHeld
      <4>2. CASE old # Null
        <5>1. obj = old /\ old \in HashObjects
          BY <1>1, <1>2, <1>3, <2>3, <4>2 DEF GetOrCreateHash
        <5>2. old.hash \in [Elems -> Elems \cup {Null}]
          BY <5>1 DEF HashObjects
        <5> QED
          BY <5>1, <5>2, HashHeld
      <4> QED
        BY <4>1, <4>2
    <3>3. PairStarts(args) \subseteq 2 .. Len(args) /\ Len(args) \in Nat
      BY DEF PairStarts
    <3>4. \A i \in PairStarts(args) : i + 1 \in 2 .. Len(args)
      BY <2>3 DEF PairStarts
    <3>5. \A i \in PairStarts(args) : args[i] \in Elems /\ args[i + 1] \in Elems
      BY <1>6, <3>3, <3>4
    <3>6. \A f \in Elems : /\ LastAt(PairStarts(args), args, f) \subseteq PairStarts(args)
                           /\ \A i \in LastAt(PairStarts(args), args, f) : args[i] = f
      BY DEF LastAt
    <3>7. \A f \in named : LastAt(PairStarts(args), args, f) # {}
      BY <3>3, LastFound
    <3>8. hash \in [Elems -> Elems \cup {Null}] /\ Null \notin Elems
      <4>1. obj.hash \in [Elems -> Elems \cup {Null}]
        BY <3>2 DEF HashObjects
      <4> QED
        BY <3>5, <3>6, <4>1, ElemsAssumption, WordsAssumption DEF Assigned
    <3>9. Present(hash) = Present(obj.hash) \cup named
      <4>1. ASSUME NEW f \in Elems PROVE hash[f] # Null <=> obj.hash[f] # Null \/ f \in named
        <5>1. CASE f \in named
          <6>1. hash[f] \in Elems
            BY <3>5, <3>6, <3>7, <5>1 DEF Assigned
          <6> QED
            BY <3>8, <5>1, <6>1
        <5>2. CASE f \notin named
          BY <3>6, <5>2 DEF Assigned
        <5> QED
          BY <5>1, <5>2
      <4>2. named \subseteq Elems
        BY <3>5
      <4> HIDE DEF hash, named
      <4> QED
        BY <4>1, <4>2 DEF Present
    <3>10. IsFiniteSet(named) /\ IsFiniteSet(Present(obj.hash))
      <4>1. IsFiniteSet(2 .. Len(args))
        BY <3>3, FS_Interval
      <4>2. IsFiniteSet(PairStarts(args))
        BY <3>3, <4>1, FS_Subset
      <4> QED
        BY <3>2, <4>2, FiniteImage DEF FiniteInside, Holding
    <3>11. Holding(out.obj, Present(obj.hash) \cup named)
      BY <3>1, <3>2, <3>8, <3>9, HashHeld
    <3> DEFINE held == Present(obj.hash)
    <3> HIDE DEF named, obj, held
    <3>12. /\ FiniteInside(out.obj)
           /\ Agrees(name, Content(old), Content(out.obj), Number(Cardinality(named \ held)))
      BY <1>6, <3>2, <3>10, <3>11, Grown DEF held
    <3> QED
      BY <3>1, <3>12 DEF Counts, held
  <2> QED
    BY <2>2, <2>3
<1>7. CASE name = "HDEL"
  <2> DEFINE obj == GetHash(old, t)
             named == {args[i] : i \in 2 .. Len(args)}
             hash == [f \in Elems |-> IF f \in named \cap Present(obj.hash) THEN Null ELSE obj.hash[f]]
  <2>1. out \in HDelCmd(args, old, t)
    BY <1>7 DEF HashHandler
  <2>2. CASE Len(args) < 2
    <3>1. out.obj = old /\ out.reply = Error
      BY <2>1, <2>2 DEF HDelCmd, Outcome
    <3> QED
      BY <1>5, <3>1
  <2>3. CASE ~ (Len(args) < 2) /\ obj = Null
    <3>1. out.obj = old /\ out.reply = Number(0)
      BY <1>1, <2>1, <2>3 DEF HDelCmd, Outcome
    <3> QED
      BY <1>7, <3>1, ContentType, Untouched DEF Counts
  <2>4. CASE ~ (Len(args) < 2 \/ obj = Null)
    <3>1. obj = old /\ old \in HashObjects
      BY <1>2, <1>3, <2>4
    <3>2. /\ out.obj = IF Present(hash) = {} THEN Null ELSE [obj EXCEPT !.hash = hash]
          /\ out.reply = Number(Cardinality(named \cap Present(obj.hash)))
      BY <2>1, <2>4 DEF HDelCmd, Outcome
    <3>3. hash \in [Elems -> Elems \cup {Null}] /\ Holding(old, Present(obj.hash))
      BY <3>1, HashHeld DEF HashObjects
    <3>4. Present(hash) = Present(obj.hash) \ named
      BY DEF Present
    <3> HIDE DEF hash, named
    <3>5. Holding(out.obj, Present(obj.hash) \ named)
      BY <3>1, <3>2, <3>3, <3>4, HashHeld
    <3>6. IsFiniteSet(Present(obj.hash))
      BY <3>3 DEF FiniteInside, Holding
    <3> DEFINE held == Present(obj.hash)
    <3> HIDE DEF obj, held
    <3>7. /\ FiniteInside(out.obj)
          /\ Agrees(name, Content(old), Content(out.obj), Number(Cardinality(named \cap held)))
      BY <1>7, <3>3, <3>5, <3>6, Shrunk DEF held
    <3> QED
      BY <3>2, <3>7 DEF Counts, held
  <2> QED
    BY <2>2, <2>3, <2>4
<1>8. CASE name \in HashNames \ {"HSET", "HDEL"}
  <2>1. out.obj = old
    BY <1>1, <1>8 DEF HashNames, HashHandler, HGetCmd, HExistsCmd, HStrLenCmd, HKeysCmd,
       HGetAllCmd, HValsCmd, HLenCmd, FieldReader, HashReader, Outcome
  <2>2. name \notin ReplyNames
    BY <1>8 DEF HashNames, ReplyNames
  <2> QED
    BY <2>1, <2>2, Uncounted DEF Counts
<1> QED
  BY <1>6, <1>7, <1>8

LEMMA ZSetHeld ==
    ASSUME NEW obj \in ZSetObjects, NEW zset \in [Elems -> Scores \cup {Null}]
    PROVE  /\ Holding(obj, Present(obj.zset))
           /\ Holding([obj EXCEPT !.zset = zset], Present(zset))
           /\ Holding(IF Present(zset) = {} THEN Null ELSE [obj EXCEPT !.zset = zset],
                      Present(zset))
<1> DEFINE new == [obj EXCEPT !.zset = zset]
<1>1. new \in ZSetObjects /\ new.zset = zset
  BY DEF ZSetObjects
<1>2. ASSUME NEW o \in ZSetObjects PROVE Holding(o, Present(o.zset))
  <2>1. o # Null /\ o.type = "zset"
    BY NullAssumption DEF Objects, ZSetObjects
  <2> QED
    BY <2>1 DEF Holding, Inside, Content
<1> HIDE DEF new
<1>3. Holding(new, Present(zset))
  BY <1>1, <1>2
<1>4. Present(zset) = {} => Holding(Null, Present(zset))
  BY NothingHeld
<1> QED
  BY <1>2, <1>3, <1>4 DEF new

LEMMA ZSetHandlerCounts ==
    ASSUME NEW args \in Seq(Words), NEW old \in MaybeObjects, NEW t \in Nat,
           ~ IsExpired(old, t), FiniteInside(old), NEW name \in ZSetNames,
           name = "ZADD" => \A i \in 2 .. Len(args) : i % 2 = 1 => args[i] \in Elems,
           NEW out \in ZSetHandler(name, args, old, t)
    PROVE  Counts(name, old, out)
<1>1. LazyCheck(old, t) = old
  BY DEF LazyCheck
<1>2. GetZSet(old, t) = IF HasType(old, "zset") THEN old ELSE Null
  BY <1>1 DEF GetZSet
<1>3. HasType(old, "zset") => old \in ZSetObjects
  BY DEF HasType, MaybeObjects, Objects, StringObjects, HashObjects, ListObjects, SetObjects
<1>4. ASSUME out.obj = old, out.reply \in {Error, WrongType} PROVE Counts(name, old, out)
  BY <1>4, Uncounted DEF Counts
<1>5. CASE name = "ZADD"
  <2> DEFINE obj == GetOrCreateZSet(old, t)
             I == {i + 1 : i \in ScoredPairs(args)}
             J == {args[i + 1] : i \in ScoredPairs(args)}
             named == {args[i] : i \in I}
             zset == Scored(obj.zset, args)
             bad == Len(args) < 3 \/ Len(args) % 2 # 1
  <2>1. out \in ZAddCmd(args, old, t)
    BY <1>5 DEF ZSetHandler
  <2>2. CASE bad \/ obj = Null
    <3>1. out.obj = old /\ out.reply \in {Error, WrongType}
      BY <1>1, <2>1, <2>2 DEF ZAddCmd, Outcome
    <3> QED
      BY <1>4, <3>1
  <2>3. CASE ~ (bad \/ obj = Null)
    <3>1. J = named
      OBVIOUS
    <3>2. /\ out.obj = [obj EXCEPT !.zset = zset]
          /\ out.reply \in {Number(Cardinality(J \ Present(obj.zset))), Error}
      BY <2>1, <2>3 DEF ZAddCmd, Outcome
    <3>3. obj \in ZSetObjects /\ Holding(old, Present(obj.zset))
      <4>1. CASE old = Null
        <5>1. obj = CreateZSet
          BY <1>1, <4>1 DEF GetOrCreateZSet
        <5>2. CreateZSet \in ZSetObjects /\ Present(CreateZSet.zset) = {}
          BY DEF CreateZSet, ZSetObjects, Expiry, Present
        <5> QED
          BY <4>1, <5>1, <5>2, NothingHeld
      <4>2. CASE old # Null
        <5>1. obj = old /\ old \in ZSetObjects
          BY <1>1, <1>2, <1>3, <2>3, <4>2 DEF GetOrCreateZSet
        <5>2. old.zset \in [Elems -> Scores \cup {Null}]
          BY <5>1 DEF ZSetObjects
        <5> QED
          BY <5>1, <5>2, ZSetHeld
      <4> QED
        BY <4>1, <4>2
    <3>4. ScoredPairs(args) \subseteq PairStarts(args) /\ Len(args) \in Nat
      BY DEF ScoredPairs
    <3>5. \A i \in I : i \in 2 .. Len(args) /\ args[i] \in Elems /\ args[i - 1] \in Scores
      <4> SUFFICES ASSUME NEW i \in ScoredPairs(args)
                   PROVE  /\ i + 1 \in 2 .. Len(args) /\ args[i + 1] \in Elems
                          /\ args[(i + 1) - 1] \in Scores
        OBVIOUS
      <4>1. i + 1 \in 2 .. Len(args) /\ (i + 1) % 2 = 1 /\ (i + 1) - 1 = i
        BY <2>3, <3>4 DEF PairStarts
      <4>2. args[i] \in Scores
        BY <3>4, <4>1 DEF ScoredPairs
      <4> QED
        BY <1>5, <4>1, <4>2
    <3>6. \A m \in Elems : LastAt(I, args, m) \subseteq I /\ \A i \in LastAt(I, args, m) : args[i] = m
      BY DEF LastAt
    <3>7. I \subseteq 1 .. Len(args)
      BY <3>5, <3>4
    <3> HIDE DEF I
    <3>8. \A m \in named : LastAt(I, args, m) # {}
      BY <3>7, LastFound
    <3>9. zset = [m \in Elems |->
                    IF LastAt(I, args, m) = {} THEN obj.zset[m]
                    ELSE args[(CHOOSE i \in LastAt(I, args, m) : TRUE) - 1]]
      BY DEF Scored, I
    <3>10. obj.zset \in [Elems -> Scores \cup {Null}] /\ Null \notin Scores
      BY <3>3, WordsAssumption DEF ZSetObjects, Scores
    <3>11. zset \in [Elems -> Scores \cup {Null}]
      BY <3>5, <3>6, <3>9, <3>10
    <3>12. Present(zset) = Present(obj.zset) \cup named
      <4>1. ASSUME NEW m \in Elems PROVE zset[m] # Null <=> obj.zset[m] # Null \/ m \in named
        <5>1. CASE m \in named
          <6>1. zset[m] \in Scores
            BY <3>5, <3>6, <3>8, <3>9, <5>1
          <6> QED
            BY <3>10, <5>1, <6>1
        <5>2. CASE m \notin named
          BY <3>6, <3>9, <5>2
        <5> QED
          BY <5>1, <5>2
      <4>2. named \subseteq Elems
        BY <3>5
      <4> HIDE DEF zset, named
      <4> QED
        BY <4>1, <4>2 DEF Present
    <3> DEFINE held == Present(obj.zset)
    <3>13. IsFiniteSet(named) /\ IsFiniteSet(held)
      <4>1. IsFiniteSet(1 .. Len(args))
        BY <3>4, FS_Interval
      <4>2. IsFiniteSet(I)
        BY <3>7, <4>1, FS_Subset
      <4> QED
        BY <3>3, <4>2, FiniteImage DEF FiniteInside, Holding
    <3>14. Holding(out.obj, held \cup named)
      BY <3>2, <3>3, <3>11, <3>12, ZSetHeld
    <3>15. out.reply \in {Number(Cardinality(named \ held)), Error}
      BY <3>1, <3>2
    <3> HIDE DEF named, obj, held
    <3>16. /\ FiniteInside(out.obj)
           /\ Agrees(name, Content(old), Content(out.obj), Number(Cardinality(named \ held)))
      BY <1>5, <3>3, <3>13, <3>14, Grown DEF held
    <3>17. Agrees(name, Content(old), Content(out.obj), Error)
      BY Uncounted
    <3> QED
      BY <3>15, <3>16, <3>17 DEF Counts
  <2> QED
    BY <2>2, <2>3
<1>6. CASE name = "ZREM"
  <2> DEFINE obj == GetZSet(old, t)
             named == {args[i] : i \in 2 .. Len(args)}
             zset == [m \in Elems |-> IF m \in named \cap Present(obj.zset) THEN Null ELSE obj.zset[m]]
  <2>1. out \in ZRemCmd(args, old, t)
    BY <1>6 DEF ZSetHandler
  <2>2. CASE Len(args) < 2
    <3>1. out.obj = old /\ out.reply = Error
      BY <2>1, <2>2 DEF ZRemCmd, Outcome
    <3> QED
      BY <1>4, <3>1
  <2>3. CASE ~ (Len(args) < 2) /\ obj = Null
    <3>1. out.obj = old /\ out.reply = Number(0)
      BY <1>1, <2>1, <2>3 DEF ZRemCmd, Outcome
    <3> QED
      BY <1>6, <3>1, ContentType, Untouched DEF Counts
  <2>4. CASE ~ (Len(args) < 2 \/ obj = Null)
    <3>1. obj = old /\ old \in ZSetObjects
      BY <1>2, <1>3, <2>4
    <3>2. /\ out.obj = IF Present(zset) = {} THEN Null ELSE [obj EXCEPT !.zset = zset]
          /\ out.reply = Number(Cardinality(named \cap Present(obj.zset)))
      BY <2>1, <2>4 DEF ZRemCmd, Outcome
    <3>3. zset \in [Elems -> Scores \cup {Null}] /\ Holding(old, Present(obj.zset))
      BY <3>1, ZSetHeld DEF ZSetObjects
    <3>4. Present(zset) = Present(obj.zset) \ named
      BY DEF Present
    <3> HIDE DEF zset, named
    <3>5. Holding(out.obj, Present(obj.zset) \ named)
      BY <3>1, <3>2, <3>3, <3>4, ZSetHeld
    <3>6. IsFiniteSet(Present(obj.zset))
      BY <3>3 DEF FiniteInside, Holding
    <3> DEFINE held == Present(obj.zset)
    <3> HIDE DEF obj, held
    <3>7. /\ FiniteInside(out.obj)
          /\ Agrees(name, Content(old), Content(out.obj), Number(Cardinality(named \cap held)))
      BY <1>6, <3>3, <3>5, <3>6, Shrunk DEF held
    <3> QED
      BY <3>2, <3>7 DEF Counts, held
  <2> QED
    BY <2>2, <2>3, <2>4
<1>7. CASE name \in ZSetNames \ {"ZADD", "ZREM"}
  <2>1. out.obj = old
    BY <1>1, <1>7 DEF ZSetNames, ZSetHandler, ZScoreCmd, ZRankCmd, ZRevRankCmd, ZRangeCmd,
       ZRevRangeCmd, ZCardCmd, RangeCmd, MemberReader, ZSetReader, Outcome
  <2>2. name \notin ReplyNames
    BY <1>7 DEF ZSetNames, ReplyNames
  <2> QED
    BY <2>1, <2>2, Uncounted DEF Counts
<1> QED
  BY <1>5, <1>6, <1>7

LEMMA SetHeld ==
    ASSUME NEW obj \in SetObjects, NEW members \in SUBSET Elems
    PROVE  Holding(obj, obj.set) /\ Holding(WithMembers(obj, members), members)
<1> DEFINE new == [obj EXCEPT !.set = members]
<1>1. new \in SetObjects /\ new.set = members
  BY DEF SetObjects
<1>2. ASSUME NEW o \in SetObjects PROVE Holding(o, o.set)
  <2>1. o # Null /\ o.type = "set"
    BY NullAssumption DEF Objects, SetObjects
  <2> QED
    BY <2>1 DEF Holding, Inside, Content
<1> HIDE DEF new
<1>3. Holding(new, members)
  BY <1>1, <1>2
<1>4. members = {} => Holding(Null, members)
  BY NothingHeld
<1> QED
  BY <1>2, <1>3, <1>4 DEF new, WithMembers

\* SPOP answers as many members as it takes.
LEMMA DrawCounts ==
    ASSUME NEW S, IsFiniteSet(S), NEW args \in Seq(Words),
           ~ (Len(args) >= 2 /\ args[2] \notin Nat), NEW name, name = "SPOP",
           NEW P \in Draws(S, IF Len(args) >= 2 THEN args[2] ELSE 1),
           NEW old, Holding(old, S), NEW new, Holding(new, S \ P)
    PROVE  FiniteInside(new) /\ Agrees(name, Content(old), Content(new), DrawReply(args, P))
<1> DEFINE count == IF Len(args) >= 2 THEN args[2] ELSE 1
<1>1. count \in Nat /\ Len(args) \in Nat
  OBVIOUS
<1> HIDE DEF count
<1>2. P \subseteq S /\ (P = S \/ Cardinality(P) = count)
  BY DEF Draws, count
<1>3. count > Cardinality(S) \/ Cardinality(P) = count
  BY DEF Draws, count
<1>4. /\ IsFiniteSet(S \ P) /\ IsFiniteSet(P)
      /\ Cardinality(S \ P) = Cardinality(S) - Cardinality(P)
      /\ Cardinality(P) <= Cardinality(S)
  BY <1>2, RemoveSubset, FS_Subset
<1>5. /\ Cardinality(S) \in Nat /\ Cardinality(P) \in Nat /\ Cardinality(S \ P) \in Nat
      /\ P = {} <=> Cardinality(P) = 0
  BY <1>4, FS_CardinalityType, FS_EmptySet
<1>6. Content(old) - Content(new) = Cardinality(P)
  BY <1>4, <1>5 DEF Holding
<1>7. CASE Len(args) >= 2
  BY <1>4, <1>6, <1>7 DEF FiniteInside, Holding, Agrees, DrawReply, Unordered
<1>8. CASE ~ (Len(args) >= 2) /\ P = {}
  BY <1>4, <1>8, Uncounted DEF FiniteInside, Holding, DrawReply
<1>9. CASE ~ (Len(args) >= 2) /\ P # {}
  <2>1. count = 1
    BY <1>9 DEF count
  <2>2. Cardinality(P) = 1
    BY <1>3, <1>4, <1>5, <1>9, <2>1
  <2> QED
    BY <1>4, <1>6, <1>9, <2>2 DEF FiniteInside, Holding, Agrees, DrawReply, Bulk
<1> QED
  BY <1>7, <1>8, <1>9

LEMMA SetHandlerCounts ==
    ASSUME NEW args \in Seq(Words), NEW old \in MaybeObjects, NEW t \in Nat,
           ~ IsExpired(old, t), FiniteInside(old), NEW name \in SetNames,
           name = "SADD" => \A i \in 2 .. Len(args) : args[i] \in Elems,
           NEW out \in SetHandler(name, args, old, t)
    PROVE  Counts(name, old, out)
<1>1. LazyCheck(old, t) = old
  BY DEF LazyCheck
<1>2. GetSet(old, t) = IF HasType(old, "set") THEN old ELSE Null
  BY <1>1 DEF GetSet
<1>3. HasType(old, "set") => old \in SetObjects
  BY DEF HasType, MaybeObjects, Objects, StringObjects, HashObjects, ListObjects, ZSetObjects
<1>4. ASSUME out.obj = old, out.reply \in {Error, WrongType, NilBulk} PROVE Counts(name, old, out)
  BY <1>4, Uncounted DEF Counts
<1> DEFINE named == Members(args)
<1>5. CASE name = "SADD"
  <2> DEFINE obj == GetOrCreateSet(old, t)
  <2>1. out \in SAddCmd(args, old, t)
    BY <1>5 DEF SetHandler
  <2>2. CASE Len(args) < 2 \/ obj = Null
    <3>1. out.obj = old /\ out.reply \in {Error, WrongType}
      BY <1>1, <2>1, <2>2 DEF SAddCmd, Outcome
    <3> QED
      BY <1>4, <3>1
  <2>3. CASE ~ (Len(args) < 2 \/ obj = Null)
    <3>1. /\ out.obj = WithMembers(obj, obj.set \cup named)
          /\ out.reply = Number(Cardinality(named \ obj.set))
      BY <2>1, <2>3 DEF SAddCmd, Outcome
    <3>2. obj \in SetObjects /\ Holding(old, obj.set)
      <4>1. CASE old = Null
        <5>1. obj = CreateSet
          BY <1>1, <4>1 DEF GetOrCreateSet
        <5>2. CreateSet \in SetObjects /\ CreateSet.set = {}
          BY DEF CreateSet, SetObjects, Expiry
        <5> QED
          BY <4>1, <5>1, <5>2, NothingHeld
      <4>2. CASE old # Null
        <5>1. obj = old /\ old \in SetObjects
          BY <1>1, <1>2, <1>3, <2>3, <4>2 DEF GetOrCreateSet
        <5> QED
          BY <5>1, SetHeld
      <4> QED
        BY <4>1, <4>2
    <3>3. named \subseteq Elems /\ obj.set \subseteq Elems
      BY <1>5, <3>2 DEF Members, SetObjects
    <3>4. IsFiniteSet(named) /\ IsFiniteSet(obj.set)
      <4>1. Len(args) \in Int
        OBVIOUS
      <4>2. IsFiniteSet(2 .. Len(args))
        BY <4>1, FS_Interval
      <4> QED
        BY <3>2, <4>2, FiniteImage DEF FiniteInside, Holding, Members
    <3>5. Holding(out.obj, obj.set \cup named)
      BY <3>1, <3>2, <3>3, SetHeld
    <3> HIDE DEF named, obj
    <3>6. /\ FiniteInside(out.obj)
          /\ Agrees(name, Content(old), Content(out.obj), Number(Cardinality(named \ obj.set)))
      BY <1>5, <3>2, <3>4, <3>5, Grown
    <3> QED
      BY <3>1, <3>6 DEF Counts
  <2> QED
    BY <2>2, <2>3
<1>6. CASE name = "SREM"
  <2> DEFINE obj == GetSet(old, t)
  <2>1. out \in SRemCmd(args, old, t)
    BY <1>6 DEF SetHandler
  <2>2. CASE Len(args) < 2
    <3>1. out.obj = old /\ out.reply = Error
      BY <2>1, <2>2 DEF SRemCmd, Outcome
    <3> QED
      BY <1>4, <3>1
  <2>3. CASE ~ (Len(args) < 2) /\ obj = Null
    <3>1. out.obj = old /\ out.reply = Number(0)
      BY <1>1, <2>1, <2>3 DEF SRemCmd, Outcome
    <3> QED
      BY <1>6, <3>1, ContentType, Untouched DEF Counts
  <2>4. CASE ~ (Len(args) < 2 \/ obj = Null)
    <3>1. obj = old /\ old \in SetObjects
      BY <1>2, <1>3, <2>4
    <3>2. /\ out.obj = WithMembers(obj, obj.set \ named)
          /\ out.reply = Number(Cardinality(named \cap obj.set))
      BY <2>1, <2>4 DEF SRemCmd, Outcome
    <3>3. Holding(old, obj.set) /\ obj.set \subseteq Elems
      BY <3>1, SetHeld DEF SetObjects
    <3>4. Holding(out.obj, obj.set \ named)
      BY <3>1, <3>2, <3>3, SetHeld
    <3>5. IsFiniteSet(obj.set)
      BY <3>3 DEF FiniteInside, Holding
    <3> HIDE DEF named, obj
    <3>6. /\ FiniteInside(out.obj)
          /\ Agrees(name, Content(old), Content(out.obj), Number(Cardinality(named \cap obj.set)))
      BY <1>6, <3>3, <3>4, <3>5, Shrunk
    <3> QED
      BY <3>2, <3>6 DEF Counts
  <2> QED
    BY <2>2, <2>3, <2>4
<1>7. CASE name = "SPOP"
  <2> DEFINE obj == GetSet(old, t)
             bad == Len(args) >= 2 /\ args[2] \notin Nat
             count == IF Len(args) >= 2 THEN args[2] ELSE 1
  <2>1. out \in SPopCmd(args, old, t)
    BY <1>7 DEF SetHandler
  <2>2. CASE bad
    <3>1. out.obj = old /\ out.reply = Error
      BY <2>1, <2>2 DEF SPopCmd, Outcome
    <3> QED
      BY <1>4, <3>1
  <2>3. CASE ~ bad /\ obj = Null
    <3>1. out.obj = old /\ out.reply \in {EmptyArray, NilBulk}
      BY <1>1, <2>1, <2>3 DEF SPopCmd, Outcome
    <3>2. Content(old) \in Nat
      BY ContentType
    <3>3. Agrees(name, Content(old), Content(old), EmptyArray)
      BY <1>7, <3>2 DEF Agrees, EmptyArray, Array
    <3> QED
      BY <1>4, <3>1, <3>3 DEF Counts
  <2>4. CASE ~ bad /\ obj # Null
    <3>1. obj = old /\ old \in SetObjects
      BY <1>2, <1>3, <2>4
    <3>2. PICK P \in Draws(obj.set, count) : /\ out.obj = WithMembers(obj, obj.set \ P)
                                             /\ out.reply = DrawReply(args, P)
      BY <2>1, <2>4, SMTT(30) DEF SPopCmd
    <3>3. Holding(old, obj.set) /\ obj.set \subseteq Elems
      BY <3>1, SetHeld DEF SetObjects
    <3>4. Holding(out.obj, obj.set \ P)
      BY <3>1, <3>2, <3>3, SetHeld
    <3>5. IsFiniteSet(obj.set)
      BY <3>3 DEF FiniteInside, Holding
    <3> HIDE DEF obj
    <3>6. FiniteInside(out.obj) /\ Agrees(name, Content(old), Content(out.obj), DrawReply(args, P))
      BY <1>7, <2>4, <3>3, <3>4, <3>5, DrawCounts
    <3> QED
      BY <3>2, <3>6 DEF Counts
  <2> QED
    BY <2>2, <2>3, <2>4
<1>8. CASE name \in SetNames \ {"SADD", "SREM", "SPOP"}
  <2>1. out.obj = old
    BY <1>1, <1>8 DEF SetNames, SetHandler, SIsMemberCmd, SMembersCmd, SCardCmd, SetReader,
       Outcome
  <2>2. name \notin ReplyNames
    BY <1>8 DEF SetNames, ReplyNames
  <2> QED
    BY <2>1, <2>2, Uncounted DEF Counts
<1> QED
  BY <1>5, <1>6, <1>7, <1>8

LEMMA ReverseType ==
    ASSUME NEW S, NEW s \in Seq(S)
    PROVE  Reverse(s) \in Seq(S) /\ Len(Reverse(s)) = Len(s)
<1>1. \A i \in 1 .. Len(s) : (Len(s) - i) + 1 \in 1 .. Len(s)
  OBVIOUS
<1> QED
  BY <1>1 DEF Reverse

LEMMA ListHeld ==
    ASSUME NEW obj \in ListObjects, NEW list \in Seq(Elems)
    PROVE  /\ FiniteInside(obj) /\ Content(obj) = Len(obj.list)
           /\ FiniteInside([obj EXCEPT !.list = list])
           /\ Content([obj EXCEPT !.list = list]) = Len(list)
<1> DEFINE new == [obj EXCEPT !.list = list]
<1>1. new \in ListObjects /\ new.list = list
  BY DEF ListObjects
<1>2. ASSUME NEW o \in ListObjects PROVE FiniteInside(o) /\ Content(o) = Len(o.list)
  <2>1. o # Null /\ o.type = "list"
    BY NullAssumption DEF Objects, ListObjects
  <2> QED
    BY <2>1, FS_EmptySet DEF FiniteInside, Inside, Content
<1> HIDE DEF new
<1> QED
  BY <1>1, <1>2 DEF new

\* A pop that takes "popped" and leaves "rest" answers what it took.
LEMMA PopCounts ==
    ASSUME NEW obj \in ListObjects, NEW args \in Seq(Words), NEW name \in {"LPOP", "RPOP"},
           NEW popped \in Seq(Elems), NEW rest \in Seq(Elems),
           Len(obj.list) = Len(popped) + Len(rest), Len(args) < 2 => Len(popped) <= 1,
           NEW out \in Popped(args, obj, popped, rest)
    PROVE  Counts(name, obj, out)
<1>1. out.obj = IF rest = << >> THEN Null ELSE [obj EXCEPT !.list = rest]
  BY DEF Popped, Outcome
<1>2. out.reply = IF Len(args) >= 2 THEN Array(popped)
                  ELSE IF popped = << >> THEN NilBulk ELSE Bulk(popped[1])
  BY DEF Popped, Outcome
<1>3. /\ Content(obj) = Len(obj.list)
      /\ FiniteInside([obj EXCEPT !.list = rest])
      /\ Content([obj EXCEPT !.list = rest]) = Len(rest)
  BY ListHeld
<1>4. FiniteInside(Null) /\ Content(Null) = 0
  BY FS_EmptySet DEF FiniteInside, Inside, Content
<1>5. FiniteInside(out.obj) /\ Content(out.obj) = Len(rest)
  <2>1. rest = << >> => Len(rest) = 0
    OBVIOUS
  <2> QED
    BY <1>1, <1>3, <1>4, <2>1
<1>6. Content(obj) - Content(out.obj) = Len(popped)
  BY <1>3, <1>5
<1>7. CASE Len(args) >= 2
  <2> DEFINE r == out.reply
  <2>1. Len(r) = 2 /\ r[1] = "*" /\ r[2] = popped
    BY <1>2, <1>7 DEF Array
  <2> HIDE DEF r
  <2>2. Agrees(name, Content(obj), Content(out.obj), r)
    BY <1>6, <2>1 DEF Agrees
  <2> QED
    BY <1>5, <2>2 DEF Counts, r
<1>8. CASE ~ (Len(args) >= 2) /\ popped = << >>
  <2>1. out.reply \in {Error, WrongType, NilBulk}
    BY <1>2, <1>8
  <2>2. Agrees(name, Content(obj), Content(out.obj), out.reply)
    BY <2>1, Uncounted
  <2> QED
    BY <1>5, <2>2 DEF Counts
<1>9. CASE ~ (Len(args) >= 2) /\ popped # << >>
  <2>1. Len(popped) = 1
    <3>1. Len(popped) \in Nat \ {0}
      BY <1>9, EmptySeq, Zenon
    <3>2. Len(args) \in Nat
      OBVIOUS
    <3>3. Len(popped) <= 1
      BY <1>9, <3>2
    <3>4. \A m \in Nat \ {0} : m <= 1 => m = 1
      OBVIOUS
    <3> QED
      BY <3>1, <3>3, <3>4, Zenon
  <2> QED
    BY <1>2, <1>5, <1>6, <1>9, <2>1 DEF Counts, Agrees, Bulk
<1> QED
  BY <1>7, <1>8, <1>9

LEMMA ListHandlerCounts ==
    ASSUME NEW args \in Seq(Words), NEW old \in MaybeObjects, NEW t \in Nat,
           ~ IsExpired(old, t), FiniteInside(old), NEW name \in ListNames,
           name \in {"LPUSH", "RPUSH"} => \A i \in 2 .. Len(args) : args[i] \in Elems,
           NEW out \in ListHandler(name, args, old, t)
    PROVE  Counts(name, old, out)
<1>1. LazyCheck(old, t) = old
  BY DEF LazyCheck
<1>2. GetList(old, t) = IF HasType(old, "list") THEN old ELSE Null
  BY <1>1 DEF GetList
<1>3. HasType(old, "list") => old \in ListObjects
  BY DEF HasType, MaybeObjects, Objects, StringObjects, HashObjects, SetObjects, ZSetObjects
<1>4. ASSUME out.obj = old, out.reply \in {Error, WrongType, NilBulk} PROVE Counts(name, old, out)
  BY <1>4, Uncounted DEF Counts
<1>5. CASE name \in {"LPUSH", "RPUSH"}
  <2> DEFINE obj == GetOrCreateList(old, t)
             bad == Len(args) < 2 \/ obj = Null
             joined == IF name = "LPUSH" THEN Reverse(Pushed(args)) \o obj.list
                       ELSE obj.list \o Pushed(args)
  <2>1. CASE bad
    <3>1. out.obj = old /\ out.reply \in {Error, WrongType}
      BY <1>1, <1>5, <2>1 DEF ListHandler, LPushCmd, RPushCmd, Push, Outcome
    <3> QED
      BY <1>4, <3>1
  <2>2. CASE ~ bad
    <3>1. obj \in ListObjects
      BY <1>2, <1>3, <2>2 DEF GetOrCreateList, CreateList, ListObjects, Expiry
    <3>2. /\ out.obj = [obj EXCEPT !.list = joined]
          /\ out.reply = Number(Len(joined))
      <4>1. CASE name = "LPUSH"
        <5>1. joined = Reverse(Pushed(args)) \o obj.list
          BY <4>1
        <5>2. out \in Outcome([obj EXCEPT !.list = Reverse(Pushed(args)) \o obj.list],
                             Number(Len(Reverse(Pushed(args)) \o obj.list)))
          BY <2>2, <4>1 DEF ListHandler, LPushCmd, Push
        <5> HIDE DEF joined
        <5>3. out \in Outcome([obj EXCEPT !.list = joined], Number(Len(joined)))
          BY <5>1, <5>2
        <5> QED
          BY <5>3 DEF Outcome
      <4>2. CASE name = "RPUSH"
        <5>1. joined = obj.list \o Pushed(args)
          BY <4>2
        <5>2. out \in Outcome([obj EXCEPT !.list = obj.list \o Pushed(args)],
                             Number(Len(obj.list \o Pushed(args))))
          BY <2>2, <4>2 DEF ListHandler, RPushCmd, Push
        <5> HIDE DEF joined
        <5>3. out \in Outcome([obj EXCEPT !.list = joined], Number(Len(joined)))
          BY <5>1, <5>2
        <5> QED
          BY <5>3 DEF Outcome
      <4> QED
        BY <1>5, <4>1, <4>2
    <3>3. joined \in Seq(Elems)
      <4>1. Pushed(args) \in Seq(Elems)
        BY <1>5, <2>2 DEF Pushed
      <4>2. Reverse(Pushed(args)) \in Seq(Elems)
        BY <4>1 DEF Reverse
      <4>3. obj.list \in Seq(Elems)
        BY <3>1 DEF ListObjects
      <4> QED
        BY <4>1, <4>2, <4>3
    <3> HIDE DEF joined, obj
    <3>4. FiniteInside(out.obj) /\ Content(out.obj) = Len(joined)
      BY <3>1, <3>2, <3>3, ListHeld
    <3> QED
      BY <1>5, <3>2, <3>4 DEF Counts, Agrees, Number
  <2> QED
    BY <2>1, <2>2
<1>6. CASE name \in {"LPOP", "RPOP"}
  <2> DEFINE obj  == GetList(old, t)
             list == obj.list
             n    == PopCount(args, list)
             keep == Len(list) - n
  <2>1. CASE BadCount(args)
    <3>1. out.obj = old /\ out.reply = Error
      BY <1>6, <2>1 DEF ListHandler, LPopCmd, RPopCmd, Outcome
    <3> QED
      BY <1>4, <3>1
  <2>2. CASE ~ BadCount(args) /\ obj = Null
    <3>1. out.obj = old /\ out.reply = NilBulk
      BY <1>1, <1>6, <2>2 DEF ListHandler, LPopCmd, RPopCmd, Outcome
    <3> QED
      BY <1>4, <3>1
  <2>3. CASE ~ BadCount(args) /\ obj # Null
    <3>1. obj = old /\ old \in ListObjects /\ list \in Seq(Elems)
      BY <1>2, <1>3, <2>3 DEF ListObjects
    <3>2. n \in 0 .. Len(list) /\ (Len(args) < 2 => n <= 1)
      BY <2>3, <3>1 DEF PopCount, BadCount
    <3> DEFINE front == SubSeq(list, 1, n)
               after == SubSeq(list, n + 1, Len(list))
               before == SubSeq(list, 1, keep)
               back == SubSeq(list, keep + 1, Len(list))
    <3>3. \/ name = "LPOP" /\ out \in Popped(args, obj, front, after)
          \/ name = "RPOP" /\ out \in Popped(args, obj, Reverse(back), before)
      BY <1>6, <2>3 DEF ListHandler, LPopCmd, RPopCmd
    <3> HIDE DEF n
    <3>4. /\ front \in Seq(Elems) /\ Len(front) = n
          /\ after \in Seq(Elems) /\ Len(after) = Len(list) - n
          /\ before \in Seq(Elems) /\ Len(before) = Len(list) - n
          /\ back \in Seq(Elems) /\ Len(back) = n
      BY <3>1, <3>2
    <3>5. Reverse(back) \in Seq(Elems) /\ Len(Reverse(back)) = n
      <4> HIDE DEF back
      <4> QED
        BY <3>4, ReverseType
    <3>6. Len(list) \in Nat /\ n \in Nat
      BY <3>1, <3>2
    <3>7. Len(list) = n + (Len(list) - n) /\ n <= Len(list)
      BY <3>2, <3>6
    <3> HIDE DEF front, after, before, back, obj
    <3>8. CASE name = "LPOP"
      <4>1. out \in Popped(args, old, front, after)
        BY <3>1, <3>3, <3>8
      <4> QED
        BY <3>1, <3>2, <3>4, <3>7, <3>8, <4>1, PopCounts
    <3>9. CASE name = "RPOP"
      <4>1. out \in Popped(args, old, Reverse(back), before)
        BY <3>1, <3>3, <3>9
      <4> QED
        BY <3>1, <3>2, <3>4, <3>5, <3>7, <3>9, <4>1, PopCounts
    <3> QED
      BY <1>6, <3>8, <3>9
  <2> QED
    BY <2>1, <2>2, <2>3
<1>7. CASE name \in ListNames \ {"LPUSH", "RPUSH", "LPOP", "RPOP"}
  <2>1. out.obj = old
    BY <1>1, <1>7 DEF ListNames, ListHandler, LLenCmd, LRangeCmd, LIndexCmd, Outcome
  <2>2. name \notin ReplyNames
    BY <1>7 DEF ListNames, ReplyNames
  <2> QED
    BY <2>1, <2>2, Uncounted DEF Counts
<1> QED
  BY <1>5, <1>6, <1>7

LEMMA StringHandlerCounts ==
    ASSUME NEW args \in Seq(Words), NEW old \in MaybeObjects, NEW t \in Nat,
           ~ IsExpired(old, t), FiniteInside(old), NEW name \in StringNames,
           NEW out \in StringHandler(name, args, old, t)
    PROVE  Counts(name, old, out)
<1>1. LazyCheck(old, t) = old
  BY DEF LazyCheck
<1>2. name \notin ReplyNames
  BY DEF StringNames, ReplyNames
<1>3. \/ out.obj = old \/ out.obj = Null
      \/ \E at : old # Null /\ out.obj = SetExpire(old, at)
      \/ \E v, at : out.obj = SetExpire(CreateString(v), at)
  BY <1>1 DEF StringNames, StringHandler, SetCmd, GetCmd, ExpireCmd, TtlCmd, TypeCmd, Outcome
<1>4. ASSUME NEW v, NEW at PROVE Inside(SetExpire(CreateString(v), at)) = {}
  BY DEF SetExpire, CreateString, Inside
<1>5. ASSUME NEW at, old # Null PROVE Inside(SetExpire(old, at)) \subseteq Inside(old)
  <2> DEFINE p == SetExpire(old, at)
  <2>1. /\ p.type = old.type
        /\ old.type = "hash" => p.hash = old.hash
        /\ old.type = "zset" => p.zset = old.zset
        /\ old.type = "set" => p.set = old.set
    BY <1>5 DEF SetExpire, MaybeObjects, Objects, StringObjects, HashObjects, ListObjects,
       SetObjects, ZSetObjects
  <2> HIDE DEF p
  <2>2. Inside(p) \subseteq Inside(old)
    BY <1>5, <2>1 DEF Inside
  <2> QED
    BY <2>2 DEF p
<1>6. Inside(Null) = {}
  BY DEF Inside
<1>7. Inside(out.obj) \subseteq Inside(old)
  BY <1>3, <1>4, <1>5, <1>6
<1>8. FiniteInside(out.obj)
  BY <1>7, FS_Subset DEF FiniteInside
<1> QED
  BY <1>2, <1>8, Uncounted DEF Counts

LEMMA KeyHandlerCounts ==
    ASSUME NEW c, WellFormed(c), c.name \in KeyNames, NEW old \in MaybeObjects,
           NEW t \in Nat, ~ IsExpired(old, t), FiniteInside(old),
           NEW out \in KeyHandler(c.name, c.args, old, t)
    PROVE  Counts(c.name, old, out)
<1>1. c.args \in Seq(Words)
  BY DEF WellFormed
<1>2. CASE c.name \in StringNames
  BY <1>1, <1>2, HandlerOf, StringHandlerCounts
<1>3. CASE c.name \in HashNames
  BY <1>1, <1>3, HandlerOf, HashHandlerCounts DEF WellFormed
<1>4. CASE c.name \in ListNames
  BY <1>1, <1>4, HandlerOf, ListHandlerCounts DEF WellFormed
<1>5. CASE c.name \in SetNames
  BY <1>1, <1>5, HandlerOf, SetHandlerCounts DEF WellFormed
<1>6. CASE c.name \in ZSetNames
  BY <1>1, <1>6, HandlerOf, ZSetHandlerCounts DEF WellFormed
<1> QED
  BY <1>2, <1>3, <1>4, <1>5, <1>6 DEF KeyNames

-----------------------------------------------------------------------------
(* Every object is finite, and the counts agree.                           *)

AllFinite(d) == \A k \in Keys : FiniteInside(d[k])

LEMMA FiniteNull == FiniteInside(Null)
  BY FS_EmptySet DEF FiniteInside, Inside

LEMMA KeyHandlerFinite ==
    ASSUME NEW c, WellFormed(c), c.name \in KeyNames, NEW o \in MaybeObjects,
           NEW t \in Nat, FiniteInside(o), NEW out \in KeyHandler(c.name, c.args, o, t)
    PROVE  FiniteInside(out.obj)
<1> DEFINE old == LazyCheck(o, t)
<1>1. old \in MaybeObjects /\ ~ IsExpired(old, t) /\ FiniteInside(old)
  BY LazyCheckType, FiniteNull DEF LazyCheck, IsExpired
<1> HIDE DEF old
<1>2. \/ out \in KeyHandler(c.name, c.args, old, t)
      \/ out.obj = o
  BY KeyHandlerAlike DEF Alike, Outcome, old
<1> QED
  BY <1>1, <1>2, KeyHandlerCounts DEF Counts

LEMMA AllFiniteStep ==
    ASSUME TypeOK, AllFinite(db), [Next]_vars
    PROVE  AllFinite(db')
<1>1. ASSUME NEW ks, db' = Without(db, ks) PROVE AllFinite(db')
  BY <1>1, FiniteNull DEF AllFinite, Without
<1>2. ASSUME NEW c \in Commands, ProcessCommand(c) PROVE AllFinite(db')
  <2>1. db \in Databases /\ now \in Nat /\ WellFormed(c)
    BY CommandsAssumption DEF TypeOK, CommandsAssumption
  <2>2. PICK r \in Execute(c, db, now) : db' = r.db
    BY <1>2 DEF ProcessCommand
  <2>3. ASSUME c.name \in KeyNames, c.args[1] \in Keys,
               NEW out \in KeyHandler(c.name, c.args, db[c.args[1]], now),
               db' = [db EXCEPT ![c.args[1]] = out.obj]
        PROVE  AllFinite(db')
    <3>1. FiniteInside(out.obj)
      BY <2>1, <2>3, KeyHandlerFinite DEF Databases, AllFinite
    <3> QED
      BY <2>1, <2>3, <3>1 DEF Databases, AllFinite
  <2>4. \/ \E ks : r.db = Without(db, ks)
        \/ /\ c.name \in KeyNames /\ c.args # << >> /\ c.args[1] \in Keys
           /\ \E out \in KeyHandler(c.name, c.args, db[c.args[1]], now) :
                 /\ r.db = [db EXCEPT ![c.args[1]] = out.obj]
                 /\ r.reply = out.reply
    BY <2>1, ExecuteShape
  <2> QED
    BY <1>1, <2>2, <2>3, <2>4
<1>3. CASE Elapse \/ UNCHANGED vars
  BY <1>3 DEF Elapse, vars
<1>4. CASE PeriodicExpireCheck
  BY <1>1, <1>4 DEF PeriodicExpireCheck
<1> QED
  BY <1>2, <1>3, <1>4 DEF Next

LEMMA CommandCounts ==
    ASSUME TypeOK, AllFinite(db), NEW c \in Commands, ProcessCommand(c),
           c.name \in KeyNames, Target(c) # Null
    PROVE  Agrees(c.name, Content(EagerDb[Target(c)]), Content(EagerDb'[Target(c)]), reply')
<1> DEFINE k == c.args[1]
<1>1. db \in Databases /\ now \in Nat /\ WellFormed(c)
  BY CommandsAssumption DEF TypeOK, CommandsAssumption
<1>2. PICK r \in Execute(c, db, now) : db' = r.db /\ reply' = r.reply /\ now' = now
  BY DEF ProcessCommand
<1>3. c.args # << >> /\ Target(c) = k /\ k \in Keys
  BY <1>1 DEF Target, WellFormed
<1>4. c.name \notin ServerNames /\ c.name \notin {"DEL", "EXISTS", "KEYS"} /\ Registered(c.name)
  BY DEF KeyNames, StringNames, HashNames, ListNames, SetNames, ZSetNames, ServerNames, Registered
<1>5. r \in {[db |-> [db EXCEPT ![k] = out.obj], reply |-> out.reply] :
                out \in KeyHandler(c.name, c.args, db[k], now)}
  BY <1>3, <1>4 DEF Execute
<1> HIDE DEF k
<1>6. PICK out \in KeyHandler(c.name, c.args, db[k], now) :
            r.db = [db EXCEPT ![k] = out.obj] /\ r.reply = out.reply
  BY <1>5, SMTT(30)
<1> DEFINE old == LazyCheck(db[k], now)
<1>7. db[k] \in MaybeObjects /\ FiniteInside(db[k]) /\ db'[k] = out.obj
  BY <1>1, <1>2, <1>3, <1>6 DEF Databases, AllFinite
<1>8. old \in MaybeObjects /\ ~ IsExpired(old, now) /\ FiniteInside(old)
  BY <1>7, LazyCheckType, FiniteNull DEF LazyCheck, IsExpired
<1>9. EagerDb[k] = old /\ EagerDb'[k] = LazyCheck(out.obj, now)
  BY <1>2, <1>3, <1>7 DEF EagerDb, Live, Without, Expired, LazyCheck
<1> HIDE DEF old
<1>10. PICK new \in KeyHandler(c.name, c.args, old, now) :
             new.obj = LazyCheck(out.obj, now) /\ new.reply = out.reply
  BY <1>1, <1>6, <1>7, KeyHandlerLazy DEF old
<1>11. Counts(c.name, old, new)
  BY <1>1, <1>8, <1>10, KeyHandlerCounts
<1> QED
  BY <1>2, <1>3, <1>6, <1>9, <1>10, <1>11 DEF Counts

\* What a write command on a hash, list, set or sorted set answers is what it
\* did to it, lazily expired objects, repeated words and bad scores included.
THEOREM CountsAreRight == Spec => CountsAgree
<1> DEFINE Finite == AllFinite(db)
           Fine(c) == ProcessCommand(c) /\ c.name \in KeyNames /\ Target(c) # Null =>
                        Agrees(c.name, Content(EagerDb[Target(c)]),
                               Content(EagerDb'[Target(c)]), reply')
<1>1. Init => Finite
  BY FiniteNull DEF Init, EmptyDb, AllFinite
<1>2. TypeOK /\ Finite /\ [Next]_vars => Finite'
  BY AllFiniteStep
<1>3. TypeOK /\ Finite /\ [Next]_vars => [\A c \in Commands : Fine(c)]_vars
  BY CommandCounts
<1>4. [\A c \in Commands : Fine(c)]_vars =>
      [\A c \in Commands :
         ProcessCommand(c) /\ c.name \in KeyNames /\ Target(c) # Null =>
           LET before == Content(Live(db, now)[Target(c)])
               after  == Content(Live(db, now)'[Target(c)])
               counted == Len(reply') = 2 /\ reply'[1] = ":"
           IN  /\ c.name \in {"HSET", "SADD", "ZADD"} /\ counted =>
                     reply'[2] = after - before
               /\ c.name \in {"HDEL", "SREM", "ZREM"} /\ counted =>
                     reply'[2] = before - after
               /\ c.name \in {"LPUSH", "RPUSH"} /\ counted => reply'[2] = after
               /\ c.name \in {"LPOP", "RPOP", "SPOP"} /\ Len(reply') = 2 =>
                     before - after = CASE reply'[1] = "$" -> 1
                                        [] reply'[1] = "*" -> Len(reply'[2])
                                        [] reply'[1] = "~" -> Cardinality(reply'[2])
      ]_vars
  BY DEF EagerDb, Agrees
<1> HIDE DEF Finite, Fine
<1> QED
  BY <1>1, <1>2, <1>3, <1>4, TypeCorrect, PTL DEF Spec, CountsAgree

-----------------------------------------------------------------------------
(* No container is left empty.                                             *)

\* What o holds is something.
Holds(o) ==
    o # Null => /\ o.type = "hash" => Present(o.hash) # {}
                /\ o.type = "list" => o.list # << >>
                /\ o.type = "set" => o.set # {}
                /\ o.type = "zset" => Present(o.zset) # {}

LEMMA LazyCheckHolds ==
    ASSUME NEW o, Holds(o), NEW t
    PROVE  Holds(LazyCheck(o, t))
  BY DEF LazyCheck, Holds

LEMMA SetExpireHolds ==
    ASSUME NEW o \in Objects, o # Null, Holds(o), NEW at
    PROVE  Holds(SetExpire(o, at))
<1> DEFINE p == SetExpire(o, at)
<1>1. /\ p.type = o.type
      /\ o.type = "hash" => p.hash = o.hash
      /\ o.type = "list" => p.list = o.list
      /\ o.type = "set" => p.set = o.set
      /\ o.type = "zset" => p.zset = o.zset
  BY DEF SetExpire, Objects, StringObjects, HashObjects, ListObjects, SetObjects, ZSetObjects
<1> QED
  BY <1>1 DEF Holds

-----------------------------------------------------------------------------
(* One lemma per file of handlers.                                         *)

LEMMA StringHandlerHolds ==
    ASSUME NEW args \in Seq(Words), NEW o \in MaybeObjects, Holds(o), NEW t \in Nat,
           NEW name \in StringNames, NEW out \in StringHandler(name, args, o, t)
    PROVE  Holds(out.obj)
<1> DEFINE old == LazyCheck(o, t)
<1>1. Holds(old) /\ old \in MaybeObjects
  BY LazyCheckHolds, LazyCheckType
<1>2. ASSUME NEW v, NEW at PROVE Holds(SetExpire(CreateString(v), at))
  <2>1. SetExpire(CreateString(v), at).type = "string"
    BY DEF SetExpire, CreateString
  <2> QED
    BY <2>1 DEF Holds
<1>3. CASE name = "SET"
  <2>1. out \in SetCmd(args, o, t)
    BY <1>3 DEF StringHandler
  <2>2. \/ out.obj = o \/ out.obj = old
        \/ out.obj = SetExpire(CreateString(args[2]), SetDeadline(args, t))
    BY <2>1 DEF SetCmd, Outcome
  <2> QED
    BY <1>1, <1>2, <2>2
<1>4. ASSUME NEW unit, out \in ExpireCmd(args, o, t, unit) PROVE Holds(out.obj)
  <2>1. \/ out.obj = o \/ out.obj = old \/ out.obj = Null
        \/ old # Null /\ out.obj = SetExpire(old, t + args[2] * unit)
    BY <1>4 DEF ExpireCmd, Outcome
  <2>2. old # Null => Holds(SetExpire(old, t + args[2] * unit))
    BY <1>1, SetExpireHolds DEF MaybeObjects
  <2>3. Holds(Null)
    BY DEF Holds
  <2> QED
    BY <1>1, <2>1, <2>2, <2>3
<1>5. CASE name = "EXPIRE" \/ name = "PEXPIRE"
  BY <1>4, <1>5 DEF StringHandler
<1>6. CASE name \in {"GET", "TTL", "PTTL", "TYPE"}
  BY <1>1, <1>6 DEF StringHandler, GetCmd, TtlCmd, TypeCmd, Outcome
<1> QED
  BY <1>3, <1>5, <1>6 DEF StringNames

LEMMA HashHandlerHolds ==
    ASSUME NEW args \in Seq(Words), NEW o \in MaybeObjects, Holds(o), NEW t \in Nat,
           NEW name \in HashNames,
           name = "HSET" => \A i \in 2 .. Len(args) : args[i] \in Elems,
           NEW out \in HashHandler(name, args, o, t)
    PROVE  Holds(out.obj)
<1>1. LazyCheck(o, t) \in MaybeObjects /\ Holds(LazyCheck(o, t))
  BY LazyCheckType, LazyCheckHolds
<1>2. GetHash(o, t) \in HashObjects \cup {Null}
  BY <1>1 DEF GetHash, HasType, MaybeObjects, Objects, StringObjects, ListObjects,
              SetObjects, ZSetObjects
<1>3. ASSUME NEW obj \in HashObjects, NEW hash, Present(hash) # {}
      PROVE  Holds([obj EXCEPT !.hash = hash])
  <2>1. [obj EXCEPT !.hash = hash].hash = hash /\ [obj EXCEPT !.hash = hash].type = "hash"
    BY DEF HashObjects
  <2> QED
    BY <1>3, <2>1 DEF Holds
<1>4. Holds(Null)
  BY DEF Holds
<1>5. CASE name = "HSET"
  <2> DEFINE obj == GetOrCreateHash(o, t)
             i == Len(args) - 1
             f == args[i]
  <2>1. out \in HSetCmd(args, o, t)
    BY <1>5 DEF HashHandler
  <2>2. obj \in HashObjects \cup {Null}
    BY <1>2 DEF GetOrCreateHash, CreateHash, HashObjects, Expiry
  <2>3. CASE Len(args) < 3 \/ Len(args) % 2 # 1
    BY <2>1, <2>3 DEF HSetCmd, Outcome
  <2>4. CASE ~ (Len(args) < 3 \/ Len(args) % 2 # 1) /\ obj = Null
    BY <1>1, <2>1, <2>4 DEF HSetCmd, Outcome
  <2>5. CASE ~ (Len(args) < 3 \/ Len(args) % 2 # 1) /\ obj # Null
    <3>1. i \in PairStarts(args) /\ \A j \in PairStarts(args) : j <= i
      BY <2>5 DEF PairStarts
    <3>2. i \in LastAt(PairStarts(args), args, f) /\ f \in Elems
      BY <1>5, <3>1 DEF LastAt, PairStarts
    <3> DEFINE at == LastAt(PairStarts(args), args, f)
               c == CHOOSE j \in at : TRUE
    <3>3. c \in PairStarts(args)
      BY <3>2 DEF LastAt
    <3>4. c + 1 \in 2 .. Len(args)
      BY <2>5, <3>3 DEF PairStarts
    <3>5. Assigned(obj.hash, args)[f] = args[c + 1]
      BY <3>2 DEF Assigned
    <3>6. args[c + 1] # Null
      BY <1>5, <3>4, ElemsAssumption, WordsAssumption
    <3>7. Present(Assigned(obj.hash, args)) # {}
      BY <3>2, <3>5, <3>6 DEF Present
    <3> QED
      BY <1>3, <2>1, <2>2, <2>5, <3>7 DEF HSetCmd, Outcome
  <2> QED
    BY <2>3, <2>4, <2>5
<1>6. CASE name = "HDEL"
  <2> DEFINE obj == GetHash(o, t)
             gone == {args[i] : i \in 2 .. Len(args)} \cap Present(obj.hash)
             hash == [f \in Elems |-> IF f \in gone THEN Null ELSE obj.hash[f]]
  <2>1. out \in HDelCmd(args, o, t)
    BY <1>6 DEF HashHandler
  <2>2. CASE Len(args) < 2 \/ obj = Null
    BY <1>1, <2>1, <2>2 DEF HDelCmd, Outcome
  <2>3. CASE ~ (Len(args) < 2 \/ obj = Null)
    <3>1. out.obj = IF Present(hash) = {} THEN Null ELSE [obj EXCEPT !.hash = hash]
      BY <2>1, <2>3 DEF HDelCmd, Outcome
    <3> QED
      BY <1>2, <1>3, <1>4, <2>3, <3>1
  <2> QED
    BY <2>2, <2>3
<1>7. CASE name \in HashNames \ {"HSET", "HDEL"}
  BY <1>1, <1>7 DEF HashNames, HashHandler, HGetCmd, HExistsCmd, HStrLenCmd, HKeysCmd,
     HGetAllCmd, HValsCmd, HLenCmd, FieldReader, HashReader, Outcome
<1> QED
  BY <1>5, <1>6, <1>7

LEMMA ListHandlerHolds ==
    ASSUME NEW args \in Seq(Words), NEW o \in MaybeObjects, Holds(o), NEW t \in Nat,
           NEW name \in ListNames,
           name \in {"LPUSH", "RPUSH"} => \A i \in 2 .. Len(args) : args[i] \in Elems,
           NEW out \in ListHandler(name, args, o, t)
    PROVE  Holds(out.obj)
<1>1. LazyCheck(o, t) \in MaybeObjects /\ Holds(LazyCheck(o, t))
  BY LazyCheckType, LazyCheckHolds
<1>2. GetList(o, t) \in ListObjects \cup {Null}
  BY <1>1 DEF GetList, HasType, MaybeObjects, Objects, StringObjects, HashObjects,
              SetObjects, ZSetObjects
<1>3. ASSUME NEW obj \in ListObjects, NEW list, list # << >>
      PROVE  Holds([obj EXCEPT !.list = list])
  <2>1. [obj EXCEPT !.list = list].list = list /\ [obj EXCEPT !.list = list].type = "list"
    BY DEF ListObjects
  <2> QED
    BY <1>3, <2>1 DEF Holds
<1>4. CASE name \in {"LPUSH", "RPUSH"}
  <2> DEFINE obj == GetOrCreateList(o, t)
  <2>1. obj \in ListObjects \cup {Null}
    BY <1>2 DEF GetOrCreateList, CreateList, ListObjects, Expiry
  <2>2. CASE Len(args) < 2
    BY <1>4, <2>2 DEF ListHandler, LPushCmd, RPushCmd, Push, Outcome
  <2>3. CASE ~ Len(args) < 2 /\ obj = Null
    BY <1>1, <1>4, <2>3 DEF ListHandler, LPushCmd, RPushCmd, Push, Outcome
  <2>4. CASE ~ Len(args) < 2 /\ obj # Null
    <3>1. Pushed(args) \in Seq(Elems) /\ Len(Pushed(args)) > 0
      BY <1>4, <2>4 DEF Pushed
    <3>2. Reverse(Pushed(args)) \in Seq(Elems) /\ Len(Reverse(Pushed(args))) > 0
      BY <3>1 DEF Reverse
    <3>3. obj.list \in Seq(Elems)
      BY <2>1, <2>4 DEF ListObjects
    <3>4. /\ Reverse(Pushed(args)) \o obj.list # << >>
          /\ obj.list \o Pushed(args) # << >>
      <4>1. ASSUME NEW a \in Seq(Elems), NEW b \in Seq(Elems), Len(a) > 0 \/ Len(b) > 0
            PROVE  a \o b # << >>
        BY <4>1
      <4> QED
        BY <3>1, <3>2, <3>3, <4>1
    <3>5. out.obj \in {[obj EXCEPT !.list = Reverse(Pushed(args)) \o obj.list],
                       [obj EXCEPT !.list = obj.list \o Pushed(args)]}
      BY <1>4, <2>4 DEF ListHandler, LPushCmd, RPushCmd, Push, Outcome
    <3> QED
      BY <1>3, <2>1, <2>4, <3>4, <3>5
  <2> QED
    BY <2>2, <2>3, <2>4
<1>5. CASE name \in {"LPOP", "RPOP"}
  <2> DEFINE obj == GetList(o, t)
  <2>1. CASE BadCount(args)
    BY <1>5, <2>1 DEF ListHandler, LPopCmd, RPopCmd, Outcome
  <2>2. CASE ~ BadCount(args) /\ obj = Null
    BY <1>1, <1>5, <2>2 DEF ListHandler, LPopCmd, RPopCmd, Outcome
  <2>3. CASE ~ BadCount(args) /\ obj # Null
    <3>1. ASSUME NEW popped, NEW rest, out \in Popped(args, obj, popped, rest)
          PROVE  Holds(out.obj)
      <4>1. out.obj = IF rest = << >> THEN Null ELSE [obj EXCEPT !.list = rest]
        BY <3>1 DEF Popped, Outcome
      <4>2. Holds(Null)
        BY DEF Holds
      <4> QED
        BY <1>2, <1>3, <2>3, <4>1, <4>2
    <3>2. \E popped, rest : out \in Popped(args, obj, popped, rest)
      BY <1>5, <2>3 DEF ListHandler, LPopCmd, RPopCmd
    <3> QED
      BY <3>1, <3>2
  <2> QED
    BY <2>1, <2>2, <2>3
<1>6. CASE name \in ListNames \ {"LPUSH", "RPUSH", "LPOP", "RPOP"}
  BY <1>1, <1>6 DEF ListNames, ListHandler, LLenCmd, LRangeCmd, LIndexCmd, Outcome
<1> QED
  BY <1>4, <1>5, <1>6

LEMMA SetHandlerHolds ==
    ASSUME NEW args \in Seq(Words), NEW o \in MaybeObjects, Holds(o), NEW t \in Nat,
           NEW name \in SetNames, NEW out \in SetHandler(name, args, o, t)
    PROVE  Holds(out.obj)
<1>1. LazyCheck(o, t) \in MaybeObjects /\ Holds(LazyCheck(o, t))
  BY LazyCheckType, LazyCheckHolds
<1>2. GetSet(o, t) \in SetObjects \cup {Null}
  BY <1>1 DEF GetSet, HasType, MaybeObjects, Objects, StringObjects, HashObjects,
              ListObjects, ZSetObjects
<1>3. ASSUME NEW obj \in SetObjects, NEW members PROVE Holds(WithMembers(obj, members))
  <2>1. CASE members = {}
    BY <2>1 DEF WithMembers, Holds
  <2>2. CASE members # {}
    <3>1. [obj EXCEPT !.set = members].set = members /\ [obj EXCEPT !.set = members].type = "set"
      BY DEF SetObjects
    <3> QED
      BY <2>2, <3>1 DEF WithMembers, Holds
  <2> QED
    BY <2>1, <2>2
<1>4. CASE name = "SADD"
  <2> DEFINE obj == GetOrCreateSet(o, t)
  <2>1. out \in SAddCmd(args, o, t)
    BY <1>4 DEF SetHandler
  <2>2. obj \in SetObjects \cup {Null}
    BY <1>2 DEF GetOrCreateSet, CreateSet, SetObjects, Expiry
  <2>3. CASE Len(args) < 2 \/ obj = Null
    BY <1>1, <2>1, <2>3 DEF SAddCmd, Outcome
  <2>4. CASE ~ (Len(args) < 2 \/ obj = Null)
    <3>1. out.obj = WithMembers(obj, obj.set \cup Members(args))
      BY <2>1, <2>4 DEF SAddCmd, Outcome
    <3> QED
      BY <1>3, <2>2, <2>4, <3>1
  <2> QED
    BY <2>3, <2>4
<1>5. CASE name \in {"SREM", "SPOP"}
  <2> DEFINE obj == GetSet(o, t)
  <2>1. CASE obj = Null
    BY <1>1, <1>5, <2>1 DEF SetHandler, SRemCmd, SPopCmd, Outcome
  <2>2. CASE obj # Null
    <3>1. CASE name = "SREM"
      <4>1. out.obj \in {o, WithMembers(obj, obj.set \ Members(args))}
        BY <2>2, <3>1 DEF SetHandler, SRemCmd, Outcome
      <4> QED
        BY <1>2, <1>3, <2>2, <4>1
    <3>2. CASE name = "SPOP"
      <4>1. out \in SPopCmd(args, o, t)
        BY <3>2 DEF SetHandler
      <4>2. CASE Len(args) >= 2 /\ args[2] \notin Nat
        BY <4>1, <4>2 DEF SPopCmd, Outcome
      <4>3. CASE ~ (Len(args) >= 2 /\ args[2] \notin Nat)
        <5>1. \E P : out.obj = WithMembers(obj, obj.set \ P)
          BY <2>2, <4>1, <4>3 DEF SPopCmd
        <5> QED
          BY <1>2, <1>3, <2>2, <5>1
      <4> QED
        BY <4>2, <4>3
    <3> QED
      BY <1>5, <3>1, <3>2
  <2> QED
    BY <2>1, <2>2
<1>6. CASE name \in SetNames \ {"SADD", "SREM", "SPOP"}
  BY <1>1, <1>6 DEF SetNames, SetHandler, SIsMemberCmd, SMembersCmd, SCardCmd, SetReader,
     Outcome
<1> QED
  BY <1>4, <1>5, <1>6

LEMMA ZSetHandlerHolds ==
    ASSUME NEW args \in Seq(Words), NEW o \in MaybeObjects, Holds(o), NEW t \in Nat,
           NEW name \in ZSetNames,
           name = "ZADD" => \A i \in 2 .. Len(args) : i % 2 = 1 => args[i] \in Elems,
           NEW out \in ZSetHandler(name, args, o, t), ~ (name = "ZADD" /\ out.reply = Error)
    PROVE  Holds(out.obj)
<1>1. LazyCheck(o, t) \in MaybeObjects /\ Holds(LazyCheck(o, t))
  BY LazyCheckType, LazyCheckHolds
<1>2. GetZSet(o, t) \in ZSetObjects \cup {Null}
  BY <1>1 DEF GetZSet, HasType, MaybeObjects, Objects, StringObjects, HashObjects,
              ListObjects, SetObjects
<1>3. ASSUME NEW obj \in ZSetObjects, NEW zset, Present(zset) # {}
      PROVE  Holds([obj EXCEPT !.zset = zset])
  <2>1. [obj EXCEPT !.zset = zset].zset = zset /\ [obj EXCEPT !.zset = zset].type = "zset"
    BY DEF ZSetObjects
  <2> QED
    BY <1>3, <2>1 DEF Holds
<1>4. CASE name = "ZADD"
  <2> DEFINE obj == GetOrCreateZSet(o, t)
             i == Len(args)
             m == args[i]
  <2>1. out \in ZAddCmd(args, o, t)
    BY <1>4 DEF ZSetHandler
  <2>2. obj \in ZSetObjects \cup {Null}
    BY <1>2 DEF GetOrCreateZSet, CreateZSet, ZSetObjects, Expiry
  <2>3. CASE Len(args) < 3 \/ Len(args) % 2 # 1
    BY <1>4, <2>1, <2>3 DEF ZAddCmd, Outcome
  <2>4. CASE ~ (Len(args) < 3 \/ Len(args) % 2 # 1) /\ obj = Null
    BY <1>1, <2>1, <2>4 DEF ZAddCmd, Outcome
  <2>5. CASE ~ (Len(args) < 3 \/ Len(args) % 2 # 1) /\ obj # Null
    <3> DEFINE I == {j + 1 : j \in ScoredPairs(args)}
               at == LastAt(I, args, m)
               c == CHOOSE j \in at : TRUE
    <3>1. /\ out.obj = [obj EXCEPT !.zset = Scored(obj.zset, args)]
          /\ out.reply = IF ScoredPairs(args) = PairStarts(args)
                         THEN Number(Cardinality({args[j + 1] : j \in ScoredPairs(args)}
                                                    \ Present(obj.zset)))
                         ELSE Error
      BY <2>1, <2>5 DEF ZAddCmd, Outcome
    <3>2. ScoredPairs(args) = PairStarts(args)
      BY <1>4, <3>1
    <3>3. i - 1 \in PairStarts(args) /\ \A j \in PairStarts(args) : j <= i - 1
      BY <2>5 DEF PairStarts
    <3>4. i \in I /\ \A j \in I : j <= i
      <4>1. (i - 1) + 1 = i
        BY <2>5
      <4>2. \A j \in PairStarts(args) : j + 1 <= i
        BY <3>3 DEF PairStarts
      <4> QED
        BY <3>2, <3>3, <4>1, <4>2
    <3>5. i \in at
      BY <3>4 DEF LastAt
    <3>6. m \in Elems
      BY <1>4, <2>5
    <3>7. c \in I
      BY <3>5 DEF LastAt
    <3>8. PICK j \in ScoredPairs(args) : c = j + 1
      BY <3>7
    <3>9. args[c - 1] \in Scores
      <4>1. j \in Nat /\ args[j] \in Scores
        BY <3>8 DEF ScoredPairs, PairStarts
      <4>2. \A n : n = j + 1 => n - 1 = j
        BY <4>1
      <4> HIDE DEF c
      <4>3. c - 1 = j
        BY <3>8, <4>2
      <4> QED
        BY <4>1, <4>3
    <3>10. Scored(obj.zset, args)[m] = args[c - 1]
      BY <3>5, <3>6 DEF Scored
    <3>11. args[c - 1] # Null
      BY <3>9, WordsAssumption DEF Scores
    <3>12. Present(Scored(obj.zset, args)) # {}
      BY <3>6, <3>10, <3>11 DEF Present
    <3> QED
      BY <1>3, <2>2, <2>5, <3>1, <3>12
  <2> QED
    BY <2>3, <2>4, <2>5
<1>5. CASE name = "ZREM"
  <2> DEFINE obj == GetZSet(o, t)
             gone == {args[i] : i \in 2 .. Len(args)} \cap Present(obj.zset)
             zset == [m \in Elems |-> IF m \in gone THEN Null ELSE obj.zset[m]]
  <2>1. out \in ZRemCmd(args, o, t)
    BY <1>5 DEF ZSetHandler
  <2>2. CASE Len(args) < 2 \/ obj = Null
    BY <1>1, <2>1, <2>2 DEF ZRemCmd, Outcome
  <2>3. CASE ~ (Len(args) < 2 \/ obj = Null)
    <3>1. out.obj = IF Present(zset) = {} THEN Null ELSE [obj EXCEPT !.zset = zset]
      <4>1. out \in Outcome(IF Present(zset) = {} THEN Null ELSE [obj EXCEPT !.zset = zset],
                            Number(Cardinality(gone)))
        BY <2>1, <2>3 DEF ZRemCmd
      <4> HIDE DEF zset, gone, obj
      <4> QED
        BY <4>1 DEF Outcome
    <3> HIDE DEF zset
    <3>2. CASE Present(zset) = {}
      BY <3>1, <3>2 DEF Holds
    <3>3. CASE Present(zset) # {}
      <4>1. obj \in ZSetObjects
        BY <1>2, <2>3
      <4> HIDE DEF obj
      <4>2. Holds([obj EXCEPT !.zset = zset])
        BY <1>3, <3>3, <4>1
      <4> QED
        BY <3>1, <3>3, <4>2
    <3> QED
      BY <3>2, <3>3
  <2> QED
    BY <2>2, <2>3
<1>6. CASE name \in ZSetNames \ {"ZADD", "ZREM"}
  BY <1>1, <1>6 DEF ZSetNames, ZSetHandler, ZScoreCmd, ZRankCmd, ZRevRankCmd, ZRangeCmd,
     ZRevRangeCmd, ZCardCmd, RangeCmd, MemberReader, ZSetReader, Outcome
<1> QED
  BY <1>4, <1>5, <1>6

-----------------------------------------------------------------------------
(* Commands, steps, and the theorem.                                       *)

LEMMA KeyHandlerHolds ==
    ASSUME NEW c, WellFormed(c), c.name \in KeyNames, NEW o \in MaybeObjects, Holds(o),
           NEW t \in Nat, NEW out \in KeyHandler(c.name, c.args, o, t),
           ~ (c.name = "ZADD" /\ out.reply = Error)
    PROVE  Holds(out.obj)
<1>1. CASE c.name \in StringNames
  BY <1>1, StringHandlerHolds DEF WellFormed, KeyHandler, StringNames, HashNames,
     ListNames, SetNames, ZSetNames
<1>2. CASE c.name \in HashNames
  BY <1>2, HashHandlerHolds DEF WellFormed, KeyHandler, StringNames, HashNames,
     ListNames, SetNames, ZSetNames
<1>3. CASE c.name \in ListNames
  BY <1>3, ListHandlerHolds DEF WellFormed, KeyHandler, StringNames, HashNames,
     ListNames, SetNames, ZSetNames
<1>4. CASE c.name \in SetNames
  BY <1>4, SetHandlerHolds DEF WellFormed, KeyHandler, StringNames, HashNames,
     ListNames, SetNames, ZSetNames
<1>5. CASE c.name \in ZSetNames
  BY <1>5, ZSetHandlerHolds DEF WellFormed, KeyHandler, StringNames, HashNames,
     ListNames, SetNames, ZSetNames
<1> QED
  BY <1>1, <1>2, <1>3, <1>4, <1>5 DEF KeyNames

\* A command leaves something under a key where there was something or no object,
\* unless it is a ZADD of that key that fails.
LEMMA CommandHolds ==
    ASSUME TypeOK, NEW c \in Commands, ProcessCommand(c), NEW k \in Keys, Holds(db[k]),
           ~ (c.name = "ZADD" /\ Target(c) = k /\ reply' = Error)
    PROVE  Holds(db'[k])
<1>1. WellFormed(c)
  BY CommandsAssumption DEF CommandsAssumption
<1>2. PICK r \in Execute(c, db, now) : db' = r.db /\ reply' = r.reply
  BY DEF ProcessCommand
<1>3. \/ \E ks : r.db = Without(db, ks)
      \/ /\ c.name \in KeyNames /\ c.args # << >> /\ c.args[1] \in Keys
         /\ \E out \in KeyHandler(c.name, c.args, db[c.args[1]], now) :
               /\ r.db = [db EXCEPT ![c.args[1]] = out.obj]
               /\ r.reply = out.reply
  BY <1>1, ExecuteShape DEF TypeOK
<1>4. CASE \E ks : r.db = Without(db, ks)
  BY <1>2, <1>4 DEF Without, Holds
<1>5. ASSUME c.name \in KeyNames, c.args # << >>, c.args[1] \in Keys,
             NEW out \in KeyHandler(c.name, c.args, db[c.args[1]], now),
             r.db = [db EXCEPT ![c.args[1]] = out.obj], r.reply = out.reply
      PROVE  Holds(db'[k])
  <2>1. CASE c.args[1] = k
    <3>1. Holds(out.obj)
      BY <1>1, <1>2, <1>5, <2>1, KeyHandlerHolds DEF TypeOK, Databases, Target
    <3> QED
      BY <1>2, <1>5, <2>1, <3>1 DEF TypeOK, Databases
  <2>2. CASE c.args[1] # k
    BY <1>2, <1>5, <2>2 DEF TypeOK, Databases
  <2> QED
    BY <2>1, <2>2
<1> QED
  BY <1>3, <1>4, <1>5

\* For finite objects, holding something is having a content.
LEMMA HoldsContent ==
    ASSUME NEW o \in MaybeObjects, FiniteInside(o)
    PROVE  Hollow(o) <=> ~ Holds(o)
<1>1. CASE o = Null
  BY <1>1 DEF Hollow, Holds
<1>2. CASE o # Null /\ o.type = "string"
  BY <1>2 DEF Hollow, Holds, Content
<1>3. CASE o # Null /\ o.type = "hash"
  <2>1. IsFiniteSet(Present(o.hash))
    BY <1>3 DEF FiniteInside, Inside
  <2>2. Hollow(o) <=> Cardinality(Present(o.hash)) = 0
    BY <1>3 DEF Content, Hollow
  <2>3. Holds(o) <=> Present(o.hash) # {}
    BY <1>3 DEF Holds
  <2> QED
    BY <2>1, <2>2, <2>3, FS_EmptySet
<1>4. CASE o # Null /\ o.type = "list"
  <2>1. o.list \in Seq(Elems) /\ (Hollow(o) <=> Len(o.list) = 0)
    BY <1>4 DEF Content, Hollow, MaybeObjects, Objects, StringObjects, HashObjects,
       ListObjects, SetObjects, ZSetObjects
  <2>2. Holds(o) <=> o.list # << >>
    BY <1>4 DEF Holds
  <2> QED
    BY <2>1, <2>2
<1>5. CASE o # Null /\ o.type = "set"
  <2>1. IsFiniteSet(o.set)
    BY <1>5 DEF FiniteInside, Inside
  <2>2. Hollow(o) <=> Cardinality(o.set) = 0
    BY <1>5 DEF Content, Hollow
  <2>3. Holds(o) <=> o.set # {}
    BY <1>5 DEF Holds
  <2> QED
    BY <2>1, <2>2, <2>3, FS_EmptySet
<1>6. CASE o # Null /\ o.type = "zset"
  <2>1. IsFiniteSet(Present(o.zset))
    BY <1>6 DEF FiniteInside, Inside
  <2>2. Hollow(o) <=> Cardinality(Present(o.zset)) = 0
    BY <1>6 DEF Content, Hollow
  <2>3. Holds(o) <=> Present(o.zset) # {}
    BY <1>6 DEF Holds
  <2> QED
    BY <2>1, <2>2, <2>3, FS_EmptySet
<1> QED
  BY <1>1, <1>2, <1>3, <1>4, <1>5, <1>6 DEF MaybeObjects, Objects, StringObjects,
     HashObjects, ListObjects, SetObjects, ZSetObjects

\* No step, whatever it takes out, in whatever order commands, time and expiry checks
\* come, leaves a container without elements where there was none, but a ZADD that
\* fails.
THEOREM ContainersNeverEmpty == Spec => NoEmptyContainer
<1> DEFINE Finite == AllFinite(db)
           Excused(k) == \E c \in Commands :
               c.name = "ZADD" /\ Target(c) = k /\ ProcessCommand(c) /\ reply' = Error
           Fine(k) == Hollow(db'[k]) /\ ~ Hollow(db[k]) => Excused(k)
<1>1. Init => Finite
  BY FiniteNull DEF Init, EmptyDb, AllFinite
<1>2. TypeOK /\ Finite /\ [Next]_vars => Finite'
  BY AllFiniteStep
<1>3. TypeOK /\ Finite /\ TypeOK' /\ Finite' /\ [Next]_vars => [\A k \in Keys : Fine(k)]_vars
  <2> SUFFICES ASSUME TypeOK, Finite, TypeOK', Finite', Next, NEW k \in Keys,
                      Hollow(db'[k]), ~ Hollow(db[k]), ~ Excused(k)
               PROVE  FALSE
    OBVIOUS
  <2>1. Holds(db[k])
    BY HoldsContent DEF TypeOK, Databases, AllFinite
  <2>2. ~ Holds(db'[k])
    BY HoldsContent DEF TypeOK, Databases, AllFinite
  <2>3. ASSUME NEW c \in Commands, ProcessCommand(c) PROVE FALSE
    BY <2>1, <2>2, <2>3, CommandHolds
  <2>4. CASE Elapse
    BY <2>1, <2>2, <2>4 DEF Elapse
  <2>5. CASE PeriodicExpireCheck
    BY <2>1, <2>2, <2>5 DEF PeriodicExpireCheck, Without, Holds
  <2> QED
    BY <2>3, <2>4, <2>5 DEF Next
<1>4. [\A k \in Keys : Fine(k)]_vars =>
      [\A k \in Keys : Hollow(db'[k]) /\ ~ Hollow(db[k]) =>
         \E c \in Commands :
            c.name = "ZADD" /\ Target(c) = k /\ ProcessCommand(c) /\ reply' = Error]_vars
  OBVIOUS
<1> HIDE DEF Finite, Fine
<1> QED
  BY <1>1, <1>2, <1>3, <1>4, TypeCorrect, PTL DEF Spec, NoEmptyContainer

-----------------------------------------------------------------------------
(* Time does not matter to an object without a deadline.                   *)

LEMMA LazyCheckLasting ==
    ASSUME NEW o, Lasting(o), NEW t
    PROVE  LazyCheck(o, t) = o
  BY DEF LazyCheck, IsExpired, Lasting

LEMMA StringHandlerSteady ==
    ASSUME NEW args, NEW o, Lasting(o), NEW t, NEW u,
           NEW name \in StringNames, name \notin {"EXPIRE", "PEXPIRE"},
           name = "SET" => \A i \in 3 .. Len(args) : args[i] \notin {EX, PX}
    PROVE  StringHandler(name, args, o, t) = StringHandler(name, args, o, u)
<1>1. LazyCheck(o, t) = o /\ LazyCheck(o, u) = o
  BY LazyCheckLasting
<1>2. CASE name = "SET"
  <2>1. SetDeadline(args, t) = NoExpiry /\ SetDeadline(args, u) = NoExpiry
    BY <1>2 DEF SetDeadline, LastTimed
  <2> QED
    BY <1>1, <1>2, <2>1 DEF StringHandler, SetCmd
<1>3. CASE name \in {"TTL", "PTTL"}
  <2>1. \A unit : GetTTL(o, t, unit) = GetTTL(o, u, unit)
    BY DEF GetTTL, Lasting
  <2> QED
    BY <1>1, <1>3, <2>1 DEF StringHandler, TtlCmd
<1>4. CASE name \in {"GET", "TYPE"}
  BY <1>1, <1>4 DEF StringHandler, GetCmd, TypeCmd
<1> QED
  BY <1>2, <1>3, <1>4 DEF StringNames

LEMMA HashHandlerSteady ==
    ASSUME NEW args, NEW o, Lasting(o), NEW t, NEW u, NEW name \in HashNames
    PROVE  HashHandler(name, args, o, t) = HashHandler(name, args, o, u)
<1>1. LazyCheck(o, t) = o /\ LazyCheck(o, u) = o
  BY LazyCheckLasting
<1>2. GetHash(o, t) = GetHash(o, u) /\ GetOrCreateHash(o, t) = GetOrCreateHash(o, u)
  BY <1>1 DEF GetHash, GetOrCreateHash
<1> QED
  BY <1>1, <1>2 DEF HashNames, HashHandler, HSetCmd, HDelCmd, HGetCmd, HExistsCmd,
     HStrLenCmd, HKeysCmd, HGetAllCmd, HValsCmd, HLenCmd, FieldReader, HashReader

LEMMA ListHandlerSteady ==
    ASSUME NEW args, NEW o, Lasting(o), NEW t, NEW u, NEW name \in ListNames
    PROVE  ListHandler(name, args, o, t) = ListHandler(name, args, o, u)
<1>1. LazyCheck(o, t) = o /\ LazyCheck(o, u) = o
  BY LazyCheckLasting
<1>2. GetList(o, t) = GetList(o, u) /\ GetOrCreateList(o, t) = GetOrCreateList(o, u)
  BY <1>1 DEF GetList, GetOrCreateList
<1> QED
  BY <1>1, <1>2 DEF ListNames, ListHandler, LPushCmd, RPushCmd, Push, LPopCmd, RPopCmd,
     LLenCmd, LRangeCmd, LIndexCmd

LEMMA SetHandlerSteady ==
    ASSUME NEW args, NEW o, Lasting(o), NEW t, NEW u, NEW name \in SetNames
    PROVE  SetHandler(name, args, o, t) = SetHandler(name, args, o, u)
<1>1. LazyCheck(o, t) = o /\ LazyCheck(o, u) = o
  BY LazyCheckLasting
<1>2. GetSet(o, t) = GetSet(o, u) /\ GetOrCreateSet(o, t) = GetOrCreateSet(o, u)
  BY <1>1 DEF GetSet, GetOrCreateSet
<1> QED
  BY <1>1, <1>2 DEF SetNames, SetHandler, SAddCmd, SRemCmd, SIsMemberCmd, SMembersCmd,
     SCardCmd, SPopCmd, SetReader

LEMMA ZSetHandlerSteady ==
    ASSUME NEW args, NEW o, Lasting(o), NEW t, NEW u, NEW name \in ZSetNames
    PROVE  ZSetHandler(name, args, o, t) = ZSetHandler(name, args, o, u)
<1>1. LazyCheck(o, t) = o /\ LazyCheck(o, u) = o
  BY LazyCheckLasting
<1>2. GetZSet(o, t) = GetZSet(o, u) /\ GetOrCreateZSet(o, t) = GetOrCreateZSet(o, u)
  BY <1>1 DEF GetZSet, GetOrCreateZSet
<1> QED
  BY <1>1, <1>2 DEF ZSetNames, ZSetHandler, ZAddCmd, ZRemCmd, ZScoreCmd, ZRankCmd,
     ZRevRankCmd, ZRangeCmd, ZRevRangeCmd, RangeCmd, ZCardCmd, MemberReader, ZSetReader

LEMMA NothingExpired ==
    ASSUME NEW d \in Databases, Persistent(d), NEW t
    PROVE  /\ Expired(d, t) = {}
           /\ Without(d, {}) = d
           /\ \A ks : Without(d, ks \cap Expired(d, t)) = d
           /\ Live(d, t) = d
  BY DEF Expired, IsExpired, Persistent, Lasting, Without, Databases, Live

\* The results of a durable command on a keyspace without deadlines do not
\* depend on when it is executed.
LEMMA ExecuteSteady ==
    ASSUME NEW c, WellFormed(c), Durable(c), NEW d \in Databases, Persistent(d),
           NEW t, NEW u
    PROVE  Execute(c, d, t) = Execute(c, d, u)
<1>1. CASE c.name \in KeyNames /\ c.args # << >>
  <2>1. c.args[1] \in Keys
    BY <1>1 DEF WellFormed
  <2>2. Lasting(d[c.args[1]])
    BY <2>1 DEF Persistent
  <2>3. KeyHandler(c.name, c.args, d[c.args[1]], t) = KeyHandler(c.name, c.args, d[c.args[1]], u)
    <3>1. CASE c.name \in StringNames
      BY <2>2, <3>1, StringHandlerSteady
         DEF Durable, KeyHandler, StringNames, HashNames, ListNames, SetNames, ZSetNames
    <3>2. CASE c.name \in HashNames
      BY <2>2, <3>2, HashHandlerSteady
         DEF KeyHandler, StringNames, HashNames, ListNames, SetNames, ZSetNames
    <3>3. CASE c.name \in ListNames
      BY <2>2, <3>3, ListHandlerSteady
         DEF KeyHandler, StringNames, HashNames, ListNames, SetNames, ZSetNames
    <3>4. CASE c.name \in SetNames
      BY <2>2, <3>4, SetHandlerSteady
         DEF KeyHandler, StringNames, HashNames, ListNames, SetNames, ZSetNames
    <3>5. CASE c.name \in ZSetNames
      BY <2>2, <3>5, ZSetHandlerSteady
         DEF KeyHandler, StringNames, HashNames, ListNames, SetNames, ZSetNames
    <3> QED
      BY <1>1, <3>1, <3>2, <3>3, <3>4, <3>5 DEF KeyNames
  <2>4. c.name \notin ServerNames \cup {"DEL", "EXISTS", "KEYS"}
    BY <1>1 DEF KeyNames, StringNames, HashNames, ListNames, SetNames, ZSetNames,
                ServerNames
  <2> QED
    BY <2>3, <2>4 DEF Execute
<1>2. CASE ~ (c.name \in KeyNames /\ c.args # << >>)
  BY <1>2, NothingExpired DEF Execute, Registered, ExistsCmd, KeysCmd
<1> QED
  BY <1>1, <1>2

-----------------------------------------------------------------------------
(* A durable command has one effect, which sets no deadline, and none when *)
(* it is not logged.                                                       *)

\* What the proof needs of the outcomes outs of the command called name on o.
Settled(name, outs, o) ==
    \A out \in outs :
        /\ \A other \in outs : out.obj = other.obj
        /\ Lasting(out.obj)
        /\ name \notin WriteCommands \/ out.reply = Error => out.obj = o

LEMMA OneOutcome ==
    ASSUME NEW name, NEW o, NEW obj, NEW r, Lasting(obj),
           name \notin WriteCommands \/ r = Error => obj = o
    PROVE  Settled(name, Outcome(obj, r), o)
  BY DEF Settled, Outcome

LEMMA NotErrors ==
    /\ NilBulk # Error /\ WrongType # Error
    /\ \A x : Number(x) # Error /\ Simple(x) # Error /\ Bulk(x) # Error /\ Array(x) # Error
  BY DEF NilBulk, WrongType, Number, Simple, Bulk, Array, Error

LEMMA StringHandlerSettled ==
    ASSUME NEW args, NEW o, Lasting(o), NEW t,
           NEW name \in StringNames, name \notin {"EXPIRE", "PEXPIRE"},
           name = "SET" => \A i \in 3 .. Len(args) : args[i] \notin {EX, PX}
    PROVE  Settled(name, StringHandler(name, args, o, t), o)
<1>1. LazyCheck(o, t) = o
  BY LazyCheckLasting
<1>2. CASE name = "SET"
  <2>1. SetDeadline(args, t) = NoExpiry
    BY <1>2 DEF SetDeadline, LastTimed
  <2>2. Lasting(SetExpire(CreateString(args[2]), NoExpiry))
    BY DEF Lasting, SetExpire, CreateString
  <2>3. \/ SetCmd(args, o, t) = Outcome(o, Error)
        \/ SetCmd(args, o, t) = Outcome(o, NilBulk)
        \/ SetCmd(args, o, t) =
              Outcome(SetExpire(CreateString(args[2]), NoExpiry), Simple("OK"))
    BY <1>1, <2>1 DEF SetCmd
  <2>4. name \in WriteCommands
    BY <1>2 DEF WriteCommands
  <2> QED
    BY <1>2, <2>2, <2>3, <2>4, OneOutcome, NotErrors DEF StringHandler
<1>3. CASE name \in {"GET", "TTL", "PTTL", "TYPE"}
  <2>1. \E r : StringHandler(name, args, o, t) = Outcome(o, r)
    BY <1>1, <1>3 DEF StringHandler, GetCmd, TtlCmd, TypeCmd
  <2> QED
    BY <2>1, OneOutcome
<1> QED
  BY <1>2, <1>3 DEF StringNames

LEMMA HashHandlerSettled ==
    ASSUME NEW args, NEW o \in MaybeObjects, Lasting(o), NEW t, NEW name \in HashNames
    PROVE  Settled(name, HashHandler(name, args, o, t), o)
<1>1. LazyCheck(o, t) = o
  BY LazyCheckLasting
<1>2. /\ GetHash(o, t) # Null => GetHash(o, t) = o /\ o \in HashObjects
      /\ GetOrCreateHash(o, t) # Null =>
            GetOrCreateHash(o, t) \in HashObjects /\ GetOrCreateHash(o, t).exp = NoExpiry
  BY <1>1 DEF GetHash, GetOrCreateHash, CreateHash, HasType, Lasting, MaybeObjects, Objects,
     StringObjects, HashObjects, ListObjects, SetObjects, ZSetObjects, Expiry
<1>3. ASSUME NEW obj \in HashObjects, obj.exp = NoExpiry, NEW hash
      PROVE  Lasting([obj EXCEPT !.hash = hash])
  BY <1>3 DEF HashObjects, Lasting
<1>4. CASE name = "HSET"
  <2>1. name \in WriteCommands
    BY <1>4 DEF WriteCommands
  <2>2. \/ HSetCmd(args, o, t) = Outcome(o, Error)
        \/ HSetCmd(args, o, t) = Outcome(o, WrongType)
        \/ /\ GetOrCreateHash(o, t) # Null
           /\ \E hash, n : HSetCmd(args, o, t) =
                 Outcome([GetOrCreateHash(o, t) EXCEPT !.hash = hash], Number(n))
    BY <1>1 DEF HSetCmd
  <2> QED
    BY <1>2, <1>3, <1>4, <2>1, <2>2, OneOutcome, NotErrors DEF HashHandler
<1>5. CASE name = "HDEL"
  <2>1. name \in WriteCommands
    BY <1>5 DEF WriteCommands
  <2>2. \/ HDelCmd(args, o, t) = Outcome(o, Error)
        \/ HDelCmd(args, o, t) = Outcome(o, Number(0))
        \/ \E n : HDelCmd(args, o, t) = Outcome(Null, Number(n))
        \/ /\ GetHash(o, t) # Null
           /\ \E hash, n : HDelCmd(args, o, t) =
                 Outcome([GetHash(o, t) EXCEPT !.hash = hash], Number(n))
    BY <1>1 DEF HDelCmd
  <2> QED
    BY <1>2, <1>3, <1>5, <2>1, <2>2, OneOutcome, NotErrors DEF HashHandler, Lasting
<1>6. CASE name \in HashNames \ {"HSET", "HDEL"}
  <2>1. \E r : HashHandler(name, args, o, t) = Outcome(o, r)
    BY <1>1, <1>6 DEF HashNames, HashHandler, HGetCmd, HExistsCmd, HStrLenCmd, HKeysCmd,
       HGetAllCmd, HValsCmd, HLenCmd, FieldReader, HashReader
  <2> QED
    BY <2>1, OneOutcome
<1> QED
  BY <1>4, <1>5, <1>6

LEMMA ListHandlerSettled ==
    ASSUME NEW args, NEW o \in MaybeObjects, Lasting(o), NEW t, NEW name \in ListNames
    PROVE  Settled(name, ListHandler(name, args, o, t), o)
<1>1. LazyCheck(o, t) = o
  BY LazyCheckLasting
<1>2. /\ GetList(o, t) # Null => GetList(o, t) = o /\ o \in ListObjects
      /\ GetOrCreateList(o, t) # Null =>
            GetOrCreateList(o, t) \in ListObjects /\ GetOrCreateList(o, t).exp = NoExpiry
  BY <1>1 DEF GetList, GetOrCreateList, CreateList, HasType, Lasting, MaybeObjects, Objects,
     StringObjects, HashObjects, ListObjects, SetObjects, ZSetObjects, Expiry
<1>3. ASSUME NEW obj \in ListObjects, obj.exp = NoExpiry, NEW list
      PROVE  Lasting([obj EXCEPT !.list = list])
  BY <1>3 DEF ListObjects, Lasting
<1>4. CASE name \in {"LPUSH", "RPUSH"}
  <2>1. name \in WriteCommands
    BY <1>4 DEF WriteCommands
  <2>2. \/ ListHandler(name, args, o, t) = Outcome(o, Error)
        \/ ListHandler(name, args, o, t) = Outcome(o, WrongType)
        \/ /\ GetOrCreateList(o, t) # Null
           /\ \E list, n : ListHandler(name, args, o, t) =
                 Outcome([GetOrCreateList(o, t) EXCEPT !.list = list], Number(n))
    BY <1>1, <1>4 DEF ListHandler, LPushCmd, RPushCmd, Push
  <2> QED
    BY <1>2, <1>3, <1>4, <2>1, <2>2, OneOutcome, NotErrors
<1>5. CASE name \in {"LPOP", "RPOP"}
  <2>1. name \in WriteCommands
    BY <1>5 DEF WriteCommands
  <2>2. \/ ListHandler(name, args, o, t) = Outcome(o, Error)
        \/ ListHandler(name, args, o, t) = Outcome(o, NilBulk)
        \/ /\ GetList(o, t) # Null
           /\ \E popped, rest : ListHandler(name, args, o, t) =
                 Popped(args, GetList(o, t), popped, rest)
    BY <1>1, <1>5 DEF ListHandler, LPopCmd, RPopCmd
  <2>3. ASSUME NEW obj, NEW popped, NEW rest
        PROVE  \E r : /\ r # Error
                      /\ \/ Popped(args, obj, popped, rest) = Outcome(Null, r)
                         \/ Popped(args, obj, popped, rest) =
                               Outcome([obj EXCEPT !.list = rest], r)
    BY NotErrors DEF Popped
  <2>4. CASE ListHandler(name, args, o, t) \in {Outcome(o, Error), Outcome(o, NilBulk)}
    BY <2>1, <2>4, OneOutcome, NotErrors
  <2>5. CASE GetList(o, t) # Null /\ \E popped, rest : ListHandler(name, args, o, t) =
                                        Popped(args, GetList(o, t), popped, rest)
    <3>1. PICK rest, r :
              /\ r # Error
              /\ \/ ListHandler(name, args, o, t) = Outcome(Null, r)
                 \/ ListHandler(name, args, o, t) =
                       Outcome([GetList(o, t) EXCEPT !.list = rest], r)
      BY <2>3, <2>5
    <3>2. Lasting(Null) /\ Lasting([GetList(o, t) EXCEPT !.list = rest])
      BY <1>2, <1>3, <2>5 DEF Lasting
    <3> QED
      BY <2>1, <3>1, <3>2, OneOutcome
  <2> QED
    BY <2>2, <2>4, <2>5
<1>6. CASE name \in ListNames \ {"LPUSH", "RPUSH", "LPOP", "RPOP"}
  <2>1. \E r : ListHandler(name, args, o, t) = Outcome(o, r)
    BY <1>1, <1>6 DEF ListNames, ListHandler, LLenCmd, LRangeCmd, LIndexCmd
  <2> QED
    BY <2>1, OneOutcome
<1> QED
  BY <1>4, <1>5, <1>6

LEMMA SetHandlerSettled ==
    ASSUME NEW args, NEW o \in MaybeObjects, Lasting(o), NEW t,
           NEW name \in SetNames, name # "SPOP"
    PROVE  Settled(name, SetHandler(name, args, o, t), o)
<1>1. LazyCheck(o, t) = o
  BY LazyCheckLasting
<1>2. /\ GetSet(o, t) # Null => GetSet(o, t) = o /\ o \in SetObjects
      /\ GetOrCreateSet(o, t) # Null =>
            GetOrCreateSet(o, t) \in SetObjects /\ GetOrCreateSet(o, t).exp = NoExpiry
  BY <1>1 DEF GetSet, GetOrCreateSet, CreateSet, HasType, Lasting, MaybeObjects, Objects,
     StringObjects, HashObjects, ListObjects, SetObjects, ZSetObjects, Expiry
<1>3. ASSUME NEW obj \in SetObjects, obj.exp = NoExpiry, NEW members
      PROVE  Lasting(WithMembers(obj, members))
  BY <1>3 DEF SetObjects, Lasting, WithMembers
<1>4. CASE name \in {"SADD", "SREM"}
  <2>1. name \in WriteCommands
    BY <1>4 DEF WriteCommands
  <2>2. \/ SetHandler(name, args, o, t) = Outcome(o, Error)
        \/ SetHandler(name, args, o, t) = Outcome(o, WrongType)
        \/ SetHandler(name, args, o, t) = Outcome(o, Number(0))
        \/ /\ GetOrCreateSet(o, t) # Null
           /\ \E members, n : SetHandler(name, args, o, t) =
                 Outcome(WithMembers(GetOrCreateSet(o, t), members), Number(n))
        \/ /\ GetSet(o, t) # Null
           /\ \E members, n : SetHandler(name, args, o, t) =
                 Outcome(WithMembers(GetSet(o, t), members), Number(n))
    BY <1>1, <1>4 DEF SetHandler, SAddCmd, SRemCmd
  <2> QED
    BY <1>2, <1>3, <1>4, <2>1, <2>2, OneOutcome, NotErrors DEF Lasting
<1>5. CASE name \in SetNames \ {"SADD", "SREM", "SPOP"}
  <2>1. \E r : SetHandler(name, args, o, t) = Outcome(o, r)
    BY <1>1, <1>5 DEF SetNames, SetHandler, SIsMemberCmd, SMembersCmd, SCardCmd, SetReader
  <2> QED
    BY <2>1, OneOutcome
<1> QED
  BY <1>4, <1>5

LEMMA ZSetHandlerSettled ==
    ASSUME NEW args, NEW o \in MaybeObjects, Lasting(o), NEW t, NEW name \in ZSetNames,
           name = "ZADD" => ScoredPairs(args) = PairStarts(args)
    PROVE  Settled(name, ZSetHandler(name, args, o, t), o)
<1>1. LazyCheck(o, t) = o
  BY LazyCheckLasting
<1>2. /\ GetZSet(o, t) # Null => GetZSet(o, t) = o /\ o \in ZSetObjects
      /\ GetOrCreateZSet(o, t) # Null =>
            GetOrCreateZSet(o, t) \in ZSetObjects /\ GetOrCreateZSet(o, t).exp = NoExpiry
  BY <1>1 DEF GetZSet, GetOrCreateZSet, CreateZSet, HasType, Lasting, MaybeObjects, Objects,
     StringObjects, HashObjects, ListObjects, SetObjects, ZSetObjects, Expiry
<1>3. ASSUME NEW obj \in ZSetObjects, obj.exp = NoExpiry, NEW zset
      PROVE  Lasting([obj EXCEPT !.zset = zset])
  BY <1>3 DEF ZSetObjects, Lasting
<1>4. CASE name = "ZADD"
  <2>1. name \in WriteCommands
    BY <1>4 DEF WriteCommands
  <2>2. \/ ZAddCmd(args, o, t) = Outcome(o, Error)
        \/ ZAddCmd(args, o, t) = Outcome(o, WrongType)
        \/ /\ GetOrCreateZSet(o, t) # Null
           /\ \E zset, n : ZAddCmd(args, o, t) =
                 Outcome([GetOrCreateZSet(o, t) EXCEPT !.zset = zset], Number(n))
    BY <1>1, <1>4 DEF ZAddCmd
  <2> QED
    BY <1>2, <1>3, <1>4, <2>1, <2>2, OneOutcome, NotErrors DEF ZSetHandler
<1>5. CASE name = "ZREM"
  <2>1. name \in WriteCommands
    BY <1>5 DEF WriteCommands
  <2>2. \/ ZRemCmd(args, o, t) = Outcome(o, Error)
        \/ ZRemCmd(args, o, t) = Outcome(o, Number(0))
        \/ \E n : ZRemCmd(args, o, t) = Outcome(Null, Number(n))
        \/ /\ GetZSet(o, t) # Null
           /\ \E zset, n : ZRemCmd(args, o, t) =
                 Outcome([GetZSet(o, t) EXCEPT !.zset = zset], Number(n))
    BY <1>1 DEF ZRemCmd
  <2> QED
    BY <1>2, <1>3, <1>5, <2>1, <2>2, OneOutcome, NotErrors DEF ZSetHandler, Lasting
<1>6. CASE name \in ZSetNames \ {"ZADD", "ZREM"}
  <2>1. \E r : ZSetHandler(name, args, o, t) = Outcome(o, r)
    BY <1>1, <1>6 DEF ZSetNames, ZSetHandler, ZScoreCmd, ZRankCmd, ZRevRankCmd, ZRangeCmd,
       ZRevRangeCmd, RangeCmd, ZCardCmd, MemberReader, ZSetReader
  <2> QED
    BY <2>1, OneOutcome
<1> QED
  BY <1>4, <1>5, <1>6

\* A durable command has one effect on a keyspace without deadlines, it leaves
\* one without deadlines, and what is not logged changes nothing.
LEMMA ExecuteSettled ==
    ASSUME NEW c, WellFormed(c), Durable(c), NEW d \in Databases, Persistent(d),
           NEW t, NEW r \in Execute(c, d, t)
    PROVE  /\ \A q \in Execute(c, d, t) : q.db = r.db
           /\ Persistent(r.db)
           /\ ~ Logged(c, r.reply) => r.db = d
<1>1. CASE ~ Registered(c.name) \/ c.name \in ServerNames \/ c.args = << >>
  BY <1>1 DEF Execute, Result
<1>2. CASE /\ ~ (~ Registered(c.name) \/ c.name \in ServerNames \/ c.args = << >>)
           /\ c.name = "DEL"
  <2>1. Execute(c, d, t) = DelCmd(c.args, d)
    BY <1>2 DEF Execute
  <2>2. Persistent(Without(d, ToSet(c.args)))
    BY DEF Persistent, Lasting, Without
  <2>3. \A n : Logged(c, Number(n))
    BY <1>2, NotErrors DEF Logged, IsWriteCommand, WriteCommands
  <2> QED
    BY <2>1, <2>2, <2>3 DEF DelCmd, Result
<1>3. CASE /\ ~ (~ Registered(c.name) \/ c.name \in ServerNames \/ c.args = << >>)
           /\ c.name \in {"EXISTS", "KEYS"}
  <2>1. \A ks : Without(d, ks \cap Expired(d, t)) = d /\ Without(d, Expired(d, t)) = d
    BY NothingExpired
  <2>2. CASE c.name = "EXISTS"
    <3>1. Execute(c, d, t) = ExistsCmd(c.args, d, t)
      BY <1>3, <2>2 DEF Execute
    <3>2. \E n : ExistsCmd(c.args, d, t) = Result(d, n)
      BY <2>1 DEF ExistsCmd
    <3> QED
      BY <3>1, <3>2 DEF Result
  <2>3. CASE c.name = "KEYS"
    <3>1. Execute(c, d, t) = KeysCmd(c.args, d, t)
      BY <1>3, <2>3 DEF Execute
    <3>2. \E n : KeysCmd(c.args, d, t) = Result(d, n)
      BY <2>1 DEF KeysCmd
    <3> QED
      BY <3>1, <3>2 DEF Result
  <2> QED
    BY <1>3, <2>2, <2>3
<1>4. CASE /\ ~ (~ Registered(c.name) \/ c.name \in ServerNames \/ c.args = << >>)
           /\ c.name \notin {"DEL", "EXISTS", "KEYS"}
  <2> DEFINE k == c.args[1]
             outs == KeyHandler(c.name, c.args, d[k], t)
  <2>1. c.name \in KeyNames /\ k \in Keys
    BY <1>4 DEF Registered, WellFormed
  <2>2. Lasting(d[k]) /\ d[k] \in MaybeObjects
    BY <2>1 DEF Persistent, Databases
  <2>3. Settled(c.name, outs, d[k])
    <3>1. CASE c.name \in StringNames
      BY <2>2, <3>1, StringHandlerSettled
         DEF Durable, KeyHandler, StringNames, HashNames, ListNames, SetNames, ZSetNames
    <3>2. CASE c.name \in HashNames
      BY <2>2, <3>2, HashHandlerSettled
         DEF KeyHandler, StringNames, HashNames, ListNames, SetNames, ZSetNames
    <3>3. CASE c.name \in ListNames
      BY <2>2, <3>3, ListHandlerSettled
         DEF KeyHandler, StringNames, HashNames, ListNames, SetNames, ZSetNames
    <3>4. CASE c.name \in SetNames
      BY <2>2, <3>4, SetHandlerSettled
         DEF Durable, KeyHandler, StringNames, HashNames, ListNames, SetNames, ZSetNames
    <3>5. CASE c.name \in ZSetNames
      BY <2>2, <3>5, ZSetHandlerSettled
         DEF Durable, KeyHandler, StringNames, HashNames, ListNames, SetNames, ZSetNames
    <3> QED
      BY <2>1, <3>1, <3>2, <3>3, <3>4, <3>5 DEF KeyNames
  <2>4. Execute(c, d, t) =
          {[db |-> [d EXCEPT ![k] = out.obj], reply |-> out.reply] : out \in outs}
    BY <1>4 DEF Execute
  <2> HIDE DEF k, outs
  <2>5. PICK out \in outs : /\ r.db = [d EXCEPT ![k] = out.obj]
                            /\ r.reply = out.reply
    BY <2>4
  <2>6. \A q \in Execute(c, d, t) : q.db = r.db
    BY <2>3, <2>4, <2>5 DEF Settled
  <2>7. Persistent(r.db)
    BY <2>1, <2>3, <2>5 DEF Settled, Persistent, Databases
  <2>8. ~ Logged(c, r.reply) => r.db = d
    <3>1. ~ Logged(c, r.reply) => out.obj = d[k]
      BY <2>3, <2>5 DEF Settled, Logged, IsWriteCommand
    <3> QED
      BY <2>1, <2>5, <3>1 DEF Databases
  <2> QED
    BY <2>6, <2>7, <2>8
<1> QED
  BY <1>1, <1>2, <1>3, <1>4

-----------------------------------------------------------------------------
(* Types.                                                                  *)

LEMMA EmptyDbPersistent == EmptyDb \in Databases /\ Persistent(EmptyDb)
  BY DEF EmptyDb, Databases, MaybeObjects, Persistent, Lasting

LEMMA ServerTypeInit == ServerInit => ServerTypeOK
  BY EmptyDbPersistent DEF ServerInit, Init, ServerTypeOK, TypeOK

LEMMA GoDownType ==
    ASSUME ServerTypeOK, GoDown, rdb' \in Databases
    PROVE  ServerTypeOK'
  BY EmptyDbPersistent DEF GoDown, ServerTypeOK, TypeOK

\* An entry that is cut off in a snapshot is loaded as an object, or as none.
LEMMA RemnantsType ==
    ASSUME NEW o \in MaybeObjects
    PROVE  Remnants(o) \subseteq MaybeObjects
<1> SUFFICES ASSUME NEW p \in Remnants(o) PROVE p \in MaybeObjects
  OBVIOUS
<1>1. CASE p = Null
  BY <1>1 DEF MaybeObjects
<1>2. CASE p \in CutStrings(o)
  <2>1. PICK e \in Elems, at \in IF o = Null \/ o.exp = NoExpiry THEN {NoExpiry}
                                ELSE {NoExpiry} \cup 0 .. o.exp :
             p = SetExpire(CreateString(e), at)
    BY <1>2 DEF CutStrings
  <2>2. at \in Expiry
    BY <2>1 DEF Expiry
  <2>3. CreateString(e) \in StringObjects
    BY DEF CreateString, StringObjects, Expiry
  <2> QED
    BY <2>1, <2>2, <2>3 DEF SetExpire, StringObjects, MaybeObjects, Objects
<1>3. ASSUME HasType(o, "hash"), NEW h \in CutHashes(o.hash), p = [o EXCEPT !.hash = h]
      PROVE  p \in MaybeObjects
  <2>1. o \in HashObjects /\ h \in [Elems -> Elems \cup {Null}]
    BY <1>3 DEF CutHashes, HasType, MaybeObjects, Objects, StringObjects, ListObjects,
       SetObjects, ZSetObjects
  <2> QED
    BY <1>3, <2>1 DEF HashObjects, MaybeObjects, Objects
<1>4. ASSUME HasType(o, "list"), NEW l \in CutLists(o.list), p = [o EXCEPT !.list = l]
      PROVE  p \in MaybeObjects
  <2>1. o \in ListObjects
    BY <1>4 DEF HasType, MaybeObjects, Objects, StringObjects, HashObjects, SetObjects,
       ZSetObjects
  <2>2. o.list \in Seq(Elems)
    BY <2>1 DEF ListObjects
  <2>3. l \in Seq(Elems)
    <3>1. ASSUME NEW m \in 0 .. Len(o.list), NEW cut \in Elems, NEW empty \in Elems
          PROVE  CutAfter(o.list, m, cut, empty) \in Seq(Elems)
      <4> DEFINE whole == SubSeq(o.list, 1, m)
                 rest == [i \in 1 .. Len(o.list) - m |-> IF i = 1 THEN cut ELSE empty]
      <4>1. whole \in Seq(Elems)
        BY <2>2
      <4>2. Len(o.list) - m \in Nat
        BY <2>2
      <4>3. rest \in Seq(Elems)
        BY <4>2
      <4> HIDE DEF whole, rest
      <4>4. whole \o rest \in Seq(Elems)
        BY <4>1, <4>3
      <4> QED
        BY <4>4 DEF whole, rest, CutAfter
    <3>2. ASSUME NEW n \in 0 .. Len(o.list), NEW empty \in Elems
          PROVE  Empties(n, empty) \in Seq(Elems)
      <4>1. n \in Nat
        BY <2>2
      <4> QED
        BY <4>1 DEF Empties
    <3>3. \/ \E m \in 0 .. Len(o.list), cut \in Elems, empty \in Elems :
                l = CutAfter(o.list, m, cut, empty)
          \/ \E n \in 0 .. Len(o.list), empty \in Elems : l = Empties(n, empty)
      BY <1>4 DEF CutLists
    <3> QED
      BY <3>1, <3>2, <3>3
  <2> QED
    BY <1>4, <2>1, <2>3 DEF ListObjects, MaybeObjects, Objects
<1>5. ASSUME HasType(o, "set"), NEW s \in CutSets(o.set), p = [o EXCEPT !.set = s]
      PROVE  p \in MaybeObjects
  <2>1. o \in SetObjects /\ s \in SUBSET Elems
    BY <1>5 DEF CutSets, HasType, MaybeObjects, Objects, StringObjects, HashObjects,
       ListObjects, ZSetObjects
  <2> QED
    BY <1>5, <2>1 DEF SetObjects, MaybeObjects, Objects
<1>6. ASSUME HasType(o, "zset"), NEW z \in CutZSets(o.zset), p = [o EXCEPT !.zset = z]
      PROVE  p \in MaybeObjects
  <2>1. o \in ZSetObjects
    BY <1>6 DEF HasType, MaybeObjects, Objects, StringObjects, HashObjects, ListObjects,
       SetObjects
  <2>2. z \in [Elems -> {o.zset[m] : m \in Elems} \cup {0, Null}]
    BY <1>6 DEF CutZSets
  <2>3. {o.zset[m] : m \in Elems} \cup {0, Null} \subseteq Scores \cup {Null}
    BY <2>1 DEF ZSetObjects, Scores
  <2>4. z \in [Elems -> Scores \cup {Null}]
    BY <2>2, <2>3
  <2> QED
    BY <1>6, <2>1, <2>4 DEF ZSetObjects, MaybeObjects, Objects
<1> QED
  BY <1>1, <1>2, <1>3, <1>4, <1>5, <1>6 DEF Remnants

LEMMA ServerTypeStep == ServerTypeOK /\ [ServerNext]_svars => ServerTypeOK'
<1> SUFFICES ASSUME ServerTypeOK, [ServerNext]_svars PROVE ServerTypeOK'
  OBVIOUS
<1>1. ASSUME NEW c \in Commands, Serve(c) PROVE ServerTypeOK'
  <2>1. db' \in Databases
    BY <1>1, CommandsAssumption, ExecuteType
       DEF Serve, ProcessCommand, ServerTypeOK, TypeOK
  <2>2. \/ aof' = aof /\ trail' = trail
        \/ aof' = Append(aof, c) /\ trail' = Append(trail, db')
    BY <1>1 DEF Serve
  <2>3. UNCHANGED <<now, lastCheck, mode, rdb, pos, starts, acked>>
    BY <1>1 DEF Serve, ProcessCommand
  <2>4. /\ aof' \in Seq(Commands) /\ trail' \in Seq(Databases)
        /\ Len(trail') = Len(aof') + 1 /\ Len(aof) <= Len(aof')
    <3>1. CASE aof' = aof /\ trail' = trail
      BY <3>1 DEF ServerTypeOK
    <3>2. CASE aof' = Append(aof, c) /\ trail' = Append(trail, db')
      <4>1. aof' \in Seq(Commands) /\ Len(aof') = Len(aof) + 1
        BY <3>2 DEF ServerTypeOK
      <4>2. trail' \in Seq(Databases) /\ Len(trail') = Len(trail) + 1
        BY <2>1, <3>2 DEF ServerTypeOK
      <4> QED
        BY <4>1, <4>2 DEF ServerTypeOK
    <3> QED
      BY <2>2, <3>1, <3>2
  <2>5. Len(aof) \in Nat /\ Len(aof') \in Nat
    BY <2>4 DEF ServerTypeOK
  <2> QED
    BY <2>1, <2>3, <2>4, <2>5 DEF ServerTypeOK, TypeOK
<1>2. CASE ExpireCheck
  BY <1>2, WithoutType
     DEF ExpireCheck, PeriodicExpireCheck, files, history, ServerTypeOK, TypeOK
<1>3. CASE ClockTick
  BY <1>3 DEF ClockTick, Elapse, files, history, ServerTypeOK, TypeOK
<1>4. CASE Crash
  BY <1>4, GoDownType DEF Crash, ServerTypeOK
<1>5. CASE Stop
  BY <1>5, GoDownType DEF Stop, ServerTypeOK, TypeOK
<1>10. CASE StopInterrupted
  <2>1. db \in [Keys -> MaybeObjects] /\ Null \in MaybeObjects
    BY DEF ServerTypeOK, TypeOK, Databases, MaybeObjects
  <2>2. rdb' \in Databases
    <3>1. PICK written \in SUBSET Used(db), cut \in Keys :
             \E o \in Remnants(IF cut \in written THEN Null ELSE db[cut]) :
                rdb' = [k \in Keys |->
                          IF k = cut THEN o ELSE IF k \in written THEN db[k] ELSE Null]
      BY <1>10 DEF StopInterrupted
    <3>2. (IF cut \in written THEN Null ELSE db[cut]) \in MaybeObjects
      BY <2>1
    <3>3. PICK o \in MaybeObjects :
             rdb' = [k \in Keys |->
                       IF k = cut THEN o ELSE IF k \in written THEN db[k] ELSE Null]
      BY <3>1, <3>2, RemnantsType
    <3> QED
      BY <2>1, <3>3 DEF Databases
  <2> QED
    BY <1>10, <2>2, GoDownType DEF StopInterrupted
<1>6. CASE Start
  BY <1>6 DEF Start, files, history, ServerTypeOK, TypeOK
<1>7. CASE ReplayOne
  <2>1. aof[pos + 1] \in Commands /\ pos + 1 \in 0 .. Len(aof)
    BY <1>7 DEF ReplayOne, ServerTypeOK
  <2>2. db' \in Databases
    BY <1>7, <2>1, CommandsAssumption, ExecuteType DEF ReplayOne, ServerTypeOK, TypeOK
  <2> QED
    BY <1>7, <2>1, <2>2 DEF ReplayOne, files, history, ServerTypeOK, TypeOK
<1>8. CASE Ready
  BY <1>8 DEF Ready, vars, files, history, ServerTypeOK, TypeOK
<1>9. CASE UNCHANGED svars
  BY <1>9 DEF svars, vars, files, history, ServerTypeOK, TypeOK
<1> QED
  BY <1>1, <1>2, <1>3, <1>4, <1>5, <1>6, <1>7, <1>8, <1>9, <1>10
     DEF ServerNext, NextWithoutStop

\* Through any number of stops, crashes and starts the keyspace, the snapshot
\* and the log are of their types: a replay never leaves the log, and neither
\* file nor memory holds an object a handler could not have made.
THEOREM ServerTypeCorrect == ServerSpec => []ServerTypeOK
  BY ServerTypeInit, ServerTypeStep, PTL DEF ServerSpec

-----------------------------------------------------------------------------
(* The recovery invariant.                                                 *)

\* The steps that write neither file.
LEMMA SameHistory ==
    ASSUME RecoveryInv, UNCHANGED <<aof, rdb, trail>>,
           ServerTypeOK',
           mode' = "up" => db' = trail[Len(trail)],
           mode' # "up" => acked' = trail[Len(trail)],
           mode' = "loading" => db' = trail[pos' + 1],
           mode' # "loading" => pos' = 0
    PROVE  RecoveryInv'
  BY DEF RecoveryInv

LEMMA RecoveryInit == ServerInit => RecoveryInv
  BY ServerTypeInit, EmptyDbPersistent DEF ServerInit, Init, RecoveryInv

LEMMA RecoveryServe ==
    ASSUME RecoveryInv, NEW c \in Commands, Durable(c), Serve(c)
    PROVE  RecoveryInv'
<1>1. WellFormed(c)
  BY CommandsAssumption DEF CommandsAssumption
<1>2. /\ ServerTypeOK /\ mode = "up" /\ db = trail[Len(trail)]
      /\ Len(trail) = Len(aof) + 1 /\ db \in Databases /\ Persistent(db)
  BY DEF RecoveryInv, ServerTypeOK, TypeOK, Serve
<1>3. PICK r \in Execute(c, db, now) : db' = r.db /\ reply' = r.reply
  BY DEF Serve, ProcessCommand
<1>4. ServerTypeOK' /\ db' \in Databases
  BY <1>2, ServerTypeStep DEF ServerNext, NextWithoutStop, ServerTypeOK, TypeOK
<1>5. Persistent(db') /\ (~ Logged(c, reply') => db' = db)
  BY <1>1, <1>2, <1>3, ExecuteSettled
<1>6. CASE ~ Logged(c, reply')
  <2>1. UNCHANGED <<db, now, lastCheck, mode, aof, rdb, pos, starts, acked, trail>>
    BY <1>5, <1>6 DEF Serve, ProcessCommand
  <2> QED
    BY <1>4, <2>1, SameHistory DEF RecoveryInv
<1>7. CASE Logged(c, reply')
  <2>1. /\ aof' = Append(aof, c) /\ trail' = Append(trail, db')
        /\ UNCHANGED <<now, lastCheck, mode, rdb, pos, starts, acked>>
    BY <1>7 DEF Serve, ProcessCommand
  <2>2. trail'[1] = EmptyDb
    BY <1>2, <2>1 DEF RecoveryInv, ServerTypeOK
  <2>3. \A i \in 1 .. Len(trail') : Persistent(trail'[i])
    BY <1>2, <1>5, <2>1 DEF RecoveryInv, ServerTypeOK
  <2>4. \A i \in 1 .. Len(aof') :
           \E q \in Execute(aof'[i], trail'[i], 0) : trail'[i + 1] = q.db
    <3>1. r \in Execute(c, db, 0)
      BY <1>1, <1>2, <1>3, ExecuteSteady
    <3>2. /\ aof'[Len(aof')] = c /\ trail'[Len(aof')] = db
          /\ trail'[Len(aof') + 1] = r.db
      BY <1>2, <1>3, <1>4, <2>1 DEF ServerTypeOK
    <3>3. ASSUME NEW i \in 1 .. Len(aof)
          PROVE  aof'[i] = aof[i] /\ trail'[i] = trail[i] /\ trail'[i + 1] = trail[i + 1]
      BY <1>2, <1>4, <2>1 DEF ServerTypeOK
    <3>4. ASSUME NEW i \in 1 .. Len(aof'), i \notin 1 .. Len(aof) PROVE i = Len(aof')
      BY <1>2, <2>1, <3>4 DEF ServerTypeOK
    <3> QED
      BY <3>1, <3>2, <3>3, <3>4 DEF RecoveryInv
  <2>5. mode' = "up" /\ db' = trail'[Len(trail')]
    BY <1>2, <1>4, <2>1 DEF ServerTypeOK
  <2> QED
    BY <1>2, <1>4, <2>1, <2>2, <2>3, <2>4, <2>5 DEF RecoveryInv
<1> QED
  BY <1>6, <1>7

LEMMA RecoveryReplay ==
    ASSUME \A c \in Commands : Durable(c), RecoveryInv, ReplayOne
    PROVE  RecoveryInv'
<1> DEFINE c == aof[pos + 1]
           d == trail[pos + 1]
<1>1. /\ ServerTypeOK /\ mode = "loading" /\ db = d
      /\ pos + 1 \in 1 .. Len(aof) /\ pos + 2 \in 1 .. Len(trail)
      /\ d \in Databases /\ Persistent(d) /\ c \in Commands
  BY DEF RecoveryInv, ServerTypeOK, TypeOK, ReplayOne
<1>2. WellFormed(c) /\ Durable(c)
  BY <1>1, CommandsAssumption DEF CommandsAssumption
<1>3. PICK r \in Execute(c, d, now) : db' = r.db
  BY <1>1 DEF ReplayOne
<1>4. PICK q \in Execute(c, d, 0) : trail[pos + 2] = q.db
  <2>1. pos + 2 = (pos + 1) + 1
    BY <1>1 DEF ServerTypeOK
  <2>2. \A i \in 1 .. Len(aof) :
           \E r1 \in Execute(aof[i], trail[i], 0) : trail[i + 1] = r1.db
    BY DEF RecoveryInv
  <2> QED
    BY <1>1, <2>1, <2>2
<1>5. db' = trail[pos + 2]
  <2>1. q \in Execute(c, d, now)
    BY <1>1, <1>2, <1>4, ExecuteSteady
  <2> HIDE DEF c, d
  <2> QED
    BY <1>1, <1>2, <1>3, <1>4, <2>1, ExecuteSettled
<1>6. pos' = pos + 1 /\ UNCHANGED <<now, lastCheck, mode, aof, rdb, starts, acked, trail>>
  BY DEF ReplayOne, files, history
<1>7. db' = trail'[pos' + 1] /\ db' \in Databases
  BY <1>1, <1>5, <1>6 DEF ServerTypeOK
<1>8. ServerTypeOK'
  BY <1>1, ServerTypeStep DEF ServerNext, NextWithoutStop
<1> QED
  BY <1>1, <1>6, <1>7, <1>8, SameHistory DEF RecoveryInv

\* With durable commands every step of a server that is never stopped
\* gracefully preserves the recovery invariant.
LEMMA RecoveryStep ==
    ASSUME \A c \in Commands : Durable(c), RecoveryInv, [NextWithoutStop]_svars
    PROVE  RecoveryInv'
<1>1. ServerTypeOK /\ ServerTypeOK'
  BY ServerTypeStep DEF RecoveryInv, ServerNext
<1>2. ASSUME NEW c \in Commands, Serve(c) PROVE RecoveryInv'
  BY <1>2, RecoveryServe
<1>3. CASE ExpireCheck
  <2>1. db \in Databases /\ Persistent(db)
    BY <1>3 DEF RecoveryInv, ServerTypeOK, TypeOK, ExpireCheck
  <2>2. UNCHANGED <<db, mode, aof, rdb, pos, acked, trail>>
    BY <1>3, <2>1, NothingExpired DEF ExpireCheck, PeriodicExpireCheck, files, history
  <2> QED
    BY <1>1, <2>2, SameHistory DEF RecoveryInv
<1>4. CASE ClockTick
  <2>1. UNCHANGED <<db, mode, aof, rdb, pos, acked, trail>>
    BY <1>4 DEF ClockTick, Elapse, files, history
  <2> QED
    BY <1>1, <2>1, SameHistory DEF RecoveryInv
<1>5. CASE Crash
  <2>1. /\ mode' = "down" /\ pos' = 0 /\ UNCHANGED <<aof, rdb, trail>>
        /\ acked' = IF mode = "up" THEN db ELSE acked
    BY <1>5 DEF Crash, GoDown
  <2> QED
    BY <1>1, <2>1, SameHistory DEF RecoveryInv
<1>6. CASE Start
  <2>1. /\ mode = "down" /\ mode' = "loading" /\ db' = rdb
        /\ UNCHANGED <<aof, rdb, pos, acked, trail>>
    BY <1>6 DEF Start, files, history
  <2>2. pos = 0
    BY <2>1 DEF RecoveryInv
  <2> QED
    BY <1>1, <2>1, <2>2, SameHistory DEF RecoveryInv
<1>7. CASE ReplayOne
  BY <1>7, RecoveryReplay
<1>8. CASE Ready
  <2>1. /\ mode = "loading" /\ pos = Len(aof) /\ mode' = "up" /\ pos' = 0
        /\ UNCHANGED <<db, aof, rdb, trail>>
    BY <1>8 DEF Ready, vars, files, history
  <2> QED
    BY <1>1, <2>1, SameHistory DEF RecoveryInv, ServerTypeOK
<1>9. CASE UNCHANGED svars
  <2>1. UNCHANGED <<db, mode, aof, rdb, pos, acked, trail>>
    BY <1>9 DEF svars, vars, files, history
  <2> QED
    BY <1>1, <2>1, SameHistory DEF RecoveryInv
<1> QED
  BY <1>2, <1>3, <1>4, <1>5, <1>6, <1>7, <1>8, <1>9 DEF NextWithoutStop

\* With durable commands and no graceful stop, the log is at all times a complete
\* account of the keyspace: its commands lead, one after the other, from the empty
\* keyspace to the one that is served.
THEOREM RecoveryInvCorrect ==
    ASSUME \A c \in Commands : Durable(c)
    PROVE  CrashSpec => []RecoveryInv
<1>1. RecoveryInv /\ [NextWithoutStop]_svars => RecoveryInv'
  BY RecoveryStep
<1> QED
  BY <1>1, RecoveryInit, PTL DEF CrashSpec

\* However long the log, however often the process dies, also in the middle of
\* a start, and whenever the commands are replayed: with commands that set no
\* deadline, draw no member and do not fail half way, a loaded server has
\* exactly the keyspace it had acknowledged.
THEOREM RecoveryCorrect ==
    ASSUME \A c \in Commands : Durable(c)
    PROVE  CrashSpec => []RecoveryExact
<1>1. RecoveryInv => RecoveryExact
  BY DEF RecoveryInv, ServerTypeOK, Loaded, RecoveryExact
<1> QED
  BY <1>1, RecoveryInvCorrect, PTL

\* Under the same condition a replay passes through the very keyspaces in
\* which the commands of the log were first executed.
THEOREM ReplayCorrect ==
    ASSUME \A c \in Commands : Durable(c)
    PROVE  CrashSpec => []ReplayRetraces
<1>1. RecoveryInv => ReplayRetraces
  BY DEF RecoveryInv, ReplayRetraces
<1> QED
  BY <1>1, RecoveryInvCorrect, PTL

\* With durable commands, what AppendToAof leaves out changed nothing that a
\* client can see.
THEOREM UnloggedCorrect ==
    ASSUME \A c \in Commands : Durable(c)
    PROVE  CrashSpec => UnloggedHarmless
<1>1. RecoveryInv /\ [NextWithoutStop]_svars =>
        [\A c \in Commands :
           Serve(c) /\ ~ Logged(c, reply') => Live(db, now)' = Live(db, now)]_svars
  <2> SUFFICES ASSUME RecoveryInv, NEW c \in Commands, Serve(c), ~ Logged(c, reply')
               PROVE  Live(db, now)' = Live(db, now)
    OBVIOUS
  <2>1. WellFormed(c) /\ Durable(c)
    BY CommandsAssumption DEF CommandsAssumption
  <2>2. db \in Databases /\ Persistent(db)
    BY DEF RecoveryInv, ServerTypeOK, TypeOK, Serve
  <2>3. db' = db /\ now' = now
    BY <2>1, <2>2, ExecuteSettled DEF Serve, ProcessCommand
  <2> QED
    BY <2>3
<1> QED
  BY <1>1, RecoveryInvCorrect, PTL DEF CrashSpec, UnloggedHarmless

-----------------------------------------------------------------------------
(* What a start makes of a key that was last SET or DELeted, whatever the  *)
(* other commands, the snapshot and the clock.                             *)

LEMMA NamesAreKeys ==
    ASSUME NEW c, WellFormed(c), IsWriteCommand(c.name), c.args # << >>
    PROVE  Names(c) \subseteq Keys
<1>1. CASE c.name = "DEL"
  BY <1>1 DEF WellFormed, Names, ToSet
<1>2. CASE c.name # "DEL"
  BY <1>2 DEF IsWriteCommand, WriteCommands, KeyNames, StringNames, HashNames,
              ListNames, SetNames, ZSetNames, WellFormed, Names
<1> QED
  BY <1>1, <1>2

\* A logged command changes only the keys it names, and a SET without options or
\* a DEL leaves nothing of what there was.
LEMMA ExecuteWins ==
    ASSUME NEW c, WellFormed(c), IsWriteCommand(c.name), c.args # << >>,
           NEW d \in Databases, NEW t \in Nat, NEW r \in Execute(c, d, t)
    PROVE  /\ \A k \in Keys \ Names(c) : r.db[k] = d[k]
           /\ \A k \in Names(c) : Wins(c, k, r.db)
<1>1. CASE c.name = "DEL"
  <2>1. r.db = Without(d, ToSet(c.args))
    BY <1>1 DEF Execute, Registered, ServerNames, DelCmd, Result
  <2>2. Names(c) = ToSet(c.args)
    BY <1>1 DEF Names
  <2>3. ToSet(c.args) \subseteq Keys
    BY <1>1 DEF WellFormed, ToSet
  <2> QED
    BY <1>1, <2>1, <2>2, <2>3 DEF Without, Wins
<1>2. CASE c.name # "DEL"
  <2>1. /\ c.name \in KeyNames /\ Registered(c.name)
        /\ c.name \notin ServerNames \cup {"DEL", "EXISTS", "KEYS"}
    BY <1>2 DEF IsWriteCommand, WriteCommands, KeyNames, StringNames, HashNames,
                ListNames, SetNames, ZSetNames, Registered, ServerNames
  <2>2. c.args[1] \in Keys /\ Names(c) = {c.args[1]}
    BY <1>2, <2>1 DEF WellFormed, Names
  <2>3. PICK out \in KeyHandler(c.name, c.args, d[c.args[1]], t) :
              r.db = [d EXCEPT ![c.args[1]] = out.obj]
    BY <2>1 DEF Execute
  <2>4. c.name = "SET" /\ Len(c.args) = 2 => out.obj = CreateString(c.args[2])
    <3> SUFFICES ASSUME c.name = "SET", Len(c.args) = 2
                 PROVE  out.obj = CreateString(c.args[2])
      OBVIOUS
    <3>1. out \in SetCmd(c.args, d[c.args[1]], t)
      BY <2>3 DEF KeyHandler, StringNames, HashNames, ListNames, SetNames, ZSetNames,
                  StringHandler
    <3>2. ~ SetRejected(c.args) /\ SetOptions(c.args) = {} /\ LastTimed(c.args) = {}
      BY DEF SetRejected, SetOptions, LastTimed
    <3>3. out.obj = SetExpire(CreateString(c.args[2]), NoExpiry)
      BY <3>1, <3>2 DEF SetCmd, SetDeadline, Outcome
    <3> QED
      BY <3>3 DEF SetExpire, CreateString
  <2>5. r.db[c.args[1]] = out.obj /\ \A k \in Keys \ {c.args[1]} : r.db[k] = d[k]
    BY <2>2, <2>3 DEF Databases
  <2> QED
    BY <1>2, <2>2, <2>4, <2>5 DEF Wins
<1> QED
  BY <1>1, <1>2

-----------------------------------------------------------------------------

LEMMA LastWriteInit == ServerInit => LastWriteInv
  BY ServerTypeInit DEF ServerInit, LastWriteInv

\* Steps that leave the log alone, outside a replay or with nothing replayed yet.
LEMMA SameLog ==
    ASSUME LastWriteInv, ServerTypeOK', aof' = aof, pos' = 0
    PROVE  LastWriteInv'
  BY DEF LastWriteInv, LastWritesIn

\* Steps that happen beside the log.
LEMMA BesideLog ==
    ASSUME LastWriteInv, ServerTypeOK', UNCHANGED <<db, mode, aof, pos>>
    PROVE  LastWriteInv'
  BY DEF LastWriteInv, LastWritesIn

LEMMA LastWriteServe ==
    ASSUME LastWriteInv, ServerTypeOK', NEW c \in Commands, Serve(c)
    PROVE  LastWriteInv'
<1>1. /\ mode' = "up" /\ pos' = pos /\ pos = 0
      /\ aof' = IF Logged(c, reply') THEN Append(aof, c) ELSE aof
  BY DEF Serve, LastWriteInv
<1>2. CASE ~ Logged(c, reply')
  BY <1>1, <1>2, SameLog
<1>3. CASE Logged(c, reply')
  <2>1. IsWriteCommand(c.name) /\ reply' # Error
    BY <1>3 DEF Logged
  <2>2. PICK r \in Execute(c, db, now) : reply' = r.reply
    BY DEF Serve, ProcessCommand
  <2>3. c.args # << >>
    <3> SUFFICES ASSUME c.args = << >> PROVE reply' = Error
      BY <2>1
    <3>1. c.name \notin ServerNames
      BY <2>1 DEF IsWriteCommand, WriteCommands, ServerNames
    <3> QED
      BY <2>2, <3>1 DEF Execute, Result
  <2>4. ASSUME NEW i \in 1 .. Len(aof')
        PROVE  IsWriteCommand(aof'[i].name) /\ aof'[i].args # << >>
    <3>1. aof \in Seq(Commands) /\ aof' = Append(aof, c)
      BY <1>1, <1>3 DEF LastWriteInv, ServerTypeOK
    <3>2. CASE i \in 1 .. Len(aof)
      BY <3>1, <3>2 DEF LastWriteInv
    <3>3. CASE i \notin 1 .. Len(aof)
      BY <2>1, <2>3, <3>1, <3>3
    <3> QED
      BY <3>2, <3>3
  <2> QED
    BY <1>1, <2>4 DEF LastWriteInv
<1> QED
  BY <1>2, <1>3

LEMMA LastWriteReplay ==
    ASSUME LastWriteInv, ServerTypeOK', ReplayOne
    PROVE  LastWriteInv'
<1> DEFINE c == aof[pos + 1]
<1>1. /\ mode = "loading" /\ mode' = "loading" /\ aof' = aof /\ pos' = pos + 1
      /\ pos \in Nat /\ pos + 1 \in 1 .. Len(aof)
      /\ c \in Commands /\ db \in Databases /\ now \in Nat
  BY DEF ReplayOne, files, LastWriteInv, ServerTypeOK, TypeOK
<1>2. WellFormed(c) /\ IsWriteCommand(c.name) /\ c.args # << >>
  BY <1>1, CommandsAssumption DEF LastWriteInv
<1>3. PICK r \in Execute(c, db, now) : db' = r.db
  BY DEF ReplayOne
<1>4. /\ \A k \in Keys \ Names(c) : db'[k] = db[k]
      /\ \A k \in Names(c) : Wins(c, k, db')
  <2> HIDE DEF c
  <2> QED
    BY <1>1, <1>2, <1>3, ExecuteWins
<1>5. ASSUME NEW i \in 1 .. pos', NEW k \in Names(aof[i]),
             \A j \in i + 1 .. pos' : k \notin Names(aof[j])
      PROVE  Wins(aof[i], k, db')
  <2>1. CASE i = pos + 1
    BY <1>4, <2>1
  <2>2. CASE i \in 1 .. pos
    <3>1. k \notin Names(c) /\ \A j \in i + 1 .. pos : k \notin Names(aof[j])
      BY <1>1, <1>5, <2>2
    <3>2. Wins(aof[i], k, db)
      BY <1>1, <2>2, <3>1 DEF LastWriteInv, LastWritesIn
    <3>3. k \in Keys
      <4>1. WellFormed(aof[i]) /\ IsWriteCommand(aof[i].name) /\ aof[i].args # << >>
        BY <1>1, <2>2, CommandsAssumption DEF LastWriteInv, ServerTypeOK
      <4> QED
        BY <4>1, NamesAreKeys
    <3> QED
      BY <1>4, <3>1, <3>2, <3>3 DEF Wins
  <2> QED
    BY <1>1, <1>5, <2>1, <2>2
<1> QED
  BY <1>1, <1>5 DEF LastWriteInv, LastWritesIn

LEMMA LastWriteStep == LastWriteInv /\ [ServerNext]_svars => LastWriteInv'
<1> SUFFICES ASSUME LastWriteInv, [ServerNext]_svars PROVE LastWriteInv'
  OBVIOUS
<1>1. ServerTypeOK'
  BY ServerTypeStep DEF LastWriteInv
<1>2. ASSUME NEW c \in Commands, Serve(c) PROVE LastWriteInv'
  BY <1>1, <1>2, LastWriteServe
<1>3. CASE ExpireCheck
  BY <1>1, <1>3, SameLog DEF ExpireCheck, files, LastWriteInv
<1>4. CASE ClockTick
  BY <1>1, <1>4, BesideLog DEF ClockTick, Elapse, files
<1>5. CASE Crash \/ Stop \/ StopInterrupted
  BY <1>1, <1>5, SameLog DEF Crash, Stop, StopInterrupted, GoDown
<1>6. CASE Start
  BY <1>1, <1>6, SameLog DEF Start, files, LastWriteInv
<1>7. CASE ReplayOne
  BY <1>1, <1>7, LastWriteReplay
<1>8. CASE Ready
  BY <1>1, <1>8, SameLog DEF Ready, files
<1>9. CASE UNCHANGED svars
  BY <1>1, <1>9, BesideLog DEF svars, vars, files
<1> QED
  BY <1>2, <1>3, <1>4, <1>5, <1>6, <1>7, <1>8, <1>9 DEF ServerNext, NextWithoutStop

\* Whatever the commands, deadlines and draws, after any number of crashes and of
\* stops, of which some may have left a torn snapshot: a key whose last logged
\* command is a SET without options, or a DEL, comes out of a start with that value,
\* or is gone.
THEOREM LastWriteCorrect == ServerSpec => []LastWriteWins
<1>1. LastWriteInv => LastWriteWins
  BY DEF LastWriteInv, LastWriteWins, Loaded
<1> QED
  BY <1>1, LastWriteInit, LastWriteStep, PTL DEF ServerSpec

-----------------------------------------------------------------------------
(* A log replayed over a snapshot that holds its effects already.          *)

\* What a repeatable command makes of the object o under the key k: a SET or a
\* DEL forgets it, HSET and HDEL write some fields of it.
Effect(c, k, o) ==
    IF c.name = "DEL" THEN IF k \in ToSet(c.args) THEN Null ELSE o
    ELSE IF c.args = << >> \/ k # c.args[1] THEN o
    ELSE CASE c.name = "SET" -> CreateString(c.args[2])
           [] c.name = "HSET" ->
                IF Len(c.args) < 3 \/ Len(c.args) % 2 # 1 THEN o
                ELSE IF o = Null
                THEN [CreateHash EXCEPT !.hash = Assigned(CreateHash.hash, c.args)]
                ELSE IF o.type = "hash"
                THEN [o EXCEPT !.hash = Assigned(o.hash, c.args)]
                ELSE o
           [] c.name = "HDEL" ->
                IF Len(c.args) < 2 \/ o = Null \/ o.type # "hash" THEN o
                ELSE LET gone == {c.args[i] : i \in 2 .. Len(c.args)} \cap Present(o.hash)
                         hash == [f \in Elems |-> IF f \in gone THEN Null ELSE o.hash[f]]
                     IN  IF Present(hash) = {} THEN Null ELSE [o EXCEPT !.hash = hash]

LEMMA RepeatableIsDurable ==
    ASSUME NEW c, Repeatable(c)
    PROVE  Durable(c)
BY DEF Repeatable, Durable

LEMMA EffectOf ==
    ASSUME NEW c, WellFormed(c), Repeatable(c), NEW d \in Databases, Persistent(d),
           NEW t, NEW r \in Execute(c, d, t), NEW k \in Keys
    PROVE  r.db[k] = Effect(c, k, d[k])
<1>1. CASE c.name = "DEL" /\ c.args # << >>
  <2>1. r.db = Without(d, ToSet(c.args))
    BY <1>1 DEF Execute, Registered, ServerNames, DelCmd, Result
  <2> QED
    BY <1>1, <2>1 DEF Without, Effect
<1>2. CASE c.args = << >>
  <2>1. r.db = d
    BY <1>2 DEF Execute, Registered, Repeatable, ServerNames, Result, KeyNames,
                StringNames, HashNames
  <2>2. k \notin ToSet(c.args)
    BY <1>2 DEF ToSet
  <2> QED
    BY <1>2, <2>1, <2>2 DEF Effect
<1>3. CASE c.name \in {"SET", "HSET", "HDEL"} /\ c.args # << >>
  <2> DEFINE k1 == c.args[1]
             o == d[k1]
  <2>1. k1 \in Keys /\ Registered(c.name) /\ c.name \notin ServerNames \cup {"DEL", "EXISTS", "KEYS"}
    BY <1>3 DEF WellFormed, Registered, KeyNames, StringNames, HashNames, ServerNames
  <2>2. PICK out \in KeyHandler(c.name, c.args, o, t) : r.db = [d EXCEPT ![k1] = out.obj]
    BY <1>3, <2>1 DEF Execute
  <2>3. LazyCheck(o, t) = o
    BY <2>1, LazyCheckLasting DEF Persistent
  <2>4. out.obj = Effect(c, k1, o)
    <3>1. CASE c.name = "SET"
      <4>1. out \in SetCmd(c.args, o, t)
        BY <2>2, <3>1 DEF KeyHandler, StringNames, HashNames, ListNames, SetNames, ZSetNames,
                           StringHandler
      <4>2. Len(c.args) = 2
        BY <3>1 DEF Repeatable
      <4>3. ~ SetRejected(c.args) /\ SetOptions(c.args) = {} /\ LastTimed(c.args) = {}
        BY <4>2 DEF SetRejected, SetOptions, LastTimed
      <4>4. out.obj = SetExpire(CreateString(c.args[2]), NoExpiry)
        BY <4>1, <4>2, <4>3 DEF SetCmd, SetDeadline, Outcome
      <4> QED
        BY <1>3, <3>1, <4>4 DEF SetExpire, CreateString, Effect
    <3>2. CASE c.name = "HSET"
      <4>1. out \in HSetCmd(c.args, o, t)
        BY <2>2, <3>2 DEF KeyHandler, StringNames, HashNames, ListNames, SetNames, ZSetNames,
                           HashHandler
      <4>2. GetOrCreateHash(o, t) = IF o = Null THEN CreateHash
                                    ELSE IF o.type = "hash" THEN o ELSE Null
        BY <2>3 DEF GetOrCreateHash, GetHash, HasType
      <4>3. CreateHash # Null
        BY NullAssumption DEF CreateHash, Objects, HashObjects, Expiry
      <4>4. CASE Len(c.args) < 3 \/ Len(c.args) % 2 # 1
        <5>1. HSetCmd(c.args, o, t) = Outcome(o, Error)
          BY <4>4, Zenon DEF HSetCmd
        <5>2. out.obj = o
          BY <4>1, <5>1 DEF Outcome
        <5> QED
          BY <1>3, <3>2, <4>4, <5>2 DEF Effect
      <4>5. CASE ~ (Len(c.args) < 3 \/ Len(c.args) % 2 # 1)
        <5> DEFINE obj == GetOrCreateHash(o, t)
        <5>1. out.obj = IF obj = Null THEN o
                        ELSE [obj EXCEPT !.hash = Assigned(obj.hash, c.args)]
          BY <2>3, <4>1, <4>5 DEF HSetCmd, Outcome
        <5> QED
          BY <1>3, <3>2, <4>2, <4>3, <4>5, <5>1 DEF Effect
      <4> QED
        BY <4>4, <4>5
    <3>3. CASE c.name = "HDEL"
      <4>1. out \in HDelCmd(c.args, o, t)
        BY <2>2, <3>3 DEF KeyHandler, StringNames, HashNames, ListNames, SetNames, ZSetNames,
                           HashHandler
      <4>2. GetHash(o, t) = IF o # Null /\ o.type = "hash" THEN o ELSE Null
        BY <2>3 DEF GetHash, HasType
      <4>3. CASE Len(c.args) < 2
        <5>1. out.obj = o
          BY <4>1, <4>3 DEF HDelCmd, Outcome
        <5> QED
          BY <1>3, <3>3, <4>3, <5>1 DEF Effect
      <4>4. CASE ~ (Len(c.args) < 2)
        <5> DEFINE obj == GetHash(o, t)
                   gone == {c.args[i] : i \in 2 .. Len(c.args)} \cap Present(obj.hash)
                   hash == [f \in Elems |-> IF f \in gone THEN Null ELSE obj.hash[f]]
        <5>1. out.obj = IF obj = Null THEN o
                        ELSE IF Present(hash) = {} THEN Null ELSE [obj EXCEPT !.hash = hash]
          BY <2>3, <4>1, <4>4 DEF HDelCmd, Outcome
        <5>2. CASE o = Null \/ o.type # "hash"
          BY <1>3, <3>3, <4>2, <4>4, <5>1, <5>2 DEF Effect
        <5>3. CASE ~ (o = Null \/ o.type # "hash")
          <6>1. obj = o /\ obj # Null
            BY <4>2, <5>3
          <6> QED
            BY <1>3, <3>3, <4>4, <5>1, <5>3, <6>1 DEF Effect
        <5> QED
          BY <5>2, <5>3
      <4> QED
        BY <4>3, <4>4
    <3> QED
      BY <1>3, <3>1, <3>2, <3>3
  <2>5. k # k1 => Effect(c, k, d[k]) = d[k]
    BY <1>3 DEF Effect
  <2> HIDE DEF k1, o
  <2>6. r.db[k] = IF k = k1 THEN out.obj ELSE d[k]
    BY <2>1, <2>2 DEF Databases
  <2> QED
    BY <2>4, <2>5, <2>6 DEF o
<1> QED
  BY <1>1, <1>2, <1>3 DEF Repeatable

\* No key, or a hash with fields and without a deadline: determined by its cells.
HashLike(o) ==
    o = Null \/ (o \in HashObjects /\ o.exp = NoExpiry /\ Present(o.hash) # {})

Cell(o, f) == IF o = Null THEN Null ELSE o.hash[f]

LEMMA CellsDetermine ==
    ASSUME NEW a, NEW b, HashLike(a), HashLike(b), \A f \in Elems : Cell(a, f) = Cell(b, f)
    PROVE  a = b
<1>1. ASSUME NEW x, HashLike(x), x # Null PROVE \E f \in Elems : Cell(x, f) # Null
  BY <1>1 DEF HashLike, Present, Cell
<1>2. CASE a = Null \/ b = Null
  BY <1>1, <1>2 DEF Cell
<1>3. CASE a # Null /\ b # Null
  <2>1. a \in HashObjects /\ b \in HashObjects /\ a.exp = b.exp
    BY <1>3 DEF HashLike
  <2>2. a.hash = b.hash
    BY <1>3, <2>1 DEF HashObjects, Cell
  <2> QED
    BY <2>1, <2>2 DEF HashObjects
<1> QED
  BY <1>2, <1>3

\* The cells of k that c writes, and what it writes there.
Touches(c, k, f) ==
    /\ c.args # << >> /\ k = c.args[1]
    /\ \/ /\ c.name = "HSET" /\ Len(c.args) >= 3 /\ Len(c.args) % 2 = 1
          /\ LastAt(PairStarts(c.args), c.args, f) # {}
       \/ c.name = "HDEL" /\ \E n \in 2 .. Len(c.args) : c.args[n] = f

Written(c, f) ==
    IF c.name = "HDEL" THEN Null
    ELSE c.args[(CHOOSE n \in LastAt(PairStarts(c.args), c.args, f) : TRUE) + 1]

\* The words HSET assigns are values, and it assigns one.
LEMMA HSetWrites ==
    ASSUME NEW c, WellFormed(c), c.name = "HSET", Len(c.args) >= 3, Len(c.args) % 2 = 1
    PROVE  /\ \A f \in Elems : LastAt(PairStarts(c.args), c.args, f) # {} => Written(c, f) \in Elems
           /\ \E f \in Elems : LastAt(PairStarts(c.args), c.args, f) # {}
<1>1. Len(c.args) \in Nat /\ \A n \in 2 .. Len(c.args) : c.args[n] \in Elems
  BY DEF WellFormed
<1>2. ASSUME NEW n \in PairStarts(c.args) PROVE n + 1 \in 2 .. Len(c.args)
  <2>1. n \in 2 .. Len(c.args) /\ n % 2 = 0
    BY DEF PairStarts
  <2>2. \A size \in Nat, m \in Nat :
          size % 2 = 1 /\ m % 2 = 0 /\ 2 <= m /\ m <= size => m + 1 \in 2 .. size
    OBVIOUS
  <2>3. n \in Nat /\ 2 <= n /\ n <= Len(c.args)
    BY <1>1, <2>1
  <2> QED
    BY <1>1, <2>1, <2>2, <2>3
<1>3. ASSUME NEW f \in Elems, LastAt(PairStarts(c.args), c.args, f) # {}
      PROVE  Written(c, f) \in Elems
  <2> DEFINE n == CHOOSE n \in LastAt(PairStarts(c.args), c.args, f) : TRUE
  <2>1. n \in PairStarts(c.args)
    BY <1>3 DEF LastAt
  <2>2. Written(c, f) = c.args[n + 1]
    BY DEF Written
  <2> HIDE DEF n
  <2> QED
    BY <1>1, <1>2, <2>1, <2>2
<1>4. \E f \in Elems : LastAt(PairStarts(c.args), c.args, f) # {}
  <2> DEFINE n == Len(c.args) - 1
  <2>0. \A size \in Nat : size >= 3 /\ size % 2 = 1 =>
          size - 1 \in 2 .. size /\ (size - 1) % 2 = 0
    OBVIOUS
  <2>1. n \in 2 .. Len(c.args) /\ n % 2 = 0
    BY <1>1, <2>0
  <2>2. \A m \in PairStarts(c.args) : m <= n
    BY <1>1, <1>2 DEF PairStarts
  <2>3. n \in LastAt(PairStarts(c.args), c.args, c.args[n])
    BY <2>1, <2>2 DEF LastAt, PairStarts
  <2> QED
    BY <1>1, <2>1, <2>3
<1> QED
  BY <1>3, <1>4

\* HSET and HDEL write the same cells with the same values whatever there was,
\* and leave a hash with fields, or no key.
LEMMA HashWritten ==
    ASSUME NEW c, WellFormed(c), c.name \in {"HSET", "HDEL"}, NEW k, NEW o, HashLike(o)
    PROVE  /\ HashLike(Effect(c, k, o))
           /\ \A f \in Elems : Cell(Effect(c, k, o), f) =
                                 IF Touches(c, k, f) THEN Written(c, f) ELSE Cell(o, f)
<1>0. Len(c.args) < 3 \/ Len(c.args) % 2 # 1 <=> ~ (Len(c.args) >= 3 /\ Len(c.args) % 2 = 1)
  <2>1. \A n \in Nat : n < 3 \/ n % 2 # 1 <=> ~ (n >= 3 /\ n % 2 = 1)
    OBVIOUS
  <2>2. Len(c.args) \in Nat
    BY DEF WellFormed
  <2> QED
    BY <2>1, <2>2, Zenon
<1>1. CASE c.args = << >> \/ k # c.args[1]
  BY <1>1 DEF Effect, Touches
<1>2. CASE c.name = "HSET" /\ ~ (c.args = << >> \/ k # c.args[1])
  <2>1. CASE Len(c.args) < 3 \/ Len(c.args) % 2 # 1
    <3>1. Effect(c, k, o) = o
      BY <1>2, <2>1 DEF Effect
    <3>2. \A f : ~ Touches(c, k, f)
      BY <1>0, <1>2, <2>1, Zenon DEF Touches
    <3> QED
      BY <3>1, <3>2
  <2>2. CASE ~ (Len(c.args) < 3 \/ Len(c.args) % 2 # 1)
    <3> DEFINE old == IF o = Null THEN CreateHash ELSE o
               hash == Assigned(old.hash, c.args)
    <3>1. /\ old \in HashObjects /\ old.exp = NoExpiry
          /\ \A f \in Elems : old.hash[f] = Cell(o, f)
      BY DEF HashLike, CreateHash, HashObjects, Expiry, Cell
    <3>2. \A f : Touches(c, k, f) <=> LastAt(PairStarts(c.args), c.args, f) # {}
      BY <1>0, <1>2, <2>2, Zenon DEF Touches
    <3>3. \A f \in Elems : hash[f] = IF Touches(c, k, f) THEN Written(c, f) ELSE Cell(o, f)
      BY <1>2, <3>1, <3>2 DEF Assigned, Written
    <3>4. /\ \A f \in Elems : Touches(c, k, f) => Written(c, f) \in Elems
          /\ \E f \in Elems : Touches(c, k, f)
      <4>1. Len(c.args) >= 3 /\ Len(c.args) % 2 = 1
        BY <1>0, <2>2, Zenon
      <4> QED
        BY <1>2, <3>2, <4>1, HSetWrites
    <3>5. hash \in [Elems -> Elems \cup {Null}]
      <4>1. hash = [f \in Elems |-> hash[f]]
        BY DEF Assigned
      <4>2. \A f \in Elems : Cell(o, f) \in Elems \cup {Null}
        BY DEF HashLike, HashObjects, Cell
      <4> HIDE DEF hash
      <4> QED
        BY <3>3, <3>4, <4>1, <4>2
    <3>6. Present(hash) # {}
      <4>1. Null \notin Elems
        BY ElemsAssumption, WordsAssumption
      <4> HIDE DEF hash
      <4> QED
        BY <3>3, <3>4, <4>1 DEF Present
    <3>7. Effect(c, k, o) = [old EXCEPT !.hash = hash]
      BY <1>2, <2>2 DEF Effect, HashLike, HashObjects
    <3> HIDE DEF old, hash
    <3>8. /\ Effect(c, k, o) \in HashObjects /\ Effect(c, k, o).hash = hash
          /\ Effect(c, k, o).exp = NoExpiry
      BY <3>1, <3>5, <3>7 DEF HashObjects
    <3>9. Effect(c, k, o) # Null
      BY <3>8, NullAssumption DEF Objects
    <3> QED
      BY <3>3, <3>6, <3>8, <3>9 DEF HashLike, Cell
  <2> QED
    BY <2>1, <2>2
<1>3. CASE c.name = "HDEL" /\ ~ (c.args = << >> \/ k # c.args[1])
  <2>0. \A f : Touches(c, k, f) <=> \E n \in 2 .. Len(c.args) : c.args[n] = f
    BY <1>3 DEF Touches
  <2>1. CASE o = Null
    BY <1>3, <2>1 DEF Effect, Cell, Written
  <2>2. CASE o # Null /\ Len(c.args) < 2
    <3>1. Effect(c, k, o) = o
      BY <1>3, <2>2 DEF Effect
    <3>2. \A f : ~ Touches(c, k, f)
      BY <2>0, <2>2 DEF WellFormed
    <3> QED
      BY <3>1, <3>2
  <2>3. CASE o # Null /\ ~ (Len(c.args) < 2)
    <3> DEFINE gone == {c.args[n] : n \in 2 .. Len(c.args)} \cap Present(o.hash)
               hash == [f \in Elems |-> IF f \in gone THEN Null ELSE o.hash[f]]
    <3>1. o \in HashObjects /\ o.exp = NoExpiry /\ o.type = "hash"
      BY <2>3 DEF HashLike, HashObjects
    <3>2. Effect(c, k, o) = IF Present(hash) = {} THEN Null ELSE [o EXCEPT !.hash = hash]
      BY <1>3, <2>3, <3>1 DEF Effect
    <3>3. \A f \in Elems : hash[f] = IF Touches(c, k, f) THEN Written(c, f) ELSE Cell(o, f)
      BY <1>3, <2>0, <2>3, <3>1 DEF Written, Cell, Present
    <3>4. hash \in [Elems -> Elems \cup {Null}]
      BY <3>1 DEF HashObjects
    <3> HIDE DEF gone, hash
    <3>5. CASE Present(hash) = {}
      BY <3>2, <3>3, <3>5 DEF HashLike, Cell, Present
    <3>6. CASE Present(hash) # {}
      <4>1. /\ Effect(c, k, o) \in HashObjects /\ Effect(c, k, o).hash = hash
            /\ Effect(c, k, o).exp = NoExpiry
        BY <3>1, <3>2, <3>4, <3>6 DEF HashObjects
      <4>2. Effect(c, k, o) # Null
        BY <4>1, NullAssumption DEF Objects
      <4> QED
        BY <3>3, <3>6, <4>1, <4>2 DEF HashLike, Cell
    <3> QED
      BY <3>5, <3>6
  <2> QED
    BY <2>1, <2>2, <2>3
<1> QED
  BY <1>1, <1>2, <1>3

\* c forgets what was under k.
Overwrites(c, k) == c.name \in {"SET", "DEL"} /\ k \in Names(c)

LEMMA Overwritten ==
    ASSUME NEW c, Repeatable(c), NEW k, Overwrites(c, k), c.args # << >>, NEW a, NEW b
    PROVE  Effect(c, k, a) = Effect(c, k, b)
BY DEF Overwrites, Names, Effect

LEMMA Kept ==
    ASSUME NEW c, WellFormed(c), Repeatable(c), NEW k, ~ Overwrites(c, k)
    PROVE  \/ c.name \in {"HSET", "HDEL"}
           \/ \A o : Effect(c, k, o) = o
<1>1. CASE c.name = "DEL"
  BY <1>1 DEF Overwrites, Names, Effect
<1>2. CASE c.name = "SET"
  <2>1. Len(c.args) = 2
    BY <1>2 DEF Repeatable
  <2>2. k # c.args[1]
    BY <1>2 DEF Overwrites, Names
  <2> QED
    BY <1>2, <2>2 DEF Effect
<1> QED
  BY <1>1, <1>2 DEF Repeatable

\* o is the old or the new object, or a hash whose every field is from one of them.
Mixed(o, old, new) ==
    \/ o = old
    \/ /\ HashLike(o) /\ HashLike(old) /\ HashLike(new)
       /\ \A f \in Elems : Cell(o, f) = Cell(old, f) \/ Cell(o, f) = Cell(new, f)

LEMMA MixedKept ==
    ASSUME NEW c, WellFormed(c), Repeatable(c), NEW k, ~ Overwrites(c, k),
           NEW o, NEW old, NEW new, Mixed(o, old, new)
    PROVE  Mixed(Effect(c, k, o), Effect(c, k, old), new)
<1>1. CASE o = old
  BY <1>1 DEF Mixed
<1>2. CASE \A x : Effect(c, k, x) = x
  <2>1. Effect(c, k, o) = o /\ Effect(c, k, old) = old
    BY <1>2
  <2> QED
    BY <2>1
<1>3. CASE c.name \in {"HSET", "HDEL"} /\ o # old
  <2>1. /\ HashLike(o) /\ HashLike(old) /\ HashLike(new)
        /\ \A f \in Elems : Cell(o, f) = Cell(old, f) \/ Cell(o, f) = Cell(new, f)
    BY <1>3 DEF Mixed
  <2>2. /\ HashLike(Effect(c, k, o)) /\ HashLike(Effect(c, k, old))
        /\ \A f \in Elems : Cell(Effect(c, k, o), f) =
                              IF Touches(c, k, f) THEN Written(c, f) ELSE Cell(o, f)
        /\ \A f \in Elems : Cell(Effect(c, k, old), f) =
                              IF Touches(c, k, f) THEN Written(c, f) ELSE Cell(old, f)
    BY <1>3, <2>1, HashWritten
  <2>3. \A f \in Elems : \/ Cell(Effect(c, k, o), f) = Cell(Effect(c, k, old), f)
                         \/ Cell(Effect(c, k, o), f) = Cell(new, f)
    BY <2>1, <2>2
  <2> QED
    BY <2>1, <2>2, <2>3 DEF Mixed
<1> QED
  BY <1>1, <1>2, <1>3, Kept

LEMMA MixedSame ==
    ASSUME NEW o, NEW new, Mixed(o, new, new)
    PROVE  o = new
BY CellsDetermine DEF Mixed

\* The log holds repeatable commands, and leads from one keyspace of the trail to
\* the next.
Retraceable ==
    /\ \A n \in 1 .. Len(aof) : Repeatable(aof[n])
    /\ \A n \in 1 .. Len(aof) : \E r \in Execute(aof[n], trail[n], 0) : trail[n + 1] = r.db

\* Where the replay of n commands of the log over the snapshot path[j + 1] has
\* come: before the snapshot's place each key is as in the trail, but for fields
\* that are as in the snapshot and for keys that will be overwritten before that
\* place; from there on all are as in the trail.
Replayed(d, n, log, path, j) ==
    IF n >= j THEN d = path[n + 1]
    ELSE \A k \in Keys :
           \/ \E m \in n + 1 .. j : Overwrites(log[m], k)
           \/ Mixed(d[k], path[n + 1][k], path[j + 1][k])

RepeatInv ==
    /\ ServerTypeOK
    /\ trail[1] = EmptyDb
    /\ mode # "loading" => pos = 0
    /\ mode = "loading" /\ Retraceable =>
         \A j \in 0 .. Len(aof) : rdb = trail[j + 1] =>
            Persistent(db) /\ Replayed(db, pos, aof, trail, j)

\* The commands of the log and their keyspaces.
LEMMA LogTyped ==
    ASSUME ServerTypeOK, NEW n \in 1 .. Len(aof)
    PROVE  /\ aof[n] \in Commands /\ WellFormed(aof[n])
           /\ trail[n] \in Databases /\ trail[n + 1] \in Databases
<1>1. aof \in Seq(Commands) /\ trail \in Seq(Databases) /\ Len(trail) = Len(aof) + 1
  BY DEF ServerTypeOK
<1>2. n \in 1 .. Len(trail) /\ n + 1 \in 1 .. Len(trail)
  BY <1>1
<1>3. aof[n] \in Commands /\ trail[n] \in Databases /\ trail[n + 1] \in Databases
  BY <1>1, <1>2
<1> QED
  BY <1>3, CommandsAssumption

\* From the empty keyspace, whatever the times, repeatable commands lead only
\* through keyspaces without deadlines, in which a key that none of them has
\* overwritten holds a hash or nothing.
LEMMA TrailSteady ==
    ASSUME ServerTypeOK, trail[1] = EmptyDb, NEW t,
           \A n \in 1 .. Len(aof) : Repeatable(aof[n]),
           \A n \in 1 .. Len(aof) : \E r \in Execute(aof[n], trail[n], t) : trail[n + 1] = r.db
    PROVE  /\ \A n \in 1 .. Len(aof) + 1 : Persistent(trail[n])
           /\ \A n \in 1 .. Len(aof) + 1 : \A k \in Keys :
                (\A m \in 1 .. n - 1 : ~ Overwrites(aof[m], k)) => HashLike(trail[n][k])
           /\ Retraceable
<1> DEFINE Fine(n) ==
              /\ Persistent(trail[n])
              /\ \A k \in Keys : (\A m \in 1 .. n - 1 : ~ Overwrites(aof[m], k))
                                   => HashLike(trail[n][k])
           T == {n \in Nat : n <= Len(aof) => Fine(n + 1)}
<1>0. Len(aof) \in Nat
  BY DEF ServerTypeOK
<1>1. 0 \in T
  <2>1. Persistent(trail[1]) /\ \A k \in Keys : HashLike(trail[1][k])
    BY EmptyDbPersistent DEF EmptyDb, HashLike
  <2> QED
    BY <2>1
<1>2. ASSUME NEW n \in T PROVE n + 1 \in T
  <2> SUFFICES ASSUME n + 1 <= Len(aof) PROVE Fine(n + 2)
    BY <1>0
  <2> DEFINE c == aof[n + 1]
  <2>1. n + 1 \in 1 .. Len(aof) /\ (n + 1) + 1 = n + 2
    BY <1>0
  <2>2. Fine(n + 1)
    BY <1>0, <2>1
  <2>3. /\ WellFormed(c) /\ trail[n + 1] \in Databases /\ Repeatable(c) /\ Durable(c)
    BY <2>1, LogTyped, RepeatableIsDurable
  <2>4. PICK r \in Execute(c, trail[n + 1], t) : trail[n + 2] = r.db
    BY <2>1
  <2> HIDE DEF c
  <2>5. Persistent(trail[n + 2])
    BY <2>2, <2>3, <2>4, ExecuteSettled
  <2>6. ASSUME NEW k \in Keys, \A m \in 1 .. (n + 2) - 1 : ~ Overwrites(aof[m], k)
        PROVE  HashLike(trail[n + 2][k])
    <3>1. ~ Overwrites(c, k) /\ \A m \in 1 .. (n + 1) - 1 : ~ Overwrites(aof[m], k)
      BY <2>1, <2>6 DEF c
    <3>2. HashLike(trail[n + 1][k])
      BY <2>2, <3>1
    <3>3. trail[n + 2][k] = Effect(c, k, trail[n + 1][k])
      BY <2>2, <2>3, <2>4, EffectOf
    <3>4. CASE c.name \in {"HSET", "HDEL"}
      BY <2>3, <3>2, <3>3, <3>4, HashWritten
    <3>5. CASE \A o : Effect(c, k, o) = o
      <4>1. Effect(c, k, trail[n + 1][k]) = trail[n + 1][k]
        BY <3>5
      <4> QED
        BY <3>2, <3>3, <4>1
    <3> QED
      BY <2>3, <3>1, <3>4, <3>5, Kept
  <2> QED
    BY <2>5, <2>6
<1>3. T = Nat
  <2> HIDE DEF T
  <2> QED
    <3>1. T \subseteq Nat
      BY DEF T
    <3>2. 0 \in T /\ \A n \in T : n + 1 \in T
      BY <1>1, <1>2
    <3> QED
      BY <3>1, <3>2, Inductive
<1>4. ASSUME NEW n \in 1 .. Len(aof) + 1 PROVE Fine(n)
  <2>1. n - 1 \in Nat /\ n - 1 <= Len(aof) /\ (n - 1) + 1 = n
    BY <1>0
  <2>2. n - 1 \in T
    BY <1>3, <2>1
  <2> HIDE DEF Fine
  <2> QED
    BY <2>1, <2>2
<1>5. ASSUME NEW n \in 1 .. Len(aof)
      PROVE  \E r \in Execute(aof[n], trail[n], 0) : trail[n + 1] = r.db
  <2>1. Persistent(trail[n]) /\ WellFormed(aof[n]) /\ trail[n] \in Databases /\ Durable(aof[n])
    BY <1>0, <1>4, LogTyped, RepeatableIsDurable
  <2>2. Execute(aof[n], trail[n], t) = Execute(aof[n], trail[n], 0)
    BY <2>1, ExecuteSteady
  <2> QED
    BY <2>2
<1> QED
  BY <1>4, <1>5 DEF Retraceable

\* The steps beside a replay.
LEMMA RepeatBeside ==
    ASSUME RepeatInv, ServerTypeOK', trail'[1] = EmptyDb, mode' # "loading", pos' = 0
    PROVE  RepeatInv'
BY DEF RepeatInv

LEMMA RepeatSame ==
    ASSUME RepeatInv, ServerTypeOK', UNCHANGED <<db, mode, aof, rdb, pos, trail>>
    PROVE  RepeatInv'
BY DEF RepeatInv, Retraceable, Replayed

LEMMA RepeatStart ==
    ASSUME RepeatInv, ServerTypeOK', Start
    PROVE  RepeatInv'
<1>1. /\ mode = "down" /\ mode' = "loading" /\ db' = rdb /\ pos' = 0 /\ pos = 0
      /\ UNCHANGED <<aof, rdb, trail>>
  BY DEF Start, files, history, RepeatInv
<1>2. ServerTypeOK /\ trail[1] = EmptyDb /\ Len(aof) \in Nat
  BY DEF RepeatInv, ServerTypeOK
<1>3. ASSUME Retraceable, NEW j \in 0 .. Len(aof), rdb = trail[j + 1]
      PROVE  Persistent(rdb) /\ Replayed(db', pos', aof', trail', j)
  <2>1. /\ \A n \in 1 .. Len(aof) + 1 : Persistent(trail[n])
        /\ \A n \in 1 .. Len(aof) + 1 : \A k \in Keys :
                (\A m \in 1 .. n - 1 : ~ Overwrites(aof[m], k)) => HashLike(trail[n][k])
    BY <1>2, <1>3, TrailSteady DEF Retraceable
  <2>2. j + 1 \in 1 .. Len(aof) + 1 /\ (j + 1) - 1 = j
    BY <1>2
  <2>3. Persistent(rdb)
    BY <1>3, <2>1, <2>2
  <2>4. ASSUME NEW k \in Keys, \A n \in 1 .. j : ~ Overwrites(aof[n], k)
        PROVE  Mixed(rdb[k], trail[1][k], trail[j + 1][k])
    <3>1. HashLike(trail[j + 1][k])
      BY <2>1, <2>2, <2>4
    <3>2. HashLike(trail[1][k])
      BY <1>2 DEF EmptyDb, HashLike
    <3> QED
      BY <1>3, <3>1, <3>2 DEF Mixed
  <2>5. Replayed(rdb, 0, aof, trail, j)
    <3>1. CASE j = 0
      BY <1>3, <3>1 DEF Replayed
    <3>2. CASE j # 0
      BY <2>4, <3>2 DEF Replayed
    <3> QED
      BY <3>1, <3>2
  <2> QED
    BY <1>1, <2>3, <2>5
<1>4. (Retraceable)' => Retraceable
  BY <1>1 DEF Retraceable
<1>5. ASSUME Retraceable', NEW j \in 0 .. Len(aof'), rdb' = trail'[j + 1]
      PROVE  Persistent(db') /\ Replayed(db', pos', aof', trail', j)
  BY <1>1, <1>3, <1>4, <1>5
<1> QED
  BY <1>1, <1>2, <1>5 DEF RepeatInv

\* A command of the log is replayed: what it overwrites is as after it, and what it
\* writes a field of keeps its other fields.
LEMMA RepeatReplay ==
    ASSUME RepeatInv, ServerTypeOK', ReplayOne
    PROVE  RepeatInv'
<1> DEFINE c == aof[pos + 1]
           old == trail[pos + 1]
           new == trail[pos + 2]
<1>1. /\ ServerTypeOK /\ trail[1] = EmptyDb /\ mode = "loading" /\ mode' = "loading"
      /\ pos \in Nat /\ Len(aof) \in Nat /\ pos < Len(aof) /\ pos' = pos + 1
      /\ db \in Databases /\ db' \in Databases /\ UNCHANGED <<aof, rdb, trail>>
  BY DEF ReplayOne, files, history, RepeatInv, ServerTypeOK, TypeOK
<1>2. pos + 1 \in 1 .. Len(aof) /\ (pos + 1) + 1 = pos + 2
  BY <1>1
<1>3. WellFormed(c) /\ old \in Databases /\ new \in Databases
  BY <1>1, <1>2, LogTyped
<1>4. PICK r \in Execute(c, db, now) : db' = r.db
  BY DEF ReplayOne
<1>5. (Retraceable)' => Retraceable
  BY <1>1 DEF Retraceable
<1>6. ASSUME Retraceable, NEW j \in 0 .. Len(aof), rdb = trail[j + 1]
      PROVE  Persistent(db') /\ Replayed(db', pos + 1, aof, trail, j)
  <2>1. Persistent(db) /\ Replayed(db, pos, aof, trail, j)
    BY <1>1, <1>6 DEF RepeatInv
  <2>2. Repeatable(c) /\ Durable(c)
    BY <1>2, <1>6, RepeatableIsDurable DEF Retraceable
  <2>3. PICK q \in Execute(c, old, 0) : new = q.db
    BY <1>2, <1>6 DEF Retraceable
  <2>4. Persistent(old)
    <3>1. \A n \in 1 .. Len(aof) + 1 : Persistent(trail[n])
      BY <1>1, <1>6, TrailSteady DEF Retraceable
    <3>2. pos + 1 \in 1 .. Len(aof) + 1
      BY <1>1
    <3> QED
      BY <3>1, <3>2
  <2> HIDE DEF c, old, new
  <2>5. Persistent(db')
    BY <1>1, <1>3, <1>4, <2>1, <2>2, ExecuteSettled
  <2>6. /\ \A k \in Keys : db'[k] = Effect(c, k, db[k])
        /\ \A k \in Keys : new[k] = Effect(c, k, old[k])
    BY <1>1, <1>3, <1>4, <2>1, <2>2, <2>3, <2>4, EffectOf
  <2>7. CASE pos >= j
    <3>1. db = old
      BY <2>1, <2>7 DEF Replayed, old
    <3>2. db' = new
      <4>1. \A k \in Keys : db'[k] = new[k]
        BY <2>6, <3>1
      <4> QED
        BY <1>1, <1>3, <4>1 DEF Databases
    <3>3. pos + 1 >= j /\ db' = trail[(pos + 1) + 1]
      BY <1>1, <1>2, <2>7, <3>2 DEF new
    <3> QED
      BY <2>5, <3>3 DEF Replayed
  <2>8. CASE ~ (pos >= j)
    <3>1. ASSUME NEW k \in Keys, \A m \in (pos + 1) + 1 .. j : ~ Overwrites(aof[m], k)
          PROVE  Mixed(db'[k], new[k], trail[j + 1][k])
      <4>1. CASE Overwrites(c, k)
        <5>1. c.args # << >>
          BY <2>2, <4>1 DEF Overwrites, Names, ToSet, Repeatable
        <5>2. Effect(c, k, db[k]) = Effect(c, k, old[k])
          BY <2>2, <4>1, <5>1, Overwritten
        <5> QED
          BY <2>6, <5>2 DEF Mixed
      <4>2. CASE ~ Overwrites(c, k)
        <5>1. \A m \in pos + 1 .. j : ~ Overwrites(aof[m], k)
          <6>1. \A m \in pos + 1 .. j : m = pos + 1 \/ m \in (pos + 1) + 1 .. j
            BY <1>1
          <6> QED
            BY <3>1, <4>2, <6>1 DEF c
        <5>2. Mixed(db[k], old[k], trail[j + 1][k])
          BY <2>1, <2>8, <5>1 DEF Replayed, old
        <5>3. Mixed(Effect(c, k, db[k]), Effect(c, k, old[k]), trail[j + 1][k])
          BY <1>3, <2>2, <4>2, <5>2, MixedKept
        <5> QED
          BY <2>6, <5>3
      <4> QED
        BY <4>1, <4>2
    <3>2. CASE pos + 1 >= j
      <4>1. j = pos + 1 /\ j + 1 = pos + 2
        BY <1>1, <2>8, <3>2
      <4>2. \A m \in (pos + 1) + 1 .. j : FALSE
        BY <1>1, <4>1
      <4>3. \A k \in Keys : Mixed(db'[k], new[k], new[k])
        BY <3>1, <4>1, <4>2 DEF new
      <4>4. \A k \in Keys : db'[k] = new[k]
        BY <4>3, MixedSame
      <4>5. db' = new
        BY <1>1, <1>3, <4>4 DEF Databases
      <4>6. db' = trail[(pos + 1) + 1]
        BY <1>2, <4>5 DEF new
      <4> QED
        BY <2>5, <3>2, <4>6 DEF Replayed
    <3>3. CASE ~ (pos + 1 >= j)
      <4>1. new = trail[(pos + 1) + 1]
        BY <1>2 DEF new
      <4>2. \A k \in Keys :
               \/ \E m \in (pos + 1) + 1 .. j : Overwrites(aof[m], k)
               \/ Mixed(db'[k], trail[(pos + 1) + 1][k], trail[j + 1][k])
        BY <3>1, <4>1
      <4> QED
        BY <2>5, <3>3, <4>2 DEF Replayed
    <3> QED
      BY <3>2, <3>3
  <2> QED
    BY <2>7, <2>8
<1>7. ASSUME Retraceable', NEW j \in 0 .. Len(aof'), rdb' = trail'[j + 1]
      PROVE  Persistent(db') /\ Replayed(db', pos', aof', trail', j)
  BY <1>1, <1>5, <1>6, <1>7
<1> QED
  BY <1>1, <1>7 DEF RepeatInv

LEMMA RepeatInit == ServerInit => RepeatInv
  BY ServerTypeInit DEF ServerInit, RepeatInv

\* Every step preserves what a repeated log rests on.
LEMMA RepeatStep == RepeatInv /\ [ServerNext]_svars => RepeatInv'
<1> SUFFICES ASSUME RepeatInv, [ServerNext]_svars PROVE RepeatInv'
  OBVIOUS
<1>1. ServerTypeOK /\ ServerTypeOK' /\ trail[1] = EmptyDb
  BY ServerTypeStep DEF RepeatInv
<1>2. ASSUME NEW c \in Commands, Serve(c) PROVE RepeatInv'
  <2>1. mode' # "loading" /\ pos' = 0
    BY <1>2 DEF Serve, RepeatInv
  <2>2. trail'[1] = EmptyDb
    <3>1. trail' = trail \/ trail' = Append(trail, db')
      BY <1>2 DEF Serve
    <3>2. trail \in Seq(Databases) /\ trail' \in Seq(Databases) /\ Len(trail) >= 1
      BY <1>1 DEF ServerTypeOK
    <3>3. db' \in Databases
      BY <1>1 DEF ServerTypeOK, TypeOK
    <3>4. Append(trail, db')[1] = trail[1]
      BY <3>2, <3>3
    <3> QED
      BY <1>1, <3>1, <3>4
  <2> QED
    BY <1>1, <2>1, <2>2, RepeatBeside
<1>3. CASE ExpireCheck
  BY <1>1, <1>3, RepeatBeside DEF ExpireCheck, history, RepeatInv
<1>4. CASE ClockTick
  BY <1>1, <1>4, RepeatSame DEF ClockTick, Elapse, files, history
<1>5. CASE Crash \/ Stop \/ StopInterrupted
  BY <1>1, <1>5, RepeatBeside DEF Crash, Stop, StopInterrupted, GoDown
<1>6. CASE Start
  BY <1>1, <1>6, RepeatStart
<1>7. CASE ReplayOne
  BY <1>1, <1>7, RepeatReplay
<1>8. CASE Ready
  BY <1>1, <1>8, RepeatBeside DEF Ready, history
<1>9. CASE UNCHANGED svars
  BY <1>1, <1>9, RepeatSame DEF svars, vars, files, history
<1> QED
  BY <1>2, <1>3, <1>4, <1>5, <1>6, <1>7, <1>8, <1>9 DEF ServerNext, NextWithoutStop

\* The log replayed over a snapshot of whatever moment, which holds its effects
\* already: if every command of it sets what it names whatever there was, the
\* keyspace served before is restored, for every log, every snapshot the server
\* has saved whole and every interleaving of stops, crashes and starts.
THEOREM RepeatableCorrect == ServerSpec => []RecoveryRepeatable
<1>1. RepeatInv => RecoveryRepeatable
  <2> SUFFICES ASSUME RepeatInv, Loaded, TrailComplete,
                      \A n \in 1 .. Len(aof) : Repeatable(aof[n])
               PROVE  db = acked
    BY DEF RecoveryRepeatable
  <2>1. /\ ServerTypeOK /\ trail[1] = EmptyDb /\ Len(aof) \in Nat
        /\ trail \in Seq(Databases) /\ Len(trail) = Len(aof) + 1
    BY DEF RepeatInv, ServerTypeOK
  <2>2. \A n \in 1 .. Len(aof) : \E r \in Execute(aof[n], trail[n], now) : trail[n + 1] = r.db
    BY DEF TrailComplete
  <2>3. Retraceable
    BY <2>1, <2>2, TrailSteady
  <2>4. PICK n \in 1 .. Len(trail) : rdb = trail[n]
    BY DEF TrailComplete, ToSet
  <2>5. n - 1 \in 0 .. Len(aof) /\ (n - 1) + 1 = n
    BY <2>1
  <2>6. Replayed(db, pos, aof, trail, n - 1)
    BY <2>3, <2>4, <2>5 DEF RepeatInv, Loaded
  <2>7. pos = Len(aof) /\ pos >= n - 1
    BY <2>1, <2>5 DEF Loaded
  <2>8. db = trail[pos + 1]
    BY <2>6, <2>7 DEF Replayed
  <2> QED
    BY <2>1, <2>7, <2>8 DEF TrailComplete
<1> QED
  BY <1>1, RepeatInit, RepeatStep, PTL DEF ServerSpec
=============================================================================
