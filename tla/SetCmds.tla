------------------------------ MODULE SetCmds ------------------------------
(***************************************************************************)
(* The handlers of set_cmd.cpp.                                            *)
(***************************************************************************)
EXTENDS Objects

Members(args) == {args[i] : i \in 2 .. Len(args)}

GetSet(o, now) ==
    LET obj == LazyCheck(o, now) IN IF HasType(obj, "set") THEN obj ELSE Null

\* Mutant: an object of another type gives way to a new set.
GetOrReplaceSet(o, now) ==
    IF HasType(LazyCheck(o, now), "set") THEN o ELSE CreateSet

GetOrCreateSet(o, now) ==
    IF LazyCheck(o, now) = Null THEN CreateSet ELSE GetSet(o, now)

\* obj holding "members" instead, or no object when that is none.
WithMembers(obj, members) ==
    IF members = {} THEN Null ELSE [obj EXCEPT !.set = members]

SAddCmd(args, o, now) ==
    LET obj == GetOrCreateSet(o, now)
    IN  IF Len(args) < 2 THEN Outcome(o, Error)
        ELSE IF obj = Null THEN Outcome(LazyCheck(o, now), WrongType)
        ELSE Outcome(WithMembers(obj, obj.set \cup Members(args)),
                     Number(Cardinality(Members(args) \ obj.set)))

SRemCmd(args, o, now) ==
    LET obj == GetSet(o, now)
    IN  IF Len(args) < 2 THEN Outcome(o, Error)
        ELSE IF obj = Null THEN Outcome(LazyCheck(o, now), Number(0))
        ELSE Outcome(WithMembers(obj, obj.set \ Members(args)),
                     Number(Cardinality(Members(args) \cap obj.set)))

\* A command that only looks: it answers missing unless the key holds a set.
SetReader(o, now, missing, Answer(_)) ==
    LET obj == GetSet(o, now)
    IN  Outcome(LazyCheck(o, now), IF obj = Null THEN missing ELSE Answer(obj.set))

SIsMemberCmd(args, o, now) ==
    IF Len(args) < 2 THEN Outcome(o, Error)
    ELSE SetReader(o, now, Number(0),
                   LAMBDA s : Number(IF args[2] \in s THEN 1 ELSE 0))
SMembersCmd(args, o, now) == SetReader(o, now, EmptyArray, Unordered)
SCardCmd(args, o, now) == SetReader(o, now, Number(0), LAMBDA s : Number(Cardinality(s)))

\* SPOP takes "count" members, all of them when there are fewer; which ones is
\* up to the random generator.
Draws(members, count) ==
    IF count > Cardinality(members) THEN {members}
    ELSE {P \in SUBSET members : Cardinality(P) = count}

DrawReply(args, popped) ==
    IF Len(args) >= 2 THEN Unordered(popped)
    ELSE IF popped = {} THEN NilBulk ELSE Bulk(CHOOSE m \in popped : TRUE)

SPopCmd(args, o, now) ==
    LET obj   == GetSet(o, now)
        count == IF Len(args) >= 2 THEN args[2] ELSE 1
    IN  IF Len(args) >= 2 /\ args[2] \notin Nat THEN Outcome(o, Error)
        ELSE IF obj = Null
             THEN Outcome(LazyCheck(o, now), IF Len(args) >= 2 THEN EmptyArray ELSE NilBulk)
        ELSE {[obj |-> WithMembers(obj, obj.set \ popped),
               reply |-> DrawReply(args, popped)] : popped \in Draws(obj.set, count)}

SetNames == {"SADD", "SREM", "SISMEMBER", "SMEMBERS", "SCARD", "SPOP"}

SetHandler(name, args, o, now) ==
    CASE name = "SADD"      -> SAddCmd(args, o, now)
      [] name = "SREM"      -> SRemCmd(args, o, now)
      [] name = "SISMEMBER" -> SIsMemberCmd(args, o, now)
      [] name = "SMEMBERS"  -> SMembersCmd(args, o, now)
      [] name = "SCARD"     -> SCardCmd(args, o, now)
      [] name = "SPOP"      -> SPopCmd(args, o, now)
=============================================================================
