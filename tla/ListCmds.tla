----------------------------- MODULE ListCmds ------------------------------
(***************************************************************************)
(* The handlers of list_cmd.cpp.                                           *)
(***************************************************************************)
EXTENDS Objects

Pushed(args) == SubSeq(args, 2, Len(args))

GetList(o, now) ==
    LET obj == LazyCheck(o, now) IN IF HasType(obj, "list") THEN obj ELSE Null

\* Mutant: the object is fetched before the lazy check.
GetBeforeCheck(o, now) ==
    IF o = Null THEN CreateList ELSE IF HasType(o, "list") THEN o ELSE Null

GetOrCreateList(o, now) ==
    IF LazyCheck(o, now) = Null THEN CreateList ELSE GetList(o, now)

\* LPUSH and RPUSH, which differ in the list they make of the old one.
Push(args, o, now, Joined(_)) ==
    LET obj == GetOrCreateList(o, now)
    IN  IF Len(args) < 2 THEN Outcome(o, Error)
        ELSE IF obj = Null THEN Outcome(LazyCheck(o, now), WrongType)
        ELSE Outcome([obj EXCEPT !.list = Joined(obj.list)],
                     Number(Len(Joined(obj.list))))

LPushCmd(args, o, now) ==
    Push(args, o, now, LAMBDA list : Reverse(Pushed(args)) \o list)
RPushCmd(args, o, now) ==
    Push(args, o, now, LAMBDA list : list \o Pushed(args))

\* A count was given, and it is not a number or is negative.
BadCount(args) == Len(args) >= 2 /\ args[2] \notin Nat

\* LPOP and RPOP take at most this many elements of list.
PopCount(args, list) ==
    LET count == IF Len(args) >= 2 THEN args[2] ELSE 1
    IN  IF count < Len(list) THEN count ELSE Len(list)

\* What is left under the key and the reply, once "popped" has been taken and
\* "rest" remains.
Popped(args, obj, popped, rest) ==
    Outcome(IF rest = << >> THEN Null ELSE [obj EXCEPT !.list = rest],
            IF Len(args) >= 2 THEN Array(popped)
            ELSE IF popped = << >> THEN NilBulk ELSE Bulk(popped[1]))

LPopCmd(args, o, now) ==
    LET obj == GetList(o, now)
        n   == PopCount(args, obj.list)
    IN  IF BadCount(args) THEN Outcome(o, Error)
        ELSE IF obj = Null THEN Outcome(LazyCheck(o, now), NilBulk)
        ELSE Popped(args, obj, SubSeq(obj.list, 1, n),
                    SubSeq(obj.list, n + 1, Len(obj.list)))

RPopCmd(args, o, now) ==
    LET obj  == GetList(o, now)
        keep == Len(obj.list) - PopCount(args, obj.list)
    IN  IF BadCount(args) THEN Outcome(o, Error)
        ELSE IF obj = Null THEN Outcome(LazyCheck(o, now), NilBulk)
        ELSE Popped(args, obj, Reverse(SubSeq(obj.list, keep + 1, Len(obj.list))),
                    SubSeq(obj.list, 1, keep))

LLenCmd(args, o, now) ==
    LET obj == GetList(o, now)
    IN  Outcome(LazyCheck(o, now), Number(IF obj = Null THEN 0 ELSE Len(obj.list)))

LRangeCmd(args, o, now) ==
    LET obj == GetList(o, now)
    IN  IF Len(args) < 3 \/ args[2] \notin Int \/ args[3] \notin Int
        THEN Outcome(o, Error)
        ELSE Outcome(LazyCheck(o, now),
                     IF obj = Null THEN EmptyArray
                     ELSE Array(Slice(obj.list, args[2], args[3])))

LIndexCmd(args, o, now) ==
    LET obj == GetList(o, now)
        at  == IF args[2] < 0 THEN args[2] + Len(obj.list) ELSE args[2]
    IN  IF Len(args) < 2 \/ args[2] \notin Int THEN Outcome(o, Error)
        ELSE Outcome(LazyCheck(o, now),
                     IF obj = Null \/ at \notin 0 .. Len(obj.list) - 1 THEN NilBulk
                     ELSE Bulk(obj.list[at + 1]))

ListNames == {"LPUSH", "RPUSH", "LPOP", "RPOP", "LLEN", "LRANGE", "LINDEX"}

ListHandler(name, args, o, now) ==
    CASE name = "LPUSH"  -> LPushCmd(args, o, now)
      [] name = "RPUSH"  -> RPushCmd(args, o, now)
      [] name = "LPOP"   -> LPopCmd(args, o, now)
      [] name = "RPOP"   -> RPopCmd(args, o, now)
      [] name = "LLEN"   -> LLenCmd(args, o, now)
      [] name = "LRANGE" -> LRangeCmd(args, o, now)
      [] name = "LINDEX" -> LIndexCmd(args, o, now)
=============================================================================
