---------------------------- MODULE StringCmds -----------------------------
(***************************************************************************)
(* The handlers of string_cmd.cpp that work on one key.  Here and in the   *)
(* modules of the other types a handler gets its words args (args[1] is    *)
(* the key, at least that word is there), the object o stored under the    *)
(* key and the clock, and yields the set of its possible outcomes.         *)
(***************************************************************************)
EXTENDS Objects

\* The words of SET that follow the value.
SetOptions(args) == {args[i] : i \in 3 .. Len(args)}

\* An option that takes a time has a positive number after it, every other
\* word is an option or such a number, and NX excludes XX.
SetRejected(args) ==
    \/ \E i \in 3 .. Len(args) :
          \/ /\ args[i] \in {EX, PX}
             /\ i = Len(args) \/ args[i + 1] \notin Nat \ {0}
          \/ /\ args[i] \notin {EX, PX, NX, XX}
             /\ i = 3 \/ args[i - 1] \notin {EX, PX}
    \/ {NX, XX} \subseteq SetOptions(args)

\* The last EX or PX decides: the index it has, if there is one.
LastTimed(args) ==
    {i \in 3 .. Len(args) : /\ args[i] \in {EX, PX}
                            /\ \A j \in i + 1 .. Len(args) : args[j] \notin {EX, PX}}

SetDeadline(args, now) ==
    IF LastTimed(args) = {} THEN NoExpiry
    ELSE LET i == CHOOSE i \in LastTimed(args) : TRUE
         IN  now + args[i + 1] * (IF args[i] = EX THEN SecondMs ELSE 1)

SetCmd(args, o, now) ==
    LET old == LazyCheck(o, now)
    IN  IF Len(args) < 2 \/ SetRejected(args) THEN Outcome(o, Error)
        ELSE IF \/ NX \in SetOptions(args) /\ old # Null
                \/ XX \in SetOptions(args) /\ old = Null
             THEN Outcome(old, NilBulk)
             ELSE Outcome(SetExpire(CreateString(args[2]), SetDeadline(args, now)),
                          Simple("OK"))

\* Mutant: GET without its lazy check.
GetWithoutCheck(args, o, now) ==
    Outcome(o, IF HasType(o, "string") THEN Bulk(o.string) ELSE NilBulk)

GetCmd(args, o, now) ==
    LET obj == LazyCheck(o, now)
    IN  Outcome(obj, IF HasType(obj, "string") THEN Bulk(obj.string) ELSE NilBulk)

\* Mutant: a time that is not positive is stored like any other.
ExpireAnyTime(args, o, now, unit) ==
    LET obj == LazyCheck(o, now)
    IN  IF Len(args) < 2 \/ args[2] \notin Int THEN Outcome(o, Error)
        ELSE IF obj = Null THEN Outcome(Null, Number(0))
        ELSE Outcome(SetExpire(obj, now + args[2] * unit), Number(1))

\* EXPIRE (unit = SecondMs) and PEXPIRE (unit = 1).
ExpireCmd(args, o, now, unit) ==
    LET obj == LazyCheck(o, now)
    IN  IF Len(args) < 2 \/ args[2] \notin Int THEN Outcome(o, Error)
        ELSE IF obj = Null THEN Outcome(Null, Number(0))
        ELSE IF args[2] > 0 THEN Outcome(SetExpire(obj, now + args[2] * unit), Number(1))
        ELSE Outcome(Null, Number(1))

\* TTL (unit = SecondMs) and PTTL (unit = 1).
TtlCmd(args, o, now, unit) ==
    LET obj == LazyCheck(o, now) IN Outcome(obj, Number(GetTTL(obj, now, unit)))

TypeCmd(args, o, now) ==
    LET obj == LazyCheck(o, now)
    IN  Outcome(obj, Simple(IF obj = Null THEN "none" ELSE obj.type))

\* RegisterStringCommands, and RegisterKeyCommands for the commands of one key.
StringNames == {"SET", "GET", "EXPIRE", "PEXPIRE", "TTL", "PTTL", "TYPE"}

StringHandler(name, args, o, now) ==
    CASE name = "SET"     -> SetCmd(args, o, now)
      [] name = "GET"     -> GetCmd(args, o, now)
      [] name = "EXPIRE"  -> ExpireCmd(args, o, now, SecondMs)
      [] name = "PEXPIRE" -> ExpireCmd(args, o, now, 1)
      [] name = "TTL"     -> TtlCmd(args, o, now, SecondMs)
      [] name = "PTTL"    -> TtlCmd(args, o, now, 1)
      [] name = "TYPE"    -> TypeCmd(args, o, now)
=============================================================================
