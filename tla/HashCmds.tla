----------------------------- MODULE HashCmds ------------------------------
(***************************************************************************)
(* The handlers of hash_cmd.cpp.                                           *)
(***************************************************************************)
EXTENDS Objects

CONSTANT Size   \* the length of each string of Elems, for HSTRLEN

ASSUME SizeAssumption == Size \in [Elems -> Nat]

GetHash(o, now) ==
    LET obj == LazyCheck(o, now) IN IF HasType(obj, "hash") THEN obj ELSE Null

GetOrCreateHash(o, now) ==
    IF LazyCheck(o, now) = Null THEN CreateHash ELSE GetHash(o, now)

\* hash with every pair of args assigned in turn: a field given twice keeps
\* the later value.
Assigned(hash, args) ==
    [f \in Elems |->
        LET at == LastAt(PairStarts(args), args, f)
        IN  IF at = {} THEN hash[f] ELSE args[(CHOOSE i \in at : TRUE) + 1]]

\* Mutant: every pair counts as a new field.
HSetCountingPairs(args, o, now) ==
    LET obj == GetOrCreateHash(o, now)
    IN  IF Len(args) < 3 \/ Len(args) % 2 # 1 THEN Outcome(o, Error)
        ELSE IF obj = Null THEN Outcome(LazyCheck(o, now), WrongType)
        ELSE Outcome([obj EXCEPT !.hash = Assigned(obj.hash, args)],
                     Number(Cardinality(PairStarts(args))))

HSetCmd(args, o, now) ==
    LET obj   == GetOrCreateHash(o, now)
        added == {args[i] : i \in PairStarts(args)} \ Present(obj.hash)
    IN  IF Len(args) < 3 \/ Len(args) % 2 # 1 THEN Outcome(o, Error)
        ELSE IF obj = Null THEN Outcome(LazyCheck(o, now), WrongType)
        ELSE Outcome([obj EXCEPT !.hash = Assigned(obj.hash, args)],
                     Number(Cardinality(added)))

HDelCmd(args, o, now) ==
    LET obj  == GetHash(o, now)
        gone == {args[i] : i \in 2 .. Len(args)} \cap Present(obj.hash)
        hash == [f \in Elems |-> IF f \in gone THEN Null ELSE obj.hash[f]]
    IN  IF Len(args) < 2 THEN Outcome(o, Error)
        ELSE IF obj = Null THEN Outcome(LazyCheck(o, now), Number(0))
        ELSE Outcome(IF Present(hash) = {} THEN Null ELSE [obj EXCEPT !.hash = hash],
                     Number(Cardinality(gone)))

\* A command that only looks: it answers missing unless the key holds a hash.
HashReader(o, now, missing, Answer(_)) ==
    LET obj == GetHash(o, now)
    IN  Outcome(LazyCheck(o, now), IF obj = Null THEN missing ELSE Answer(obj.hash))

\* The same for a command that names a field.
FieldReader(args, o, now, missing, Answer(_)) ==
    IF Len(args) < 2 THEN Outcome(o, Error)
    ELSE HashReader(o, now, missing,
                    LAMBDA h : IF h[args[2]] = Null THEN missing ELSE Answer(h[args[2]]))

HGetCmd(args, o, now)    == FieldReader(args, o, now, NilBulk, Bulk)
HExistsCmd(args, o, now) == FieldReader(args, o, now, Number(0), LAMBDA v : Number(1))
HStrLenCmd(args, o, now) == FieldReader(args, o, now, Number(0), LAMBDA v : Number(Size[v]))
HKeysCmd(args, o, now)   == HashReader(o, now, EmptyArray, LAMBDA h : Unordered(Present(h)))
HGetAllCmd(args, o, now) ==
    HashReader(o, now, EmptyArray,
               LAMBDA h : PairsOf({<<f, h[f]>> : f \in Present(h)}))
\* The values with their multiplicities.
HValsCmd(args, o, now) ==
    HashReader(o, now, EmptyArray,
               LAMBDA h : Counted([v \in {h[f] : f \in Present(h)} |->
                                       Cardinality({f \in Elems : h[f] = v})]))
HLenCmd(args, o, now) ==
    HashReader(o, now, Number(0), LAMBDA h : Number(Cardinality(Present(h))))

HashNames == {"HSET", "HGET", "HDEL", "HEXISTS", "HKEYS", "HVALS", "HGETALL", "HLEN",
              "HSTRLEN"}

HashHandler(name, args, o, now) ==
    CASE name = "HSET"    -> HSetCmd(args, o, now)
      [] name = "HDEL"    -> HDelCmd(args, o, now)
      [] name = "HGET"    -> HGetCmd(args, o, now)
      [] name = "HEXISTS" -> HExistsCmd(args, o, now)
      [] name = "HSTRLEN" -> HStrLenCmd(args, o, now)
      [] name = "HKEYS"   -> HKeysCmd(args, o, now)
      [] name = "HVALS"   -> HValsCmd(args, o, now)
      [] name = "HGETALL" -> HGetAllCmd(args, o, now)
      [] name = "HLEN"    -> HLenCmd(args, o, now)
=============================================================================
