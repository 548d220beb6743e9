------------------------------ MODULE Objects ------------------------------
(***************************************************************************)
(* The values a key can hold (object.h), their time to live (expire.cpp)   *)
(* and the replies a command can give (resp_codec.cpp, by what they say).  *)
(*                                                                         *)
(* Strings are data.  A key is a member of Keys; a value, hash field or    *)
(* member is a member of Elems, a set of integers, so that < stands for    *)
(* the order std::string gives them; the other words of a command are      *)
(* numbers, the option words below, or Junk, a word that is neither.       *)
(***************************************************************************)
EXTENDS Integers, Sequences, FiniteSets, SequencesExt

CONSTANTS
    Keys,           \* the strings used as keys
    Elems,          \* the strings used as values, fields and members
    Null,           \* nullptr: what Dict::Get returns for an absent key
    NoExpiry,       \* expire_at = nullopt
    Junk,           \* a word that is neither a number nor an option
    EX, PX, NX, XX, \* the option words of SET
    WITHSCORES,     \* the option word of ZRANGE and ZREVRANGE
    SecondMs        \* clock units in a second: 1000 in the code

ASSUME ElemsAssumption == Elems \subseteq Int

ASSUME WordsAssumption ==
    /\ {Null, Junk, EX, PX, NX, XX, WITHSCORES} \cap Int = {}
    /\ Null \notin Keys
    /\ NoExpiry \notin Int

ASSUME SecondAssumption == SecondMs \in Nat \ {0}

\* Scores of at most six digits: operator<< prints exactly these unchanged.
Scores == {s \in Int : -999999 <= s /\ s <= 999999}

-----------------------------------------------------------------------------
(* Objects.  std::variant is a record whose payload field is named after   *)
(* the type; a hash or a sorted set is a total function with Null where    *)
(* there is no such field or member.                                       *)

Expiry == Nat \cup {NoExpiry}

StringObjects == [type : {"string"}, exp : Expiry, string : Elems]
HashObjects   == [type : {"hash"}, exp : Expiry, hash : [Elems -> Elems \cup {Null}]]
ListObjects   == [type : {"list"}, exp : Expiry, list : Seq(Elems)]
SetObjects    == [type : {"set"}, exp : Expiry, set : SUBSET Elems]
ZSetObjects   == [type : {"zset"}, exp : Expiry, zset : [Elems -> Scores \cup {Null}]]

Objects == StringObjects \cup HashObjects \cup ListObjects \cup SetObjects
              \cup ZSetObjects

MaybeObjects == Objects \cup {Null}

\* nullptr is not an object.
ASSUME NullAssumption == Null \notin Objects

CreateString(v) == [type |-> "string", exp |-> NoExpiry, string |-> v]
CreateHash == [type |-> "hash", exp |-> NoExpiry, hash |-> [f \in Elems |-> Null]]
CreateList == [type |-> "list", exp |-> NoExpiry, list |-> << >>]
CreateSet  == [type |-> "set", exp |-> NoExpiry, set |-> {}]
CreateZSet == [type |-> "zset", exp |-> NoExpiry, zset |-> [m \in Elems |-> Null]]

\* The fields of a hash, or the members of a sorted set.
Present(f) == {x \in Elems : f[x] # Null}

HasType(o, type) == o # Null /\ o.type = type

-----------------------------------------------------------------------------
(* ExpireManager, for one key.                                             *)

IsExpired(o, now) == o # Null /\ o.exp # NoExpiry /\ o.exp <= now

\* What CheckExpire leaves of the object stored under the key it is given.
LazyCheck(o, now) == IF IsExpired(o, now) THEN Null ELSE o

SetExpire(o, at) == [o EXCEPT !.exp = at]

\* GetTTL, in whole units of "unit" clock units (seconds, or the clock's own);
\* duration_cast rounds toward zero.
GetTTL(o, now, unit) ==
    IF o = Null THEN -2
    ELSE IF o.exp = NoExpiry THEN -1
    ELSE LET left == o.exp - now
         IN  IF left <= -unit THEN -2 ELSE IF left < 0 THEN 0 ELSE left \div unit

-----------------------------------------------------------------------------
(* Helpers of several handlers.                                            *)

\* The indices of the first word of each pair of HSET and ZADD.
PairStarts(args) == {i \in 2 .. Len(args) : i % 2 = 0}

\* The last of the indices I at which args holds x: one index or none.
LastAt(I, args, x) ==
    {i \in I : args[i] = x /\ \A j \in I : args[j] = x => j <= i}

\* List::Range and SkipList::RangeByRank: the elements from start to stop,
\* counted from 0, or from the end when negative.
Slice(list, start, stop) ==
    LET size  == Len(list)
        from  == IF start < 0 THEN start + size ELSE start
        to    == IF stop < 0 THEN stop + size ELSE stop
        first == IF from < 0 THEN 0 ELSE from
        last  == IF to >= size THEN size - 1 ELSE to
    IN  SubSeq(list, first + 1, last + 1)

-----------------------------------------------------------------------------
(* Replies, and the outcomes of a command handler: what it leaves under    *)
(* its key and what it answers.  Arrays whose order is that of an          *)
(* unordered container are sets, of pairs when fields come with values, and *)
(* counted when they may repeat.                                           *)

Error        == <<"-ERR">>
WrongType    == <<"-WRONGTYPE">>
NilBulk      == <<"$-1">>
Simple(s)    == <<"+", s>>
Number(n)    == <<":", n>>
Bulk(s)      == <<"$", s>>
Array(s)     == <<"*", s>>
Unordered(S) == <<"~", S>>
PairsOf(S)   == <<"%", S>>
Counted(B)   == <<"#", B>>
EmptyArray   == Array(<< >>)

Outcome(o, r) == {[obj |-> o, reply |-> r]}
=============================================================================
