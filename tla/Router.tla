------------------------------- MODULE Router ------------------------------
(***************************************************************************)
(* CommandRouter (router.cpp) with its table of handlers, the handlers     *)
(* that work on several keys (DEL, EXISTS, KEYS), and the server's own     *)
(* commands (server.cpp).                                                  *)
(*                                                                         *)
(* A command is a record with its name, normalised, and its words.  The    *)
(* keyspace (Dict) is a function from Keys, Null where there is no object. *)
(***************************************************************************)
EXTENDS StringCmds, HashCmds, ListCmds, SetCmds, ZSetCmds

CONSTANTS
    Patterns,   \* the glob patterns KEYS is given
    Matches,    \* the keys each of them matches, by MatchGlob
    PONG        \* the word an empty PING is answered with

ASSUME MatchesAssumption == Matches \in [Patterns -> SUBSET Keys]

Databases == [Keys -> MaybeObjects]

EmptyDb == [k \in Keys |-> Null]

Used(db) == {k \in Keys : db[k] # Null}

Expired(db, now) == {k \in Keys : IsExpired(db[k], now)}

\* db without the objects of the keys in ks.
Without(db, ks) == [k \in Keys |-> IF k \in ks THEN Null ELSE db[k]]

Result(db, reply) == {[db |-> db, reply |-> reply]}

\* No lazy check here: an object whose time has passed counts.
DelCmd(args, db) ==
    Result(Without(db, ToSet(args)), Number(Cardinality(ToSet(args) \cap Used(db))))

ExistsCmd(args, db, now) ==
    LET checked == Without(db, ToSet(args) \cap Expired(db, now))
    IN  Result(checked,
               Number(Cardinality({i \in 1 .. Len(args) : checked[args[i]] # Null})))

KeysCmd(args, db, now) ==
    LET checked == Without(db, Expired(db, now))
    IN  Result(checked, Unordered(Matches[args[1]] \cap Used(checked)))

KeyNames == StringNames \cup HashNames \cup ListNames \cup SetNames \cup ZSetNames

KeyHandler(name, args, o, now) ==
    CASE name \in StringNames -> StringHandler(name, args, o, now)
      [] name \in HashNames   -> HashHandler(name, args, o, now)
      [] name \in ListNames   -> ListHandler(name, args, o, now)
      [] name \in SetNames    -> SetHandler(name, args, o, now)
      [] name \in ZSetNames   -> ZSetHandler(name, args, o, now)

\* PING, COMMAND and QUIT.
ServerNames == {"PING", "COMMAND", "QUIT"}

ServerReply(c) ==
    CASE c.name = "PING"    -> Bulk(IF c.args = << >> THEN PONG ELSE c.args[1])
      [] c.name = "COMMAND" -> EmptyArray
      [] c.name = "QUIT"    -> Simple("OK")

Registered(name) ==
    name \in KeyNames \cup ServerNames \cup {"DEL", "EXISTS", "KEYS"}

\* The results c can have on db: every handler but the server's own rejects a
\* command without words, and the name has to be registered.
Execute(c, db, now) ==
    IF ~ Registered(c.name) THEN Result(db, Error)
    ELSE IF c.name \in ServerNames THEN Result(db, ServerReply(c))
    ELSE IF c.args = << >> THEN Result(db, Error)
    ELSE IF c.name = "DEL" THEN DelCmd(c.args, db)
    ELSE IF c.name = "EXISTS" THEN ExistsCmd(c.args, db, now)
    ELSE IF c.name = "KEYS" THEN KeysCmd(c.args, db, now)
    ELSE {[db |-> [db EXCEPT ![c.args[1]] = out.obj], reply |-> out.reply] :
             out \in KeyHandler(c.name, c.args, db[c.args[1]], now)}

-----------------------------------------------------------------------------
(* The commands of the model: words where the handlers keep them are of    *)
(* the kind the objects hold.                                              *)

Words == Keys \cup {Junk, EX, PX, NX, XX, WITHSCORES} \cup Patterns
            \cup Int

WellFormed(c) ==
    /\ c.args \in Seq(Words)
    /\ c.name \in {"DEL", "EXISTS"} => c.args \in Seq(Keys)
    /\ c.name = "KEYS" /\ c.args # << >> => c.args[1] \in Patterns
    /\ c.name \in KeyNames /\ c.args # << >> => c.args[1] \in Keys
    /\ c.name = "SET" /\ Len(c.args) >= 2 => c.args[2] \in Elems
    /\ c.name \in {"HSET", "LPUSH", "RPUSH", "SADD"} =>
          \A i \in 2 .. Len(c.args) : c.args[i] \in Elems
    /\ c.name = "ZADD" =>
          \A i \in 2 .. Len(c.args) : i % 2 = 1 => c.args[i] \in Elems
=============================================================================
