------------------------------ MODULE MCServer -----------------------------
(***************************************************************************)
(* Commands and values for model checking Server.                          *)
(***************************************************************************)
EXTENDS Server

CONSTANTS k1, k2, all, onlyK1

Cmd(name, args) == [name |-> name, args |-> args]

MCElems == {1, 2}

MCSize == [e \in MCElems |-> e]

MCMatches == [p \in {all, onlyK1} |-> IF p = all THEN Keys ELSE {k1}]

\* Writes whose effect depends on the keyspace alone.
DurableCommands ==
    {Cmd("SET", <<k1, 1>>), Cmd("SET", <<k1, 2, NX>>), Cmd("SET", <<k2, 1, XX>>),
     Cmd("DEL", <<k1, k2>>), Cmd("HSET", <<k2, 1, 2>>), Cmd("HDEL", <<k2, 1>>),
     Cmd("LPUSH", <<k1, 1>>), Cmd("RPUSH", <<k1, 2, 1>>), Cmd("LPOP", <<k1>>),
     Cmd("RPOP", <<k1>>), Cmd("SADD", <<k2, 2>>), Cmd("SREM", <<k2, 2>>),
     Cmd("ZADD", <<k2, 5, 1>>), Cmd("ZREM", <<k2, 1>>), Cmd("LPOP", <<k1, Junk>>),
     Cmd("GET", <<k1>>), Cmd("KEYS", <<all>>)}

\* Writes that can be executed again over their own result, and others.
MixedCommands ==
    {Cmd("SET", <<k1, 1>>), Cmd("SET", <<k1, 2, PX, 1>>), Cmd("DEL", <<k1>>),
     Cmd("HSET", <<k1, 1, 2>>), Cmd("HDEL", <<k1, 1>>), Cmd("RPUSH", <<k1, 1>>),
     Cmd("SADD", <<k1, 1, 2>>), Cmd("ZADD", <<k1, 5, 1>>)}

PushCommands == {Cmd("RPUSH", <<k1, 1>>), Cmd("LPOP", <<k1>>)}
=============================================================================
