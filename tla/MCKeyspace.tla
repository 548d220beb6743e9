----------------------------- MODULE MCKeyspace ----------------------------
(***************************************************************************)
(* Commands and values for model checking Keyspace.                        *)
(***************************************************************************)
EXTENDS Keyspace

CONSTANTS k1, k2, all, onlyK1    \* two keys, and two patterns

Cmd(name, args) == [name |-> name, args |-> args]

MCElems == {1, 2}

MCSize == [e \in MCElems |-> e]

MCMatches == [p \in {all, onlyK1} |-> IF p = all THEN Keys ELSE {k1}]

\* Every key can be due at the same time.
BurstCommands == {Cmd("SET", <<k, 1, PX, 1>>) : k \in Keys}

\* Strings, deadlines and the commands over several keys.
StringCommands ==
    {Cmd("SET", <<k1, 1>>), Cmd("SET", <<k1, 1, PX, 1>>), Cmd("SET", <<k1, 2, EX, 1, NX>>),
     Cmd("SET", <<k1, 2, XX, PX, 3>>), Cmd("SET", <<k1, 2, NX, XX>>),
     Cmd("SET", <<k1, 1, EX, Junk>>), Cmd("SET", <<k1, 1, PX>>), Cmd("SET", <<k2, 1, PX, 2>>),
     Cmd("SET", <<k2, 2, PX, 3, EX, 1>>), Cmd("SET", <<k1>>),
     Cmd("GET", <<k1>>), Cmd("GET", << >>), Cmd("TYPE", <<k1>>),
     Cmd("EXPIRE", <<k1, 1>>), Cmd("EXPIRE", <<k1, -3>>), Cmd("EXPIRE", <<k1, Junk>>),
     Cmd("PEXPIRE", <<k1, 1>>), Cmd("PEXPIRE", <<k2, 0>>),
     Cmd("TTL", <<k1>>), Cmd("PTTL", <<k1>>),
     Cmd("DEL", <<k1>>), Cmd("DEL", <<k1, k2, k1>>), Cmd("EXISTS", <<k1, k2, k1>>),
     Cmd("KEYS", <<all>>), Cmd("KEYS", <<onlyK1>>),
     Cmd("PING", << >>), Cmd("COMMAND", << >>), Cmd("QUIT", << >>), Cmd("NOSUCH", <<k1>>)}
        \cup BurstCommands

\* The containers, on one key, with deadlines that can pass under them.
Deadlines == {Cmd("PEXPIRE", <<k1, 1>>)}

HashCommands ==
    {Cmd("HSET", <<k1, 1, 1>>), Cmd("HSET", <<k1, 1, 1, 2, 1>>),
     Cmd("HSET", <<k1, 2, 1, 2, 2>>), Cmd("HSET", <<k1, 1>>), Cmd("HSET", <<k1, 1, 1, 2>>),
     Cmd("HGET", <<k1, 1>>), Cmd("HDEL", <<k1, 1>>), Cmd("HDEL", <<k1, 1, 2, 1>>),
     Cmd("HEXISTS", <<k1, 2>>), Cmd("HKEYS", <<k1>>), Cmd("HVALS", <<k1>>),
     Cmd("HGETALL", <<k1>>), Cmd("HLEN", <<k1>>), Cmd("HSTRLEN", <<k1, 2>>),
     Cmd("HDEL", <<k1>>)}

ListCommands ==
    {Cmd("LPUSH", <<k1, 1>>), Cmd("LPUSH", <<k1, 1, 2>>), Cmd("RPUSH", <<k1, 2>>),
     Cmd("RPUSH", <<k1, 1, 2>>), Cmd("LPUSH", <<k1>>),
     Cmd("LPOP", <<k1>>), Cmd("LPOP", <<k1, 2>>), Cmd("LPOP", <<k1, -1>>),
     Cmd("RPOP", <<k1>>), Cmd("RPOP", <<k1, 2>>), Cmd("RPOP", <<k1, 0>>),
     Cmd("LLEN", <<k1>>), Cmd("LRANGE", <<k1, -2, 1>>), Cmd("LRANGE", <<k1, 1, Junk>>),
     Cmd("LINDEX", <<k1, -1>>), Cmd("LINDEX", <<k1, 5>>)}

SetCommands ==
    {Cmd("SADD", <<k1, 1>>), Cmd("SADD", <<k1, 2, 1, 2>>), Cmd("SADD", <<k1>>),
     Cmd("SREM", <<k1, 1>>), Cmd("SREM", <<k1, 1, 2, 1>>), Cmd("SISMEMBER", <<k1, 1>>),
     Cmd("SMEMBERS", <<k1>>), Cmd("SCARD", <<k1>>), Cmd("SPOP", <<k1>>),
     Cmd("SPOP", <<k1, 3>>), Cmd("SPOP", <<k1, 1>>), Cmd("SPOP", <<k1, -1>>)}

ZSetCommands ==
    {Cmd("ZADD", <<k1, 1, 1>>), Cmd("ZADD", <<k1, 2, 1, 1, 2>>),
     Cmd("ZADD", <<k1, 1, 2, 2, 2>>), Cmd("ZADD", <<k1, 1, 1, Junk, 2>>),
     Cmd("ZADD", <<k1, 1>>), Cmd("ZADD", <<k1, Junk, 1>>), Cmd("ZREM", <<k1, 1>>), Cmd("ZREM", <<k1, 1, 2>>),
     Cmd("ZSCORE", <<k1, 1>>), Cmd("ZRANK", <<k1, 2>>), Cmd("ZREVRANK", <<k1, 2>>),
     Cmd("ZRANGE", <<k1, 0, -1, WITHSCORES>>), Cmd("ZRANGE", <<k1, -1, 5>>),
     Cmd("ZREVRANGE", <<k1, 0, 0>>), Cmd("ZREVRANGE", <<k1, 0, -1, WITHSCORES>>),
     Cmd("ZCARD", <<k1>>)}

ContainerCommands ==
    HashCommands \cup ListCommands \cup SetCommands \cup ZSetCommands \cup Deadlines
        \cup {Cmd("SET", <<k1, 2>>), Cmd("TYPE", <<k1>>)}
=============================================================================
