# A TLA+ verification of redis_like

`redis_like` (directory `src/`) is a small Redis server in C++: one thread, one
keyspace, five data types, time to live, a snapshot and an append-only log, behind a
socket server on epoll. The modules here model its keyspace, all its commands, its
expiry, its recovery, the skip list, the bytes of both files, the protocol decoder,
the connections and the key matcher; TLC checks them on small instances and TLAPS
proves for every instance the central facts about the keyspace, the invisibility of
its expiry, its recovery, the skip list, the decoder, the connections and the bytes of
both files.
Everything is translated from the C++; where the code and its own documents disagree,
a run shows it or the section *Disagreements* says so.

## Inventory

| component | state it keeps | operations | interacts with |
|---|---|---|---|
| objects (`object.h`) | type, payload, `expire_at` | five factories, `IsExpired` | held by the dictionary, shared by pointer |
| dictionary (`dict.h`) | key to object | Get, Set, Del, Exists, Keys, iteration | every handler, both expiry paths, the snapshot |
| expiry (`expire.cpp`) | none of its own | LazyCheck, PeriodicCheck, SetExpire, RemoveExpire, GetTTL | deletes from the dictionary |
| command handlers (`command/*.cpp`) | none | 42 commands; MatchGlob for KEYS | dictionary and expiry through `CmdContext` |
| router (`command/router.cpp`) | name to handler | Register, Exists, Execute, Normalize | called by ProcessCommand and by the replay |
| list helper, skip list (`ds/`) | nodes with levels, links, a score map | Range; Insert, Delete, GetScore, GetRank, RangeByRank | list and sorted set handlers, snapshot |
| server (`server.cpp`) | clients, `last_expire_check_`, `running_` | Init, Tick, Stop, ProcessCommand, PeriodicExpireCheck, LoadPersistedData, AppendToAof; OnAccept, OnClientEvent, FlushWriteBuf, CloseClient | everything |
| append-only file (`storage/aof.cpp`) | `appendonly.aof`, a buffered stream | Open, Append, Replay, Close, IsWriteCommand | written after each command, replayed at start |
| snapshot (`storage/rdb.cpp`) | `dump.rdb` | Save at Stop, Load at Init | whole dictionary |
| RESP codec (`resp_codec.cpp`) | one read buffer per client | Feed; reply builders | clients, and the replay of the log |
| event loop (`event_loop.cpp`) | fd to mask and callback | AddEvent, RemoveEvent, ModifyMask, Dispatch, RunOnce | sockets, server callbacks |
| `main.cpp` | `g_stop` | signal handler, the loop | Init, Tick, Stop |

One thread runs `RunOnce` (client callbacks, each executing whole commands) and
then `PeriodicExpireCheck`, so a command is atomic. What is hard is elsewhere:

* *time and staleness*: an expired object stays in the dictionary until some
  lazy or sampled check meets it, and each of the 42 handlers has to behave as
  if it were gone;
* *crash and restart*: memory is lost at any point between commands, in the middle
  of a replay, of a save or of an append; what comes back is built from two files
  written at different times, by running the commands again;
* *partial failure and refusals*: handlers that fail half way or are refused, the
  rule that decides what is logged, appends the disk takes a part of;
* *sampling*: which keys a periodic check reaches;
* *containers*: six handlers take the last element out and must remove the key;
* *linked structure*: a skip list whose levels, backward chain, tail and score map
  are kept in step by hand;
* *bytes cut anywhere*: reads that end inside a length or a word, sends that take a
  part of a reply buffer, files that end inside an entry;
* *events of one epoll_wait*: a callback may close a socket that has an event still to
  come, and its number may go to another client;
* *numeric edges*: negative times and indices, widths, NaN, lengths that look like
  markers.

What makes each part correct: expiry must be invisible (clients see what they
would if keys vanished on time) and must reclaim memory; containers must never
be empty, counts must be true, objects must not be replaced behind a client's
back; a restart must restore what was acknowledged; a start must end; the log
must hold whatever matters and be read back as it was written; the skip list must be
a function from members to scores; commands must be executed exactly as they were
sent, and answered in order, however the bytes travel; a matcher must end and match
what its pattern describes.

## Modules

```
Objects            values, deadlines, replies
  StringCmds HashCmds ListCmds SetCmds ZSetCmds     one per command file
    SortedSet       abstract: a sorted set, one call at a time
    SkipList        the linked lists; implements SortedSet
      MCSkipList, SkipListProofs
    Router          dictionary, dispatch, DEL EXISTS KEYS, PING COMMAND QUIT
      Keyspace        the running keyspace; implements EagerKeyspace
        MCKeyspace
        Server        log, snapshot, stops, crashes, starts, replay
          MCServer, ServerProofs (of Keyspace as well)
EagerKeyspace      abstract: keys vanish the moment they are due
RespCodec          the decoder and the encoding of commands  DecoderProofs
  Connection       sockets, event loop, peers                MCConnection, ConnectionProofs
  AppendOnlyFile   the bytes of the log                      MCAppendOnlyFile, AppendOnlyFileProofs
Snapshot           the bytes of the snapshot                 MCSnapshot, SnapshotProofs
Glob               the loop of MatchGlob                     MCGlob, GlobProofs
Induction          lemmas for the proofs: sets of naturals, steps repeated, functions defined downwards
```

The keyspace side takes commands as lists of words and the two files as a sequence of
commands and a keyspace; the byte side takes commands as opaque words. They meet in
three places: `CommandsExact` (Connection) says that the words a client sent are the
words executed; `IntactReplayed` (AppendOnlyFile) that the words logged are the words
replayed, which is how `Server` treats the log; `SnapshotReadsBack` (Snapshot) that the
keyspace saved is the keyspace loaded, which is how `Server` treats the snapshot. The
first two are proved for all commands, the third for all keyspaces.
`ReadersAgree` (SkipList) says that ranks and ranges are those that `ZSetCmds`
computes from the scores alone.

**Objects**. `std::variant` is a record whose payload field is named after the
type; `nullptr` is `Null`; `nullopt` is `NoExpiry`. Keys are model values;
values, fields and members are integers, so that `<` stands for the order of
`std::string`; option words are model values; `Junk` is a word that is neither
a number nor an option. Replies say what they say (an integer, a bulk string, an
array, `-ERR`, `-WRONGTYPE`), not how they are spelt. Arrays that come out of an
unordered container are sets or bags.

**StringCmds ... ZSetCmds**. One operator per handler, named after it. A handler
gets its words, the object stored under its key and the clock, and yields the
set of its outcomes, each the object it leaves and its reply. Only SPOP has
several. `LazyCheck` inside a handler is the call of `CheckExpire`, so an expired
object may be deleted even by a command that then answers "nothing here", and
is not when the arguments are rejected first. An object is shared by pointer, so
`db.Set` followed by mutation (GetOrCreate) is the mutated object under the key.
EXPIRE with PEXPIRE, and TTL with PTTL, differ in the unit only. ZREVRANGE
reverses the list instead of mirroring the indices. Scores have at most six
digits, which `operator<<` prints unchanged.

**Router**. `Execute(c, db, now)` is the set of `[db, reply]` a command can
produce, used by the running server and by the replay alike, as in the code.

**Keyspace**. Variables `db` (`db_`), `now` (the clock), `lastCheck`
(`last_expire_check_`), `reply`. Actions `ProcessCommand(c)`, `Elapse`,
`PeriodicExpireCheck`. The last one draws samples without replacement
(`Rounds`): of `SampleSize` keys, or of all that are left; another one while more
than a quarter of the last was expired; `MaxLoops` at most.

**EagerKeyspace** is the promise of expiry without a mechanism: `Elapse` removes what is
due, and handlers only ever see live objects. `Keyspace` implements it under the mapping
`db <- Live(db, now)`. The handlers are its parameters, so that it says nothing of what
they do, only of what they are given. DEL is the exception the abstract module allows
for: it may count keys that have vanished.

**Server** adds `mode`, the log `aof`, the snapshot `rdb`, the replay position `pos` and
the number of `starts`; and two history variables that no step depends on, `acked` (the
keyspace when the process last served) and `trail` (the keyspace after each logged
command). `Serve` is ProcessCommand with AppendToAof; `Stop` is the signal, the save
unless the keyspace is empty, and the end; `StopInterrupted` is a process that dies in
that save, which leaves what a torn file may be taken for: a part of the keys as they
were and at most one more, whose entry is cut (`Remnants`, as `TornSnapshotKept` in
Snapshot has it). Such an entry is a string with what was read of its deadline, if it is
cut ahead of its type; and otherwise of its own type, with its deadline, and with as
many elements as its count says, of which those that are not in the file are empty words
with a score of nothing. `Crash` is the end without a save, also during a start; `Start`
is the constructor and `RdbSaver::Load`; `ReplayOne` is one command of the replay, at
the time of the replay; `Ready` is the return of Init.

**SkipList** follows Insert and Delete pointer by pointer. Its state is that of the
class: the nodes at their addresses, `forward` per level, `backward`, `tail`, `level`,
`size`, `score_map`; and that of the call in progress: the node and level the search
has reached, and `update`. `Insert` and `Delete` are the calls; `Advance` is one turn
of either inner loop, `Descend` the step to the next level, `Link` and `Erase` the
changes of links at the end of a search. A new score for a member is a Delete inside
Insert (`call = "replace"`) and then a second search, as in the code. The height of a
node, random in the code, is any of `1 .. MaxLevel`. `SortedSet` is what the callers
believe: a function from members to scores, one answer per call. `GetRank`,
`MembersByRank` and `MembersByScore` are the walks of the readers.

**RespCodec**. A byte is a string of one character. `Unit` is what the decoder makes
of what stands at a position: a byte to skip, an array to skip, a command, or
something that is not all there; `Parse` repeats it, and `Feed` keeps what is left.
`Strtoll` skips white space, takes a sign and stops at the first byte that is no digit.
`Encode` is the encoding of AppendToAof, the benchmark client and the tests.

**Connection** composes the decoder with OnAccept, OnClientEvent (`Read`,
`ReadNothing`), SendResponse and FlushWriteBuf (`FlushWriteBuf`), CloseClient, and with
the event loop: `Wait` is epoll_wait, which reports any of the sockets that are ready,
and `Dispatch` calls one callback of those that were reported and not yet called, unless
its entry is gone. Peers connect, send bytes that are cut anywhere, read or do not,
shut down their side or reset the connection in the middle of a command. A descriptor
number is given out again, the lowest first. A send to a peer that has reset may also
raise SIGPIPE (`SigPipe`), for which the code installs nothing. A reply is its number.

**AppendOnlyFile** has the bytes of `appendonly.aof`, and the state of the stream:
`pending` is the command that it failed to write, whose bytes stay in its buffer, so
that nothing more is written until the process ends, when closing it tries once more.
`Refused` is a write of which the disk takes a part; `CrashInAppend` a process that
dies in the middle; `PowerLoss` a machine that stops before the system has written
what `flush` gave it. `Start` opens the file at its end and replays it.

**Snapshot** has the bytes of `dump.rdb`, with sizes scaled: a byte is a digit to base
`Base`, and a length, deadline or score takes two. `Save` and `Load` mirror the code
function by function, with a stream that is good or failed and reads zeros from then on.
A sorted set is written by score (`ByScore`); among equal scores, where the code goes by
member, the order is left open, as nothing in the file depends on it. `IsKeyspace` is
what a process can hold: the payload of an object has the shape of its type, and lengths
and times fit into the width they are written with. `CrashInSave` leaves any beginning
of the file. A deadline is stored in milliseconds and loses its fraction.

**Glob** is the loop of MatchGlob, one turn per action, one action per branch.
`Matches` is the definition of what a pattern means: `Places` lists, from the end of the
pattern to its beginning, from which positions on the key matches the rest. A class is
read from the left, as in the code, so that `[a-c-e]` is a range, a dash and an `e`.
Characters are any integers, since the code compares `char`s, which may be signed.
In the keyspace the result of the matcher is the constant function `Matches`.

Where a definition is there to show that a property has teeth, its comment says
*Mutant*: it is a plausible slip in that code, and the property it is paired with
in `PROJECT.json` fails when it takes the place of the definition it follows.

## Runs

Runs that pass (`tlc -config X.cfg M`; the module of `Server*.cfg` is MCServer, and so
on):

| cfg | properties | shows |
|---|---|---|
| KeyspaceStrings | TypeOK, LazyExpiryInvisible, BurstReclaimed, ExpiredReclaimed | 31 string, key and server commands over three keys, valid and invalid, with deadlines; a check that goes on from one expired sample to the next, and ends at its limit with a key left over; and memory that comes back without an access |
| KeyspaceContainers | NoEmptyContainer, LazyExpiryInvisible, CountsAgree, ObjectsKept | 62 container commands on one key that changes type, is emptied and expires under them |
| ServerCrash | ServerTypeOK, RecoveryInv, RecoveryExact, ReplayRetraces, UnloggedHarmless | kills anywhere, with commands whose effect depends on the keyspace only |
| ServerMixed | LastWriteWins, RecoveryRepeatable, StartupCompletes | stops, torn saves, kills and starts in any order, with plain writes, deadlines, elements of all types of container and type clashes on one key: what survives even so |
| SkipList | TypeOK, LevelsLinked, BackwardMirrors, IndexAgrees, ReadersAgree, ImplementsSortedSet, CallsReturn | every sequence of inserts, score changes and deletes, step by step |
| Connection | TypeOK, FragmentationInvisible, CommandsExact, RepliesInOrder, MaskMatches, ClosedForAReason, Answered, Closes | two peers on the loop, or one whose bytes are cut everywhere |
| AppendOnlyFile | TypeOK, IntactReplayed, WritesSurvive | the log through refused and torn writes, kills and power failures |
| Snapshot | TypeOK, SnapshotReadsBack, TornSnapshotKept | the snapshot of all types, whole or cut anywhere |
| Glob | NoFalseMatch, MatchExact, Terminates | the matcher over all short keys and patterns |

`ServerCrash` checks `RecoveryInv` because the proof rests on it.

Bounds, and why they are enough.

*Keyspace and Server.* Two keys are the least at which DEL, EXISTS and KEYS name
several. In `KeyspaceStrings` there are three: two samples of one, the most a check takes,
leave a third one over. Two elements are the least at which a container
has a proper nonempty part, a field can be new beside an old one, and ranks differ;
lists reach length `MaxList`. Handlers treat elements alike, and only compare them.
The clock runs to `MaxTime`, past the deadlines, and `SecondMs` is 2 so that seconds
and milliseconds differ. `MaxLog` 3 and `MaxStarts` 2 let a log be written before and
after a restart and a start be interrupted and repeated; a snapshot can then be older
than a part of the log and younger than another. `SampleSize` is 1
in place of 20 and `MaxLoops` 2 in place of 16.

*SkipList.* Three members, two scores (so that two members tie and one does not, or all
tie) and two levels: a node can be first, in the middle and last on each level, alone
on the upper level, above and below another. There are as many addresses as members,
since a node is freed before another is needed, so addresses are reused at once.

*Connection.* Two peers are the least at which one may take the descriptor of the
other, and one callback may change what another event of the same epoll_wait is for.
With two, each sends two commands of which the second is QUIT, cut inside and behind a
command; with one, streams with every kind of malformed input arrive in pieces of up
to `ReadSize` bytes, cut anywhere. `SendRoom` 1 makes every second reply wait.
`MaxArray` is 3 in place of 256.

*AppendOnlyFile.* Two acknowledged commands and two faults: a fault, a command behind
it and another fault. One of the two commands has a word that looks like the beginning
of another word, one a word that is an end of line; a piece may end at any byte.

*Snapshot.* Base 10 and two-digit numbers: small enough that the lengths that look like
a marker occur, and values have both digits. One or two keys, objects of all types with
empty and nonempty parts, deadlines with a fraction; all cuts; a second snapshot over
the first, and one made of what a torn one gave.

*Glob.* Keys of up to three characters, patterns of up to three pieces out of ten:
literals, both wildcards, classes plain, negated, with a range, with a range and a dash,
with a dash at the end, unclosed.

`CHECK_DEADLOCK FALSE` stands where the bounds end every behaviour, a stopped server is
not started again, peers have said all they mean to say, or the loop has ended.

Fairness. Keyspace's `FairSpec` has weak fairness of `Elapse` (time goes on) and of
`PeriodicExpireCheck` (each `Tick` ends with it, whatever clients do, and it is enabled
as soon as the period is over). `LoadingSpec` has weak fairness of `ReplayOne` and
`Ready`, since LoadPersistedData is straight-line code; a crash may always come first.
In SkipList (`Step`) and Glob (`Next`) a function that has been called runs on; calls
are not fair. In Connection the loop goes on: an event that was reported is dispatched
(weak fairness), and epoll, being level-triggered, reports a socket that is ready again
and again sooner or later (strong fairness of `Wait` per socket and readiness); a peer
in `Readers` keeps reading; that peers connect, send or leave is never fair. Commands,
crashes, stops and starts are never fair.

## Disagreements between the code and its documents

Each run below has one property that states the document and that TLC violates.

| cfg | what happens |
|---|---|
| ServerDoubleApply | with graceful stops only (`StopSpec`): RPUSH, stop, start: the element is there twice, from the snapshot and from the log, which is never truncated |
| AppendOnlyFileTorn | a process is killed while it appends; the next one appends behind the piece, which takes the following command for its rest, and so that command, acknowledged, is not replayed |
| SnapshotLongKey | a key of 255 (511, ...) bytes begins, in the file, with the byte of the end marker: it and all keys behind it are lost |

The properties of the passing runs are stated so that they hold in spite of the
following, each of which the model has as the code has it:

* DEL counts an expired key (string_cmd.cpp:185; DEVELOPMENT.md:155 asks for CheckExpire
  before every access): `EagerKeyspace!Results`.
* A sample is drawn from all keys, not from those with a deadline (expire.cpp:19;
  expire.h:16 says otherwise), so that an expired key can stay long if most have no
  deadline: `ExpiredReclaimed` and `BurstReclaimed`.
* Replayed deadlines start again, so an expired key is back after a start; a replayed
  SPOP draws another member; a ZADD that fails at its second score keeps the first pair,
  or leaves an empty sorted set, and is not logged: `Durable`, and the one step that
  `NoEmptyContainer` allows.
* A command refused with -WRONGTYPE is logged, since its reply does not begin with -ERR
  (server.cpp:176). Replayed over a snapshot, or after deadlines have moved, it may find
  the type it wants and take effect.
* A torn snapshot yields keys and words padded with zeros, containers filled up with
  empty elements, deadlines cut off, and no error: `TornSnapshotKept`, `Remnants`.
* A write the disk refuses is acknowledged, and so are all that follow:
  `IntactReplayed`, and the condition of `WritesSurvive`.
* An array element that is not a bulk string is taken for data still to come: the
  connection says nothing any more. A command of more than 256 words is dropped without
  a reply: `Speaks`.
* Commands pipelined behind a QUIT are executed and answered, and the connection closes
  behind the last reply: `ClosedForAReason`.
* A client that closes its side before it has read loses the replies that are still in
  the write buffer; one that resets may end the process by SIGPIPE: `Answered`,
  `ClosedForAReason`.
* A '*' of a pattern is compared with a '*' of the key literally before it is a
  wildcard; a class behind a star is never looked at; `[a]` matches a key that begins
  with a bracket: `MatchExact`, `NoFalseMatch`.
* Insert returns true for a changed score though skiplist.h:35 speaks of members newly
  added; the one caller asks GetScore first, and `SortedSet` has the code's answer.
* With NaN as a score, which strtod accepts, nothing is equal to anything and the list
  parts from the score map. SkipList's comparisons (`Less`, `Same`) know NaN; the run
  has ordered scores, as `IndexAgrees` is false otherwise.

## Proofs

`ServerProofs`, first of Keyspace: `TypeCorrect`, by one lemma per command file (each
outcome is an object of its type or Null), lifted through `KeyHandler` and `Execute`.
TypeOK is inductive; its content is in the handlers, where a payload is updated through
an object whose type was tested elsewhere, and in the deadlines, which must not be
negative.

The same module proves what expiry promises, `LazyExpiryNeverShows`: Keyspace implements
EagerKeyspace. A step of `Elapse` or of a periodic check only removes keys that are due,
so that it maps to the abstract clock or to a stutter. A command maps to the same
command because every handler yields, for an object whose time has passed, the outcomes
that it yields for none, once both are looked at as clients do (the `...Alike` lemmas,
one for each command file). DEL is compared with what the abstract module allows it to
count. `ObjectsAreKept` rests on the `...Follows` lemmas: what a handler leaves of a
visible object has its type and its deadline, but for SET, EXPIRE and PEXPIRE, and what
it makes of one whose time has passed is new. `BurstsAreReclaimed` is an induction over
the samples of one check: as long as all keys in use are expired a full sample is
fruitful, so the samples drawn are disjoint and full, up to the limit.

In it as well: `ContainersNeverEmpty`, that is `NoEmptyContainer`. The inductive
invariant is TypeOK with "what a key holds is finite and, but for a sorted set,
something" (the model counts elements with Cardinality, which says nothing of infinite
sets; commands name finitely many). A handler that takes elements out drops the key with
the last one, ZREM included, and one that creates a container puts something in before
it returns, also on its error paths; a type clash leaves what was there. The exception
is ZADD, which creates first: a step after which a sorted set is empty that was not is
one that answers with an error. `CountsAreRight`: what a command answers is what it did,
also when it names an element twice, when the key has expired under it, and when a pop
asks for more than there is. For a container that loses or gains elements the difference
of the sizes is the number of them (`Grown`, `Shrunk`); that this is the number the
handler counts, word by word, is the work of the lemmas. One lemma per command file,
lifted as above.

In the same module, of Server: `ServerTypeCorrect` for all steps, stops and torn saves
included; and the recovery theorems `RecoveryInvCorrect`, `RecoveryCorrect`,
`ReplayCorrect` and `UnloggedCorrect`, for a server that is only ever killed and
commands that are all `Durable` (no EXPIRE, PEXPIRE, SPOP, no SET with a time, no ZADD
with a bad score). The condition is sharp: deadlines, draws and half-done commands are
in the list above, and the graceful stop has its run. RecoveryExact is not inductive, as
it says nothing before a replay is over. `RecoveryInv` says that no snapshot exists,
that the trail starts from the empty keyspace, that each logged command leads from one
keyspace of the trail to the next, that no keyspace in it holds a deadline, that the
served (or last acknowledged) keyspace is the last of the trail, and that a replay at
position `pos` is at the keyspace of that position. It is preserved because a durable
command

* has the same results at every time on a keyspace without deadlines (`ExecuteSteady`),
  so the replay's clock does not matter,
* has one effect, leaves no deadline, and changes nothing if it is not logged
  (`ExecuteSettled`).

Both rest on one lemma per command file.

In the same module, `LastWriteCorrect`, for the whole server and all commands: whatever
the snapshot holds, even a torn one, and however deadlines and draws come out in the
replay, a key whose last logged command is a SET without options or a DEL comes out of a
start with that value, or is gone. The inductive `LastWriteInv` says that the replay has
settled, in this sense, what the commands up to `pos` say. It is preserved because a
logged command changes only the keys it names, and a SET or DEL leaves nothing of what
there was (`ExecuteWins`), and because nothing else happens to the keyspace while it is
being loaded but that the clock goes on.

And `RepeatableCorrect`, for a log of SET without options, DEL, HSET and HDEL that is
replayed over a snapshot which holds the effects of its first `j` commands already. The
replay then goes through keyspaces that never existed: while it is behind the snapshot,
an old field stands beside a later one. `RepeatInv` says how far they can be off
(`Replayed`): before position `j` each key will be overwritten as a whole by a command
still to come before `j`, or it differs from the keyspace of that position in fields
that have the snapshot's value (`Mixed`); behind `j` there is no difference. That the
difference is gone when `j` is reached is because a command that changes a field sets it
to what the trail has there, and what no command changes is the same in both. Type
clashes in the log are in it too: over an older type the command does nothing, as it did
then, or the key will be overwritten. The trail is the history of the run from the empty
keyspace (`trail[1] = EmptyDb`), and holds no deadlines as such commands set none.

`SkipListProofs`: `LevelsStayLinked`, `BackwardStaysMirrored`, `IndexStaysAgreed`,
`ReadersAlwaysAgree`, the type invariant, and the refinement of SortedSet
(`SkipListRefines`), for any members,
addresses and number of levels, at every pointer step. The inductive `IInv` is

* `Linked`: each level is a chain through the nodes that are tall enough, the way back
  is its mirror, `tail`, `level` and `size` are theirs;
* `Mapped`: the nodes hold what the score map says, but for the member that a Delete has
  taken out of the map already and not yet out of the list;
* `Called`: what the call in progress knows, for instance that a new score differs from
  the old;
* `Sought`: on the levels the search has left, `update` is the last node before the
  place sought, and `cur` is before it on the present one.

With `Sought`, the changes of links at the end are made at the right place on all levels
(`Chain` lemmas), and the node that Delete finds on the lowest level is the one that the
map had. The readers follow links and count, while `ZSetCmds` ranks members by their
scores; that both say the same rests on `Walk`: each step along level 0 goes from the
member of one rank to that of the next. What a walk collects is a recursive function
over the nodes, which is known once a solution of its equation is (`Backwards`: two
solutions agree from the end of the list on). The theorems have one hypothesis,
`Numbers`: all scores are numbers. NaN breaks the order on which everything rests (see
*Disagreements*).

`DecoderProofs`: `FeedSplit`, for any bytes, well formed or not, kept or new: the
decoder fed `a` and then `b` yields the commands it would have if fed `a \o b`, and
keeps the same rest. It rests on what one turn of the decoder sees. A unit that begins
in a part of the bytes is the same unit in all of them (`UnitWithin`) unless the part
ends inside it, and then the decoder stops before it and keeps it; a skipped array or
byte is skipped in both. So the turns over the whole are those over the first part, then
those over what was left with the second. Lengths, the elements of an array and the
units passed are recursive functions; that these have the values their equations say is
proved from well-founded sets of positions and by induction on sets of naturals, as no
induction theorem can be instantiated.

And `RoundTrip`: the text of any commands, that is their encodings one behind the other,
is decoded to these commands with nothing left over. Commands have from one word to
`MaxArray`, words any bytes and any length, so that a word may look like a length, an
end of line or a whole command. The steps are those of the encoding: `Decimal` is read
back as the number it was made from; a word is found by its length and not by its
contents; the words of a command are those of its elements; and a command in front of a
text is one unit of the decoder, which by `FeedSplit` leaves the rest to be decoded as if
it were alone. `CutDecoded` is the other side: a text cut off inside a command is
decoded to the commands before the cut, and the piece is kept and yields nothing.

`ConnectionProofs`: the type invariant of Connection, `FragmentationInvisible`,
`CommandsExact`, `RepliesInOrder`, `MaskMatches` and `ClosedForAReason`, for any number
of peers, any bytes, all sizes. None is inductive. `ConnInv` adds

* for each peer (`PeerInv`): nothing has come from it before it was accepted, which is
  what makes a fresh decoder right for it; no more replies are on their way than the
  kernel takes;
* for each socket (`SeatInv`): its entry, its owner and its mask are there or not
  together; no other socket has the same owner; what its client keeps (`ClientInv`) is
  what the decoder leaves of all bytes so far, and the replies not sent; a client marked
  for closing has sent a QUIT;
* for each event still to be dispatched (`EventInv`): there is no other for its socket,
  its socket is still in use, and if it says "readable" then there is something to read,
  or the peer is gone. This is what `ClosedForAReason` needs: an empty read closes the
  connection (server.cpp:136), and the callbacks in between must not have made the event
  stale.

Each event dispatched is one case; `Serving` is what reading and writing have in common:
a client that owes its peer exactly what has not been sent and whose socket is watched
for room exactly if its record says so, handed to FlushWriteBuf. A read uses `FeedSplit`
with what came before as the first part. `ExecutesExactly` puts three facts together:
what has been executed is what all bytes so far decode to (`FragmentationInvisible`),
these bytes are the beginning of what the peer means to send (`Sent`), and such a
beginning decodes to the commands it has in full (`CutDecoded`).

`AppendOnlyFileProofs`: the type invariant, of which the deepest part is that no command
without a name is replayed, whatever is in the file; `ReplaysWhatIsIntact` and
`ReplaysWhatIsAcked`, that is `IntactReplayed` and `WritesSurvive`, for any commands and
any number of refused writes, kills inside an append and power failures. The inductive
`AofInv` says what is in the file: the text of the intact commands; behind it nothing,
if no command was torn; a beginning of one command, if nothing was written behind that;
and otherwise any bytes. An append or a part of one at the end of the file keeps this,
and so does a file cut off at any byte: the commands that end before the cut are intact
still, and what is left of the next one is a piece. `WritesSurvive` needs `GoodInv` as
well: until something goes wrong the intact commands are the acknowledged ones, and the
stream is good. That a replay yields the intact commands is `RoundTrip`, `PieceDecoded`
if there is a piece, and `FeedSplit` for whatever stands behind it.

`SnapshotProofs`: the type invariant, `SnapshotIsReadBack` and `TornSnapshotIsKept`, for
keyspaces of any number of objects of all types, any words, any order of the keys and
any `Base`. The inductive `SnapshotInv` says that the file is a beginning of what `Save`
writes for the keyspace `saved` in the order `order`, which has each of its keys once.
The rest is about `Load`, in three layers.

* *Reading back*: where a word, a number, an item, all items of a value, an object, an
  entry stands in the file, the function that reads it returns it, and leaves the stream
  good and right behind it. For items and for entries, whose number is arbitrary, this
  is an induction over the turns of the loop, whose results are a recursive function.
  A set, a hash and a sorted set come out of the list of their items again because this
  lists each element once.
* *Cut off*: what one of these functions reads with success from a cut file it reads
  from the whole one, and a stream that has failed stays failed. So the keys that
  stand in the cut file in full are read as from the whole, and the turn after them,
  if it adds anything, is the last.
* *Kept*: that last turn can only add one key, whose name is the beginning of a key
  with zeros behind it, or the whole of it. It is not one of the plain keys read
  before, so that it does not replace any of them.

That what is loaded is a keyspace again (`SnapshotTypes`) holds for any bytes, also such
as no `Save` has written: counts and lengths are two digits, and a value that is cut
short is filled up with zeros, which are bytes.

`GlobProofs`: `MatchIsDescribed` and `MatchIsDecided`, that is `NoFalseMatch` and
`MatchExact`, for any keys and patterns. The functions of the model that are defined by
recursion towards the end of the pattern get their equations from `Descent` (Induction),
and `ClassRead` says that the loop over a class finds its members. The invariant has two
halves. `Sound`: if the key matches from where the loop stands, or from where the last
star may still be lengthened to, the whole matches. `Complete`: if the whole matches,
the key matches from where the loop stands, or behind the last star from some place
further on. The second is what forgetting all stars but the last needs: when a new star
is met, what stands behind the old one is without stars, so that it takes as many
characters as it has (`Segment`), and any place the old star could be lengthened to is
one the new star can be lengthened to as well. TLC checked the invariant first.

The assumptions are those the modules name: elements and scores are integers, option
words are not, commands are well-formed; peers are finitely many and what they send is
bytes, which encode what the model says is meant by them (`ScriptsAssumption`); the
listening socket is none of theirs, `Null` is no value, sizes are positive; the
characters of the protocol are strings (`MarksAssumption`); a command that is logged has
a name and no more words than the decoder takes, having come out of it
(`CommandsAssumption`); keyspaces that are saved are what `IsKeyspace` says
(`DatabasesAssumption`), and `NoExpiry`, for nullopt, is no time (`NoExpiryAssumption`).
Sets of keys, values, commands and peers, the length of the log, the number of crashes
and every bound are arbitrary.

The base modules also assume that `Null`, which stands for
nullptr, is neither an object (`NullAssumption`) nor a node (`NodesAssumption`), and
that the members a ZADD names are elements (`WellFormed`); TLC evaluates all of these in
every run.

Every safety property that a run checks and finds true is stated by one of these
theorems. Only model-checked: ExpiredReclaimed, StartupCompletes, CallsReturn, Answered,
Closes and Terminates are liveness under fairness and stay with TLC.

## Not modelled, and the plan

Planned, in order of importance:

1. Clock widths: EX and EXPIRE at the edge of 64 bits, scaled down. `*v * 1000` overflows
   there, which is undefined, and the model's times are unbounded.
2. Server over Connection, with the commands of several clients in one log.

Left out for good: the branch of the loop that uses select, which Linux does not
compile, and `Run`, which nothing calls; socket creation and options; logging;
argument parsing and the installation of the signal handlers; the `ds/intset.h`
placeholder; `lru` and `encoding`, rank and span of skip list nodes, which nothing
reads; `RemoveExpire` as an operation of its own (no command reaches it); the lifetime
of callbacks (`RemoveEvent` erases the `std::function` that is being executed, whose
captures are not used afterwards); a write buffer that grows without a limit, as
scripts are finite; `steady_clock` after a reboot, whose saved values mean nothing
then; the benchmark and the tests, which are clients.
