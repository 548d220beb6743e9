---------------------------- MODULE Connection -----------------------------
(***************************************************************************)
(* The connections of RedisServer (server.cpp) on its event loop           *)
(* (event_loop.cpp, the epoll branch): sockets are accepted, read, decoded, *)
(* answered and closed by callbacks that RunOnce calls one after another   *)
(* for the events of one epoll_wait, while the peers go on.                *)
(*                                                                         *)
(* The kernel and the peers are external.  What a peer sends is bytes; a   *)
(* reply is one cell, the number of the command it answers.                *)
(***************************************************************************)
EXTENDS RespCodec

CONSTANTS
    Peers,      \* the clients at the other ends
    Readers,    \* the peers that do not stop reading
    Scripts,    \* what the peers send: functions from Peers to items and the cuts
                \* behind which the bytes may be split up on their way
    QUIT,       \* the name of that command
    Listen,     \* listen_fd_
    Null,       \* no such entry
    ReadSize,   \* kReadBufferSize: 4096 bytes
    SendRoom    \* replies the kernel takes before send() fails

ASSUME PeersAssumption == Readers \subseteq Peers /\ IsFiniteSet(Peers)

ASSUME SizesAssumption == ReadSize \in Nat \ {0} /\ SendRoom \in Nat \ {0}

Fds == 1 .. Cardinality(Peers)

\* What clients_ keeps of a socket.
Client == [codec : Seq(STRING), write_buf : Seq(Nat), close_after_write : BOOLEAN,
           writable_mask : BOOLEAN]

ASSUME NullAssumption ==
    /\ Listen \notin Fds
    /\ Null \notin Peers /\ Null \notin Client /\ \A mask \in SUBSET {"r", "w"} : Null # mask

\* An item is a command a client has encoded, or bytes that are none.
Command(words) == [words |-> words, bytes |-> Encode(words)]
Raw(bytes)     == [words |-> << >>, bytes |-> bytes]

\* A peer sends bytes; those that say what is meant by them encode it.
Items == {item \in [words : Seq(Seq(STRING)), bytes : Seq(STRING)] :
             item.words # << >> => item = Command(item.words)}

ASSUME ScriptsAssumption == \A s \in Scripts : \A p \in Peers : s[p].items \in Seq(Items)

VARIABLES
    clients,    \* clients_: the entry of each socket
    events,     \* events_, and what epoll watches: the mask of each socket
    fired,      \* the events RunOnce has still to dispatch
    \* The kernel and the peers:
    script,     \* what each peer means to send
    stream,     \* the bytes of it
    phase,      \* of each peer: "new", "backlog", "open" or "closed"
    gone,       \* "no", "shut" (sends no more) or "reset"
    taken,      \* the number of them that have been received
    owner,      \* the peer behind each socket
    outgoing,   \* replies the peer has not read
    got,        \* replies it has
    killed,     \* the process died of SIGPIPE
    \* History:
    served      \* the commands executed for each peer

server == <<clients, events, fired>>
kernel == <<script, stream, phase, gone, taken, owner, outgoing, got, killed>>
vars   == <<server, kernel, served>>

Bytes(items) == FlattenSeq([j \in 1 .. Len(items) |-> items[j].bytes])

Incoming(p) == SubSeq(stream[p], taken[p] + 1, Len(stream[p]))

\* The numbers of bytes that recv may return.
Arriving(p) ==
    LET left == Len(Incoming(p))
    IN  {n \in 1 .. ReadSize : n <= left /\ (n \in {left, ReadSize} \/ taken[p] + n \in script[p].cuts)}

-----------------------------------------------------------------------------

NewClient == [codec |-> << >>, write_buf |-> << >>,
              close_after_write |-> FALSE, writable_mask |-> FALSE]

Init ==
    /\ clients = [fd \in Fds |-> Null]
    /\ events = [fd \in Fds \cup {Listen} |-> IF fd = Listen THEN {"r"} ELSE Null]
    /\ fired = {}
    /\ script \in Scripts
    /\ phase = [p \in Peers |-> "new"]
    /\ gone = [p \in Peers |-> "no"]
    /\ stream = [p \in Peers |-> Bytes(script[p].items)]
    /\ taken = [p \in Peers |-> 0]
    /\ owner = [fd \in Fds |-> Null]
    /\ outgoing = [p \in Peers |-> << >>]
    /\ got = [p \in Peers |-> << >>]
    /\ killed = FALSE
    /\ served = [p \in Peers |-> << >>]

\* recv would not block: there are bytes, the end of them, or an error.
Readable(fd) ==
    IF fd = Listen THEN \E p \in Peers : phase[p] = "backlog"
    ELSE owner[fd] # Null /\ (Incoming(owner[fd]) # << >> \/ gone[owner[fd]] # "no")

\* send would take something or fail for good.
Writable(fd) ==
    fd # Listen /\ owner[fd] # Null
        /\ (Len(outgoing[owner[fd]]) < SendRoom \/ gone[owner[fd]] = "reset")

\* What epoll_wait finds for each socket it watches.
Masks(arrived) ==
    LET Reads(fd)  == IF events[fd] # Null /\ fd \in arrived THEN {"r"} ELSE {}
        Writes(fd) == IF events[fd] # Null /\ "w" \in events[fd] /\ Writable(fd) THEN {"w"} ELSE {}
    IN  {[fd |-> fd, mask |-> Reads(fd) \cup Writes(fd)] : fd \in DOMAIN events}

\* A mutant: events without a mask are dispatched, too.
ReportedUnready(arrived) == Masks(arrived)

Reported(arrived) == {e \in Masks(arrived) : e.mask # {}}

\* Bytes may be under way, so that any readable sockets have arrived; what is left
\* of a connection that was reset is there at once.
Wait ==
    /\ fired = {}
    /\ \E arrived \in SUBSET {fd \in DOMAIN events : Readable(fd)} :
          /\ \A fd \in Fds : owner[fd] # Null /\ gone[owner[fd]] = "reset" => fd \in arrived
          /\ fired' = Reported(arrived)
    /\ fired' # {}

RunOnce == Wait /\ UNCHANGED <<clients, events, kernel, served>>

\* OnAccept: the loop takes all who wait, in any order, each on the lowest free
\* descriptor.
OnAccept ==
    LET waiting == {p \in Peers : phase[p] = "backlog"}
        free    == {fd \in Fds : owner[fd] = Null}
    IN  /\ \E seat \in [waiting -> free] :
              /\ IsInjective(seat)
              /\ \A p \in waiting, fd \in free \ Range(seat) : seat[p] < fd
              /\ owner' = [fd \in Fds |-> IF fd \in Range(seat)
                                         THEN CHOOSE p \in waiting : seat[p] = fd
                                         ELSE owner[fd]]
        /\ clients' = [fd \in Fds |-> IF owner'[fd] # owner[fd] THEN NewClient ELSE clients[fd]]
        /\ events' = [fd \in DOMAIN events |->
                        IF fd # Listen /\ owner'[fd] # owner[fd] THEN {"r"} ELSE events[fd]]
        /\ phase' = [p \in Peers |-> IF p \in waiting THEN "open" ELSE phase[p]]
        /\ UNCHANGED <<script, stream, gone, taken, outgoing, got, killed, served>>

RemoveEvent(fd) == events' = [events EXCEPT ![fd] = Null]

ModifyMask(fd, mask) == events' = [events EXCEPT ![fd] = mask]

CloseClient(fd) ==
    /\ RemoveEvent(fd)
    /\ clients' = [clients EXCEPT ![fd] = Null]
    /\ owner' = [owner EXCEPT ![fd] = Null]
    /\ phase' = [phase EXCEPT ![owner[fd]] = "closed"]

\* ProcessCommand for each of cmds: a reply joins write_buf, and QUIT marks the
\* client.
Processed(client, p, cmds) ==
    [client EXCEPT
       !.write_buf = @ \o [j \in 1 .. Len(cmds) |-> Len(served[p]) + j],
       !.close_after_write = @ \/ \E j \in 1 .. Len(cmds) : cmds[j][1] = QUIT]

\* Mutants: what was not sent is lost; the loop goes on asking for room; it never asks.
FlushedWhole(client, n) == [client EXCEPT !.write_buf = << >>, !.writable_mask = FALSE]

FlushedSticky(client, n) ==
    LET rest == SubSeq(client.write_buf, n + 1, Len(client.write_buf))
    IN  [client EXCEPT !.write_buf = rest, !.writable_mask = @ \/ rest # << >>]

FlushedUnwatched(client, n) ==
    [client EXCEPT !.write_buf = SubSeq(@, n + 1, Len(@))]

\* What the client is once the kernel has taken n replies from its buffer, and the
\* mask is set while some are left.  An empty buffer is left alone, and so is the mask.
Flushed(client, n) ==
    LET rest == SubSeq(client.write_buf, n + 1, Len(client.write_buf))
    IN  IF client.write_buf = << >> THEN client
        ELSE [client EXCEPT !.write_buf = rest, !.writable_mask = rest # << >>]

\* Mutants: a QUIT closes what is not yet answered, or does not close.
FinishedUnsent(client) == client.close_after_write

FinishedNever(client) == FALSE

Finished(client) == client.close_after_write /\ client.write_buf = << >>

\* FlushWriteBuf, with what follows it in OnClientEvent.
FlushWriteBuf(fd, client) ==
    LET p    == owner[fd]
        room == SendRoom - Len(outgoing[p])
        size == Len(client.write_buf)
        n    == IF gone[p] = "reset" THEN 0 ELSE IF size < room THEN size ELSE room
        next == Flushed(client, n)
    IN  /\ outgoing' = [outgoing EXCEPT ![p] = @ \o SubSeq(client.write_buf, 1, n)]
        /\ IF Finished(next)
           THEN CloseClient(fd)
           ELSE /\ clients' = [clients EXCEPT ![fd] = next]
                /\ IF next.writable_mask = client.writable_mask THEN UNCHANGED events
                   ELSE ModifyMask(fd, IF next.writable_mask THEN {"r", "w"} ELSE {"r"})
                /\ UNCHANGED <<owner, phase>>
        /\ UNCHANGED killed

\* send() on a connection that was reset may raise SIGPIPE, which nothing handles:
\* the process ends, and all its sockets with it.
SigPipe(fd, client) ==
    /\ gone[owner[fd]] = "reset"
    /\ client.write_buf # << >>
    /\ killed' = TRUE
    /\ clients' = [f \in Fds |-> Null]
    /\ events' = [f \in DOMAIN events |-> Null]
    /\ owner' = [f \in Fds |-> Null]
    /\ phase' = [p \in Peers |-> IF phase[p] = "new" THEN "new" ELSE "closed"]
    /\ UNCHANGED outgoing

Send(fd, client) == FlushWriteBuf(fd, client) \/ SigPipe(fd, client)

\* OnClientEvent with something to read.
Read(fd) ==
    LET p == owner[fd]
    IN  /\ Incoming(p) # << >>
        /\ \E n \in Arriving(p) :
           \E fed \in {Feed(clients[fd].codec, SubSeq(Incoming(p), 1, n))} :
           \E client \in {Processed([clients[fd] EXCEPT !.codec = fed.rest], p, fed.cmds)} :
              /\ Send(fd, client)
              /\ taken' = [taken EXCEPT ![p] = @ + n]
              /\ served' = [served EXCEPT ![p] = @ \o fed.cmds]
        /\ UNCHANGED <<script, stream, gone, got>>

\* recv finds the end, an error or nothing: what is unsent is dropped.
ReadNothing(fd) ==
    /\ Incoming(owner[fd]) = << >>
    /\ CloseClient(fd)
    /\ UNCHANGED <<script, stream, gone, taken, outgoing, got, killed, served>>

\* Dispatch of an event, unless the socket has been removed.
Dispatch(e) ==
    /\ e \in fired
    /\ fired' = fired \ {e}
    /\ IF events[e.fd] = Null THEN UNCHANGED <<clients, events, kernel, served>>
       ELSE \/ e.fd = Listen /\ OnAccept
            \/ e.fd # Listen /\ "r" \in e.mask /\ (Read(e.fd) \/ ReadNothing(e.fd))
            \/ /\ e.fd # Listen /\ "r" \notin e.mask
               /\ Send(e.fd, clients[e.fd])
               /\ UNCHANGED <<script, stream, gone, taken, got, served>>

-----------------------------------------------------------------------------
(* The peers.                                                              *)

Connect(p) ==
    /\ phase[p] = "new"
    /\ ~ killed
    /\ script[p].items # << >>
    /\ phase' = [phase EXCEPT ![p] = "backlog"]
    /\ UNCHANGED <<server, script, stream, gone, taken, owner, outgoing, got, killed, served>>

PeerRead(p) ==
    /\ outgoing[p] # << >>
    /\ gone[p] # "reset"
    /\ got' = [got EXCEPT ![p] = @ \o outgoing[p]]
    /\ outgoing' = [outgoing EXCEPT ![p] = << >>]
    /\ UNCHANGED <<server, script, stream, phase, gone, taken, owner, killed, served>>

\* The peer stops sending, or vanishes, perhaps inside a command.
Leave(p, how) ==
    /\ phase[p] \in {"backlog", "open"}
    /\ gone[p] = "no"
    /\ gone' = [gone EXCEPT ![p] = how]
    /\ \E n \in taken[p] .. Len(stream[p]) :
          /\ n \in {taken[p], Len(stream[p])} \cup script[p].cuts
          /\ stream' = [stream EXCEPT ![p] = SubSeq(@, 1, n)]
    /\ UNCHANGED <<server, script, phase, taken, owner, outgoing, got, killed, served>>

Peer(p) == Connect(p) \/ PeerRead(p) \/ \E how \in {"shut", "reset"} : Leave(p, how)

Next ==
    \/ RunOnce
    \/ \E e \in fired : Dispatch(e)
    \/ \E p \in Peers : Peer(p)

Spec == Init /\ [][Next]_vars

\* The loop goes on, epoll reports each socket some time while it is ready, and
\* some peers keep reading.  (Only RunOnce fills fired, only Dispatch empties it.)
FairSpec ==
    /\ Spec
    /\ \A fd \in Fds \cup {Listen}, ready \in {"r", "w"} :
          SF_fired(Wait /\ \E e \in fired' : e.fd = fd /\ ready \in e.mask)
    /\ WF_fired(\E e \in fired : fired' = fired \ {e})
    /\ \A p \in Readers : WF_vars(PeerRead(p))

-----------------------------------------------------------------------------

TypeOK ==
    /\ clients \in [Fds -> Client \cup {Null}]
    /\ events \in [Fds \cup {Listen} -> (SUBSET {"r", "w"}) \cup {Null}]
    /\ fired \subseteq [fd : Fds \cup {Listen}, mask : (SUBSET {"r", "w"}) \ {{}}]
    /\ stream \in [Peers -> Seq(STRING)]
    /\ phase \in [Peers -> {"new", "backlog", "open", "closed"}]
    /\ gone \in [Peers -> {"no", "shut", "reset"}]
    /\ taken \in [Peers -> Nat]
    /\ \A p \in Peers : taken[p] <= Len(stream[p])
    /\ owner \in [Fds -> Peers \cup {Null}]
    /\ outgoing \in [Peers -> Seq(Nat)]
    /\ got \in [Peers -> Seq(Nat)]
    /\ killed \in BOOLEAN
    /\ served \in [Peers -> Seq(Seq(Seq(STRING)))]

\* What a client has sent decides what is executed for it, not how the bytes
\* were cut into reads; and what is kept for the next read is what is left over.
FragmentationInvisible ==
    \A p \in Peers :
        \A whole \in {Feed(<< >>, SubSeq(stream[p], 1, taken[p]))} :
            /\ served[p] = whole.cmds
            /\ \A fd \in Fds : owner[fd] = p => clients[fd].codec = whole.rest

\* A peer that sends encoded commands of no more words than the decoder takes.
Speaks(p) == \A j \in 1 .. Len(script[p].items) : Len(script[p].items[j].words) \in 1 .. MaxArray

\* Exactly the commands that have arrived to their last byte are executed, once,
\* in order, and as the client meant them.
CommandsExact ==
    \A p \in Peers : Speaks(p) =>
        LET Ends(j) == Len(Bytes(SubSeq(script[p].items, 1, j)))
            whole   == {j \in 1 .. Len(script[p].items) : Ends(j) <= taken[p]}
        IN  served[p] = [j \in 1 .. Cardinality(whole) |-> script[p].items[j].words]

\* Replies reach the peer in the order of its commands, none twice and none
\* before another; while the connection is open none is missing either.
RepliesInOrder ==
    \A p \in Peers :
        LET all == [j \in 1 .. Len(served[p]) |-> j]
        IN  /\ IsPrefix(got[p] \o outgoing[p], all)
            /\ \A fd \in Fds :
                 owner[fd] = p => got[p] \o outgoing[p] \o clients[fd].write_buf = all

\* A socket is watched for writing exactly while replies wait for room, and for
\* reading always: without the one the loop would spin, without the other stall.
MaskMatches ==
    \A fd \in Fds :
        /\ clients[fd] = Null <=> owner[fd] = Null
        /\ events[fd] = IF clients[fd] = Null THEN Null
                        ELSE IF clients[fd].write_buf = << >> THEN {"r"} ELSE {"r", "w"}
        /\ clients[fd] # Null =>
              (clients[fd].writable_mask <=> clients[fd].write_buf # << >>)

\* The server closes a connection only when its peer is gone, or when it asked
\* for that and all its answers are on their way; never because of an event that
\* was meant for an earlier owner of the socket.
ClosedForAReason ==
    [][\A p \in Peers :
         phase[p] = "open" /\ phase'[p] = "closed" =>
           \/ gone[p] # "no" \/ killed'
           \/ /\ \E j \in 1 .. Len(served'[p]) : served'[p][j][1] = QUIT
              /\ Len(got'[p] \o outgoing'[p]) = Len(served'[p])]_vars

\* A peer that keeps reading gets an answer to each command it sends, up to a
\* QUIT, as long as it stays.
Answered ==
    \A p \in Readers :
        LET ended(j) == j < Len(script[p].items) /\ script[p].items[j].words[1] = QUIT
        IN  phase[p] = "backlog" /\ Speaks(p) /\ (\A j \in 1 .. Len(script[p].items) : ~ ended(j))
              ~> killed \/ gone[p] # "no" \/ Len(got[p]) = Len(script[p].items)

\* A QUIT ends the connection, and so does a peer that is gone.
Closes ==
    \A p \in Readers :
        phase[p] = "open" /\ (gone[p] # "no" \/ \E j \in 1 .. Len(served[p]) : served[p][j][1] = QUIT)
          ~> killed \/ phase[p] = "closed"
=============================================================================
