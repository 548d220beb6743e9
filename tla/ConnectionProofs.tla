-------------------------- MODULE ConnectionProofs --------------------------
(***************************************************************************)
(* The safety of the connections, for every set of peers, whatever they    *)
(* send: an inductive invariant, and what follows from it.                 *)
(***************************************************************************)
EXTENDS Connection, DecoderProofs, SequenceTheorems

-----------------------------------------------------------------------------
(* Sequences.                                                              *)

LEMMA Halves ==
    ASSUME NEW S, NEW s \in Seq(S), NEW n \in 0 .. Len(s)
    PROVE  SubSeq(s, 1, n) \o SubSeq(s, n + 1, Len(s)) = s
<1> DEFINE a == SubSeq(s, 1, n)
           b == SubSeq(s, n + 1, Len(s))
           c == a \o b
<1>0. Len(s) \in Nat /\ n \in Nat /\ n <= Len(s)
  OBVIOUS
<1>1. a \in Seq(S) /\ Len(a) = n /\ \A i \in 1 .. n : a[i] = s[i]
  BY <1>0
<1>2. b \in Seq(S) /\ Len(b) = Len(s) - n /\ \A i \in 1 .. Len(s) - n : b[i] = s[n + i]
  BY <1>0
<1> HIDE DEF a, b
<1>3. c \in Seq(S)
  BY <1>1, <1>2
<1>4. Len(c) = Len(s)
  <2>1. Len(c) = Len(a) + Len(b)
    <3>1. a \in Seq(S) /\ b \in Seq(S)
      BY <1>1, <1>2
    <3> QED
      BY <3>1
  <2> QED
    BY <1>0, <1>1, <1>2, <2>1
<1>5. ASSUME NEW i \in 1 .. Len(s) PROVE c[i] = s[i]
  <2>1. CASE i <= n
    BY <1>0, <1>1, <1>2, <2>1
  <2>2. CASE ~ (i <= n)
    <3>1. c[i] = b[i - n]
      BY <1>0, <1>1, <1>2, <2>2
    <3>2. i - n \in 1 .. Len(s) - n /\ n + (i - n) = i
      BY <1>0, <2>2
    <3> QED
      BY <1>2, <3>1, <3>2
  <2> QED
    BY <2>1, <2>2
<1> HIDE DEF c
<1>6. c = s
  BY <1>0, <1>3, <1>4, <1>5
<1> QED
  BY <1>6, Zenon DEF a, b, c

\* Grouping does not matter.
Assoc(a, b, c) == (a \o b) \o c = a \o (b \o c)

LEMMA AssocAlways ==
    ASSUME NEW S, NEW a \in Seq(S), NEW b \in Seq(S), NEW c \in Seq(S)
    PROVE  Assoc(a, b, c)
BY DEF Assoc

\* What is cut from the front of w to the end of b leaves all as it was.
Carries(a, b, front, rest) == (a \o (b \o front)) \o rest = (a \o b) \o (front \o rest)

LEMMA CarriesAlways ==
    ASSUME NEW S, NEW a \in Seq(S), NEW b \in Seq(S), NEW front \in Seq(S), NEW rest \in Seq(S)
    PROVE  Carries(a, b, front, rest)
<1> DEFINE ab == a \o b
<1>1. ab \in Seq(S)
  BY Glue
<1>2. Assoc(a, b, front)
  BY AssocAlways, Zenon
<1> HIDE DEF ab
<1>3. Assoc(ab, front, rest)
  BY <1>1, AssocAlways, Zenon
<1>4. ab \o front = a \o (b \o front)
  BY <1>2, Zenon DEF Assoc, ab
<1>5. (ab \o front) \o rest = ab \o (front \o rest)
  BY <1>3, Zenon DEF Assoc
<1>6. (a \o (b \o front)) \o rest = ab \o (front \o rest)
  BY <1>4, <1>5, Zenon
<1> QED
  BY <1>6, Zenon DEF ab, Carries

LEMMA FrontIsPrefix ==
    ASSUME NEW S, NEW a \in Seq(S), NEW b \in Seq(S)
    PROVE  IsPrefix(a, a \o b)
BY DEF IsPrefix

Upto(n) == [j \in 1 .. n |-> j]

LEMMA UptoType ==
    ASSUME NEW n \in Nat
    PROVE  Upto(n) \in Seq(Nat) /\ Len(Upto(n)) = n
BY DEF Upto

LEMMA UptoMore ==
    ASSUME NEW m \in Nat, NEW n \in Nat
    PROVE  Upto(m) \o [j \in 1 .. n |-> m + j] = Upto(m + n)
<1> DEFINE a == Upto(m)
           b == [j \in 1 .. n |-> m + j]
           c == Upto(m + n)
           d == a \o b
<1>1. a \in Seq(Nat) /\ Len(a) = m /\ \A i \in 1 .. m : a[i] = i
  BY DEF Upto
<1>2. b \in Seq(Nat) /\ Len(b) = n /\ \A i \in 1 .. n : b[i] = m + i
  OBVIOUS
<1>3. c \in Seq(Nat) /\ Len(c) = m + n /\ \A i \in 1 .. m + n : c[i] = i
  BY DEF Upto
<1> HIDE DEF a, b, c
<1>4. d \in Seq(Nat) /\ Len(d) = m + n
  BY <1>1, <1>2
<1>5. ASSUME NEW i \in 1 .. m + n PROVE d[i] = i
  <2>1. CASE i <= m
    BY <1>1, <1>2, <2>1
  <2>2. CASE ~ (i <= m)
    <3>1. d[i] = b[i - m]
      BY <1>1, <1>2, <2>2
    <3>2. i - m \in 1 .. n /\ m + (i - m) = i
      BY <2>2
    <3> QED
      BY <1>2, <3>1, <3>2
  <2> QED
    BY <2>1, <2>2
<1> HIDE DEF d
<1>6. d = c
  BY <1>3, <1>4, <1>5
<1> QED
  BY <1>6, Zenon DEF a, b, c, d

LEMMA CutAgain ==
    ASSUME NEW S, NEW s \in Seq(S), NEW t \in 0 .. Len(s), NEW n \in 0 .. Len(s) - t
    PROVE  /\ SubSeq(SubSeq(s, t + 1, Len(s)), 1, n) = SubSeq(s, t + 1, t + n)
           /\ SubSeq(s, 1, t) \o SubSeq(s, t + 1, t + n) = SubSeq(s, 1, t + n)
OBVIOUS

-----------------------------------------------------------------------------
(* The inductive invariant.                                                *)

\* What the decoder makes of the bytes of p that have been received, in one piece.
Whole(p) == Feed(<< >>, SubSeq(stream[p], 1, taken[p]))

All(p) == Upto(Len(served[p]))

\* A peer: nothing has come from it before it is accepted; its commands are those of
\* its bytes; it has been sent the replies to the first of them.
PeerInv(p) ==
    /\ phase[p] \in {"new", "backlog"} => taken[p] = 0 /\ got[p] = << >> /\ outgoing[p] = << >>
    /\ served[p] = Whole(p).cmds
    /\ Len(outgoing[p]) <= SendRoom
    /\ IsPrefix(got[p] \o outgoing[p], All(p))

\* A client c on a socket of p: it keeps what the decoder has left over, and the
\* replies that have not been sent.
ClientInv(p, c) ==
    /\ c.codec = Whole(p).rest
    /\ (got[p] \o outgoing[p]) \o c.write_buf = All(p)
    /\ c.close_after_write => \E j \in 1 .. Len(served[p]) : served[p][j][1] = QUIT

WatchInv(c, mask) ==
    /\ c.writable_mask <=> c.write_buf # << >>
    /\ mask = IF c.write_buf = << >> THEN {"r"} ELSE {"r", "w"}

OnlySeat(fd, p) == \A g \in Fds : owner[g] = p => g = fd

SeatInv(fd) ==
    /\ clients[fd] = Null <=> owner[fd] = Null
    /\ owner[fd] = Null => events[fd] = Null
    /\ owner[fd] # Null => /\ phase[owner[fd]] = "open"
                           /\ OnlySeat(fd, owner[fd])
                           /\ ClientInv(owner[fd], clients[fd])
                           /\ WatchInv(clients[fd], events[fd])

\* There is something to read.
Due(p) == Incoming(p) # << >> \/ gone[p] # "no"

\* An event that has still to be dispatched is meant for the client that is there.
EventInv(e) ==
    /\ \A f \in fired : f.fd = e.fd => f = e
    /\ e.fd # Listen /\ ~ killed => events[e.fd] # Null
    /\ e.fd # Listen /\ events[e.fd] # Null /\ "r" \in e.mask => Due(owner[e.fd])

KilledInv == killed => \A fd \in Fds \cup {Listen} : events[fd] = Null

ConnInv ==
    /\ TypeOK
    /\ \A p \in Peers : PeerInv(p)
    /\ \A fd \in Fds : SeatInv(fd)
    /\ \A e \in fired : EventInv(e)
    /\ KilledInv

-----------------------------------------------------------------------------
(* What a step that does not touch it keeps.                               *)

PeerSame(p) ==
    /\ stream'[p] = stream[p] /\ taken'[p] = taken[p] /\ served'[p] = served[p]
    /\ got'[p] = got[p] /\ outgoing'[p] = outgoing[p]

LEMMA PeerSameKeeps ==
    ASSUME NEW p, PeerSame(p)
    PROVE  /\ Whole(p)' = Whole(p) /\ All(p)' = All(p) /\ Incoming(p)' = Incoming(p)
           /\ PeerInv(p) /\ (phase'[p] = phase[p] \/ phase'[p] \in {"open", "closed"}) => PeerInv(p)'
           /\ \A c : ClientInv(p, c) => ClientInv(p, c)'
<1>1. Whole(p)' = Whole(p)
  BY DEF PeerSame, Whole
<1>2. All(p)' = All(p)
  BY DEF PeerSame, All
<1>3. Incoming(p)' = Incoming(p)
  BY DEF PeerSame, Incoming
<1>4. ASSUME PeerInv(p), phase'[p] = phase[p] \/ phase'[p] \in {"open", "closed"} PROVE PeerInv(p)'
  BY <1>1, <1>2, <1>4 DEF PeerSame, PeerInv
<1>5. ASSUME NEW c, ClientInv(p, c) PROVE ClientInv(p, c)'
  BY <1>1, <1>2, <1>5 DEF PeerSame, ClientInv
<1> QED
  BY <1>1, <1>2, <1>3, <1>4, <1>5

SeatSame(fd) == clients'[fd] = clients[fd] /\ events'[fd] = events[fd] /\ owner'[fd] = owner[fd]

LEMMA SeatSameKeeps ==
    ASSUME NEW fd \in Fds, SeatInv(fd), SeatSame(fd),
           owner[fd] # Null => /\ PeerSame(owner[fd]) /\ phase'[owner[fd]] = phase[owner[fd]]
                               /\ OnlySeat(fd, owner[fd])'
    PROVE  SeatInv(fd)'
<1>1. CASE owner[fd] = Null
  BY <1>1 DEF SeatInv, SeatSame
<1>2. CASE owner[fd] # Null
  <2> DEFINE p == owner[fd]
             c == clients[fd]
  <2>1. ClientInv(p, c) /\ WatchInv(c, events[fd]) /\ phase[p] = "open" /\ c # Null
    BY <1>2 DEF SeatInv
  <2>2. ClientInv(p, c)'
    <3> SUFFICES ASSUME NEW q, q = p, NEW d, d = c PROVE ClientInv(q, d)'
      BY DEF SeatSame
    <3>1. ClientInv(q, d) /\ PeerSame(q)
      BY <1>2, <2>1
    <3> QED
      BY <3>1, PeerSameKeeps
  <2>3. WatchInv(c, events[fd])'
    BY <2>1 DEF WatchInv, SeatSame
  <2> QED
    BY <1>2, <2>1, <2>2, <2>3 DEF SeatInv, SeatSame
<1> QED
  BY <1>1, <1>2

-----------------------------------------------------------------------------
(* Sending.                                                                *)

\* What the kernel takes, and what is left of the client.
LEMMA FlushedIs ==
    ASSUME NEW c \in Client, NEW n \in 0 .. Len(c.write_buf),
           c.write_buf = << >> => ~ c.writable_mask
    PROVE  /\ Flushed(c, n) \in Client
           /\ Flushed(c, n).codec = c.codec
           /\ Flushed(c, n).close_after_write = c.close_after_write
           /\ Flushed(c, n).write_buf = SubSeq(c.write_buf, n + 1, Len(c.write_buf))
           /\ Flushed(c, n).writable_mask <=> Flushed(c, n).write_buf # << >>
<1> DEFINE rest == SubSeq(c.write_buf, n + 1, Len(c.write_buf))
<1>1. c.write_buf \in Seq(Nat)
  BY DEF Client
<1>2. rest \in Seq(Nat)
  BY <1>1
<1>3. CASE c.write_buf = << >>
  <2>1. rest = << >>
    BY <1>3
  <2>2. Flushed(c, n) = c
    BY <1>3 DEF Flushed
  <2> QED
    BY <1>3, <2>1, <2>2
<1>4. CASE c.write_buf # << >>
  <2>1. Flushed(c, n) = [c EXCEPT !.write_buf = rest, !.writable_mask = rest # << >>]
    BY <1>4 DEF Flushed
  <2> HIDE DEF rest
  <2>2. (rest # << >>) \in BOOLEAN
    OBVIOUS
  <2>3. /\ Flushed(c, n) \in Client
        /\ Flushed(c, n).codec = c.codec
        /\ Flushed(c, n).close_after_write = c.close_after_write
        /\ Flushed(c, n).write_buf = rest
        /\ Flushed(c, n).writable_mask = (rest # << >>)
    BY <1>2, <2>1, <2>2 DEF Client
  <2> QED
    BY <2>3 DEF rest
<1> QED
  BY <1>3, <1>4

\* The loop watches the socket fd as c has asked it to, and c does not ask for room
\* without having anything to send.
Watching(fd, c) ==
    /\ c.write_buf = << >> => ~ c.writable_mask
    /\ events[fd] = IF c.writable_mask THEN {"r", "w"} ELSE {"r"}

\* A client c of p on the socket fd that owes p all replies that p has not been sent,
\* in a step that serves p and nobody else.
Serving(fd, p, c) ==
    /\ fd \in Fds /\ p \in Peers /\ owner[fd] = p /\ c \in Client
    /\ stream' = stream /\ gone' = gone /\ got' = got
    /\ taken' \in [Peers -> Nat] /\ \A q \in Peers : taken'[q] <= Len(stream[q])
    /\ served' \in [Peers -> Seq(Seq(Seq(STRING)))]
    /\ \A q \in Peers \ {p} : taken'[q] = taken[q] /\ served'[q] = served[q]
    /\ served'[p] = Whole(p)'.cmds
    /\ c.codec = Whole(p)'.rest
    /\ (got[p] \o outgoing[p]) \o c.write_buf = All(p)'
    /\ c.close_after_write => \E j \in 1 .. Len(served'[p]) : served'[p][j][1] = QUIT
    /\ fired' \subseteq fired /\ \A e \in fired' : e.fd # fd
    /\ Watching(fd, c)

\* What was to be sent is sent or kept, and in order.
LEMMA FlushKeepsOrder ==
    ASSUME TypeOK, NEW fd, NEW p, NEW c, Serving(fd, p, c), NEW n \in 0 .. Len(c.write_buf),
           Len(outgoing[p]) + n <= SendRoom,
           outgoing' = [outgoing EXCEPT ![p] = @ \o SubSeq(c.write_buf, 1, n)],
           phase'[p] \in {"open", "closed"}
    PROVE  /\ PeerInv(p)'
           /\ outgoing' \in [Peers -> Seq(Nat)]
           /\ \A next \in {Flushed(c, n)} : ClientInv(p, next)'
<1> DEFINE front == SubSeq(c.write_buf, 1, n)
           rest == SubSeq(c.write_buf, n + 1, Len(c.write_buf))
           out == outgoing'[p]
<1>1. /\ got[p] \in Seq(Nat) /\ outgoing[p] \in Seq(Nat) /\ c.write_buf \in Seq(Nat) /\ p \in Peers
      /\ got' = got
  BY DEF TypeOK, Serving, Client
<1>2. front \in Seq(Nat) /\ rest \in Seq(Nat) /\ Len(front) = n
  BY <1>1
<1>3. front \o rest = c.write_buf
  BY <1>1, Halves
<1>4. out = outgoing[p] \o front
  BY <1>1 DEF TypeOK
<1> HIDE DEF front, rest
<1>5. out \in Seq(Nat) /\ Len(out) = Len(outgoing[p]) + n
  <2>1. outgoing[p] \o front \in Seq(Nat) /\ Len(outgoing[p] \o front) = Len(outgoing[p]) + Len(front)
    BY <1>1, <1>2, Glue
  <2> QED
    BY <1>2, <1>4, <2>1, Zenon
<1>6. (got[p] \o out) \o rest = (got[p] \o outgoing[p]) \o c.write_buf
  <2>1. Carries(got[p], outgoing[p], front, rest)
    BY <1>1, <1>2, CarriesAlways, Zenon
  <2> QED
    BY <1>3, <1>4, <2>1, Zenon DEF Carries
<1>7. (got[p] \o out) \o rest = All(p)'
  BY <1>6 DEF Serving
<1>8. got[p] \o out \in Seq(Nat)
  BY <1>1, <1>5
<1>9. IsPrefix(got[p] \o out, All(p)')
  <2>1. IsPrefix(got[p] \o out, (got[p] \o out) \o rest)
    BY <1>2, <1>8, FrontIsPrefix
  <2> QED
    BY <1>7, <2>1
<1>10. PeerInv(p)'
  BY <1>1, <1>5, <1>9 DEF PeerInv, Serving
<1>11. outgoing' \in [Peers -> Seq(Nat)]
  BY <1>1, <1>4, <1>5 DEF TypeOK
<1>12. ASSUME NEW next, next = Flushed(c, n) PROVE ClientInv(p, next)'
  <2>1. next.codec = c.codec /\ next.close_after_write = c.close_after_write /\ next.write_buf = rest
    BY <1>12, FlushedIs DEF rest, Serving, Watching
  <2>2. /\ next.codec = Whole(p)'.rest
        /\ next.close_after_write => \E j \in 1 .. Len(served'[p]) : served'[p][j][1] = QUIT
    BY <2>1 DEF Serving
  <2>3. (got'[p] \o outgoing'[p]) \o next.write_buf = All(p)'
    BY <1>1, <1>7, <2>1
  <2> QED
    BY <2>2, <2>3 DEF ClientInv
<1> QED
  BY <1>10, <1>11, <1>12

\* A step at the socket fd of p, which leaves all others alone.
Local(fd, p) ==
    /\ \A q \in Peers \ {p} : PeerSame(q) /\ phase'[q] = phase[q]
    /\ \A g \in Fds \ {fd} : SeatSame(g)
    /\ owner'[fd] \in {p, Null}
    /\ gone' = gone /\ killed' = killed
    /\ fired' \subseteq fired /\ \A e \in fired' : e.fd # fd

\* What a client on a socket means.
LEMMA Seated ==
    ASSUME ConnInv, NEW fd \in Fds, owner[fd] # Null
    PROVE  /\ owner[fd] \in Peers /\ phase[owner[fd]] = "open" /\ OnlySeat(fd, owner[fd])
           /\ clients[fd] \in Client /\ ClientInv(owner[fd], clients[fd])
           /\ WatchInv(clients[fd], events[fd]) /\ events[fd] # Null /\ ~ killed
<1>1. SeatInv(fd) /\ TypeOK /\ KilledInv
  BY DEF ConnInv
<1>2. owner[fd] \in Peers /\ clients[fd] \in Client
  BY <1>1 DEF SeatInv, TypeOK
<1>3. events[fd] # Null
  <2>1. {"r"} \in SUBSET {"r", "w"} /\ {"r", "w"} \in SUBSET {"r", "w"}
    OBVIOUS
  <2> QED
    BY <1>1, <2>1, NullAssumption DEF SeatInv, WatchInv
<1> QED
  BY <1>1, <1>2, <1>3 DEF SeatInv, KilledInv

LEMMA OthersKeep ==
    ASSUME ConnInv, NEW fd \in Fds, NEW p \in Peers, owner[fd] = p, Local(fd, p)
    PROVE  /\ \A q \in Peers \ {p} : PeerInv(q)'
           /\ \A g \in Fds \ {fd} : SeatInv(g)'
           /\ \A e \in fired' : EventInv(e)'
           /\ KilledInv'
           /\ OnlySeat(fd, p)'
<1>1. p # Null
  BY NullAssumption
<1>2. OnlySeat(fd, p) /\ ~ killed
  BY <1>1, Seated
<1>3. OnlySeat(fd, p)'
  BY <1>2 DEF OnlySeat, Local, SeatSame
<1>4. ASSUME NEW q \in Peers \ {p} PROVE PeerInv(q)'
  <2>1. PeerSame(q) /\ phase'[q] = phase[q] /\ PeerInv(q)
    BY DEF Local, ConnInv
  <2> QED
    BY <2>1, PeerSameKeeps
<1>5. ASSUME NEW g \in Fds \ {fd}, owner[g] # Null
      PROVE  owner[g] \in Peers \ {p} /\ OnlySeat(g, owner[g])'
  <2>1. owner[g] \in Peers /\ OnlySeat(g, owner[g])
    BY <1>5, Seated
  <2>2. owner[g] # p
    BY <1>2 DEF OnlySeat
  <2>3. ASSUME NEW h \in Fds, owner'[h] = owner'[g] PROVE h = g
    <3>1. owner'[g] = owner[g]
      BY DEF Local, SeatSame
    <3>2. h # fd
      BY <1>5, <2>2, <2>3, <3>1 DEF Local
    <3>3. owner'[h] = owner[h]
      BY <3>2 DEF Local, SeatSame
    <3> QED
      BY <2>1, <2>3, <3>1, <3>3 DEF OnlySeat
  <2>4. owner'[g] = owner[g]
    BY DEF Local, SeatSame
  <2> QED
    BY <2>1, <2>2, <2>3, <2>4 DEF OnlySeat
<1>6. ASSUME NEW g \in Fds \ {fd} PROVE SeatInv(g)'
  <2>1. SeatInv(g) /\ SeatSame(g)
    BY DEF ConnInv, Local
  <2>2. owner[g] # Null => PeerSame(owner[g]) /\ phase'[owner[g]] = phase[owner[g]]
    BY <1>5 DEF Local
  <2> QED
    BY <1>5, <2>1, <2>2, SeatSameKeeps
<1>7. ASSUME NEW e \in fired' PROVE EventInv(e)'
  <2>1. e \in fired /\ e.fd # fd /\ EventInv(e) /\ fired' \subseteq fired /\ killed' = killed
    BY DEF Local, ConnInv
  <2>2. \A f \in fired' : f.fd = e.fd => f = e
    BY <2>1 DEF EventInv
  <2>3. CASE e.fd = Listen
    BY <2>2, <2>3 DEF EventInv
  <2>4. CASE e.fd # Listen
    <3>1. e.fd \in Fds \ {fd}
      BY <2>1, <2>4 DEF ConnInv, TypeOK
    <3>2. events'[e.fd] = events[e.fd] /\ owner'[e.fd] = owner[e.fd]
      BY <3>1 DEF Local, SeatSame
    <3>3. ASSUME events[e.fd] # Null, "r" \in e.mask PROVE Due(owner[e.fd])'
      <4>1. owner[e.fd] # Null
        BY <3>1, <3>3 DEF ConnInv, SeatInv
      <4>2. PeerSame(owner[e.fd]) /\ gone' = gone
        BY <1>5, <3>1, <4>1 DEF Local
      <4>3. Incoming(owner[e.fd])' = Incoming(owner[e.fd])
        BY <3>2, <4>2 DEF PeerSame, Incoming
      <4>4. Due(owner[e.fd])
        BY <2>1, <2>4, <3>3 DEF EventInv
      <4> QED
        BY <3>2, <4>2, <4>3, <4>4 DEF Due
    <3> QED
      BY <2>1, <2>2, <3>2, <3>3 DEF EventInv
  <2> QED
    BY <2>3, <2>4
<1>8. KilledInv'
  BY <1>2 DEF KilledInv, Local
<1> QED
  BY <1>3, <1>4, <1>6, <1>7, <1>8

\* What FlushWriteBuf does: n replies go out, and the client stays or is closed.
Outcome(fd, p, c, n) ==
    /\ Len(outgoing[p]) + n <= SendRoom
    /\ outgoing' = [outgoing EXCEPT ![p] = @ \o SubSeq(c.write_buf, 1, n)]
    /\ killed' = killed
    /\ \/ Finished(Flushed(c, n)) /\ CloseClient(fd)
       \/ /\ clients' = [clients EXCEPT ![fd] = Flushed(c, n)]
          /\ ModifyMask(fd, IF Flushed(c, n).writable_mask THEN {"r", "w"} ELSE {"r"})
          /\ owner' = owner /\ phase' = phase

LEMMA FlushIs ==
    ASSUME ConnInv, NEW fd, NEW p, NEW c, Serving(fd, p, c), FlushWriteBuf(fd, c)
    PROVE  \E n \in 0 .. Len(c.write_buf) : Outcome(fd, p, c, n)
<1> DEFINE room == SendRoom - Len(outgoing[p])
           size == Len(c.write_buf)
           n == IF gone[p] = "reset" THEN 0 ELSE IF size < room THEN size ELSE room
<1>1. p \in Peers /\ owner[fd] = p /\ c.write_buf \in Seq(Nat) /\ outgoing[p] \in Seq(Nat)
  BY DEF Serving, Client, ConnInv, TypeOK
<1>2. Len(outgoing[p]) <= SendRoom /\ Len(outgoing[p]) \in Nat
  BY <1>1 DEF ConnInv, PeerInv
<1>3. size \in Nat /\ room \in Nat /\ SendRoom \in Nat
  BY <1>1, <1>2, SizesAssumption
<1>4. n \in 0 .. size /\ Len(outgoing[p]) + n <= SendRoom
  <2>1. n \in Nat /\ n <= size /\ n <= room
    <3> HIDE DEF size, room
    <3> QED
      BY <1>3
  <2> HIDE DEF size, n
  <2> QED
    BY <1>2, <1>3, <2>1
<1>5. /\ outgoing' = [outgoing EXCEPT ![p] = @ \o SubSeq(c.write_buf, 1, n)]
      /\ killed' = killed
      /\ IF Finished(Flushed(c, n))
         THEN CloseClient(fd)
         ELSE /\ clients' = [clients EXCEPT ![fd] = Flushed(c, n)]
              /\ IF Flushed(c, n).writable_mask = c.writable_mask THEN UNCHANGED events
                 ELSE ModifyMask(fd, IF Flushed(c, n).writable_mask THEN {"r", "w"} ELSE {"r"})
              /\ owner' = owner /\ phase' = phase
  BY <1>1 DEF FlushWriteBuf
<1> DEFINE next == Flushed(c, n)
<1> HIDE DEF n, next
<1>7. UNCHANGED events /\ next.writable_mask = c.writable_mask =>
        ModifyMask(fd, IF next.writable_mask THEN {"r", "w"} ELSE {"r"})
  <2>1. events = [events EXCEPT ![fd] = events[fd]]
    BY DEF ConnInv, TypeOK
  <2>2. events[fd] = IF c.writable_mask THEN {"r", "w"} ELSE {"r"}
    BY DEF Serving, Watching
  <2> QED
    BY <2>1, <2>2 DEF ModifyMask
<1>6. Outcome(fd, p, c, n)
  BY <1>4, <1>5, <1>7 DEF Outcome, next
<1> QED
  BY <1>4, <1>6

\* CloseClient frees the socket.
LEMMA ClosedIs ==
    ASSUME ConnInv, NEW fd \in Fds, NEW p \in Peers, owner[fd] = p, CloseClient(fd)
    PROVE  /\ clients'[fd] = Null /\ events'[fd] = Null /\ owner'[fd] = Null /\ phase'[p] = "closed"
           /\ \A g \in Fds \ {fd} : SeatSame(g)
           /\ \A q \in Peers \ {p} : phase'[q] = phase[q]
           /\ clients' \in [Fds -> Client \cup {Null}]
           /\ events' \in [Fds \cup {Listen} -> (SUBSET {"r", "w"}) \cup {Null}]
           /\ phase' \in [Peers -> {"new", "backlog", "open", "closed"}]
           /\ owner' \in [Fds -> Peers \cup {Null}]
<1>1. TypeOK
  BY DEF ConnInv
<1>2. /\ clients' = [clients EXCEPT ![fd] = Null] /\ events' = [events EXCEPT ![fd] = Null]
      /\ owner' = [owner EXCEPT ![fd] = Null] /\ phase' = [phase EXCEPT ![p] = "closed"]
  BY DEF CloseClient, RemoveEvent
<1> QED
  BY <1>1, <1>2 DEF TypeOK, SeatSame

LEMMA StaysIs ==
    ASSUME ConnInv, NEW fd \in Fds, NEW next \in Client, NEW mask \in SUBSET {"r", "w"},
           clients' = [clients EXCEPT ![fd] = next], ModifyMask(fd, mask), owner' = owner
    PROVE  /\ clients'[fd] = next /\ events'[fd] = mask
           /\ \A g \in Fds \ {fd} : SeatSame(g)
           /\ clients' \in [Fds -> Client \cup {Null}]
           /\ events' \in [Fds \cup {Listen} -> (SUBSET {"r", "w"}) \cup {Null}]
<1>1. TypeOK
  BY DEF ConnInv
<1> QED
  BY <1>1 DEF TypeOK, SeatSame, ModifyMask

\* A freed socket.
LEMMA FreeSeat ==
    ASSUME NEW fd, clients'[fd] = Null, events'[fd] = Null, owner'[fd] = Null
    PROVE  SeatInv(fd)'
BY DEF SeatInv

LEMMA TakenSeat ==
    ASSUME NEW fd, NEW p \in Peers, NEW c \in Client, clients'[fd] = c, owner'[fd] = p,
           phase'[p] = "open", OnlySeat(fd, p)', ClientInv(p, c)', WatchInv(c, events'[fd])
    PROVE  SeatInv(fd)'
<1>1. p # Null /\ c # Null
  BY NullAssumption
<1>2. (owner[fd])' = p /\ (clients[fd])' = c /\ (phase[owner[fd]])' = "open"
  OBVIOUS
<1>3. OnlySeat(fd, owner[fd])'
  BY <1>2 DEF OnlySeat
<1>4. ClientInv(owner[fd], clients[fd])'
  <2> SUFFICES ASSUME NEW q, q = p, NEW d, d = c PROVE ClientInv(q, d)'
    BY <1>2
  <2> QED
    OBVIOUS
<1>5. WatchInv(clients[fd], events[fd])'
  BY <1>2 DEF WatchInv
<1> QED
  BY <1>1, <1>2, <1>3, <1>4, <1>5 DEF SeatInv

\* What a step that serves p leaves of the types.
LEMMA ServingTypes ==
    ASSUME ConnInv, NEW fd, NEW p, NEW c, Serving(fd, p, c)
    PROVE  /\ fired' \subseteq [fd : Fds \cup {Listen}, mask : (SUBSET {"r", "w"}) \ {{}}]
           /\ stream' \in [Peers -> Seq(STRING)]
           /\ gone' \in [Peers -> {"no", "shut", "reset"}]
           /\ taken' \in [Peers -> Nat]
           /\ \A q \in Peers : taken'[q] <= Len(stream'[q])
           /\ got' \in [Peers -> Seq(Nat)]
           /\ served' \in [Peers -> Seq(Seq(Seq(STRING)))]
BY DEF ConnInv, TypeOK, Serving

LEMMA SentKeeps ==
    ASSUME ConnInv, NEW fd, NEW p, NEW c, Serving(fd, p, c),
           NEW n \in 0 .. Len(c.write_buf), Outcome(fd, p, c, n)
    PROVE  ConnInv'
<1> DEFINE next == Flushed(c, n)
<1>1. /\ fd \in Fds /\ p \in Peers /\ owner[fd] = p /\ c \in Client /\ p # Null
      /\ phase[p] = "open" /\ ~ killed /\ TypeOK
  <2>1. fd \in Fds /\ p \in Peers /\ owner[fd] = p /\ c \in Client /\ p # Null
    BY NullAssumption DEF Serving
  <2> QED
    BY <2>1, Seated DEF ConnInv
<1>2. /\ next \in Client /\ next.codec = c.codec /\ next.close_after_write = c.close_after_write
      /\ next.writable_mask <=> next.write_buf # << >>
  <2>1. c.write_buf = << >> => ~ c.writable_mask
    BY DEF Serving, Watching
  <2> QED
    BY <1>1, <2>1, FlushedIs
<1>3. /\ Len(outgoing[p]) + n <= SendRoom
      /\ outgoing' = [outgoing EXCEPT ![p] = @ \o SubSeq(c.write_buf, 1, n)]
      /\ killed' = killed
  BY DEF Outcome
<1>4. \A q \in Peers \ {p} : PeerSame(q)
  BY <1>1, <1>3 DEF PeerSame, Serving, TypeOK
<1>5. gone' = gone /\ fired' \subseteq fired /\ \A e \in fired' : e.fd # fd
  BY DEF Serving
<1> HIDE DEF next
<1>6. CASE Finished(next) /\ CloseClient(fd)
  <2>1. /\ clients'[fd] = Null /\ events'[fd] = Null /\ owner'[fd] = Null /\ phase'[p] = "closed"
        /\ \A g \in Fds \ {fd} : SeatSame(g)
        /\ \A q \in Peers \ {p} : phase'[q] = phase[q]
        /\ clients' \in [Fds -> Client \cup {Null}]
        /\ events' \in [Fds \cup {Listen} -> (SUBSET {"r", "w"}) \cup {Null}]
        /\ phase' \in [Peers -> {"new", "backlog", "open", "closed"}]
        /\ owner' \in [Fds -> Peers \cup {Null}]
    BY <1>1, <1>6, ClosedIs
  <2>2. PeerInv(p)' /\ outgoing' \in [Peers -> Seq(Nat)]
    BY <1>1, <1>3, <2>1, FlushKeepsOrder
  <2>3. Local(fd, p)
    BY <1>3, <1>4, <1>5, <2>1 DEF Local
  <2>4. /\ \A q \in Peers \ {p} : PeerInv(q)'
        /\ \A g \in Fds \ {fd} : SeatInv(g)'
        /\ \A e \in fired' : EventInv(e)'
        /\ KilledInv'
    BY <1>1, <2>3, OthersKeep
  <2>5. SeatInv(fd)'
    BY <2>1, FreeSeat
  <2>6. TypeOK'
    BY <1>1, <1>3, <2>1, <2>2, ServingTypes DEF TypeOK
  <2> QED
    BY <2>2, <2>4, <2>5, <2>6 DEF ConnInv
<1>7. CASE /\ clients' = [clients EXCEPT ![fd] = next]
           /\ ModifyMask(fd, IF next.writable_mask THEN {"r", "w"} ELSE {"r"})
           /\ owner' = owner /\ phase' = phase
  <2> DEFINE mask == IF next.writable_mask THEN {"r", "w"} ELSE {"r"}
  <2>1. mask \in SUBSET {"r", "w"}
    OBVIOUS
  <2>2. /\ clients'[fd] = next /\ events'[fd] = mask
        /\ \A g \in Fds \ {fd} : SeatSame(g)
        /\ clients' \in [Fds -> Client \cup {Null}]
        /\ events' \in [Fds \cup {Listen} -> (SUBSET {"r", "w"}) \cup {Null}]
    BY <1>1, <1>2, <1>7, <2>1, StaysIs
  <2>3. /\ PeerInv(p)' /\ outgoing' \in [Peers -> Seq(Nat)]
        /\ ClientInv(p, next)'
    <3>1. phase'[p] \in {"open", "closed"}
      BY <1>1, <1>7
    <3> QED
      BY <1>1, <1>3, <3>1, FlushKeepsOrder DEF next
  <2>4. Local(fd, p)
    BY <1>1, <1>3, <1>4, <1>5, <1>7, <2>2 DEF Local
  <2>5. /\ \A q \in Peers \ {p} : PeerInv(q)'
        /\ \A g \in Fds \ {fd} : SeatInv(g)'
        /\ \A e \in fired' : EventInv(e)'
        /\ KilledInv' /\ OnlySeat(fd, p)'
    BY <1>1, <2>4, OthersKeep
  <2>6. WatchInv(next, events'[fd])
    BY <1>2, <2>2 DEF WatchInv
  <2>7. SeatInv(fd)'
    <3>1. owner'[fd] = p /\ phase'[p] = "open"
      BY <1>1, <1>7
    <3> QED
      BY <1>1, <1>2, <2>2, <2>3, <2>5, <2>6, <3>1, TakenSeat
  <2>8. TypeOK'
    BY <1>1, <1>3, <1>7, <2>2, <2>3, ServingTypes DEF TypeOK
  <2> QED
    BY <2>3, <2>5, <2>7, <2>8 DEF ConnInv
<1> QED
  BY <1>6, <1>7 DEF Outcome, next

\* SIGPIPE: nothing is left.
LEMMA KilledKeeps ==
    ASSUME ConnInv, NEW fd, NEW p, NEW c, Serving(fd, p, c), SigPipe(fd, c)
    PROVE  ConnInv'
<1>1. /\ fd \in Fds /\ p \in Peers /\ owner[fd] = p /\ c \in Client /\ p # Null
      /\ phase[p] = "open" /\ TypeOK
  <2>1. fd \in Fds /\ p \in Peers /\ owner[fd] = p /\ c \in Client /\ p # Null
    BY NullAssumption DEF Serving
  <2> QED
    BY <2>1, Seated DEF ConnInv
<1>2. /\ killed' = TRUE /\ outgoing' = outgoing
      /\ clients' = [f \in Fds |-> Null]
      /\ events' = [f \in Fds \cup {Listen} |-> Null]
      /\ owner' = [f \in Fds |-> Null]
      /\ phase' = [q \in Peers |-> IF phase[q] = "new" THEN "new" ELSE "closed"]
  BY <1>1 DEF SigPipe, TypeOK
<1>3. TypeOK'
  BY <1>1, <1>2, ServingTypes DEF TypeOK
<1>4. ASSUME NEW q \in Peers \ {p} PROVE PeerInv(q)'
  <2>1. PeerSame(q) /\ PeerInv(q)
    BY <1>2 DEF PeerSame, Serving, ConnInv
  <2>2. phase'[q] = phase[q] \/ phase'[q] \in {"open", "closed"}
    BY <1>2
  <2> QED
    BY <2>1, <2>2, PeerSameKeeps
<1>5. PeerInv(p)'
  <2>1. got[p] \in Seq(Nat) /\ outgoing[p] \in Seq(Nat) /\ c.write_buf \in Seq(Nat) /\ got' = got
    BY <1>1 DEF TypeOK, Client, Serving
  <2>2. got[p] \o outgoing[p] \in Seq(Nat)
    BY <2>1, Glue
  <2>3. IsPrefix(got[p] \o outgoing[p], (got[p] \o outgoing[p]) \o c.write_buf)
    BY <2>1, <2>2, FrontIsPrefix
  <2>4. IsPrefix(got[p] \o outgoing[p], All(p)')
    BY <2>3 DEF Serving
  <2>5. phase'[p] = "closed" /\ Len(outgoing[p]) <= SendRoom
    BY <1>1, <1>2 DEF ConnInv, PeerInv
  <2> QED
    BY <1>2, <2>1, <2>4, <2>5 DEF PeerInv, Serving
<1>6. ASSUME NEW g \in Fds PROVE SeatInv(g)'
  <2>1. clients'[g] = Null /\ events'[g] = Null /\ owner'[g] = Null
    BY <1>2
  <2> QED
    BY <2>1, FreeSeat
<1>7. ASSUME NEW e \in fired' PROVE EventInv(e)'
  <2>1. e \in fired /\ fired' \subseteq fired /\ EventInv(e)
    BY DEF Serving, ConnInv
  <2>2. e.fd \in Fds \cup {Listen}
    BY <1>1, <2>1 DEF TypeOK
  <2>3. events'[e.fd] = Null
    BY <1>2, <2>2
  <2> QED
    BY <1>2, <2>1, <2>3 DEF EventInv
<1>8. KilledInv'
  BY <1>2 DEF KilledInv
<1> QED
  BY <1>3, <1>4, <1>5, <1>6, <1>7, <1>8 DEF ConnInv

LEMMA SendKeeps ==
    ASSUME ConnInv, NEW fd, NEW p, NEW c, Serving(fd, p, c), Send(fd, c)
    PROVE  ConnInv'
<1>1. CASE FlushWriteBuf(fd, c)
  <2>1. PICK n \in 0 .. Len(c.write_buf) : Outcome(fd, p, c, n)
    BY <1>1, FlushIs
  <2> QED
    BY <2>1, SentKeeps
<1>2. CASE SigPipe(fd, c)
  BY <1>2, KilledKeeps
<1> QED
  BY <1>1, <1>2 DEF Send

-----------------------------------------------------------------------------
(* Reading.                                                                *)

\* What has been received and n bytes more, decoded in two pieces or in one.
FedSoFar(s, t, n, codec, new) ==
    /\ Feed(<< >>, SubSeq(s, 1, t + n)).cmds = Feed(<< >>, SubSeq(s, 1, t)).cmds \o Feed(codec, new).cmds
    /\ Feed(<< >>, SubSeq(s, 1, t + n)).rest = Feed(codec, new).rest
    /\ codec \in Seq(STRING) /\ new \in Seq(STRING)

LEMMA FedOnce ==
    ASSUME NEW s \in Seq(STRING), NEW t \in 0 .. Len(s), NEW n \in 0 .. Len(s) - t,
           NEW new, new = SubSeq(SubSeq(s, t + 1, Len(s)), 1, n),
           NEW codec, codec = Feed(<< >>, SubSeq(s, 1, t)).rest
    PROVE  FedSoFar(s, t, n, codec, new)
<1> DEFINE a == SubSeq(s, 1, t)
           b == SubSeq(s, t + 1, t + n)
           first == Feed(<< >>, a)
           second == Feed(first.rest, b)
<1>1. new = b /\ a \o b = SubSeq(s, 1, t + n)
  BY CutAgain
<1>2. a \in Seq(STRING) /\ b \in Seq(STRING) /\ << >> \in Seq(STRING)
  OBVIOUS
<1> HIDE DEF a, b
<1>3. Feed(<< >>, a \o b) = [cmds |-> first.cmds \o second.cmds, rest |-> second.rest]
  <2>1. FedApart(<< >>, a, b, first, second)
    BY <1>2, FeedInTwo, Zenon
  <2> QED
    BY <2>1, Zenon DEF FedApart
<1>4. codec = first.rest /\ codec \in Seq(STRING)
  BY <1>2, FeedType DEF a
<1>5. second = Feed(codec, new)
  BY <1>1, <1>4
<1>6. /\ Feed(<< >>, a \o b).cmds = first.cmds \o second.cmds
      /\ Feed(<< >>, a \o b).rest = second.rest
  <2>1. \A x, y, z : x = [cmds |-> y, rest |-> z] => x.cmds = y /\ x.rest = z
    OBVIOUS
  <2> HIDE DEF first, second
  <2> QED
    BY <1>3, <2>1, Zenon
<1> HIDE DEF first, second
<1>7. /\ Feed(<< >>, SubSeq(s, 1, t + n)).cmds = first.cmds \o Feed(codec, new).cmds
      /\ Feed(<< >>, SubSeq(s, 1, t + n)).rest = Feed(codec, new).rest
  BY <1>1, <1>5, <1>6, Zenon
<1> QED
  BY <1>1, <1>2, <1>4, <1>7, Zenon DEF first, a, FedSoFar

Quits(cmds) == \E j \in 1 .. Len(cmds) : cmds[j][1] = QUIT

LEMMA QuitsMore ==
    ASSUME NEW a \in Seq(Seq(Seq(STRING))), NEW b \in Seq(Seq(Seq(STRING))), Quits(a) \/ Quits(b)
    PROVE  Quits(a \o b)
<1>1. CASE Quits(a)
  <2>1. PICK j \in 1 .. Len(a) : a[j][1] = QUIT
    BY <1>1 DEF Quits
  <2>2. (a \o b)[j] = a[j] /\ j \in 1 .. Len(a \o b)
    BY <2>1
  <2> QED
    BY <2>1, <2>2 DEF Quits
<1>2. CASE Quits(b)
  <2>1. PICK j \in 1 .. Len(b) : b[j][1] = QUIT
    BY <1>2 DEF Quits
  <2>2. (a \o b)[Len(a) + j] = b[j] /\ Len(a) + j \in 1 .. Len(a \o b)
    BY <2>1
  <2> QED
    BY <2>1, <2>2 DEF Quits
<1> QED
  BY <1>1, <1>2

\* The client that has processed the commands.
Processes(c, p, rest, cmds, client) ==
    /\ client \in Client /\ client.codec = rest
    /\ client.write_buf = c.write_buf \o [j \in 1 .. Len(cmds) |-> Len(served[p]) + j]
    /\ client.close_after_write <=> c.close_after_write \/ Quits(cmds)
    /\ client.writable_mask = c.writable_mask

LEMMA ProcessedIs ==
    ASSUME NEW c \in Client, NEW p, served[p] \in Seq(Seq(Seq(STRING))),
           NEW rest \in Seq(STRING), NEW cmds \in Seq(Seq(Seq(STRING))),
           NEW client, client = Processed([c EXCEPT !.codec = rest], p, cmds)
    PROVE  Processes(c, p, rest, cmds, client)
<1> DEFINE more == [j \in 1 .. Len(cmds) |-> Len(served[p]) + j]
           quits == Quits(cmds)
           kept == [c EXCEPT !.codec = rest]
           close == c.close_after_write \/ quits
           wb == c.write_buf \o more
<1>1. Len(served[p]) \in Nat /\ Len(cmds) \in Nat
  OBVIOUS
<1>2. more \in Seq(Nat)
  BY <1>1
<1>3. c.write_buf \in Seq(Nat) /\ c.close_after_write \in BOOLEAN
  BY DEF Client
<1>4. wb \in Seq(Nat)
  BY <1>2, <1>3, Glue
<1>5. quits \in BOOLEAN /\ close \in BOOLEAN
  BY DEF Quits
<1>6. /\ kept \in Client /\ kept.codec = rest /\ kept.write_buf = c.write_buf
      /\ kept.close_after_write = c.close_after_write /\ kept.writable_mask = c.writable_mask
  BY DEF Client
<1>7. client = [kept EXCEPT !.write_buf = kept.write_buf \o more,
                            !.close_after_write = kept.close_after_write \/ quits]
  BY DEF Processed, Quits
<1> HIDE DEF more, quits, kept
<1>8. client = [kept EXCEPT !.write_buf = wb, !.close_after_write = close]
  BY <1>6, <1>7
<1> HIDE DEF wb, close
<1>9. /\ client \in Client /\ client.codec = rest /\ client.write_buf = wb
      /\ client.close_after_write = close /\ client.writable_mask = c.writable_mask
  BY <1>4, <1>5, <1>6, <1>8 DEF Client
<1> QED
  BY <1>9 DEF Processes, wb, close, more, quits

\* The event e of the socket of p is being dispatched.
Dispatching(e, p) ==
    /\ e \in fired /\ fired' = fired \ {e}
    /\ e.fd \in Fds /\ p \in Peers /\ owner[e.fd] = p

LEMMA DispatchingIs ==
    ASSUME ConnInv, NEW e, NEW p, Dispatching(e, p)
    PROVE  /\ e.fd \in Fds /\ p \in Peers /\ p # Null /\ owner[e.fd] = p /\ phase[p] = "open"
           /\ fired' \subseteq fired /\ \A f \in fired' : f.fd # e.fd
           /\ clients[e.fd] \in Client /\ ClientInv(p, clients[e.fd]) /\ PeerInv(p)
           /\ WatchInv(clients[e.fd], events[e.fd])
<1>1. p # Null /\ p \in Peers /\ e.fd \in Fds /\ owner[e.fd] = p
  BY NullAssumption DEF Dispatching
<1>2. EventInv(e) /\ PeerInv(p)
  BY <1>1 DEF ConnInv, Dispatching
<1>3. \A f \in fired' : f.fd # e.fd
  BY <1>2 DEF EventInv, Dispatching
<1> QED
  BY <1>1, <1>2, <1>3, Seated DEF Dispatching

\* A client that has nothing to process.
LEMMA IdleServes ==
    ASSUME ConnInv, NEW e, NEW p, Dispatching(e, p), NEW c, c = clients[e.fd],
           UNCHANGED <<stream, gone, taken, got, served>>
    PROVE  Serving(e.fd, p, c)
<1>1. TypeOK
  BY DEF ConnInv
<1>2. Whole(p)' = Whole(p) /\ All(p)' = All(p)
  BY DEF Whole, All
<1>3. /\ e.fd \in Fds /\ p \in Peers /\ owner[e.fd] = p
      /\ fired' \subseteq fired /\ \A f \in fired' : f.fd # e.fd
      /\ c \in Client /\ ClientInv(p, c) /\ PeerInv(p) /\ WatchInv(c, events[e.fd])
  BY DispatchingIs
<1>4. /\ served[p] = Whole(p).cmds /\ c.codec = Whole(p).rest
      /\ (got[p] \o outgoing[p]) \o c.write_buf = All(p)
      /\ c.close_after_write => \E j \in 1 .. Len(served[p]) : served[p][j][1] = QUIT
  BY <1>3, Zenon DEF ClientInv, PeerInv
<1>5. /\ taken' \in [Peers -> Nat] /\ \A q \in Peers : taken'[q] <= Len(stream[q])
      /\ served' \in [Peers -> Seq(Seq(Seq(STRING)))]
  BY <1>1 DEF TypeOK
<1>6. Watching(e.fd, c)
  BY <1>3 DEF WatchInv, Watching
<1> QED
  BY <1>2, <1>3, <1>4, <1>5, <1>6 DEF Serving

LEMMA ReadServes ==
    ASSUME ConnInv, NEW e, NEW p, Dispatching(e, p), NEW n \in Arriving(p),
           NEW fed, fed = Feed(clients[e.fd].codec, SubSeq(Incoming(p), 1, n)),
           NEW client, client = Processed([clients[e.fd] EXCEPT !.codec = fed.rest], p, fed.cmds),
           taken' = [taken EXCEPT ![p] = @ + n],
           served' = [served EXCEPT ![p] = @ \o fed.cmds],
           UNCHANGED <<stream, gone, got>>
    PROVE  Serving(e.fd, p, client)
<1> DEFINE s == stream[p]
           t == taken[p]
           c == clients[e.fd]
           m == Len(served[p])
           k == Len(fed.cmds)
           sent == got[p] \o outgoing[p]
           new == SubSeq(SubSeq(s, t + 1, Len(s)), 1, n)
           more == [j \in 1 .. k |-> m + j]
<1>1. /\ TypeOK /\ p \in Peers /\ c \in Client /\ ClientInv(p, c) /\ PeerInv(p)
      /\ e.fd \in Fds /\ owner[e.fd] = p /\ fired' \subseteq fired /\ \A f \in fired' : f.fd # e.fd
      /\ WatchInv(c, events[e.fd])
  BY DispatchingIs DEF ConnInv
<1>2. s \in Seq(STRING) /\ t \in 0 .. Len(s)
  BY <1>1 DEF TypeOK
<1>3. n \in 0 .. Len(s) - t
  <2>1. Len(Incoming(p)) = Len(s) - t
    BY <1>2 DEF Incoming
  <2>2. n \in 1 .. ReadSize /\ n <= Len(Incoming(p))
    BY DEF Arriving
  <2>3. ReadSize \in Nat
    BY SizesAssumption
  <2> QED
    BY <1>2, <2>1, <2>2, <2>3
<1>4. /\ Feed(<< >>, SubSeq(s, 1, t + n)).cmds = Feed(<< >>, SubSeq(s, 1, t)).cmds \o fed.cmds
      /\ Feed(<< >>, SubSeq(s, 1, t + n)).rest = fed.rest
      /\ c.codec \in Seq(STRING) /\ new \in Seq(STRING) /\ fed = Feed(c.codec, new)
  <2>1. c.codec = Feed(<< >>, SubSeq(s, 1, t)).rest
    BY <1>1 DEF ClientInv, Whole
  <2>2. fed = Feed(c.codec, new)
    BY DEF Incoming
  <2> HIDE DEF s, t, c, new
  <2>3. new = SubSeq(SubSeq(s, t + 1, Len(s)), 1, n)
    BY DEF new
  <2>4. FedSoFar(s, t, n, c.codec, new)
    BY <1>2, <1>3, <2>1, <2>3, FedOnce, Zenon
  <2> QED
    BY <2>2, <2>4, Zenon DEF FedSoFar
<1>5. fed.cmds \in Seq(Seq(Seq(STRING))) /\ fed.rest \in Seq(STRING)
  <2> HIDE DEF c, new
  <2> QED
    BY <1>4, FeedType
<1>6. served[p] \in Seq(Seq(Seq(STRING))) /\ m \in Nat /\ k \in Nat
  BY <1>1, <1>5, SMTT(30) DEF TypeOK
<1>7. /\ client \in Client /\ client.codec = fed.rest
      /\ client.write_buf = c.write_buf \o more
      /\ client.close_after_write <=> c.close_after_write \/ Quits(fed.cmds)
      /\ client.writable_mask = c.writable_mask
  <2>1. Processes(c, p, fed.rest, fed.cmds, client)
    BY <1>1, <1>5, <1>6, ProcessedIs, Zenon
  <2> QED
    BY <2>1, Zenon DEF Processes
<1>8. /\ taken' \in [Peers -> Nat] /\ taken'[p] = t + n
      /\ \A q \in Peers : taken'[q] <= Len(stream[q])
      /\ \A q \in Peers \ {p} : taken'[q] = taken[q]
  BY <1>1, <1>2, <1>3 DEF TypeOK
<1>9. /\ served'[p] = served[p] \o fed.cmds
      /\ \A q \in Peers \ {p} : served'[q] = served[q]
  BY <1>1 DEF TypeOK
<1>10. /\ served[p] \o fed.cmds \in Seq(Seq(Seq(STRING)))
       /\ Len(served[p] \o fed.cmds) = m + k
  BY <1>5, <1>6, Glue
<1>11. served' \in [Peers -> Seq(Seq(Seq(STRING)))]
  BY <1>1, <1>10 DEF TypeOK
<1>12. Whole(p)' = Feed(<< >>, SubSeq(s, 1, t + n))
  BY <1>8 DEF Whole
<1>13. served'[p] = Whole(p)'.cmds /\ client.codec = Whole(p)'.rest
  <2>1. served[p] = Feed(<< >>, SubSeq(s, 1, t)).cmds
    BY <1>1 DEF PeerInv, Whole
  <2> HIDE DEF s, t
  <2> QED
    BY <1>4, <1>7, <1>9, <1>12, <2>1, Zenon
<1>14. sent \o client.write_buf = All(p)'
  <2>1. got[p] \in Seq(Nat) /\ outgoing[p] \in Seq(Nat) /\ c.write_buf \in Seq(Nat)
    BY <1>1 DEF TypeOK, Client
  <2>2. sent \in Seq(Nat) /\ more \in Seq(Nat)
    BY <1>6, <2>1, Glue
  <2>3. sent \o c.write_buf = Upto(m)
    BY <1>1 DEF ClientInv, All
  <2>4. All(p)' = Upto(m + k)
    BY <1>9, <1>10 DEF All
  <2>5. Upto(m) \o more = Upto(m + k)
    BY <1>6, UptoMore
  <2> HIDE DEF sent, more, c
  <2>6. Assoc(sent, c.write_buf, more)
    BY <2>1, <2>2, AssocAlways, Zenon
  <2>7. (sent \o c.write_buf) \o more = sent \o (c.write_buf \o more)
    BY <2>6, Zenon DEF Assoc
  <2> QED
    BY <1>7, <2>3, <2>4, <2>5, <2>7, Zenon
<1>15. client.close_after_write => Quits(served'[p])
  <2>1. c.close_after_write => Quits(served[p])
    BY <1>1, Zenon DEF ClientInv, Quits
  <2> QED
    BY <1>5, <1>6, <1>7, <1>9, <2>1, QuitsMore
<1>16. Watching(e.fd, client)
  <2>1. c.write_buf \in Seq(Nat) /\ more \in Seq(Nat)
    BY <1>1, <1>6 DEF Client
  <2> DEFINE wb == c.write_buf
  <2>2. wb \o more = << >> => wb = << >>
    <3> HIDE DEF wb, more
    <3> QED
      BY <2>1 DEF wb
  <2>3. client.write_buf = << >> => ~ c.writable_mask
    BY <1>1, <1>7, <2>2 DEF WatchInv
  <2>4. events[e.fd] = IF c.writable_mask THEN {"r", "w"} ELSE {"r"}
    BY <1>1 DEF WatchInv
  <2> QED
    BY <1>7, <2>3, <2>4, Zenon DEF Watching
<1> QED
  BY <1>1, <1>7, <1>8, <1>9, <1>11, <1>13, <1>14, <1>15, <1>16, Zenon DEF Serving, Quits

LEMMA ReadKeeps ==
    ASSUME ConnInv, NEW e, NEW p, Dispatching(e, p), Read(e.fd)
    PROVE  ConnInv'
<1>1. owner[e.fd] = p
  BY DEF Dispatching
<1>2. PICK n \in Arriving(p) :
        \E fed \in {Feed(clients[e.fd].codec, SubSeq(Incoming(p), 1, n))} :
        \E client \in {Processed([clients[e.fd] EXCEPT !.codec = fed.rest], p, fed.cmds)} :
           /\ Send(e.fd, client)
           /\ taken' = [taken EXCEPT ![p] = @ + n]
           /\ served' = [served EXCEPT ![p] = @ \o fed.cmds]
           /\ UNCHANGED <<script, stream, gone, got>>
  BY <1>1 DEF Read
<1>3. PICK fed, client :
        /\ fed = Feed(clients[e.fd].codec, SubSeq(Incoming(p), 1, n))
        /\ client = Processed([clients[e.fd] EXCEPT !.codec = fed.rest], p, fed.cmds)
        /\ Send(e.fd, client)
        /\ taken' = [taken EXCEPT ![p] = @ + n]
        /\ served' = [served EXCEPT ![p] = @ \o fed.cmds]
        /\ UNCHANGED <<script, stream, gone, got>>
  BY <1>2, Zenon
<1>4. Serving(e.fd, p, client)
  BY <1>2, <1>3, ReadServes, Zenon
<1> QED
  BY <1>3, <1>4, SendKeeps, Zenon

LEMMA ReadNothingKeeps ==
    ASSUME ConnInv, NEW e, NEW p, Dispatching(e, p), ReadNothing(e.fd)
    PROVE  ConnInv'
<1> DEFINE fd == e.fd
<1>1. CloseClient(fd) /\ UNCHANGED <<stream, gone, taken, outgoing, got, killed, served>>
  BY DEF ReadNothing
<1>2. /\ fd \in Fds /\ p \in Peers /\ owner[fd] = p /\ phase[p] = "open"
      /\ fired' \subseteq fired /\ \A f \in fired' : f.fd # fd /\ PeerInv(p)
  BY DispatchingIs
<1> HIDE DEF fd
<1>3. /\ clients'[fd] = Null /\ events'[fd] = Null /\ owner'[fd] = Null /\ phase'[p] = "closed"
      /\ \A g \in Fds \ {fd} : SeatSame(g)
      /\ \A q \in Peers \ {p} : phase'[q] = phase[q]
      /\ clients' \in [Fds -> Client \cup {Null}]
      /\ events' \in [Fds \cup {Listen} -> (SUBSET {"r", "w"}) \cup {Null}]
      /\ phase' \in [Peers -> {"new", "backlog", "open", "closed"}]
      /\ owner' \in [Fds -> Peers \cup {Null}]
  BY <1>1, <1>2, ClosedIs
<1>4. \A q \in Peers : PeerSame(q)
  BY <1>1 DEF PeerSame
<1>5. Local(fd, p)
  BY <1>1, <1>2, <1>3, <1>4 DEF Local
<1>6. /\ \A q \in Peers \ {p} : PeerInv(q)'
      /\ \A g \in Fds \ {fd} : SeatInv(g)'
      /\ \A f \in fired' : EventInv(f)'
      /\ KilledInv'
  BY <1>2, <1>5, OthersKeep
<1>7. PeerInv(p)'
  <2>1. PeerInv(p)
    BY <1>2 DEF ConnInv
  <2> QED
    BY <1>2, <1>3, <1>4, <2>1, PeerSameKeeps
<1>8. SeatInv(fd)'
  BY <1>3, FreeSeat
<1>9. TypeOK'
  <2>1. TypeOK
    BY DEF ConnInv
  <2> QED
    BY <1>1, <1>2, <1>3, <2>1 DEF TypeOK
<1> QED
  BY <1>6, <1>7, <1>8, <1>9 DEF ConnInv

-----------------------------------------------------------------------------
(* Accepting.                                                              *)

\* A connection that has just been accepted.
LEMMA NewIs ==
    ASSUME ConnInv, NEW q \in Peers, phase[q] = "backlog"
    PROVE  ClientInv(q, NewClient) /\ NewClient \in Client /\ WatchInv(NewClient, {"r"})
<1>1. TypeOK /\ PeerInv(q)
  BY DEF ConnInv
<1>2. taken[q] = 0 /\ got[q] = << >> /\ outgoing[q] = << >> /\ served[q] = Whole(q).cmds
  BY <1>1 DEF PeerInv
<1>3. SubSeq(stream[q], 1, taken[q]) = << >>
  BY <1>1, <1>2 DEF TypeOK
<1>4. Whole(q).cmds = << >> /\ Whole(q).rest = << >>
  BY <1>3, FeedNothing DEF Whole
<1>5. All(q) = << >>
  <2>1. Len(served[q]) = 0
    BY <1>2, <1>4
  <2>2. Upto(0) = << >>
    BY DEF Upto
  <2> QED
    BY <2>1, <2>2 DEF All
<1>6. /\ NewClient.codec = << >> /\ NewClient.write_buf = << >>
      /\ NewClient.close_after_write = FALSE /\ NewClient.writable_mask = FALSE
  BY DEF NewClient
<1>7. (got[q] \o outgoing[q]) \o << >> = << >>
  BY <1>2
<1>8. ClientInv(q, NewClient)
  BY <1>4, <1>5, <1>6, <1>7 DEF ClientInv
<1>9. NewClient \in Client
  BY DEF NewClient, Client
<1> QED
  BY <1>6, <1>8, <1>9 DEF WatchInv

\* Who waits gets a socket that was free, and nobody else's.
LEMMA AcceptIs ==
    ASSUME ConnInv, OnAccept
    PROVE  /\ \A fd \in Fds : owner'[fd] # owner[fd] =>
                 /\ owner[fd] = Null /\ owner'[fd] \in Peers /\ phase[owner'[fd]] = "backlog"
                 /\ OnlySeat(fd, owner[fd])'
                 /\ clients'[fd] = NewClient /\ events'[fd] = {"r"}
           /\ \A fd \in Fds : owner'[fd] = owner[fd] => SeatSame(fd)
           /\ events' \in [Fds \cup {Listen} -> (SUBSET {"r", "w"}) \cup {Null}]
           /\ clients' \in [Fds -> Client \cup {Null}]
           /\ owner' \in [Fds -> Peers \cup {Null}]
           /\ phase' = [p \in Peers |-> IF phase[p] = "backlog" THEN "open" ELSE phase[p]]
           /\ UNCHANGED <<script, stream, gone, taken, outgoing, got, killed, served>>
<1> DEFINE waiting == {p \in Peers : phase[p] = "backlog"}
           free == {fd \in Fds : owner[fd] = Null}
<1>1. TypeOK /\ \A fd \in Fds : owner[fd] # Null => phase[owner[fd]] = "open"
  BY Seated DEF ConnInv
<1>2. PICK seat \in [waiting -> free] :
        /\ IsInjective(seat)
        /\ owner' = [fd \in Fds |-> IF fd \in Range(seat)
                                   THEN CHOOSE p \in waiting : seat[p] = fd
                                   ELSE owner[fd]]
  BY DEF OnAccept
<1>3. /\ clients' = [fd \in Fds |-> IF owner'[fd] # owner[fd] THEN NewClient ELSE clients[fd]]
      /\ events' = [fd \in DOMAIN events |->
                        IF fd # Listen /\ owner'[fd] # owner[fd] THEN {"r"} ELSE events[fd]]
      /\ phase' = [p \in Peers |-> IF phase[p] = "backlog" THEN "open" ELSE phase[p]]
      /\ UNCHANGED <<script, stream, gone, taken, outgoing, got, killed, served>>
  BY DEF OnAccept
<1>4. ASSUME NEW fd \in Range(seat)
      PROVE  fd \in free /\ owner'[fd] \in waiting /\ seat[owner'[fd]] = fd
  <2>1. PICK p \in waiting : seat[p] = fd
    BY <1>2, Zenon DEF Range
  <2>2. fd \in free
    BY <1>2, <2>1
  <2>3. owner'[fd] = CHOOSE q \in waiting : seat[q] = fd
    BY <1>2, <2>2
  <2> HIDE DEF waiting, free
  <2>4. (CHOOSE q \in waiting : seat[q] = fd) \in waiting /\ seat[CHOOSE q \in waiting : seat[q] = fd] = fd
    BY <2>1, Zenon
  <2> QED
    BY <2>2, <2>3, <2>4, Zenon
<1>5. ASSUME NEW fd \in Fds, fd \notin Range(seat)
      PROVE  owner'[fd] = owner[fd]
  BY <1>2, <1>5
<1>6. ASSUME NEW fd \in Fds, owner'[fd] # owner[fd]
      PROVE  /\ owner[fd] = Null /\ owner'[fd] \in Peers /\ phase[owner'[fd]] = "backlog"
             /\ OnlySeat(fd, owner[fd])'
             /\ clients'[fd] = NewClient /\ events'[fd] = {"r"}
  <2>1. fd \in Range(seat)
    BY <1>5, <1>6
  <2>2. fd \in free /\ owner'[fd] \in waiting /\ seat[owner'[fd]] = fd
    BY <1>4, <2>1
  <2>3. ASSUME NEW h \in Fds, owner'[h] = owner'[fd] PROVE h = fd
    <3>1. CASE h \in Range(seat)
      <4>1. seat[owner'[h]] = h
        BY <1>4, <3>1
      <4> QED
        BY <2>2, <2>3, <4>1
    <3>2. CASE h \notin Range(seat)
      <4>1. owner[h] = owner'[fd]
        BY <1>5, <2>3, <3>2
      <4>2. owner'[fd] \in Peers /\ phase[owner'[fd]] = "backlog"
        BY <2>2
      <4>3. owner[h] # Null /\ phase[owner[h]] = "backlog"
        BY <4>1, <4>2, NullAssumption
      <4> QED
        BY <1>1, <4>3
    <3> QED
      BY <3>1, <3>2
  <2>4. fd # Listen /\ fd \in DOMAIN events
    BY <1>1, NullAssumption DEF TypeOK
  <2> QED
    BY <1>3, <1>6, <2>2, <2>3, <2>4 DEF OnlySeat
<1>7. ASSUME NEW fd \in Fds, owner'[fd] = owner[fd] PROVE SeatSame(fd)
  <2>1. fd \in DOMAIN events
    BY <1>1 DEF TypeOK
  <2> QED
    BY <1>3, <1>7, <2>1 DEF SeatSame
<1>8. owner' \in [Fds -> Peers \cup {Null}]
  <2>1. ASSUME NEW fd \in Fds PROVE owner'[fd] \in Peers \cup {Null}
    BY <1>1, <1>6 DEF TypeOK
  <2>2. owner' = [fd \in Fds |-> owner'[fd]]
    BY <1>2
  <2> QED
    BY <2>1, <2>2
<1>9. /\ events' \in [Fds \cup {Listen} -> (SUBSET {"r", "w"}) \cup {Null}]
      /\ clients' \in [Fds -> Client \cup {Null}]
  <2>1. NewClient \in Client
    BY DEF NewClient, Client
  <2> QED
    BY <1>1, <1>3, <2>1 DEF TypeOK
<1> QED
  BY <1>3, <1>6, <1>7, <1>8, <1>9

LEMMA AcceptKeeps ==
    ASSUME ConnInv, NEW e \in fired, e.fd = Listen, events[Listen] # Null, fired' = fired \ {e}, OnAccept
    PROVE  ConnInv'
<1>1. /\ \A fd \in Fds : owner'[fd] # owner[fd] =>
            /\ owner[fd] = Null /\ owner'[fd] \in Peers /\ phase[owner'[fd]] = "backlog"
            /\ OnlySeat(fd, owner[fd])'
            /\ clients'[fd] = NewClient /\ events'[fd] = {"r"}
      /\ \A fd \in Fds : owner'[fd] = owner[fd] => SeatSame(fd)
      /\ events' \in [Fds \cup {Listen} -> (SUBSET {"r", "w"}) \cup {Null}]
      /\ clients' \in [Fds -> Client \cup {Null}]
      /\ owner' \in [Fds -> Peers \cup {Null}]
      /\ phase' = [p \in Peers |-> IF phase[p] = "backlog" THEN "open" ELSE phase[p]]
      /\ UNCHANGED <<script, stream, gone, taken, outgoing, got, killed, served>>
  BY AcceptIs
<1>2. TypeOK /\ ~ killed
  <2>1. TypeOK /\ KilledInv
    BY DEF ConnInv
  <2> QED
    BY <2>1 DEF KilledInv
<1>3. TypeOK'
  BY <1>1, <1>2 DEF TypeOK
<1>4. \A q \in Peers : PeerSame(q)
  BY <1>1 DEF PeerSame
<1>5. ASSUME NEW q \in Peers PROVE PeerInv(q)'
  <2>1. PeerInv(q) /\ PeerSame(q) /\ (phase'[q] = phase[q] \/ phase'[q] \in {"open", "closed"})
    BY <1>1, <1>4 DEF ConnInv
  <2> QED
    BY <2>1, PeerSameKeeps
<1>6. ASSUME NEW fd \in Fds, owner'[fd] # owner[fd] PROVE SeatInv(fd)'
  <2>1. PICK q \in Peers : q = owner'[fd]
    BY <1>1, <1>6
  <2>2. phase[q] = "backlog" /\ OnlySeat(fd, owner[fd])' /\ clients'[fd] = NewClient /\ events'[fd] = {"r"}
    BY <1>1, <1>6, <2>1
  <2>3. ClientInv(q, NewClient) /\ NewClient \in Client /\ WatchInv(NewClient, {"r"})
    BY <2>1, <2>2, NewIs
  <2>4. ClientInv(q, NewClient)'
    <3>1. PeerSame(q) /\ NewClient' = NewClient
      BY <1>4, <2>1 DEF NewClient
    <3> DEFINE c == NewClient
    <3>2. ClientInv(q, c) /\ c' = c
      BY <2>3, <3>1
    <3> HIDE DEF c
    <3>3. ASSUME NEW d, d = c PROVE ClientInv(q, d)'
      BY <3>1, <3>2, <3>3, PeerSameKeeps
    <3> QED
      BY <3>2, <3>3 DEF ClientInv, c
  <2>5. phase'[q] = "open"
    BY <1>1, <2>1, <2>2
  <2>6. OnlySeat(fd, q)'
    BY <2>1, <2>2 DEF OnlySeat
  <2>7. WatchInv(NewClient, events'[fd])
    BY <2>2, <2>3
  <2> QED
    <3>1. ASSUME NEW c, c = NewClient PROVE SeatInv(fd)'
      <4>1. ClientInv(q, c)'
        BY <2>4, <3>1 DEF ClientInv
      <4> QED
        BY <2>1, <2>2, <2>3, <2>5, <2>6, <2>7, <3>1, <4>1, TakenSeat
    <3> QED
      BY <3>1
<1>7. ASSUME NEW fd \in Fds, owner'[fd] = owner[fd] PROVE SeatInv(fd)'
  <2>1. SeatInv(fd) /\ SeatSame(fd)
    BY <1>1, <1>7 DEF ConnInv
  <2>2. ASSUME owner[fd] # Null
        PROVE  PeerSame(owner[fd]) /\ phase'[owner[fd]] = phase[owner[fd]] /\ OnlySeat(fd, owner[fd])'
    <3>1. owner[fd] \in Peers /\ phase[owner[fd]] = "open" /\ OnlySeat(fd, owner[fd])
      BY <2>2, Seated
    <3>2. phase'[owner[fd]] = phase[owner[fd]]
      BY <1>1, <3>1
    <3>3. ASSUME NEW h \in Fds, owner'[h] = owner'[fd] PROVE h = fd
      <4>1. CASE owner'[h] = owner[h]
        BY <1>7, <3>1, <3>3, <4>1 DEF OnlySeat
      <4>2. CASE owner'[h] # owner[h]
        <5>1. phase[owner'[h]] = "backlog"
          BY <1>1, <4>2
        <5> QED
          BY <1>7, <3>1, <3>3, <5>1
      <4> QED
        BY <4>1, <4>2
    <3> QED
      BY <1>4, <3>1, <3>2, <3>3 DEF OnlySeat
  <2> QED
    BY <2>1, <2>2, SeatSameKeeps
<1>8. ASSUME NEW f \in fired' PROVE EventInv(f)'
  <2>1. f \in fired /\ f # e /\ EventInv(f) /\ fired' \subseteq fired
    BY DEF ConnInv
  <2>2. f.fd \in Fds /\ f.fd # Listen
    <3>1. f.fd # e.fd
      BY <2>1 DEF EventInv
    <3> QED
      BY <1>2, <2>1, <3>1 DEF TypeOK
  <2>3. events[f.fd] # Null /\ owner[f.fd] # Null
    <3>1. events[f.fd] # Null
      BY <1>2, <2>1, <2>2 DEF EventInv
    <3> QED
      BY <2>2, <3>1 DEF ConnInv, SeatInv
  <2>4. SeatSame(f.fd)
    BY <1>1, <2>2, <2>3
  <2>5. "r" \in f.mask => Due(owner[f.fd])
    BY <2>1, <2>2, <2>3 DEF EventInv
  <2>6. Due(owner[f.fd])' <=> Due(owner[f.fd])
    BY <1>1, <2>4 DEF SeatSame, Due, Incoming
  <2> QED
    BY <1>1, <1>2, <2>1, <2>3, <2>4, <2>5, <2>6 DEF EventInv, SeatSame
<1>9. KilledInv'
  BY <1>1, <1>2 DEF KilledInv
<1> QED
  BY <1>3, <1>5, <1>6, <1>7, <1>8, <1>9 DEF ConnInv

LEMMA DispatchKeeps ==
    ASSUME ConnInv, NEW e \in fired, Dispatch(e)
    PROVE  ConnInv'
<1>1. fired' = fired \ {e} /\ TypeOK /\ e.fd \in Fds \cup {Listen}
  BY DEF Dispatch, ConnInv, TypeOK
<1>2. CASE events[e.fd] = Null
  <2>1. UNCHANGED <<clients, events, kernel, served>>
    BY <1>2 DEF Dispatch
  <2>2. UNCHANGED <<clients, events, script, stream, phase, gone, taken, owner, outgoing, got, killed, served>>
    BY <2>1 DEF kernel
  <2>3. TypeOK'
    BY <1>1, <2>2 DEF TypeOK
  <2>4. ASSUME NEW p \in Peers PROVE PeerInv(p)'
    <3>1. PeerInv(p) /\ PeerSame(p) /\ phase'[p] = phase[p]
      BY <2>2 DEF ConnInv, PeerSame
    <3> QED
      BY <3>1, PeerSameKeeps
  <2>5. ASSUME NEW fd \in Fds PROVE SeatInv(fd)'
    <3>1. SeatInv(fd) /\ SeatSame(fd)
      BY <2>2 DEF ConnInv, SeatSame
    <3>2. ASSUME owner[fd] # Null
          PROVE  /\ PeerSame(owner[fd]) /\ phase'[owner[fd]] = phase[owner[fd]]
                 /\ OnlySeat(fd, owner[fd])'
      BY <2>2, <3>1, <3>2 DEF PeerSame, SeatInv, OnlySeat
    <3> QED
      BY <3>1, <3>2, SeatSameKeeps
  <2>6. ASSUME NEW f \in fired' PROVE EventInv(f)'
    <3>1. f \in fired /\ EventInv(f) /\ fired' \subseteq fired
      BY <1>1 DEF ConnInv
    <3> QED
      BY <2>2, <3>1 DEF EventInv, Due, Incoming
  <2>7. KilledInv'
    BY <2>2 DEF KilledInv, ConnInv
  <2> QED
    BY <2>3, <2>4, <2>5, <2>6, <2>7 DEF ConnInv
<1>3. CASE events[e.fd] # Null /\ e.fd = Listen
  BY <1>1, <1>3, AcceptKeeps DEF Dispatch
<1>4. CASE events[e.fd] # Null /\ e.fd # Listen
  <2>1. e.fd \in Fds
    BY <1>1, <1>4
  <2>2. owner[e.fd] # Null
    BY <1>4, <2>1 DEF ConnInv, SeatInv
  <2>3. PICK p \in Peers : p = owner[e.fd]
    BY <2>1, <2>2, Seated
  <2>4. Dispatching(e, p)
    BY <1>1, <2>1, <2>3 DEF Dispatching
  <2>5. CASE Read(e.fd)
    BY <2>4, <2>5, ReadKeeps
  <2>6. CASE ReadNothing(e.fd)
    BY <2>4, <2>6, ReadNothingKeeps
  <2>7. CASE Send(e.fd, clients[e.fd]) /\ UNCHANGED <<script, stream, gone, taken, got, served>>
    <3>1. Serving(e.fd, p, clients[e.fd])
      BY <2>4, <2>7, IdleServes
    <3> QED
      BY <2>7, <3>1, SendKeeps
  <2> QED
    BY <1>4, <2>5, <2>6, <2>7 DEF Dispatch
<1> QED
  BY <1>2, <1>3, <1>4

-----------------------------------------------------------------------------
(* The wait for events, and the peers.                                     *)

LEMMA WaitKeeps ==
    ASSUME ConnInv, RunOnce
    PROVE  ConnInv'
<1>1. UNCHANGED <<clients, events, script, stream, phase, gone, taken, owner, outgoing, got, killed, served>>
  BY DEF RunOnce, kernel
<1>2. PICK arrived \in SUBSET {fd \in DOMAIN events : Readable(fd)} : fired' = Reported(arrived)
  BY DEF RunOnce, Wait
<1>3. TypeOK
  BY DEF ConnInv
<1>4. ASSUME NEW e \in fired'
      PROVE  /\ e.fd \in Fds \cup {Listen}
             /\ e = [fd |-> e.fd, mask |-> e.mask] /\ e.mask \in (SUBSET {"r", "w"}) \ {{}}
             /\ events[e.fd] # Null
             /\ "r" \in e.mask => Readable(e.fd)
             /\ \A f \in fired' : f.fd = e.fd => f = e
  <2> DEFINE Readies(fd)  == IF events[fd] # Null /\ fd \in arrived THEN {"r"} ELSE {}
             Writes(fd) == IF events[fd] # Null /\ "w" \in events[fd] /\ Writable(fd) THEN {"w"} ELSE {}
             Event(fd)  == [fd |-> fd, mask |-> Readies(fd) \cup Writes(fd)]
  <2>1. fired' = {f \in {Event(fd) : fd \in DOMAIN events} : f.mask # {}}
    BY <1>2 DEF Reported, Masks
  <2>2. \A f \in fired' : \E fd \in DOMAIN events : f = Event(fd) /\ f.mask # {}
    BY <2>1
  <2>3. PICK fd \in DOMAIN events : e = Event(fd) /\ e.mask # {}
    BY <2>2
  <2>4. e.fd = fd /\ e.mask = Readies(fd) \cup Writes(fd)
    BY <2>3
  <2>5. fd \in Fds \cup {Listen}
    BY <1>3, <2>3 DEF TypeOK
  <2>6. \A f \in fired' : f.fd = e.fd => f = e
    BY <2>2, <2>3, <2>4
  <2>7. events[fd] # Null /\ e.mask \subseteq {"r", "w"} /\ ("r" \in e.mask => fd \in arrived)
    BY <2>3, <2>4
  <2>8. "r" \in e.mask => Readable(fd)
    BY <1>2, <2>7
  <2> QED
    BY <2>3, <2>4, <2>5, <2>6, <2>7, <2>8
<1>5. TypeOK'
  <2>1. fired' \subseteq [fd : Fds \cup {Listen}, mask : (SUBSET {"r", "w"}) \ {{}}]
    BY <1>4
  <2> QED
    BY <1>1, <1>3, <2>1 DEF TypeOK
<1>6. ASSUME NEW p \in Peers PROVE PeerInv(p)'
  <2>1. PeerInv(p) /\ PeerSame(p) /\ phase'[p] = phase[p]
    BY <1>1 DEF ConnInv, PeerSame
  <2> QED
    BY <2>1, PeerSameKeeps
<1>7. ASSUME NEW fd \in Fds PROVE SeatInv(fd)'
  <2>1. SeatInv(fd) /\ SeatSame(fd)
    BY <1>1 DEF ConnInv, SeatSame
  <2>2. ASSUME owner[fd] # Null
        PROVE  /\ PeerSame(owner[fd]) /\ phase'[owner[fd]] = phase[owner[fd]]
               /\ OnlySeat(fd, owner[fd])'
    BY <1>1, <2>1, <2>2 DEF PeerSame, SeatInv, OnlySeat
  <2> QED
    BY <2>1, <2>2, SeatSameKeeps
<1>8. ASSUME NEW e \in fired' PROVE EventInv(e)'
  <2>1. /\ events[e.fd] # Null /\ ("r" \in e.mask => Readable(e.fd))
        /\ \A f \in fired' : f.fd = e.fd => f = e
    BY <1>4
  <2>2. e.fd # Listen /\ "r" \in e.mask => Due(owner[e.fd])
    BY <2>1 DEF Readable, Due
  <2>3. Due(owner[e.fd])' <=> Due(owner[e.fd])
    BY <1>1 DEF Due, Incoming
  <2> QED
    BY <1>1, <2>1, <2>2, <2>3 DEF EventInv
<1>9. KilledInv'
  BY <1>1 DEF KilledInv, ConnInv
<1> QED
  BY <1>5, <1>6, <1>7, <1>8, <1>9 DEF ConnInv

\* A step of a peer leaves the server alone.
LEMMA PeerStepKeeps ==
    ASSUME ConnInv, TypeOK', UNCHANGED <<clients, events, fired, owner, killed>>,
           \A q \in Peers : PeerInv(q)',
           \A q \in Peers : phase[q] = "open" => phase'[q] = "open",
           \A q \in Peers : \A c : phase[q] = "open" /\ ClientInv(q, c) => ClientInv(q, c)',
           \A q \in Peers : Due(q) => Due(q)'
    PROVE  ConnInv'
<1>1. ASSUME NEW fd \in Fds PROVE SeatInv(fd)'
  <2>1. SeatInv(fd) /\ clients' = clients /\ events' = events /\ owner' = owner
    BY DEF ConnInv
  <2>2. CASE owner[fd] = Null
    BY <2>1, <2>2 DEF SeatInv
  <2>3. CASE owner[fd] # Null
    <3>1. PICK p \in Peers : p = owner[fd]
      BY <2>3, Seated
    <3>2. PICK c \in Client : c = clients[fd]
      BY <2>3, Seated
    <3>3. ClientInv(p, c) /\ WatchInv(c, events[fd]) /\ phase[p] = "open" /\ OnlySeat(fd, p)
      BY <2>3, <3>1, <3>2, Seated
    <3>4. ClientInv(p, c)' /\ phase'[p] = "open"
      BY <3>3
    <3>5. OnlySeat(fd, p)'
      BY <2>1, <3>3 DEF OnlySeat
    <3>6. clients'[fd] = c /\ owner'[fd] = p /\ WatchInv(c, events'[fd])
      BY <2>1, <3>1, <3>2, <3>3
    <3> QED
      BY <3>4, <3>5, <3>6, TakenSeat
  <2> QED
    BY <2>2, <2>3
<1>2. ASSUME NEW e \in fired' PROVE EventInv(e)'
  <2>1. e \in fired /\ EventInv(e) /\ fired' = fired /\ events' = events /\ owner' = owner /\ killed' = killed
    BY DEF ConnInv
  <2>2. ASSUME e.fd # Listen, events[e.fd] # Null, "r" \in e.mask PROVE Due(owner[e.fd])'
    <3>1. e.fd \in Fds
      BY <2>1, <2>2 DEF ConnInv, TypeOK
    <3>2. owner[e.fd] # Null
      BY <2>2, <3>1 DEF ConnInv, SeatInv
    <3>3. PICK p \in Peers : p = owner[e.fd]
      BY <3>1, <3>2, Seated
    <3>4. Due(p)
      BY <2>1, <2>2, <3>3 DEF EventInv
    <3>5. Due(p)'
      BY <3>4
    <3> QED
      BY <2>1, <3>3, <3>5 DEF Due, Incoming
  <2> QED
    BY <2>1, <2>2 DEF EventInv
<1>3. KilledInv'
  BY DEF KilledInv, ConnInv
<1> QED
  BY <1>1, <1>2, <1>3 DEF ConnInv

LEMMA ConnectKeeps ==
    ASSUME ConnInv, NEW p \in Peers, Connect(p)
    PROVE  ConnInv'
<1>1. /\ phase[p] = "new" /\ phase' = [phase EXCEPT ![p] = "backlog"]
      /\ UNCHANGED <<clients, events, fired, script, stream, gone, taken, owner, outgoing, got, killed, served>>
  BY DEF Connect, server
<1>2. TypeOK
  BY DEF ConnInv
<1>3. TypeOK'
  BY <1>1, <1>2 DEF TypeOK
<1>4. \A q \in Peers : PeerSame(q) /\ (q # p => phase'[q] = phase[q]) /\ (phase[q] = "open" => phase'[q] = "open")
  BY <1>1, <1>2 DEF PeerSame, TypeOK
<1>5. ASSUME NEW q \in Peers PROVE PeerInv(q)'
  <2>1. CASE q # p
    BY <1>4, <2>1, PeerSameKeeps DEF ConnInv
  <2>2. CASE q = p
    <3>1. PeerInv(q)
      BY DEF ConnInv
    <3>2. Whole(q)' = Whole(q) /\ All(q)' = All(q)
      BY <1>4, PeerSameKeeps
    <3> QED
      BY <1>1, <2>2, <3>1, <3>2 DEF PeerInv
  <2> QED
    BY <2>1, <2>2
<1>6. ASSUME NEW q \in Peers, NEW c, ClientInv(q, c) PROVE ClientInv(q, c)'
  BY <1>4, <1>6, PeerSameKeeps
<1>7. ASSUME NEW q \in Peers, Due(q) PROVE Due(q)'
  BY <1>1, <1>7 DEF Due, Incoming
<1> QED
  BY <1>1, <1>3, <1>4, <1>5, <1>6, <1>7, PeerStepKeeps

LEMMA PeerReadKeeps ==
    ASSUME ConnInv, NEW p \in Peers, PeerRead(p)
    PROVE  ConnInv'
<1>1. /\ outgoing[p] # << >>
      /\ got' = [got EXCEPT ![p] = @ \o outgoing[p]]
      /\ outgoing' = [outgoing EXCEPT ![p] = << >>]
      /\ UNCHANGED <<clients, events, fired, script, stream, phase, gone, taken, owner, killed, served>>
  BY DEF PeerRead, server
<1>2. TypeOK
  BY DEF ConnInv
<1>3. got[p] \in Seq(Nat) /\ outgoing[p] \in Seq(Nat) /\ << >> \in Seq(Nat)
  BY <1>2 DEF TypeOK
<1>4. got[p] \o outgoing[p] \in Seq(Nat)
  BY <1>3, Glue
<1>5. TypeOK'
  BY <1>1, <1>2, <1>3, <1>4 DEF TypeOK
<1>6. \A q \in Peers \ {p} : PeerSame(q)
  BY <1>1, <1>2 DEF PeerSame, TypeOK
<1>7. got'[p] \o outgoing'[p] = got[p] \o outgoing[p] /\ outgoing'[p] = << >>
  <2>1. got'[p] = got[p] \o outgoing[p] /\ outgoing'[p] = << >>
    BY <1>1, <1>2 DEF TypeOK
  <2>2. (got[p] \o outgoing[p]) \o << >> = got[p] \o outgoing[p]
    BY <1>4
  <2> QED
    BY <2>1, <2>2
<1>8. Whole(p)' = Whole(p) /\ All(p)' = All(p)
  BY <1>1 DEF Whole, All
<1>9. ASSUME NEW q \in Peers PROVE PeerInv(q)'
  <2>1. PeerInv(q) /\ phase'[q] = phase[q]
    BY <1>1 DEF ConnInv
  <2>2. CASE q # p
    BY <1>6, <2>1, <2>2, PeerSameKeeps
  <2>3. CASE q = p
    <3>1. phase'[q] \notin {"new", "backlog"}
      BY <1>1, <2>1, <2>3 DEF PeerInv
    <3>2. Len(<< >>) <= SendRoom
      BY SizesAssumption
    <3> QED
      BY <1>1, <1>7, <1>8, <2>1, <2>3, <3>1, <3>2 DEF PeerInv
  <2> QED
    BY <2>2, <2>3
<1>10. ASSUME NEW q \in Peers, NEW c, ClientInv(q, c) PROVE ClientInv(q, c)'
  <2>1. CASE q # p
    BY <1>6, <1>10, <2>1, PeerSameKeeps
  <2>2. CASE q = p
    BY <1>1, <1>7, <1>8, <1>10, <2>2 DEF ClientInv
  <2> QED
    BY <2>1, <2>2
<1>11. ASSUME NEW q \in Peers, Due(q) PROVE Due(q)'
  BY <1>1, <1>11 DEF Due, Incoming
<1> QED
  BY <1>1, <1>5, <1>9, <1>10, <1>11, PeerStepKeeps

LEMMA LeaveKeeps ==
    ASSUME ConnInv, NEW p \in Peers, NEW how \in {"shut", "reset"}, Leave(p, how)
    PROVE  ConnInv'
<1>1. /\ gone' = [gone EXCEPT ![p] = how]
      /\ UNCHANGED <<clients, events, fired, script, phase, taken, owner, outgoing, got, killed, served>>
  BY DEF Leave, server
<1>2. PICK n \in taken[p] .. Len(stream[p]) : stream' = [stream EXCEPT ![p] = SubSeq(@, 1, n)]
  BY DEF Leave
<1>3. TypeOK
  BY DEF ConnInv
<1>4. stream[p] \in Seq(STRING) /\ taken[p] \in Nat /\ n \in Nat /\ taken[p] <= n /\ n <= Len(stream[p])
  BY <1>2, <1>3 DEF TypeOK
<1>5. /\ SubSeq(stream[p], 1, n) \in Seq(STRING) /\ Len(SubSeq(stream[p], 1, n)) = n
      /\ SubSeq(SubSeq(stream[p], 1, n), 1, taken[p]) = SubSeq(stream[p], 1, taken[p])
  BY <1>4
<1>6. stream'[p] = SubSeq(stream[p], 1, n) /\ \A q \in Peers \ {p} : stream'[q] = stream[q]
  BY <1>2, <1>3 DEF TypeOK
<1>7. TypeOK'
  <2>1. stream' \in [Peers -> Seq(STRING)]
    BY <1>2, <1>3, <1>5 DEF TypeOK
  <2>2. \A q \in Peers : taken'[q] <= Len(stream'[q])
    BY <1>1, <1>3, <1>4, <1>5, <1>6 DEF TypeOK
  <2> QED
    BY <1>1, <1>3, <2>1, <2>2 DEF TypeOK
<1>8. \A q \in Peers \ {p} : PeerSame(q)
  BY <1>1, <1>6 DEF PeerSame
<1>9. Whole(p)' = Whole(p) /\ All(p)' = All(p)
  BY <1>1, <1>5, <1>6 DEF Whole, All
<1>10. ASSUME NEW q \in Peers PROVE PeerInv(q)'
  <2>1. PeerInv(q) /\ phase'[q] = phase[q]
    BY <1>1 DEF ConnInv
  <2>2. CASE q # p
    BY <1>8, <2>1, <2>2, PeerSameKeeps
  <2>3. CASE q = p
    BY <1>1, <1>9, <2>1, <2>3 DEF PeerInv
  <2> QED
    BY <2>2, <2>3
<1>11. ASSUME NEW q \in Peers, NEW c, ClientInv(q, c) PROVE ClientInv(q, c)'
  <2>1. CASE q # p
    BY <1>8, <1>11, <2>1, PeerSameKeeps
  <2>2. CASE q = p
    BY <1>1, <1>9, <1>11, <2>2 DEF ClientInv
  <2> QED
    BY <2>1, <2>2
<1>12. ASSUME NEW q \in Peers, Due(q) PROVE Due(q)'
  <2>1. CASE q # p
    BY <1>1, <1>3, <1>6, <1>12, <2>1 DEF Due, Incoming, TypeOK
  <2>2. CASE q = p
    BY <1>1, <1>3, <2>2 DEF Due, TypeOK
  <2> QED
    BY <2>1, <2>2
<1> QED
  BY <1>1, <1>7, <1>10, <1>11, <1>12, PeerStepKeeps

-----------------------------------------------------------------------------
(* The invariant holds, and what follows from it.                          *)

LEMMA BytesType ==
    ASSUME NEW items \in Seq(Items)
    PROVE  Bytes(items) \in Seq(STRING)
<1> DEFINE seqs == [j \in 1 .. Len(items) |-> items[j].bytes]
           n == Len(items)
<1>1. n \in Nat /\ \A j \in 1 .. n : items[j].bytes \in Seq(STRING)
  BY DEF Items
<1>2. seqs \in Seq(Seq(STRING)) /\ Len(seqs) = n
  BY <1>1
<1>3. Bytes(items) = FlattenSeq(seqs)
  BY DEF Bytes
<1> HIDE DEF seqs, n
<1>4. PICK g : Flattens(g, seqs) /\ FlattenSeq(seqs) = g[Len(seqs)]
  BY <1>2, Flattening
<1>5. g \in [0 .. n -> Seq(STRING)] /\ n \in 0 .. n
  BY <1>1, <1>2, <1>4 DEF Flattens
<1> QED
  BY <1>2, <1>3, <1>4, <1>5

LEMMA ConnInvInit == Init => ConnInv
<1> SUFFICES ASSUME Init PROVE ConnInv
  OBVIOUS
<1>1. /\ clients = [fd \in Fds |-> Null]
      /\ events = [fd \in Fds \cup {Listen} |-> IF fd = Listen THEN {"r"} ELSE Null]
      /\ fired = {} /\ script \in Scripts /\ killed = FALSE
      /\ phase = [p \in Peers |-> "new"] /\ gone = [p \in Peers |-> "no"]
      /\ stream = [p \in Peers |-> Bytes(script[p].items)]
      /\ taken = [p \in Peers |-> 0] /\ owner = [fd \in Fds |-> Null]
      /\ outgoing = [p \in Peers |-> << >>] /\ got = [p \in Peers |-> << >>]
      /\ served = [p \in Peers |-> << >>]
  BY DEF Init
<1>2. \A p \in Peers : stream[p] \in Seq(STRING)
  <2> SUFFICES ASSUME NEW p \in Peers PROVE Bytes(script[p].items) \in Seq(STRING)
    BY <1>1
  <2> DEFINE items == script[p].items
  <2>1. items \in Seq(Items)
    BY <1>1, ScriptsAssumption
  <2> HIDE DEF items
  <2>2. Bytes(items) \in Seq(STRING)
    BY <2>1, BytesType
  <2> QED
    BY <2>2 DEF items
<1>3. TypeOK
  <2>1. stream \in [Peers -> Seq(STRING)]
    BY <1>1, <1>2
  <2>2. \A p \in Peers : taken[p] <= Len(stream[p])
    BY <1>1, <1>2
  <2>3. events \in [Fds \cup {Listen} -> (SUBSET {"r", "w"}) \cup {Null}]
    BY <1>1
  <2>4. clients \in [Fds -> Client \cup {Null}] /\ owner \in [Fds -> Peers \cup {Null}]
    BY <1>1
  <2>5. /\ outgoing \in [Peers -> Seq(Nat)] /\ got \in [Peers -> Seq(Nat)]
        /\ served \in [Peers -> Seq(Seq(Seq(STRING)))]
    BY <1>1
  <2>6. /\ phase \in [Peers -> {"new", "backlog", "open", "closed"}]
        /\ gone \in [Peers -> {"no", "shut", "reset"}] /\ taken \in [Peers -> Nat]
    BY <1>1
  <2> QED
    BY <1>1, <2>1, <2>2, <2>3, <2>4, <2>5, <2>6 DEF TypeOK
<1>4. ASSUME NEW p \in Peers PROVE PeerInv(p)
  <2>1. taken[p] = 0 /\ got[p] = << >> /\ outgoing[p] = << >> /\ served[p] = << >>
    BY <1>1
  <2>2. SubSeq(stream[p], 1, taken[p]) = << >>
    BY <1>2, <2>1
  <2>3. Whole(p).cmds = << >>
    BY <2>2, FeedNothing DEF Whole
  <2>4. All(p) = << >>
    BY <2>1 DEF All, Upto
  <2>5. IsPrefix(got[p] \o outgoing[p], All(p))
    BY <2>1, <2>4 DEF IsPrefix
  <2>6. Len(outgoing[p]) <= SendRoom
    BY <2>1, SizesAssumption
  <2> QED
    BY <2>1, <2>3, <2>5, <2>6 DEF PeerInv
<1>5. ASSUME NEW fd \in Fds PROVE SeatInv(fd)
  BY <1>1, NullAssumption DEF SeatInv
<1> QED
  BY <1>1, <1>3, <1>4, <1>5 DEF ConnInv, KilledInv

LEMMA ConnInvNext == ConnInv /\ [Next]_vars => ConnInv'
<1> SUFFICES ASSUME ConnInv, [Next]_vars PROVE ConnInv'
  OBVIOUS
<1>1. CASE RunOnce
  BY <1>1, WaitKeeps
<1>2. ASSUME NEW e \in fired, Dispatch(e) PROVE ConnInv'
  BY <1>2, DispatchKeeps
<1>3. ASSUME NEW p \in Peers, Peer(p) PROVE ConnInv'
  BY <1>3, ConnectKeeps, PeerReadKeeps, LeaveKeeps DEF Peer
<1>4. CASE UNCHANGED vars
  <2>1. UNCHANGED <<clients, events, fired, script, stream, phase, gone, taken, owner, outgoing, got, killed, served>>
    BY <1>4 DEF vars, server, kernel
  <2>2. TypeOK'
    BY <2>1 DEF ConnInv, TypeOK
  <2>3. \A q \in Peers : PeerSame(q)
    BY <2>1 DEF PeerSame
  <2>4. ASSUME NEW q \in Peers PROVE PeerInv(q)'
    BY <2>1, <2>3, PeerSameKeeps DEF ConnInv
  <2>5. ASSUME NEW q \in Peers, NEW c, ClientInv(q, c) PROVE ClientInv(q, c)'
    BY <2>3, <2>5, PeerSameKeeps
  <2>6. ASSUME NEW q \in Peers, Due(q) PROVE Due(q)'
    BY <2>1, <2>6 DEF Due, Incoming
  <2> QED
    BY <2>1, <2>2, <2>4, <2>5, <2>6, PeerStepKeeps
<1> QED
  BY <1>1, <1>2, <1>3, <1>4 DEF Next

THEOREM ConnInvAlways == Spec => []ConnInv
<1>1. Init => ConnInv
  BY ConnInvInit
<1>2. ConnInv /\ [Next]_vars => ConnInv'
  BY ConnInvNext
<1> QED
  BY <1>1, <1>2, PTL DEF Spec

LEMMA ConnInvFragmentation == ConnInv => FragmentationInvisible
<1> SUFFICES ASSUME ConnInv, NEW p \in Peers, NEW whole, whole = Whole(p)
             PROVE  /\ served[p] = whole.cmds
                    /\ \A fd \in Fds : owner[fd] = p => clients[fd].codec = whole.rest
  BY DEF FragmentationInvisible, Whole
<1>1. served[p] = whole.cmds
  BY DEF ConnInv, PeerInv
<1>2. ASSUME NEW fd \in Fds, owner[fd] = p PROVE clients[fd].codec = whole.rest
  <2>1. owner[fd] # Null
    BY <1>2, NullAssumption
  <2>2. ClientInv(p, clients[fd])
    BY <1>2, <2>1, Seated
  <2> QED
    BY <2>2 DEF ClientInv
<1> QED
  BY <1>1, <1>2

\* For every peer, whatever it sends and however the network cuts it up, the server
\* executes what the decoder makes of all its bytes at once (TryParseFrame over
\* read_buf_, called from OnClientEvent after each recv).
THEOREM FragmentationNeverShows == Spec => []FragmentationInvisible
<1>1. ConnInv => FragmentationInvisible
  BY ConnInvFragmentation
<1> QED
  BY <1>1, ConnInvAlways, PTL

-----------------------------------------------------------------------------
(* What is executed is what the client meant.                              *)

\* The bytes of a peer are those it means to send, perhaps cut short.
Begun(s, b) == s = SubSeq(b, 1, Len(s)) /\ Len(s) <= Len(b)

Sent == script \in Scripts /\ \A p \in Peers : Begun(stream[p], Bytes(script[p].items))

LEMMA CutShorter ==
    ASSUME NEW b \in Seq(STRING), NEW s \in Seq(STRING), s = SubSeq(b, 1, Len(s)), Len(s) <= Len(b),
           NEW n \in Nat, n <= Len(s)
    PROVE  Begun(SubSeq(s, 1, n), b)
<1>1. Len(s) \in Nat /\ Len(b) \in Nat /\ n <= Len(b)
  OBVIOUS
<1>2. \A i \in 1 .. Len(s) : s[i] = b[i]
  BY <1>1
<1>3. SubSeq(s, 1, n) = SubSeq(b, 1, n) /\ Len(SubSeq(s, 1, n)) = n
  BY <1>1, <1>2
<1> QED
  BY <1>1, <1>3 DEF Begun

LEMMA SentAlways == Spec => []Sent
<1>1. Init => Sent
  <2> SUFFICES ASSUME Init, NEW p \in Peers
               PROVE  script \in Scripts /\ Begun(stream[p], Bytes(script[p].items))
    BY DEF Sent, Init
  <2> DEFINE b == Bytes(script[p].items)
  <2>1. script \in Scripts /\ stream[p] = b
    BY DEF Init
  <2>2. b \in Seq(STRING)
    BY <2>1, BytesType, ScriptsAssumption
  <2> HIDE DEF b
  <2>3. Begun(b, b)
    BY <2>2 DEF Begun
  <2> QED
    BY <2>1, <2>3 DEF b
<1>2. TypeOK /\ Sent /\ [Next]_vars => Sent'
  <2> SUFFICES ASSUME TypeOK, Sent, [Next]_vars PROVE Sent'
    OBVIOUS
  <2>1. ASSUME script' = script, stream' = stream PROVE Sent'
    BY <2>1 DEF Sent
  <2>2. CASE RunOnce
    BY <2>1, <2>2 DEF RunOnce, kernel
  <2>3. ASSUME NEW e \in fired, Dispatch(e) PROVE Sent'
    <3>1. script' = script /\ stream' = stream
      BY <2>3, Zenon DEF Dispatch, kernel, OnAccept, Read, ReadNothing
    <3> QED
      BY <2>1, <3>1
  <2>4. ASSUME NEW p \in Peers, Peer(p) PROVE Sent'
    <3>1. CASE Connect(p)
      BY <2>1, <3>1 DEF Connect
    <3>2. CASE PeerRead(p)
      BY <2>1, <3>2 DEF PeerRead
    <3>3. ASSUME NEW how \in {"shut", "reset"}, Leave(p, how) PROVE Sent'
      <4>1. script' = script
        BY <3>3 DEF Leave
      <4>2. PICK n \in taken[p] .. Len(stream[p]) : stream' = [stream EXCEPT ![p] = SubSeq(@, 1, n)]
        BY <3>3 DEF Leave
      <4>3. ASSUME NEW q \in Peers, q # p
            PROVE  Begun(stream'[q], Bytes(script'[q].items))
        BY <4>1, <4>2, <4>3 DEF Sent, TypeOK
      <4>4. Begun(stream'[p], Bytes(script'[p].items))
        <5> DEFINE b == Bytes(script[p].items)
                   s == stream[p]
        <5>1. s \in Seq(STRING) /\ n \in Nat /\ n <= Len(s)
          BY <4>2 DEF TypeOK
        <5>2. s = SubSeq(b, 1, Len(s)) /\ Len(s) <= Len(b)
          BY DEF Sent, Begun
        <5>3. stream'[p] = SubSeq(s, 1, n)
          BY <4>2 DEF TypeOK
        <5>4. b \in Seq(STRING)
          <6>1. script[p].items \in Seq(Items)
            BY ScriptsAssumption DEF Sent
          <6> DEFINE items == script[p].items
          <6> HIDE DEF items
          <6>2. Bytes(items) \in Seq(STRING)
            BY <6>1, BytesType DEF items
          <6> QED
            BY <6>2 DEF items
        <5> HIDE DEF s, b
        <5>5. Begun(SubSeq(s, 1, n), b)
          BY <5>1, <5>2, <5>4, CutShorter
        <5> QED
          BY <4>1, <5>3, <5>5 DEF b
      <4> QED
        BY <4>1, <4>3, <4>4 DEF Sent
    <3> QED
      BY <2>4, <3>1, <3>2, <3>3 DEF Peer
  <2>5. CASE UNCHANGED vars
    BY <2>1, <2>5 DEF vars, kernel
  <2> QED
    BY <2>2, <2>3, <2>4, <2>5 DEF Next
<1>3. ConnInv => TypeOK
  BY DEF ConnInv
<1> QED
  BY <1>1, <1>2, <1>3, ConnInvAlways, PTL DEF Spec

LEMMA SpokenItems ==
    ASSUME NEW items \in Seq(Items),
           \A j \in 1 .. Len(items) : Len(items[j].words) \in 1 .. MaxArray
    PROVE  LET words == [j \in 1 .. Len(items) |-> items[j].words]
           IN  /\ words \in Seq(Spoken) /\ Len(words) = Len(items)
               /\ \A i \in 0 .. Len(items) : Bytes(SubSeq(items, 1, i)) = Text(SubSeq(words, 1, i))
<1> DEFINE words == [j \in 1 .. Len(items) |-> items[j].words]
           n == Len(items)
<1>1. n \in Nat
  OBVIOUS
<1>2. ASSUME NEW j \in 1 .. n
      PROVE  items[j].words \in Spoken /\ items[j].bytes = Encode(items[j].words)
  <2>1. items[j] \in Items /\ Len(items[j].words) \in 1 .. MaxArray
    OBVIOUS
  <2> DEFINE item == items[j]
  <2> HIDE DEF item
  <2>2. /\ item.words \in Seq(Seq(STRING)) /\ Len(item.words) \in 1 .. MaxArray
        /\ item.words # << >> => item = Command(item.words)
    BY <2>1 DEF Items, item
  <2>3. item.words # << >>
    BY <2>2, MaxArrayAssumption
  <2>4. item.bytes = Encode(item.words)
    BY <2>2, <2>3 DEF Command
  <2> QED
    BY <2>2, <2>4 DEF Spoken, item
<1>3. words \in Seq(Spoken) /\ Len(words) = n /\ \A j \in 1 .. n : words[j] = items[j].words
  BY <1>1, <1>2
<1> HIDE DEF words, n
<1>4. ASSUME NEW i \in 0 .. n PROVE Bytes(SubSeq(items, 1, i)) = Text(SubSeq(words, 1, i))
  <2> DEFINE a == SubSeq(items, 1, i)
             b == SubSeq(words, 1, i)
  <2>1. i \in Nat /\ i <= n
    BY <1>1
  <2>2. a \in Seq(Items) /\ Len(a) = i /\ \A j \in 1 .. i : a[j] = items[j]
    BY <2>1 DEF n
  <2>3. b \in Seq(Spoken) /\ Len(b) = i /\ \A j \in 1 .. i : b[j] = words[j]
    BY <1>3, <2>1
  <2> HIDE DEF a, b
  <2>4. ASSUME NEW j \in 1 .. i PROVE a[j].bytes = Encode(b[j])
    <3>1. j \in 1 .. n
      BY <1>1, <2>1
    <3> QED
      BY <1>2, <1>3, <2>2, <2>3, <3>1
  <2>5. [j \in 1 .. Len(a) |-> a[j].bytes] = [j \in 1 .. Len(b) |-> Encode(b[j])]
    BY <2>2, <2>3, <2>4
  <2>6. Bytes(a) = Text(b)
    BY <2>5, Zenon DEF Bytes, Text, Encodings
  <2> QED
    BY <2>6 DEF a, b
<1> QED
  BY <1>3, <1>4 DEF words, n

LEMMA SentExact == ConnInv /\ Sent => CommandsExact
<1> SUFFICES ASSUME ConnInv, Sent, NEW p \in Peers, Speaks(p),
                    NEW items, items = script[p].items, NEW t, t = taken[p]
             PROVE  LET Ends(j) == Len(Bytes(SubSeq(items, 1, j)))
                        whole   == {j \in 1 .. Len(items) : Ends(j) <= t}
                    IN  served[p] = [j \in 1 .. Cardinality(whole) |-> items[j].words]
  BY DEF CommandsExact
<1> DEFINE words == [j \in 1 .. Len(items) |-> items[j].words]
           whole == {j \in 1 .. Len(items) : Len(Bytes(SubSeq(items, 1, j))) <= t}
           n == Len(items)
<1>1. items \in Seq(Items) /\ n \in Nat
  <2>1. items \in Seq(Items)
    BY ScriptsAssumption DEF Sent
  <2> QED
    BY <2>1
<1>2. \A j \in 1 .. Len(items) : Len(items[j].words) \in 1 .. MaxArray
  BY DEF Speaks
<1>3. /\ words \in Seq(Spoken) /\ Len(words) = n
      /\ \A i \in 0 .. n : Bytes(SubSeq(items, 1, i)) = Text(SubSeq(words, 1, i))
  BY <1>1, <1>2, SpokenItems
<1>4. \A j \in 1 .. n : words[j] = items[j].words
  OBVIOUS
<1> HIDE DEF words
<1>5. Bytes(items) = Text(words)
  <2>1. SubSeq(items, 1, n) = items /\ SubSeq(words, 1, n) = words /\ n \in 0 .. n
    BY <1>1, <1>3
  <2>2. Bytes(SubSeq(items, 1, n)) = Text(SubSeq(words, 1, n))
    BY <1>3, <2>1
  <2> QED
    BY <2>1, <2>2
<1>6. Text(words) \in Seq(STRING)
  BY <1>3, RoundTrip
<1>7. t \in 0 .. Len(Text(words)) /\ SubSeq(stream[p], 1, t) = SubSeq(Text(words), 1, t)
  <2> DEFINE s == stream[p]
             b == Text(words)
  <2>1. s \in Seq(STRING) /\ t \in Nat /\ t <= Len(s)
    BY DEF ConnInv, TypeOK
  <2>2. s = SubSeq(b, 1, Len(s)) /\ Len(s) <= Len(b)
    BY <1>5 DEF Sent, Begun
  <2>3. b \in Seq(STRING)
    BY <1>6
  <2> HIDE DEF s, b
  <2>4. Begun(SubSeq(s, 1, t), b)
    BY <2>1, <2>2, <2>3, CutShorter
  <2>5. Len(SubSeq(s, 1, t)) = t
    BY <2>1
  <2>6. t \in 0 .. Len(b) /\ SubSeq(s, 1, t) = SubSeq(b, 1, t)
    BY <2>1, <2>3, <2>4, <2>5 DEF Begun
  <2> QED
    BY <2>6 DEF s, b
<1>8. PICK m \in 0 .. n, piece \in Seq(STRING) : CutOff(words, t, m, piece)
  BY <1>3, <1>7, TextCut
<1>9. Decoded(SubSeq(Text(words), 1, t)).cmds = SubSeq(words, 1, m)
  BY <1>3, <1>7, <1>8, CutDecoded
<1>10. served[p] = SubSeq(words, 1, m)
  <2>1. served[p] = Feed(<< >>, SubSeq(stream[p], 1, t)).cmds
    BY DEF ConnInv, PeerInv, Whole
  <2> QED
    BY <1>7, <1>9, <2>1 DEF Decoded
<1>11. Cardinality(whole) = m
  <2>1. \A j \in 1 .. n : j \in 0 .. n
    BY <1>1
  <2>2. whole = Complete(words, t)
    BY <1>3, <2>1 DEF Complete
  <2> QED
    BY <1>8, <2>2, Zenon DEF CutOff
<1>12. SubSeq(words, 1, m) = [j \in 1 .. m |-> items[j].words]
  <2>1. m \in Nat /\ m <= n
    BY <1>1
  <2>2. \A j \in 1 .. m : j \in 1 .. n
    BY <1>1, <2>1
  <2>3. SubSeq(words, 1, m) = [j \in 1 .. m |-> words[j]]
    BY <1>3, <2>1
  <2> QED
    BY <1>4, <2>2, <2>3
<1> HIDE DEF whole
<1>13. served[p] = [j \in 1 .. Cardinality(whole) |-> items[j].words]
  BY <1>10, <1>11, <1>12
<1> QED
  BY <1>13 DEF whole

\* For every peer that sends encoded commands, whatever bytes they hold and however
\* they are cut up: exactly those that have come to their last byte are executed, once
\* each, in order, and as the client meant them (Encode is undone by RespCodec::Feed;
\* OnClientEvent hands each command on).
THEOREM ExecutesExactly == Spec => []CommandsExact
<1>1. ConnInv /\ Sent => CommandsExact
  BY SentExact
<1> QED
  BY <1>1, ConnInvAlways, SentAlways, PTL

LEMMA ConnInvReplies == ConnInv => RepliesInOrder
<1> SUFFICES ASSUME ConnInv, NEW p \in Peers
             PROVE  /\ IsPrefix(got[p] \o outgoing[p], All(p))
                    /\ \A fd \in Fds : owner[fd] = p =>
                         got[p] \o outgoing[p] \o clients[fd].write_buf = All(p)
  BY DEF RepliesInOrder, All, Upto
<1>1. IsPrefix(got[p] \o outgoing[p], All(p))
  BY DEF ConnInv, PeerInv
<1>2. ASSUME NEW fd \in Fds, owner[fd] = p
      PROVE  got[p] \o outgoing[p] \o clients[fd].write_buf = All(p)
  <2>1. owner[fd] # Null
    BY <1>2, NullAssumption
  <2>2. ClientInv(p, clients[fd])
    BY <1>2, <2>1, Seated
  <2> QED
    BY <2>2 DEF ClientInv
<1> QED
  BY <1>1, <1>2

\* For every number of connections and every room in the kernel's buffers, replies
\* reach each peer in the order of its commands, none twice; FlushWriteBuf loses
\* none of those it could not send.
THEOREM RepliesStayInOrder == Spec => []RepliesInOrder
<1>1. ConnInv => RepliesInOrder
  BY ConnInvReplies
<1> QED
  BY <1>1, ConnInvAlways, PTL

LEMMA ConnInvMasks == ConnInv => MaskMatches
<1> SUFFICES ASSUME ConnInv, NEW fd \in Fds
             PROVE  /\ clients[fd] = Null <=> owner[fd] = Null
                    /\ events[fd] = IF clients[fd] = Null THEN Null
                                    ELSE IF clients[fd].write_buf = << >> THEN {"r"} ELSE {"r", "w"}
                    /\ clients[fd] # Null =>
                          (clients[fd].writable_mask <=> clients[fd].write_buf # << >>)
  BY DEF MaskMatches
<1>1. SeatInv(fd)
  BY DEF ConnInv
<1> QED
  BY <1>1 DEF SeatInv, WatchInv

\* A socket is in clients_ exactly while it is open, and the event loop watches it
\* for writing exactly while write_buf holds something (ModifyMask in
\* FlushWriteBuf and OnClientEvent).
THEOREM MaskAlwaysMatches == Spec => []MaskMatches
<1>1. ConnInv => MaskMatches
  BY ConnInvMasks
<1> QED
  BY <1>1, ConnInvAlways, PTL

\* The types of the connections.
THEOREM ConnectionTypeCorrect == Spec => []TypeOK
<1>1. ConnInv => TypeOK
  BY DEF ConnInv
<1> QED
  BY <1>1, ConnInvAlways, PTL

-----------------------------------------------------------------------------
(* Why a connection is closed.                                             *)

\* A peer that asked for it, and to which all has been sent.
Answers(p) ==
    /\ Quits(served'[p])
    /\ Len(got'[p] \o outgoing'[p]) = Len(served'[p])

LEMMA SendCloses ==
    ASSUME ConnInv, NEW fd, NEW p, NEW c, Serving(fd, p, c), Send(fd, c),
           NEW q \in Peers, phase[q] = "open", phase'[q] = "closed"
    PROVE  killed' \/ Answers(q)
<1>1. CASE SigPipe(fd, c)
  BY <1>1 DEF SigPipe
<1>2. CASE FlushWriteBuf(fd, c)
  <2>1. PICK n \in 0 .. Len(c.write_buf) : Outcome(fd, p, c, n)
    BY <1>2, FlushIs
  <2>2. Finished(Flushed(c, n)) /\ CloseClient(fd)
    BY <2>1 DEF Outcome
  <2>3. fd \in Fds /\ p \in Peers /\ owner[fd] = p /\ c \in Client /\ TypeOK
    BY DEF Serving, ConnInv
  <2>4. phase'[p] = "closed" /\ \A r \in Peers \ {p} : phase'[r] = phase[r]
    BY <2>2, <2>3, ClosedIs
  <2>5. q = p
    BY <2>4
  <2>6. PICK next : next = Flushed(c, n)
    OBVIOUS
  <2>7. ClientInv(p, next)' /\ outgoing' \in [Peers -> Seq(Nat)]
    BY <2>1, <2>3, <2>4, <2>6, FlushKeepsOrder DEF Outcome
  <2>8. next.close_after_write /\ next.write_buf = << >>
    BY <2>2, <2>6 DEF Finished
  <2>9. Quits(served'[p])
    BY <2>7, <2>8 DEF ClientInv, Quits
  <2>10. (got'[p] \o outgoing'[p]) \o << >> = Upto(Len(served'[p]))
    BY <2>7, <2>8 DEF ClientInv, All, Upto
  <2>11. /\ got'[p] \in Seq(Nat) /\ outgoing'[p] \in Seq(Nat)
         /\ served'[p] \in Seq(Seq(Seq(STRING))) /\ Len(served'[p]) \in Nat
    <3>1. got' = got /\ served' \in [Peers -> Seq(Seq(Seq(STRING)))]
      BY DEF Serving
    <3>2. got \in [Peers -> Seq(Nat)]
      BY <2>3 DEF TypeOK
    <3> QED
      BY <2>3, <2>7, <3>1, <3>2
  <2>12. got'[p] \o outgoing'[p] \in Seq(Nat)
    BY <2>11, Glue
  <2>13. Len(got'[p] \o outgoing'[p]) = Len(served'[p])
    <3> DEFINE sent == got'[p] \o outgoing'[p]
               m == Len(served'[p])
    <3>1. sent \in Seq(Nat) /\ sent \o << >> = Upto(m) /\ m \in Nat
      BY <2>10, <2>11, <2>12
    <3> HIDE DEF sent, m
    <3>2. sent = Upto(m)
      <4>1. sent \o << >> = sent
        BY <3>1
      <4> QED
        BY <3>1, <4>1
    <3>3. Len(Upto(m)) = m
      BY <3>1, UptoType
    <3> QED
      BY <3>2, <3>3 DEF sent, m
  <2> QED
    BY <2>5, <2>9, <2>13 DEF Answers
<1> QED
  BY <1>1, <1>2 DEF Send

LEMMA DispatchCloses ==
    ASSUME ConnInv, NEW e \in fired, Dispatch(e),
           NEW q \in Peers, phase[q] = "open", phase'[q] = "closed"
    PROVE  gone[q] # "no" \/ killed' \/ Answers(q)
<1>1. fired' = fired \ {e} /\ TypeOK /\ e.fd \in Fds \cup {Listen} /\ EventInv(e)
  BY DEF Dispatch, ConnInv, TypeOK
<1>2. events[e.fd] # Null
  BY DEF Dispatch, kernel
<1>3. CASE e.fd = Listen
  <2>1. OnAccept
    BY <1>2, <1>3 DEF Dispatch
  <2>2. phase' = [p \in Peers |-> IF phase[p] = "backlog" THEN "open" ELSE phase[p]]
    BY <2>1, AcceptIs
  <2> QED
    BY <2>2
<1>4. CASE e.fd # Listen
  <2>1. e.fd \in Fds /\ owner[e.fd] # Null
    BY <1>1, <1>2, <1>4 DEF ConnInv, SeatInv
  <2>2. PICK p \in Peers : p = owner[e.fd]
    BY <2>1, Seated
  <2>3. Dispatching(e, p)
    BY <1>1, <2>1, <2>2 DEF Dispatching
  <2>4. CASE "r" \in e.mask /\ Read(e.fd)
    <3>1. PICK n \in Arriving(p) :
            \E fed \in {Feed(clients[e.fd].codec, SubSeq(Incoming(p), 1, n))} :
            \E client \in {Processed([clients[e.fd] EXCEPT !.codec = fed.rest], p, fed.cmds)} :
               /\ Send(e.fd, client)
               /\ taken' = [taken EXCEPT ![p] = @ + n]
               /\ served' = [served EXCEPT ![p] = @ \o fed.cmds]
               /\ UNCHANGED <<script, stream, gone, got>>
      BY <2>2, <2>4 DEF Read
    <3>2. PICK fed, client :
            /\ fed = Feed(clients[e.fd].codec, SubSeq(Incoming(p), 1, n))
            /\ client = Processed([clients[e.fd] EXCEPT !.codec = fed.rest], p, fed.cmds)
            /\ Send(e.fd, client)
            /\ taken' = [taken EXCEPT ![p] = @ + n]
            /\ served' = [served EXCEPT ![p] = @ \o fed.cmds]
            /\ UNCHANGED <<script, stream, gone, got>>
      BY <3>1, Zenon
    <3>3. Serving(e.fd, p, client)
      BY <2>3, <3>1, <3>2, ReadServes, Zenon
    <3> QED
      BY <3>2, <3>3, SendCloses, Zenon
  <2>5. CASE "r" \in e.mask /\ ReadNothing(e.fd)
    <3>1. Incoming(p) = << >> /\ CloseClient(e.fd)
      BY <2>2, <2>5 DEF ReadNothing
    <3>2. \A r \in Peers \ {p} : phase'[r] = phase[r]
      BY <2>1, <2>2, <3>1, ClosedIs
    <3>3. q = p
      BY <3>2
    <3>4. Due(p)
      BY <1>1, <1>2, <1>4, <2>2, <2>5 DEF EventInv
    <3> QED
      BY <3>1, <3>3, <3>4 DEF Due
  <2>6. CASE Send(e.fd, clients[e.fd]) /\ UNCHANGED <<script, stream, gone, taken, got, served>>
    <3>1. Serving(e.fd, p, clients[e.fd])
      BY <2>3, <2>6, IdleServes
    <3> QED
      BY <2>6, <3>1, SendCloses
  <2> QED
    BY <1>2, <1>4, <2>4, <2>5, <2>6 DEF Dispatch
<1> QED
  BY <1>3, <1>4

\* Every connection that is closed (CloseClient, or the end of the process) is one
\* whose peer is gone, one that has had all its answers after a QUIT, or one of a
\* process that SIGPIPE ends: no event of an earlier owner of its descriptor and no
\* spurious readiness closes it.
THEOREM ClosesForAReason == Spec => ClosedForAReason
<1> DEFINE Fine(p) == phase[p] = "open" /\ phase'[p] = "closed" =>
                        \/ gone[p] # "no" \/ killed'
                        \/ /\ \E j \in 1 .. Len(served'[p]) : served'[p][j][1] = QUIT
                           /\ Len(got'[p] \o outgoing'[p]) = Len(served'[p])
<1>1. ConnInv /\ [Next]_vars => [\A p \in Peers : Fine(p)]_vars
  <2> SUFFICES ASSUME ConnInv, Next, NEW p \in Peers, phase[p] = "open", phase'[p] = "closed"
               PROVE  gone[p] # "no" \/ killed' \/ Answers(p)
    BY DEF Answers, Quits
  <2>1. CASE RunOnce
    BY <2>1 DEF RunOnce, kernel
  <2>2. ASSUME NEW e \in fired, Dispatch(e) PROVE gone[p] # "no" \/ killed' \/ Answers(p)
    BY <2>2, DispatchCloses
  <2>3. ASSUME NEW q \in Peers, Peer(q) PROVE FALSE
    <3>1. CASE Connect(q)
      <4>1. phase' = [phase EXCEPT ![q] = "backlog"] /\ phase \in [Peers -> {"new", "backlog", "open", "closed"}]
        BY <3>1 DEF Connect, ConnInv, TypeOK
      <4> QED
        BY <4>1
    <3>2. CASE PeerRead(q) \/ \E how \in {"shut", "reset"} : Leave(q, how)
      BY <3>2 DEF PeerRead, Leave
    <3> QED
      BY <2>3, <3>1, <3>2 DEF Peer
  <2> QED
    BY <2>1, <2>2, <2>3 DEF Next
<1>2. [\A p \in Peers : Fine(p)]_vars =>
      [\A p \in Peers :
         phase[p] = "open" /\ phase'[p] = "closed" =>
           \/ gone[p] # "no" \/ killed'
           \/ /\ \E j \in 1 .. Len(served'[p]) : served'[p][j][1] = QUIT
              /\ Len(got'[p] \o outgoing'[p]) = Len(served'[p])]_vars
  OBVIOUS
<1> HIDE DEF Fine
<1> QED
  BY <1>1, <1>2, ConnInvAlways, PTL DEF Spec, ClosedForAReason
====
