--------------------------- MODULE SkipListProofs ---------------------------
(***************************************************************************)
(* The skip list keeps its links, its way back, its map and its size in    *)
(* step, at every pointer step of every call, and is a sorted set to its   *)
(* callers, also to those that only read: for all members, all scores that *)
(* are numbers, all addresses and all numbers of levels.                   *)
(***************************************************************************)
EXTENDS SkipList, FiniteSetTheorems, Induction

-----------------------------------------------------------------------------
(* The order of the nodes, as a function nd says what they hold.           *)

Prec(nd, a, b) ==
    \/ nd[a].score < nd[b].score
    \/ nd[a].score = nd[b].score /\ nd[a].member < nd[b].member

\* The header comes before every node.
Below(nd, a, b) == a = Header \/ Prec(nd, a, b)

\* The nodes of S hold numbers, and no member twice.
Keyed(nd, S) ==
    /\ S \subseteq Nodes
    /\ \A n \in S : nd[n].score \in Int /\ nd[n].member \in Int
    /\ \A n, o \in S : nd[n].member = nd[o].member => n = o

LEMMA Order ==
    ASSUME NEW nd, NEW S, Keyed(nd, S)
    PROVE  /\ \A a \in S : ~ Prec(nd, a, a)
           /\ \A a, b \in S : a = b \/ Prec(nd, a, b) \/ Prec(nd, b, a)
           /\ \A a, b \in S : ~ (Prec(nd, a, b) /\ Prec(nd, b, a))
           /\ \A a, b, c \in S : Prec(nd, a, b) /\ Prec(nd, b, c) => Prec(nd, a, c)
           /\ Header \notin S /\ Null \notin S
<1>1. \A a \in S : nd[a].score \in Int /\ nd[a].member \in Int
  BY DEF Keyed
<1>2. Header \notin S /\ Null \notin S
  BY NodesAssumption DEF Keyed
<1>3. \A a, b \in S : nd[a].member = nd[b].member => a = b
  BY DEF Keyed
<1> QED
  BY <1>1, <1>2, <1>3 DEF Prec

\* f is the first of the nodes of S behind n, or Null; b is the last one ahead
\* of n; b is the last of all.
Succ(nd, S, n, f) ==
    /\ f # Null => f \in S /\ Below(nd, n, f)
    /\ \A o \in S : Below(nd, n, o) => f # Null /\ (o = f \/ Prec(nd, f, o))

Pred(nd, S, n, b) ==
    /\ b # Null => b \in S /\ Prec(nd, b, n)
    /\ \A o \in S : Prec(nd, o, n) => b # Null /\ (o = b \/ Prec(nd, o, b))

LastOf(nd, S, b) ==
    /\ b # Null => b \in S
    /\ \A o \in S : b # Null /\ (o = b \/ Prec(nd, o, b))

Chain(nd, fwd, S) == \A n \in S \cup {Header} : Succ(nd, S, n, fwd[n])

Mirror(nd, back, S) == \A n \in S : Pred(nd, S, n, back[n])

\* Nothing but what its nodes hold matters to a chain.
LEMMA SameNodes ==
    ASSUME NEW nd, NEW nd2, NEW S, \A n \in S : nd2[n] = nd[n]
    PROVE  /\ \A fwd : Chain(nd, fwd, S) => Chain(nd2, fwd, S)
           /\ \A back : Mirror(nd, back, S) => Mirror(nd2, back, S)
           /\ \A b : LastOf(nd, S, b) => LastOf(nd2, S, b)
<1>1. \A a, b \in S : Prec(nd2, a, b) = Prec(nd, a, b)
  BY DEF Prec
<1>2. \A a \in S \cup {Header}, b \in S : Below(nd2, a, b) = Below(nd, a, b)
  BY <1>1 DEF Below
<1>3. ASSUME NEW fwd, Chain(nd, fwd, S) PROVE Chain(nd2, fwd, S)
  BY <1>1, <1>2, <1>3 DEF Chain, Succ
<1>4. ASSUME NEW back, Mirror(nd, back, S) PROVE Mirror(nd2, back, S)
  BY <1>1, <1>4 DEF Mirror, Pred
<1>5. ASSUME NEW b, LastOf(nd, S, b) PROVE LastOf(nd2, S, b)
  BY <1>1, <1>5 DEF LastOf
<1> QED
  BY <1>3, <1>4, <1>5

\* The place of a new node: between prev and what follows it.
Place(nd, S, prev, new, next) ==
    /\ prev \in S \cup {Header}
    /\ Below(nd, prev, new)
    /\ next # Null => Prec(nd, new, next)
    /\ Succ(nd, S, prev, next)

\* At its place, nothing lies between the new node and its neighbours.
LEMMA Neighbours ==
    ASSUME NEW nd, NEW S, NEW new, new \notin S, Keyed(nd, S \cup {new}),
           NEW prev, NEW next, Place(nd, S, prev, new, next), NEW o \in S
    PROVE  /\ Prec(nd, o, new) <=> prev # Header /\ (o = prev \/ Prec(nd, o, prev))
           /\ Prec(nd, new, o) <=> next # Null /\ (o = next \/ Prec(nd, next, o))
<1> DEFINE T == S \cup {new}
<1>1. /\ \A a \in T : ~ Prec(nd, a, a)
      /\ \A a, b \in T : a = b \/ Prec(nd, a, b) \/ Prec(nd, b, a)
      /\ \A a, b \in T : ~ (Prec(nd, a, b) /\ Prec(nd, b, a))
      /\ \A a, b, c \in T : Prec(nd, a, b) /\ Prec(nd, b, c) => Prec(nd, a, c)
      /\ Header \notin T /\ Null \notin T
  BY Order
<1> QED
  BY <1>1 DEF Place, Succ, Below

LEMMA LinkChain ==
    ASSUME NEW nd, NEW S, NEW new \in Nodes, new \notin S, Keyed(nd, S \cup {new}),
           NEW fwd \in [Nodes \cup {Header} -> Nodes \cup {Null}], Chain(nd, fwd, S),
           NEW prev, Place(nd, S, prev, new, fwd[prev])
    PROVE  Chain(nd, [fwd EXCEPT ![new] = fwd[prev], ![prev] = new], S \cup {new})
<1> DEFINE T == S \cup {new}
           next == fwd[prev]
           fwd2 == [fwd EXCEPT ![new] = next, ![prev] = new]
<1>1. /\ \A a \in T : ~ Prec(nd, a, a)
      /\ \A a, b \in T : a = b \/ Prec(nd, a, b) \/ Prec(nd, b, a)
      /\ \A a, b \in T : ~ (Prec(nd, a, b) /\ Prec(nd, b, a))
      /\ \A a, b, c \in T : Prec(nd, a, b) /\ Prec(nd, b, c) => Prec(nd, a, c)
      /\ Header \notin T /\ Null \notin T
  BY Order
<1>2. \A o \in S : /\ Prec(nd, o, new) <=> prev # Header /\ (o = prev \/ Prec(nd, o, prev))
                   /\ Prec(nd, new, o) <=> next # Null /\ (o = next \/ Prec(nd, next, o))
  BY Neighbours
<1>3. prev \in S \cup {Header} /\ prev # new /\ S \subseteq Nodes
  BY <1>1 DEF Place, Keyed
<1>4. /\ fwd2[new] = next /\ fwd2[prev] = new
      /\ \A n \in S \cup {Header} : n # prev => fwd2[n] = fwd[n]
  BY <1>1, <1>3
<1>5. next # Null => next \in S /\ Prec(nd, new, next) /\ Below(nd, prev, next)
  BY DEF Place, Succ
<1> HIDE DEF fwd2, next
<1>6. Succ(nd, T, new, next)
  BY <1>1, <1>2, <1>5 DEF Succ, Below
<1>7. Succ(nd, T, prev, new)
  <2>1. Below(nd, prev, new) /\ Succ(nd, S, prev, next)
    BY DEF Place, next
  <2> QED
    BY <1>1, <1>2, <1>5, <2>1 DEF Succ
<1>8. ASSUME NEW n \in S \cup {Header}, n # prev PROVE Succ(nd, T, n, fwd[n])
  <2>1. Succ(nd, S, n, fwd[n])
    BY DEF Chain
  <2>2. Below(nd, n, new) => fwd[n] # Null /\ Prec(nd, fwd[n], new)
    <3> SUFFICES ASSUME Below(nd, n, new) PROVE fwd[n] # Null /\ Prec(nd, fwd[n], new)
      OBVIOUS
    <3>1. prev \in S /\ Below(nd, n, prev)
      BY <1>1, <1>2, <1>3, <1>8 DEF Below
    <3>2. fwd[n] # Null /\ fwd[n] \in S /\ (fwd[n] = prev \/ Prec(nd, fwd[n], prev))
      BY <2>1, <3>1 DEF Succ
    <3> QED
      BY <1>1, <1>2, <3>1, <3>2
  <2> QED
    BY <2>1, <2>2 DEF Succ
<1>9. \A n \in T \cup {Header} : Succ(nd, T, n, fwd2[n])
  BY <1>4, <1>6, <1>7, <1>8
<1> QED
  BY <1>9 DEF Chain, fwd2, next

LEMMA LinkMirror ==
    ASSUME NEW nd, NEW S, NEW new \in Nodes, new \notin S, Keyed(nd, S \cup {new}),
           NEW back \in [Nodes -> Nodes \cup {Null}], Mirror(nd, back, S),
           NEW end, LastOf(nd, S, end), NEW prev, NEW next, Place(nd, S, prev, new, next)
    PROVE  /\ Mirror(nd, [n \in Nodes |->
                            CASE n = new -> IF prev = Header THEN Null ELSE prev
                              [] n # new /\ n = next -> new
                              [] OTHER -> back[n]], S \cup {new})
           /\ LastOf(nd, S \cup {new}, IF next = Null THEN new ELSE end)
<1> DEFINE T == S \cup {new}
           ahead == IF prev = Header THEN Null ELSE prev
           back2 == [n \in Nodes |-> CASE n = new -> ahead
                                       [] n # new /\ n = next -> new
                                       [] OTHER -> back[n]]
<1>1. /\ \A a \in T : ~ Prec(nd, a, a)
      /\ \A a, b \in T : a = b \/ Prec(nd, a, b) \/ Prec(nd, b, a)
      /\ \A a, b \in T : ~ (Prec(nd, a, b) /\ Prec(nd, b, a))
      /\ \A a, b, c \in T : Prec(nd, a, b) /\ Prec(nd, b, c) => Prec(nd, a, c)
      /\ Header \notin T /\ Null \notin T
  BY Order
<1>2. \A o \in S : /\ Prec(nd, o, new) <=> prev # Header /\ (o = prev \/ Prec(nd, o, prev))
                   /\ Prec(nd, new, o) <=> next # Null /\ (o = next \/ Prec(nd, next, o))
  BY Neighbours
<1>3. /\ prev \in S \cup {Header} /\ S \subseteq Nodes
      /\ Below(nd, prev, new)
      /\ next # Null => next \in S /\ Prec(nd, new, next)
  BY DEF Place, Keyed, Succ
<1>4. /\ back2[new] = ahead
      /\ next # Null => back2[next] = new
      /\ \A n \in S : n # next => back2[n] = back[n]
  BY <1>1, <1>3
<1> HIDE DEF back2
<1>5. Pred(nd, T, new, ahead)
  BY <1>1, <1>2, <1>3 DEF Pred, Below
<1>6. ASSUME next # Null PROVE Pred(nd, T, next, new)
  <2>1. ASSUME NEW o \in S, Prec(nd, o, next) PROVE o = new \/ Prec(nd, o, new)
    BY <1>1, <1>2, <1>3, <1>6, <2>1
  <2> QED
    BY <1>1, <1>3, <1>6, <2>1 DEF Pred
<1>7. ASSUME NEW n \in S, n # next PROVE Pred(nd, T, n, back[n])
  <2>1. Pred(nd, S, n, back[n])
    BY DEF Mirror
  <2>2. Prec(nd, new, n) => back[n] # Null /\ Prec(nd, new, back[n])
    <3> SUFFICES ASSUME Prec(nd, new, n) PROVE back[n] # Null /\ Prec(nd, new, back[n])
      OBVIOUS
    <3>1. next \in S /\ Prec(nd, next, n)
      BY <1>2, <1>3, <1>7
    <3>2. back[n] # Null /\ back[n] \in S /\ (back[n] = next \/ Prec(nd, next, back[n]))
      BY <2>1, <3>1 DEF Pred
    <3> QED
      BY <1>1, <1>2, <3>1, <3>2
  <2> QED
    BY <2>1, <2>2 DEF Pred
<1>8. Mirror(nd, back2, T)
  <2>1. ASSUME NEW n \in T PROVE Pred(nd, T, n, back2[n])
    <3>1. CASE n = new
      BY <1>4, <1>5, <3>1
    <3>2. CASE n # new /\ n = next
      <4>1. next # Null
        BY <1>1, <3>2
      <4> QED
        BY <1>4, <1>6, <3>2, <4>1
    <3>3. CASE n \in S /\ n # next
      BY <1>4, <1>7, <3>3
    <3> QED
      BY <3>1, <3>2, <3>3
  <2> QED
    BY <2>1 DEF Mirror
<1>9. LastOf(nd, T, IF next = Null THEN new ELSE end)
  <2>1. CASE next = Null
    BY <1>1, <1>2, <2>1 DEF LastOf
  <2>2. CASE next # Null
    <3>1. end \in S /\ (end = next \/ Prec(nd, next, end))
      BY <1>3, <2>2 DEF LastOf
    <3>2. Prec(nd, new, end)
      BY <1>2, <2>2, <3>1
    <3> QED
      BY <1>1, <2>2, <3>1, <3>2 DEF LastOf
  <2> QED
    BY <2>1, <2>2
<1> QED
  BY <1>8, <1>9 DEF back2

LEMMA UnlinkChain ==
    ASSUME NEW nd, NEW S, Keyed(nd, S), NEW gone \in S,
           NEW fwd \in [Nodes \cup {Header} -> Nodes \cup {Null}], Chain(nd, fwd, S),
           NEW prev \in S \cup {Header}, fwd[prev] = gone
    PROVE  Chain(nd, [fwd EXCEPT ![prev] = fwd[gone], ![gone] = Null], S \ {gone})
<1> DEFINE T == S \ {gone}
           next == fwd[gone]
           fwd2 == [fwd EXCEPT ![prev] = next, ![gone] = Null]
<1>1. /\ \A a \in S : ~ Prec(nd, a, a)
      /\ \A a, b \in S : a = b \/ Prec(nd, a, b) \/ Prec(nd, b, a)
      /\ \A a, b \in S : ~ (Prec(nd, a, b) /\ Prec(nd, b, a))
      /\ \A a, b, c \in S : Prec(nd, a, b) /\ Prec(nd, b, c) => Prec(nd, a, c)
      /\ Header \notin S /\ Null \notin S
  BY Order
<1>2. Succ(nd, S, prev, gone) /\ Succ(nd, S, gone, next)
  BY DEF Chain
<1>3. Below(nd, prev, gone) /\ prev # gone /\ S \subseteq Nodes
  BY <1>1, <1>2 DEF Succ, Below, Keyed
<1>4. /\ fwd2[prev] = next
      /\ \A n \in T \cup {Header} : n # prev => fwd2[n] = fwd[n]
  BY <1>1, <1>3
<1>5. next # Null => next \in T /\ Prec(nd, gone, next)
  BY <1>1, <1>2 DEF Succ, Below
<1> HIDE DEF next, fwd2
<1>6. Succ(nd, T, prev, next)
  <2>1. next # Null => Below(nd, prev, next)
    BY <1>1, <1>3, <1>5 DEF Below
  <2>2. ASSUME NEW o \in T, Below(nd, prev, o) PROVE next # Null /\ (o = next \/ Prec(nd, next, o))
    <3>1. Prec(nd, gone, o)
      BY <1>2, <2>2 DEF Succ
    <3> QED
      BY <1>2, <3>1 DEF Succ, Below
  <2> QED
    BY <1>5, <2>1, <2>2 DEF Succ
<1>7. ASSUME NEW n \in T \cup {Header}, n # prev PROVE Succ(nd, T, n, fwd[n])
  <2>1. Succ(nd, S, n, fwd[n])
    BY DEF Chain
  <2>2. fwd[n] # gone
    <3> SUFFICES ASSUME fwd[n] = gone PROVE FALSE
      OBVIOUS
    <3>1. Below(nd, n, prev) \/ Below(nd, prev, n)
      BY <1>1, <1>7 DEF Below
    <3>2. CASE Below(nd, n, prev) /\ prev \in S
      <4>1. prev = gone \/ Prec(nd, gone, prev)
        BY <2>1, <3>2, fwd[n] = gone DEF Succ
      <4>2. Prec(nd, prev, gone)
        BY <1>1, <1>3, <3>2 DEF Below
      <4> QED
        BY <1>1, <1>3, <3>2, <4>1, <4>2
    <3>3. CASE Below(nd, prev, n) /\ n \in S
      <4>1. Below(nd, n, gone)
        BY <1>1, <2>1, fwd[n] = gone DEF Succ
      <4>2. n = gone \/ Prec(nd, gone, n)
        BY <1>2, <3>3 DEF Succ
      <4> QED
        BY <1>1, <3>3, <4>1, <4>2 DEF Below
    <3> QED
      BY <1>1, <1>7, <3>1, <3>2, <3>3 DEF Below
  <2> QED
    BY <2>1, <2>2 DEF Succ
<1>8. \A n \in T \cup {Header} : Succ(nd, T, n, fwd2[n])
  BY <1>4, <1>6, <1>7
<1> QED
  BY <1>8 DEF Chain, next, fwd2

LEMMA UnlinkMirror ==
    ASSUME NEW nd, NEW S, Keyed(nd, S), NEW gone \in S, NEW next, Succ(nd, S, gone, next),
           NEW back \in [Nodes -> Nodes \cup {Null}], Mirror(nd, back, S),
           NEW end, LastOf(nd, S, end)
    PROVE  /\ Mirror(nd, [n \in Nodes |-> CASE n = gone -> Null
                                           [] n # gone /\ n = next -> back[gone]
                                           [] OTHER -> back[n]], S \ {gone})
           /\ LastOf(nd, S \ {gone}, IF next = Null THEN back[gone] ELSE end)
<1> DEFINE T == S \ {gone}
           ahead == back[gone]
           back2 == [n \in Nodes |-> CASE n = gone -> Null
                                       [] n # gone /\ n = next -> ahead
                                       [] OTHER -> back[n]]
<1>1. /\ \A a \in S : ~ Prec(nd, a, a)
      /\ \A a, b \in S : a = b \/ Prec(nd, a, b) \/ Prec(nd, b, a)
      /\ \A a, b \in S : ~ (Prec(nd, a, b) /\ Prec(nd, b, a))
      /\ \A a, b, c \in S : Prec(nd, a, b) /\ Prec(nd, b, c) => Prec(nd, a, c)
      /\ Header \notin S /\ Null \notin S
  BY Order
<1>2. Pred(nd, S, gone, ahead) /\ S \subseteq Nodes
  BY DEF Mirror, Keyed
<1>3. next # Null => next \in T /\ Prec(nd, gone, next)
  BY <1>1 DEF Succ, Below
<1>4. /\ next # Null => back2[next] = ahead
      /\ \A n \in T : n # next => back2[n] = back[n]
  BY <1>1, <1>2, <1>3
<1> HIDE DEF ahead, back2
<1>5. \A o \in T : Prec(nd, o, gone) \/ (next # Null /\ (o = next \/ Prec(nd, next, o)))
  BY <1>1 DEF Succ, Below
<1>6. ahead # Null => ahead \in T /\ Prec(nd, ahead, gone)
  BY <1>1, <1>2 DEF Pred
<1>7. \A o \in T : Prec(nd, o, gone) => ahead # Null /\ (o = ahead \/ Prec(nd, o, ahead))
  BY <1>2 DEF Pred
<1>8. ASSUME next # Null PROVE Pred(nd, T, next, ahead)
  <2>1. ASSUME NEW o \in T, Prec(nd, o, next) PROVE Prec(nd, o, gone)
    BY <1>1, <1>3, <1>5, <1>8, <2>1
  <2>2. ahead # Null => Prec(nd, ahead, next)
    BY <1>1, <1>3, <1>6, <1>8
  <2> QED
    BY <1>6, <1>7, <2>1, <2>2 DEF Pred
<1>9. ASSUME NEW n \in T, n # next PROVE Pred(nd, T, n, back[n])
  <2>1. Pred(nd, S, n, back[n])
    BY DEF Mirror
  <2>2. back[n] # gone
    <3> SUFFICES ASSUME back[n] = gone PROVE FALSE
      OBVIOUS
    <3>1. Prec(nd, gone, n)
      BY <1>1, <2>1 DEF Pred
    <3>2. next # Null /\ next \in S /\ Prec(nd, next, n)
      BY <1>1, <1>3, <1>5, <1>9, <3>1
    <3>3. next = gone \/ Prec(nd, next, gone)
      BY <2>1, <3>2 DEF Pred
    <3> QED
      BY <1>1, <1>3, <3>2, <3>3
  <2> QED
    BY <2>1, <2>2 DEF Pred
<1>10. Mirror(nd, back2, T)
  <2>1. ASSUME NEW n \in T PROVE Pred(nd, T, n, back2[n])
    <3>1. CASE n = next
      <4>1. next # Null
        BY <1>1, <3>1
      <4> QED
        BY <1>4, <1>8, <3>1, <4>1
    <3>2. CASE n # next
      BY <1>4, <1>9, <3>2
    <3> QED
      BY <3>1, <3>2
  <2> QED
    BY <2>1 DEF Mirror
<1>11. LastOf(nd, T, IF next = Null THEN ahead ELSE end)
  <2>1. CASE next = Null
    BY <1>5, <1>6, <1>7, <2>1 DEF LastOf
  <2>2. CASE next # Null
    <3>1. end \in S /\ (end = next \/ Prec(nd, next, end))
      BY <1>3, <2>2 DEF LastOf
    <3>2. end # gone
      BY <1>1, <1>3, <2>2, <3>1
    <3> QED
      BY <2>2, <3>1, <3>2 DEF LastOf
  <2> QED
    BY <2>1, <2>2
<1> QED
  BY <1>10, <1>11 DEF back2, ahead

-----------------------------------------------------------------------------
(* The inductive invariant.                                                *)

\* The links of each level, the way back, the highest level and the size.
Linked ==
    /\ Keyed(node, Alive)
    /\ \A l \in Levels : Chain(node, forward[l], OnLevel(l))
    /\ \A l \in Levels : l > 0 => (l < level <=> OnLevel(l) # {})
    /\ Mirror(node, backward, Alive)
    /\ LastOf(node, Alive, tail)
    /\ IsFiniteSet(Alive)
    /\ size = Cardinality(Alive)

\* The score a member's node must have: the map's, or the one it had in the map
\* when the call began.
Filed(m) ==
    IF call \in {"delete", "replace"} /\ m = member THEN oldScore ELSE score_map[m]

Mapped ==
    /\ \A n \in Alive : node[n].score = Filed(node[n].member)
    /\ \A m \in Elems : Filed(m) # Null => \E n \in Alive : node[n].member = m

\* What a call knows of its arguments.
Called ==
    call # "idle" =>
      /\ member \in Elems
      /\ score_map[member] = Null
      /\ call \in {"delete", "replace"} => oldScore \in ScoreSet
      /\ call \in {"insert", "replace"} => newScore \in ScoreSet
      /\ newScore # oldScore

\* The search passes the nodes ahead of the place it looks for, and no others.
Earlier(nd, s, m, n) ==
    \/ n = Header
    \/ nd[n].score < s
    \/ nd[n].score = s /\ nd[n].member < m

\* It leaves the level of the nodes S, with links fwd, at n.
Landed(nd, s, m, S, fwd, n) ==
    /\ n \in S \cup {Header}
    /\ Earlier(nd, s, m, n)
    /\ fwd[n] # Null => ~ Earlier(nd, s, m, fwd[n])

Sought ==
    call # "idle" =>
      /\ i < level
      /\ Earlier(node, score, member, cur)
      /\ i >= 0 => cur \in OnLevel(i) \cup {Header}
      /\ i = -1 => cur = update[0]
      /\ tied => cur # Header /\ node[cur].score = score
      /\ \A l \in Levels :
            i < l /\ l < level =>
              Landed(node, score, member, OnLevel(l), forward[l], update[l])

IInv == TypeOK /\ Linked /\ Mapped /\ Called /\ Sought

Numbers == ScoreSet \subseteq Int

\* What the types say of the nodes that live and of the levels.
LEMMA NodeTypes ==
    ASSUME TypeOK
    PROVE  /\ Alive \subseteq Nodes
           /\ \A n \in Alive : /\ node[n].score \in ScoreSet
                               /\ node[n].member \in Elems
                               /\ node[n].levels \in 1 .. MaxLevel
                               /\ n # Null /\ n # Header
           /\ 0 \in Levels /\ OnLevel(0) = Alive
           /\ \A l \in Levels : /\ OnLevel(l) \subseteq Alive
                                /\ l \in Nat /\ l < MaxLevel
                                /\ forward[l] \in [Nodes \cup {Header} -> Nodes \cup {Null}]
           /\ \A l, k \in Levels : l <= k => OnLevel(k) \subseteq OnLevel(l)
<1>1. Alive \subseteq Nodes
  BY DEF Alive
<1>2. ASSUME NEW n \in Alive
      PROVE  /\ node[n].score \in ScoreSet /\ node[n].member \in Elems
             /\ node[n].levels \in 1 .. MaxLevel
             /\ n # Null /\ n # Header
  <2>1. node[n] \in SkipListNodes
    BY DEF Alive, TypeOK
  <2> QED
    BY <2>1, NodesAssumption DEF Alive, SkipListNodes
<1>3. \A l \in Levels : l \in Nat /\ l < MaxLevel /\ OnLevel(l) \subseteq Alive
  BY MaxLevelAssumption DEF Levels, OnLevel
<1>4. 0 \in Levels
  BY MaxLevelAssumption DEF Levels
<1>5. OnLevel(0) = Alive
  BY <1>2 DEF OnLevel
<1>6. \A l, k \in Levels : l <= k => OnLevel(k) \subseteq OnLevel(l)
  BY <1>2, <1>3, MaxLevelAssumption DEF OnLevel
<1>7. \A l \in Levels : forward[l] \in [Nodes \cup {Header} -> Nodes \cup {Null}]
  BY DEF TypeOK
<1> QED
  BY <1>1, <1>2, <1>3, <1>4, <1>5, <1>6, <1>7

\* Null is neither a score nor a member.
LEMMA Nulls ==
    ASSUME Numbers
    PROVE  Null \notin ScoreSet /\ Null \notin Elems /\ Null \notin Int
BY WordsAssumption, ElemsAssumption DEF Numbers

LEMMA InitInv ==
    ASSUME Numbers, Init
    PROVE  IInv
<1>1. Alive = {} /\ \A l \in Levels : OnLevel(l) = {}
  BY DEF Init, Alive, OnLevel
<1>2. TypeOK
  <2>1. level \in 1 .. MaxLevel /\ i \in -1 .. MaxLevel - 1
    BY MaxLevelAssumption DEF Init
  <2> QED
    BY <2>1 DEF Init, TypeOK
<1>3. Linked
  <2>1. IsFiniteSet(Alive) /\ size = Cardinality(Alive)
    BY <1>1, FS_EmptySet DEF Init
  <2>2. Keyed(node, Alive) /\ Mirror(node, backward, Alive) /\ LastOf(node, Alive, tail)
    BY <1>1 DEF Keyed, Mirror, LastOf, Init
  <2>3. \A l \in Levels : Chain(node, forward[l], OnLevel(l))
    BY <1>1 DEF Chain, Succ, Init
  <2>4. \A l \in Levels : l > 0 => (l < level <=> OnLevel(l) # {})
    BY <1>1 DEF Init, Levels
  <2> QED
    BY <2>1, <2>2, <2>3, <2>4 DEF Linked
<1>4. Mapped
  BY <1>1 DEF Mapped, Filed, Init
<1> QED
  BY <1>2, <1>3, <1>4 DEF IInv, Called, Sought, Init

\* A step that leaves the nodes and their links alone.
LEMMA LinkedKept ==
    ASSUME Linked, UNCHANGED links
    PROVE  Linked'
<1>1. Alive' = Alive /\ \A l \in Levels : OnLevel(l)' = OnLevel(l)
  BY DEF links, Alive, OnLevel
<1> QED
  BY <1>1 DEF Linked, links

LEMMA ReturnTyped ==
    ASSUME NEW result \in BOOLEAN, Return(result)
    PROVE  /\ call' = "idle" /\ member' = Null /\ newScore' = Null /\ oldScore' = Null
           /\ cur' = Header /\ i' = -1 /\ tied' = FALSE
           /\ update' \in [Levels -> Nodes \cup {Header}] /\ answer' = result
BY DEF Return, Seek

LEMMA IdleInv ==
    ASSUME call' = "idle"
    PROVE  Called' /\ Sought'
BY DEF Called, Sought

-----------------------------------------------------------------------------
(* The calls begin.                                                        *)

LEMMA BeginInv ==
    ASSUME Numbers, IInv, call = "idle", UNCHANGED links, NEW m \in Elems,
           NEW c \in {"insert", "delete", "replace"}, NEW s \in ScoreSet \cup {Null},
           c = "insert" <=> score_map[m] = Null,
           c \in {"insert", "replace"} => s \in ScoreSet,
           s # score_map[m], Begin(c, m, s)
    PROVE  IInv'
<1>1. /\ call' = c /\ member' = m /\ newScore' = s /\ oldScore' = score_map[m]
      /\ score_map' = [score_map EXCEPT ![m] = Null]
      /\ cur' = Header /\ i' = level - 1 /\ tied' = FALSE
      /\ update' = [l \in Levels |-> Header]
      /\ answer' = answer
  BY DEF Begin, Seek
<1>2. TypeOK
  BY DEF IInv
<1>3. /\ score_map \in [Elems -> ScoreSet \cup {Null}]
      /\ level \in 1 .. MaxLevel
  BY <1>2 DEF TypeOK
<1>4. TypeOK'
  <2>1. level - 1 \in -1 .. MaxLevel - 1
    BY <1>3, MaxLevelAssumption
  <2>2. score_map' \in [Elems -> ScoreSet \cup {Null}]
    BY <1>1, <1>3
  <2>3. /\ node' \in [Nodes -> SkipListNodes \cup {Null}]
        /\ forward' \in [Levels -> [Nodes \cup {Header} -> Nodes \cup {Null}]]
        /\ backward' \in [Nodes -> Nodes \cup {Null}]
        /\ tail' \in Nodes \cup {Null}
        /\ level' \in 1 .. MaxLevel
        /\ size' \in Nat
    BY <1>2 DEF TypeOK, links
  <2>4. answer' \in BOOLEAN
    BY <1>1, <1>2 DEF TypeOK
  <2> QED
    BY <1>1, <1>3, <2>1, <2>2, <2>3, <2>4 DEF TypeOK
<1>5. Linked'
  BY LinkedKept DEF IInv
<1>6. Alive' = Alive /\ node' = node
  BY DEF Alive, links
<1>7. \A o \in Elems : Filed(o)' = Filed(o)
  BY <1>1, <1>3 DEF Filed
<1>8. Mapped'
  <2>1. \A n \in Alive : node[n].member \in Elems
    BY <1>2, NodeTypes
  <2> QED
    BY <1>6, <1>7, <2>1 DEF Mapped, IInv
<1>9. Called'
  <2>1. score_map'[m] = Null
    BY <1>1, <1>3
  <2>2. score_map[m] \in ScoreSet \cup {Null}
    BY <1>3
  <2> QED
    BY <1>1, <2>1, <2>2 DEF Called
<1>10. Sought'
  <2>1. level' = level /\ level \in Nat /\ level >= 1
    BY <1>3, MaxLevelAssumption DEF links
  <2>2. \A l \in Levels : ~ (i' < l /\ l < level')
    BY <1>1, <2>1 DEF Levels
  <2> QED
    BY <1>1, <2>1, <2>2 DEF Sought, Earlier
<1> QED
  BY <1>4, <1>5, <1>8, <1>9, <1>10 DEF IInv

\* A call that returns at once.
LEMMA ReturnInv ==
    ASSUME IInv, call = "idle", UNCHANGED <<links, score_map>>,
           NEW result \in BOOLEAN, Return(result)
    PROVE  IInv'
<1>1. /\ call' = "idle" /\ member' = Null /\ newScore' = Null /\ oldScore' = Null
      /\ cur' = Header /\ i' = -1 /\ tied' = FALSE
      /\ update' \in [Levels -> Nodes \cup {Header}] /\ answer' = result
  BY ReturnTyped
<1>2. TypeOK'
  <2>1. i' \in -1 .. MaxLevel - 1
    BY <1>1, MaxLevelAssumption
  <2>2. /\ node' \in [Nodes -> SkipListNodes \cup {Null}]
        /\ forward' \in [Levels -> [Nodes \cup {Header} -> Nodes \cup {Null}]]
        /\ backward' \in [Nodes -> Nodes \cup {Null}]
        /\ tail' \in Nodes \cup {Null}
        /\ level' \in 1 .. MaxLevel
        /\ size' \in Nat
        /\ score_map' \in [Elems -> ScoreSet \cup {Null}]
    BY DEF IInv, TypeOK, links
  <2> QED
    BY <1>1, <2>1, <2>2 DEF TypeOK
<1>3. Linked'
  BY LinkedKept DEF IInv
<1>4. Mapped'
  <2>1. Alive' = Alive /\ node' = node
    BY DEF Alive, links
  <2>2. \A o : Filed(o)' = Filed(o)
    BY <1>1 DEF Filed
  <2> QED
    BY <2>1, <2>2 DEF Mapped, IInv
<1> QED
  BY <1>1, <1>2, <1>3, <1>4, IdleInv DEF IInv

LEMMA InsertInv ==
    ASSUME Numbers, IInv, NEW m \in Elems, NEW s \in ScoreSet, Insert(s, m)
    PROVE  IInv'
<1>1. CASE Same(score_map[m], s)
  BY <1>1, ReturnInv DEF Insert
<1>2. CASE ~ Same(score_map[m], s)
  <2> DEFINE c == IF score_map[m] = Null THEN "insert" ELSE "replace"
  <2>1. score_map[m] \in ScoreSet \cup {Null}
    BY DEF IInv, TypeOK
  <2>2. s # score_map[m]
    BY <1>2, <2>1, Nulls DEF Same, Numbers
  <2>3. call = "idle" /\ UNCHANGED links /\ Begin(c, m, s)
    BY <1>2 DEF Insert
  <2>4. /\ c \in {"insert", "delete", "replace"} /\ s \in ScoreSet \cup {Null}
        /\ c = "insert" <=> score_map[m] = Null
    OBVIOUS
  <2> HIDE DEF c
  <2> QED
    BY <2>2, <2>3, <2>4, BeginInv
<1> QED
  BY <1>1, <1>2

LEMMA DeleteInv ==
    ASSUME Numbers, IInv, NEW m \in Elems, Delete(m)
    PROVE  IInv'
<1>1. CASE score_map[m] = Null
  BY <1>1, ReturnInv DEF Delete
<1>2. CASE score_map[m] # Null
  BY <1>2, BeginInv DEF Delete
<1> QED
  BY <1>1, <1>2

-----------------------------------------------------------------------------
(* The search.                                                             *)

\* The search turns no links, and knows the same arguments.
LEMMA SearchKeeps ==
    ASSUME IInv, UNCHANGED <<links, score_map, arguments, answer>>
    PROVE  /\ Linked' /\ Mapped' /\ Called'
           /\ \A l \in Levels : OnLevel(l)' = OnLevel(l)
           /\ score' = score /\ member' = member /\ node' = node /\ forward' = forward
           /\ cur' \in Nodes \cup {Header} /\ i' \in -1 .. MaxLevel - 1 /\ tied' \in BOOLEAN
                /\ update' \in [Levels -> Nodes \cup {Header}] => TypeOK'
<1>1. Linked'
  BY LinkedKept DEF IInv
<1>2. Alive' = Alive /\ node' = node /\ \A l \in Levels : OnLevel(l)' = OnLevel(l)
  BY DEF Alive, OnLevel, links
<1>3. \A o : Filed(o)' = Filed(o)
  BY DEF Filed, arguments
<1>4. Mapped'
  BY <1>2, <1>3 DEF IInv, Mapped
<1>5. Called'
  BY DEF IInv, Called, arguments
<1>6. score' = score /\ member' = member /\ node' = node /\ forward' = forward
  BY DEF score, arguments, links
<1>8. cur' \in Nodes \cup {Header} /\ i' \in -1 .. MaxLevel - 1 /\ tied' \in BOOLEAN
        /\ update' \in [Levels -> Nodes \cup {Header}] => TypeOK'
  BY DEF IInv, TypeOK, links, arguments
<1> QED
  BY <1>1, <1>2, <1>4, <1>5, <1>6, <1>8

\* What the search sees ahead is on its level and behind its node.
LEMMA AheadIsBehind ==
    ASSUME IInv, Searching
    PROVE  /\ i \in Levels /\ cur \in OnLevel(i) \cup {Header}
           /\ Ahead # Null => Ahead \in OnLevel(i) /\ Below(node, cur, Ahead)
           /\ \A o \in OnLevel(i) : Below(node, cur, o) =>
                Ahead # Null /\ (o = Ahead \/ Prec(node, Ahead, o))
<1>1. i \in Levels
  BY MaxLevelAssumption DEF IInv, TypeOK, Searching, Levels
<1>2. cur \in OnLevel(i) \cup {Header}
  BY DEF IInv, Sought, Searching
<1>3. Chain(node, forward[i], OnLevel(i))
  BY <1>1 DEF IInv, Linked
<1>4. Succ(node, OnLevel(i), cur, Ahead)
  BY <1>2, <1>3 DEF Chain, Ahead
<1> QED
  BY <1>1, <1>2, <1>4 DEF Succ

\* The score that is searched for is a number.
LEMMA ScoreTyped ==
    ASSUME Numbers, IInv, call # "idle"
    PROVE  score \in ScoreSet /\ score \in Int /\ member \in Elems /\ member \in Int
BY ElemsAssumption DEF IInv, Called, TypeOK, score, Numbers

LEMMA AdvanceInv ==
    ASSUME Numbers, IInv, Advance
    PROVE  IInv'
<1>1. /\ Searching /\ (PassesScore \/ PassesTie)
      /\ cur' = Ahead /\ tied' = ~ PassesScore
      /\ UNCHANGED <<links, score_map, arguments, i, update, answer>>
  BY DEF Advance
<1>2. i \in Levels /\ Ahead \in OnLevel(i)
  <2>1. Ahead # Null
    BY <1>1 DEF PassesScore, PassesTie
  <2>2. Searching
    BY <1>1
  <2> QED
    BY <2>1, <2>2, AheadIsBehind
<1>3. TypeOK
  BY DEF IInv
<1>4. Ahead \in Nodes /\ Ahead # Header
  BY <1>2, <1>3, NodeTypes
<1>5. /\ Linked' /\ Mapped' /\ Called'
      /\ \A l \in Levels : OnLevel(l)' = OnLevel(l)
      /\ score' = score /\ member' = member /\ node' = node /\ forward' = forward
      /\ cur' \in Nodes \cup {Header} /\ i' \in -1 .. MaxLevel - 1 /\ tied' \in BOOLEAN
                /\ update' \in [Levels -> Nodes \cup {Header}] => TypeOK'
  BY <1>1, SearchKeeps
<1>6. TypeOK'
  <2>1. i' \in -1 .. MaxLevel - 1 /\ update' \in [Levels -> Nodes \cup {Header}]
    BY <1>1, <1>3 DEF TypeOK
  <2> QED
    BY <1>1, <1>4, <1>5, <2>1
<1>7. Earlier(node, score, member, Ahead)
  BY <1>1 DEF PassesScore, PassesTie, Less, Same, Earlier
<1>8. tied' => node[Ahead].score = score
  BY <1>1 DEF PassesTie, Same
<1>9. Sought'
  <2>1. call # "idle" /\ Sought
    BY <1>1 DEF Searching, IInv
  <2>2. i < level /\ i # -1 /\ i' = i /\ level' = level /\ node' = node /\ update' = update
    BY <1>1, <1>2, <2>1, MaxLevelAssumption DEF Sought, links, Levels
  <2>3. \A l \in Levels : i' < l /\ l < level' =>
          Landed(node', score', member', OnLevel(l)', forward'[l], update'[l])
    BY <1>5, <2>1, <2>2 DEF Sought
  <2>4. Earlier(node', score', member', cur')
    BY <1>1, <1>5, <1>7
  <2> QED
    BY <1>1, <1>2, <1>4, <1>5, <1>8, <2>2, <2>3, <2>4 DEF Sought
<1> QED
  BY <1>5, <1>6, <1>9 DEF IInv

LEMMA DescendInv ==
    ASSUME Numbers, IInv, Descend
    PROVE  IInv'
<1>1. /\ Searching /\ ~ PassesScore /\ ~ PassesTie
      /\ update' = [update EXCEPT ![i] = cur]
      /\ i' = i - 1 /\ tied' = FALSE /\ cur' = cur
      /\ UNCHANGED <<links, score_map, arguments, answer>>
  BY DEF Descend
<1>2. TypeOK /\ Sought /\ call # "idle"
  BY <1>1 DEF IInv, Searching
<1>3. /\ i \in Levels /\ cur \in OnLevel(i) \cup {Header}
      /\ Ahead # Null => Ahead \in OnLevel(i) /\ Below(node, cur, Ahead)
  BY <1>1, AheadIsBehind
<1>4. /\ Linked' /\ Mapped' /\ Called'
      /\ \A l \in Levels : OnLevel(l)' = OnLevel(l)
      /\ score' = score /\ member' = member /\ node' = node /\ forward' = forward
      /\ cur' \in Nodes \cup {Header} /\ i' \in -1 .. MaxLevel - 1 /\ tied' \in BOOLEAN
                /\ update' \in [Levels -> Nodes \cup {Header}] => TypeOK'
  BY <1>1, SearchKeeps
<1>5. i \in 0 .. MaxLevel - 1 /\ i \in Int
  BY <1>3, MaxLevelAssumption DEF Levels
<1>6. cur \in Nodes \cup {Header} /\ update \in [Levels -> Nodes \cup {Header}]
  BY <1>2 DEF TypeOK
<1>7. TypeOK'
  <2>1. i' \in -1 .. MaxLevel - 1
    BY <1>1, <1>5, MaxLevelAssumption
  <2>2. update' \in [Levels -> Nodes \cup {Header}]
    BY <1>1, <1>6
  <2> QED
    BY <1>1, <1>4, <1>6, <2>1, <2>2
<1>8. Ahead # Null => ~ Earlier(node, score, member, Ahead)
  <2> SUFFICES ASSUME Ahead # Null PROVE ~ Earlier(node, score, member, Ahead)
    OBVIOUS
  <2>1. /\ Ahead # Header /\ node[Ahead].score \in Int /\ node[Ahead].member \in Int
        /\ score \in Int /\ member \in Int
    BY <1>2, <1>3, NodeTypes, ScoreTyped, ElemsAssumption DEF Numbers
  <2>2. ~ (node[Ahead].score = score /\ node[Ahead].member < member)
    BY <1>1, <2>1 DEF PassesTie, Same
  <2>3. ~ (node[Ahead].score < score)
    <3>1. CASE ~ tied
      BY <1>1, <2>1, <3>1 DEF PassesScore, Less
    <3>2. CASE tied
      <4>1. cur # Header /\ node[cur].score = score
        BY <1>2, <3>2 DEF Sought
      <4>2. Prec(node, cur, Ahead)
        BY <1>3, <4>1 DEF Below
      <4> QED
        BY <2>1, <4>1, <4>2 DEF Prec
    <3> QED
      BY <3>1, <3>2
  <2> QED
    BY <2>1, <2>2, <2>3 DEF Earlier
<1>9. Landed(node, score, member, OnLevel(i), forward[i], cur)
  BY <1>2, <1>3, <1>8 DEF Landed, Sought, Ahead
<1>10. Sought'
  <2>1. i < level /\ level' = level /\ level \in Int
    BY <1>1, <1>2, MaxLevelAssumption DEF Sought, links, TypeOK
  <2>2. ASSUME NEW l \in Levels, i' < l, l < level'
        PROVE  Landed(node', score', member', OnLevel(l)', forward'[l], update'[l])
    <3>1. CASE l = i
      BY <1>1, <1>4, <1>6, <1>9, <3>1
    <3>2. CASE l # i
      <4>1. i < l /\ l < level
        BY <1>1, <1>5, <2>1, <2>2, <3>2 DEF Levels
      <4>2. update'[l] = update[l]
        BY <1>1, <1>6, <3>2
      <4> QED
        BY <1>2, <1>4, <4>1, <4>2 DEF Sought
    <3> QED
      BY <3>1, <3>2
  <2>3. Earlier(node', score', member', cur')
    BY <1>1, <1>2, <1>4 DEF Sought
  <2>4. i' < level'
    BY <1>1, <1>5, <2>1
  <2>5. i' = -1 => cur' = update'[0]
    BY <1>1, <1>3, <1>5, <1>6
  <2>6. (i >= 0 => cur \in OnLevel(i) \cup {Header})'
    <3> SUFFICES ASSUME i' >= 0 PROVE (cur \in OnLevel(i) \cup {Header})'
      OBVIOUS
    <3>1. i - 1 \in Levels /\ i - 1 <= i
      <4>1. i' = i - 1
        BY <1>1
      <4>2. i - 1 >= 0
        BY <4>1
      <4> QED
        BY <1>5, <4>2, MaxLevelAssumption DEF Levels
    <3>2. OnLevel(i) \subseteq OnLevel(i - 1)
      BY <1>2, <1>3, <3>1, NodeTypes
    <3>3. cur' \in OnLevel(i - 1) \cup {Header}
      BY <1>1, <1>3, <3>2
    <3>4. Alive' = Alive /\ node' = node
      BY <1>4 DEF Alive
    <3> QED
      BY <1>1, <3>3, <3>4 DEF OnLevel
  <2> QED
    BY <1>1, <2>2, <2>3, <2>4, <2>5, <2>6 DEF Sought
<1> QED
  BY <1>4, <1>7, <1>10 DEF IInv

-----------------------------------------------------------------------------
(* The links change.                                                       *)

\* When the search is over, it has landed on every level in use.
LEMMA LandedAll ==
    ASSUME IInv, Found
    PROVE  /\ call # "idle" /\ cur = update[0] /\ 0 < level /\ level \in Nat
           /\ \A l \in Levels : l < level =>
                Landed(node, score, member, OnLevel(l), forward[l], update[l])
<1>1. call # "idle" /\ i = -1 /\ Sought /\ TypeOK
  BY DEF Found, IInv
<1>2. 0 < level /\ level \in Nat
  BY <1>1, MaxLevelAssumption DEF TypeOK
<1>3. \A l \in Levels : i < l
  BY <1>1 DEF Levels
<1> QED
  BY <1>1, <1>2, <1>3 DEF Sought

\* A new node belongs where the search has landed.
LEMMA NewPlace ==
    ASSUME NEW nd, NEW S, NEW fwd, NEW new, NEW prev, new # Null,
           Keyed(nd, S \cup {new}), new \notin S, Chain(nd, fwd, S),
           Landed(nd, nd[new].score, nd[new].member, S, fwd, prev)
    PROVE  Place(nd, S, prev, new, fwd[prev])
<1>1. prev \in S \cup {Header} /\ Succ(nd, S, prev, fwd[prev])
  BY DEF Landed, Chain
<1>2. Below(nd, prev, new)
  BY DEF Landed, Earlier, Below, Prec
<1>3. ASSUME fwd[prev] # Null PROVE Prec(nd, new, fwd[prev])
  <2>1. fwd[prev] \in S
    BY <1>1, <1>3 DEF Succ
  <2>2. ~ Prec(nd, fwd[prev], new)
    BY <1>3 DEF Landed, Earlier, Prec
  <2> QED
    BY <2>1, <2>2, Order
<1> QED
  BY <1>1, <1>2, <1>3 DEF Place

\* On a level not in use yet, it belongs behind the header.
LEMMA FirstPlace ==
    ASSUME NEW nd, NEW fwd, NEW new, Chain(nd, fwd, {})
    PROVE  /\ fwd[Header] = Null
           /\ Place(nd, {}, Header, new, fwd[Header])
BY DEF Chain, Place, Succ, Below

LEMMA LinkInv ==
    ASSUME Numbers, IInv, NEW top \in 1 .. MaxLevel, NEW new \in Nodes, Link(top, new)
    PROVE  IInv'
<1> DEFINE before == [l \in Levels |-> IF l < level THEN update[l] ELSE Header]
           nd == node'
<1>1. /\ Found /\ call = "insert" /\ node[new] = Null
      /\ nd = [node EXCEPT ![new] = [score |-> score, member |-> member, levels |-> top]]
      /\ forward' = [l \in Levels |->
                       IF l < top
                       THEN [forward[l] EXCEPT ![new] = forward[l][before[l]],
                                               ![before[l]] = new]
                       ELSE forward[l]]
      /\ backward' = Between(new, before[0], forward[0][before[0]])
      /\ tail' = IF forward[0][before[0]] = Null THEN new ELSE tail
      /\ level' = IF top > level THEN top ELSE level
      /\ size' = size + 1
      /\ score_map' = [score_map EXCEPT ![member] = score]
      /\ Return(TRUE)
  BY DEF Link
<1>2. TypeOK /\ Linked /\ Mapped /\ Called
  BY DEF IInv
<1>3. /\ call # "idle" /\ 0 < level /\ level \in Nat
      /\ \A l \in Levels : l < level =>
           Landed(node, score, member, OnLevel(l), forward[l], update[l])
  BY <1>1, LandedAll
<1>4. /\ score \in ScoreSet /\ score \in Int /\ member \in Elems /\ member \in Int
      /\ score_map[member] = Null
  BY <1>1, <1>2, ScoreTyped DEF Called
<1>5. /\ nd[new] = [score |-> score, member |-> member, levels |-> top]
      /\ \A n \in Nodes : n # new => nd[n] = node[n]
      /\ nd[new] # Null
      /\ nd \in [Nodes -> SkipListNodes \cup {Null}]
  <2>1. node \in [Nodes -> SkipListNodes \cup {Null}]
    BY <1>2 DEF TypeOK
  <2>2. nd[new] = [score |-> score, member |-> member, levels |-> top]
    BY <1>1, <2>1
  <2>3. \A n \in Nodes : n # new => nd[n] = node[n]
    BY <1>1, <2>1
  <2>4. [score |-> score, member |-> member, levels |-> top] \in SkipListNodes
    BY <1>4 DEF SkipListNodes
  <2>5. nd \in [Nodes -> SkipListNodes \cup {Null}]
    BY <1>1, <2>1, <2>4
  <2>6. nd[new] # Null
    BY <2>2, <2>4, NodesAssumption
  <2> QED
    BY <2>2, <2>3, <2>5, <2>6
<1>6. /\ \A n \in Alive : node[n].member # member /\ n # new /\ nd[n] = node[n]
      /\ Alive' = Alive \cup {new} /\ new \notin Alive
  <2>1. \A n \in Alive : node[n].member # member
    <3>1. Filed(member) = Null
      BY <1>1, <1>4 DEF Filed
    <3> QED
      BY <1>2, <3>1, NodeTypes, Nulls DEF Mapped
  <2>2. new \notin Alive
    BY <1>1 DEF Alive
  <2>3. Alive' = Alive \cup {new}
    BY <1>5 DEF Alive
  <2> QED
    BY <1>5, <2>1, <2>2, <2>3 DEF Alive
<1>7. Keyed(nd, Alive \cup {new})
  <2>1. Keyed(node, Alive)
    BY <1>2 DEF Linked
  <2>2. nd[new].score \in Int /\ nd[new].member = member /\ member \in Int
    BY <1>4, <1>5
  <2> QED
    BY <1>6, <2>1, <2>2 DEF Keyed
<1>8. \A l \in Levels :
         /\ OnLevel(l)' = IF l < top THEN OnLevel(l) \cup {new} ELSE OnLevel(l)
         /\ OnLevel(l) \subseteq Alive
         /\ Chain(nd, forward[l], OnLevel(l))
  <2> SUFFICES ASSUME NEW l \in Levels
               PROVE  /\ OnLevel(l)' = IF l < top THEN OnLevel(l) \cup {new} ELSE OnLevel(l)
                      /\ OnLevel(l) \subseteq Alive
                      /\ Chain(nd, forward[l], OnLevel(l))
    OBVIOUS
  <2>1. OnLevel(l) \subseteq Alive
    BY DEF OnLevel
  <2>2. OnLevel(l)' = IF l < top THEN OnLevel(l) \cup {new} ELSE OnLevel(l)
    <3>1. nd[new].levels = top
      BY <1>5
    <3>2. top > l <=> l < top
      BY MaxLevelAssumption DEF Levels
    <3>3. OnLevel(l)' = {n \in Alive \cup {new} : nd[n].levels > l}
      BY <1>6 DEF OnLevel
    <3> QED
      BY <1>6, <3>1, <3>2, <3>3 DEF OnLevel
  <2>3. Chain(node, forward[l], OnLevel(l))
    BY <1>2 DEF Linked
  <2>4. \A n \in OnLevel(l) : nd[n] = node[n]
    BY <1>6, <2>1
  <2>5. Chain(nd, forward[l], OnLevel(l))
    BY <2>3, <2>4, SameNodes
  <2> QED
    BY <2>1, <2>2, <2>5
<1>9. \A l \in Levels : Place(nd, OnLevel(l), before[l], new, forward[l][before[l]])
  <2> SUFFICES ASSUME NEW l \in Levels
               PROVE  Place(nd, OnLevel(l), before[l], new, forward[l][before[l]])
    OBVIOUS
  <2>1. CASE l < level
    <3>1. before[l] = update[l]
      BY <2>1
    <3>2. Landed(node, score, member, OnLevel(l), forward[l], update[l])
      BY <1>3, <2>1
    <3>3. Succ(nd, OnLevel(l), update[l], forward[l][update[l]])
      BY <1>8, <3>2 DEF Chain, Landed
    <3>4. \A n \in OnLevel(l) \cup {Header} :
            Earlier(nd, score, member, n) = Earlier(node, score, member, n)
      BY <1>6, <1>8 DEF Earlier
    <3>5. Landed(nd, nd[new].score, nd[new].member, OnLevel(l), forward[l], update[l])
      BY <1>5, <3>2, <3>3, <3>4 DEF Landed, Succ
    <3>6. Keyed(nd, OnLevel(l) \cup {new}) /\ new \notin OnLevel(l) /\ new # Null
      BY <1>6, <1>7, <1>8, NodesAssumption DEF Keyed
    <3>7. Chain(nd, forward[l], OnLevel(l))
      BY <1>8
    <3> QED
      BY <3>1, <3>5, <3>6, <3>7, NewPlace
  <2>2. CASE ~ (l < level)
    <3>1. l > 0
      BY <1>3, <2>2 DEF Levels
    <3>2. OnLevel(l) = {}
      BY <1>2, <2>2, <3>1 DEF Linked
    <3>3. Chain(nd, forward[l], {})
      BY <1>8, <3>2
    <3>4. before[l] = Header
      BY <2>2
    <3> QED
      BY <3>2, <3>3, <3>4, FirstPlace
  <2> QED
    BY <2>1, <2>2
<1>10. 0 \in Levels /\ OnLevel(0) = Alive
  BY <1>2, NodeTypes
<1>11. /\ before \in [Levels -> Nodes \cup {Header}]
       /\ \A l \in Levels : forward[l] \in [Nodes \cup {Header} -> Nodes \cup {Null}]
       /\ backward \in [Nodes -> Nodes \cup {Null}]
       /\ new \in Nodes /\ \A l \in Levels : forward[l][before[l]] \in Nodes \cup {Null}
  <2>1. before \in [Levels -> Nodes \cup {Header}]
    BY <1>2 DEF TypeOK
  <2>2. /\ \A l \in Levels : forward[l] \in [Nodes \cup {Header} -> Nodes \cup {Null}]
        /\ backward \in [Nodes -> Nodes \cup {Null}]
    BY <1>2 DEF TypeOK
  <2> HIDE DEF before
  <2>3. \A l \in Levels : forward[l][before[l]] \in Nodes \cup {Null}
    BY <2>1, <2>2
  <2> QED
    BY <2>1, <2>2, <2>3
<1>12. Linked'
  <2> HIDE DEF before, nd
  <2>1. ASSUME NEW l \in Levels PROVE Chain(nd, forward'[l], OnLevel(l)')
    <3>1. CASE l < top
      <4>1. forward'[l] = [forward[l] EXCEPT ![new] = forward[l][before[l]], ![before[l]] = new]
        BY <1>1, <3>1 DEF before
      <4>2. /\ new \notin OnLevel(l) /\ Keyed(nd, OnLevel(l) \cup {new})
            /\ forward[l] \in [Nodes \cup {Header} -> Nodes \cup {Null}]
            /\ Chain(nd, forward[l], OnLevel(l))
            /\ Place(nd, OnLevel(l), before[l], new, forward[l][before[l]])
        BY <1>6, <1>7, <1>8, <1>9, <1>11 DEF Keyed
      <4>3. Chain(nd, [forward[l] EXCEPT ![new] = forward[l][before[l]], ![before[l]] = new],
                  OnLevel(l) \cup {new})
        BY <4>2, LinkChain
      <4> QED
        BY <1>8, <3>1, <4>1, <4>3
    <3>2. CASE ~ (l < top)
      BY <1>1, <1>8, <3>2
    <3> QED
      BY <3>1, <3>2
  <2>2. ASSUME NEW l \in Levels, l > 0 PROVE l < level' <=> OnLevel(l)' # {}
    <3>1. l < level <=> OnLevel(l) # {}
      BY <1>2, <2>2 DEF Linked
    <3>2. level' \in Nat /\ (l < level' <=> l < level \/ l < top)
      BY <1>1, <1>3, MaxLevelAssumption DEF Levels
    <3> QED
      BY <1>8, <3>1, <3>2
  <2>3. /\ Mirror(nd, backward', Alive') /\ LastOf(nd, Alive', tail')
    <3>1. Mirror(node, backward, Alive) /\ LastOf(node, Alive, tail)
      BY <1>2 DEF Linked
    <3>2. Mirror(nd, backward, Alive) /\ LastOf(nd, Alive, tail)
      BY <1>6, <3>1, SameNodes
    <3> DEFINE prev == before[0]
               next == forward[0][before[0]]
    <3>3. Place(nd, Alive, prev, new, next)
      BY <1>9, <1>10
    <3> HIDE DEF prev, next
    <3>4. /\ Mirror(nd, [n \in Nodes |->
                            CASE n = new -> IF prev = Header THEN Null ELSE prev
                              [] n # new /\ n = next -> new
                              [] OTHER -> backward[n]], Alive \cup {new})
          /\ LastOf(nd, Alive \cup {new}, IF next = Null THEN new ELSE tail)
      BY <1>6, <1>7, <1>11, <3>2, <3>3, LinkMirror
    <3> QED
      BY <1>1, <1>6, <3>4 DEF Between, prev, next, before
  <2>4. IsFiniteSet(Alive') /\ size' = Cardinality(Alive')
    <3>1. IsFiniteSet(Alive) /\ size = Cardinality(Alive)
      BY <1>2 DEF Linked
    <3> QED
      BY <1>1, <1>6, <3>1, FS_AddElement
  <2>5. Keyed(nd, Alive')
    BY <1>6, <1>7
  <2> QED
    BY <2>1, <2>2, <2>3, <2>4, <2>5 DEF Linked, nd
<1>13. /\ call' = "idle" /\ member' = Null /\ newScore' = Null /\ oldScore' = Null
       /\ cur' = Header /\ i' = -1 /\ tied' = FALSE
       /\ update' \in [Levels -> Nodes \cup {Header}] /\ answer' = TRUE
  BY <1>1, ReturnTyped
<1>14. score_map' \in [Elems -> ScoreSet \cup {Null}]
  BY <1>1, <1>2, <1>4 DEF TypeOK
<1>15. TypeOK'
  <2>1. i' \in -1 .. MaxLevel - 1
    BY <1>13, MaxLevelAssumption
  <2>2. level' \in 1 .. MaxLevel /\ size' \in Nat
    BY <1>1, <1>2 DEF TypeOK
  <2>3. forward' \in [Levels -> [Nodes \cup {Header} -> Nodes \cup {Null}]]
    <3> HIDE DEF before
    <3>1. ASSUME NEW l \in Levels
          PROVE  [forward[l] EXCEPT ![new] = forward[l][before[l]], ![before[l]] = new]
                    \in [Nodes \cup {Header} -> Nodes \cup {Null}]
      BY <1>11
    <3> QED
      BY <1>1, <1>11, <3>1 DEF before
  <2>4. backward' \in [Nodes -> Nodes \cup {Null}]
    <3>1. before[0] \in Nodes \cup {Header}
      BY <1>10, <1>11
    <3> HIDE DEF before
    <3> QED
      BY <1>1, <1>11, <3>1 DEF Between, before
  <2>5. tail' \in Nodes \cup {Null}
    BY <1>1, <1>2 DEF TypeOK
  <2> QED
    BY <1>5, <1>13, <1>14, <2>1, <2>2, <2>3, <2>4, <2>5 DEF TypeOK
<1>16. Mapped'
  <2>1. \A m : Filed(m)' = score_map'[m]
    BY <1>13 DEF Filed
  <2>2. /\ score_map'[member] = score
        /\ \A m \in Elems : m # member => score_map'[m] = score_map[m] /\ Filed(m) = score_map[m]
    <3>1. score_map \in [Elems -> ScoreSet \cup {Null}]
      BY <1>2 DEF TypeOK
    <3>2. \A m \in Elems : Filed(m) = score_map[m]
      BY <1>1 DEF Filed
    <3> QED
      BY <1>1, <1>4, <3>1, <3>2
  <2>3. \A n \in Alive' : nd[n].score = score_map'[nd[n].member]
    <3>1. \A n \in Alive : node[n].member \in Elems /\ node[n].score = Filed(node[n].member)
      BY <1>2, NodeTypes DEF Mapped
    <3> QED
      BY <1>5, <1>6, <2>2, <3>1
  <2>4. \A m \in Elems : score_map'[m] # Null => \E n \in Alive' : nd[n].member = m
    <3> SUFFICES ASSUME NEW m \in Elems, score_map'[m] # Null
                 PROVE  \E n \in Alive' : nd[n].member = m
      OBVIOUS
    <3>1. CASE m = member
      BY <1>5, <1>6, <3>1
    <3>2. CASE m # member
      <4>1. PICK n \in Alive : node[n].member = m
        BY <1>2, <2>2, <3>2 DEF Mapped
      <4> QED
        BY <1>6, <4>1
    <3> QED
      BY <3>1, <3>2
  <2> QED
    BY <2>1, <2>3, <2>4 DEF Mapped
<1> QED
  BY <1>12, <1>13, <1>15, <1>16, IdleInv DEF IInv

\* Every level on which the member's node lies leads to it from where the
\* search landed.
LEMMA Reached ==
    ASSUME NEW nd, NEW S, NEW fwd, NEW gone \in S, NEW prev,
           Keyed(nd, S), Chain(nd, fwd, S),
           Landed(nd, nd[gone].score, nd[gone].member, S, fwd, prev)
    PROVE  fwd[prev] = gone
<1>1. Succ(nd, S, prev, fwd[prev]) /\ Below(nd, prev, gone)
  BY DEF Landed, Chain, Earlier, Below, Prec
<1>2. fwd[prev] # Null /\ fwd[prev] \in S /\ (gone = fwd[prev] \/ Prec(nd, fwd[prev], gone))
  BY <1>1 DEF Succ
<1>3. ~ Prec(nd, fwd[prev], gone)
  BY <1>2 DEF Landed, Earlier, Prec
<1> QED
  BY <1>2, <1>3

\* Dropping the empty levels at the top stops at a level in use, or at the first.
LEMMA UsedLevels ==
    ASSUME NEW first, NEW lev \in Nat \ {0}
    PROVE  /\ Used(first, lev) \in 1 .. lev
           /\ Used(first, lev) = 1 \/ first[Used(first, lev) - 1] # Null
           /\ \A j \in Used(first, lev) .. lev - 1 : first[j] = Null
<1> DEFINE T == {d \in 0 .. lev - 1 : d = lev - 1 \/ first[lev - d - 1] # Null}
           Fit(k) == /\ k = 1 \/ first[k - 1] # Null
                     /\ \A j \in k .. lev - 1 : first[j] = Null
<1>1. T \in SUBSET Nat /\ T # {}
  <2>1. lev - 1 \in 0 .. lev - 1 /\ 0 .. lev - 1 \subseteq Nat
    OBVIOUS
  <2> QED
    BY <2>1, Zenon
<1>2. PICK d \in T : \A e \in T : d <= e
  <2> HIDE DEF T
  <2> QED
    BY <1>1, Least
<1>3. lev - d \in 1 .. lev /\ d \in 0 .. lev - 1
  BY <1>2
<1>4. Fit(lev - d)
  <2>1. lev - d = 1 \/ first[lev - d - 1] # Null
    BY <1>2
  <2>2. ASSUME NEW j \in lev - d .. lev - 1 PROVE first[j] = Null
    <3>1. /\ lev - 1 - j \in 0 .. lev - 1 /\ lev - 1 - j < d
          /\ lev - (lev - 1 - j) - 1 = j
      BY <1>3
    <3>2. lev - 1 - j \notin T
      BY <1>2, <1>3, <3>1
    <3> QED
      BY <3>1, <3>2
  <2> QED
    BY <2>1, <2>2
<1>5. Used(first, lev) = CHOOSE k \in 1 .. lev : Fit(k)
  BY DEF Used
<1> HIDE DEF Fit
<1>6. Used(first, lev) \in 1 .. lev /\ Fit(Used(first, lev))
  BY <1>3, <1>4, <1>5
<1> QED
  BY <1>6 DEF Fit

\* A search begins on the highest level in use.
LEMMA TopLevel ==
    ASSUME NEW lev \in 1 .. MaxLevel
    PROVE  /\ lev - 1 \in -1 .. MaxLevel - 1 /\ lev - 1 \in Levels
           /\ lev - 1 < lev /\ lev - 1 # -1
           /\ \A l \in Levels : ~ (lev - 1 < l /\ l < lev)
           /\ \A l \in Levels : l < lev => l <= lev - 1
BY MaxLevelAssumption DEF Levels

\* The list without the node that is deleted.
LEMMA UnlinkInv ==
    ASSUME TypeOK, Linked, NEW gone \in Alive, Unlink(gone),
           \A l \in Levels : gone \in OnLevel(l) => l < level /\ forward[l][update[l]] = gone,
           \A l \in Levels : l < level => update[l] \in OnLevel(l) \cup {Header}
    PROVE  /\ Linked' /\ Alive' = Alive \ {gone} /\ level' \in 1 .. MaxLevel /\ size' \in Nat
           /\ \A n \in Alive \ {gone} : node'[n] = node[n]
           /\ node' \in [Nodes -> SkipListNodes \cup {Null}]
           /\ forward' \in [Levels -> [Nodes \cup {Header} -> Nodes \cup {Null}]]
           /\ backward' \in [Nodes -> Nodes \cup {Null}]
           /\ tail' \in Nodes \cup {Null}
<1> DEFINE next == forward[0][gone]
<1>1. /\ forward' = Bypassing(gone)
      /\ backward' = [n \in Nodes |-> CASE n = gone -> Null
                                        [] n # gone /\ n = next -> backward[gone]
                                        [] OTHER -> backward[n]]
      /\ tail' = IF next = Null THEN backward[gone] ELSE tail
      /\ level' = Used([l \in Levels |-> forward'[l][Header]], level)
      /\ node' = [node EXCEPT ![gone] = Null]
      /\ size' = size - 1
  BY DEF Unlink
<1>2. /\ gone \in Nodes /\ gone # Null /\ gone # Header
      /\ 0 \in Levels /\ OnLevel(0) = Alive
      /\ \A l \in Levels : /\ OnLevel(l) \subseteq Alive /\ l \in Nat
                           /\ forward[l] \in [Nodes \cup {Header} -> Nodes \cup {Null}]
  BY NodeTypes
<1>3. /\ node \in [Nodes -> SkipListNodes \cup {Null}]
      /\ backward \in [Nodes -> Nodes \cup {Null}]
      /\ update \in [Levels -> Nodes \cup {Header}]
      /\ tail \in Nodes \cup {Null}
      /\ level \in 1 .. MaxLevel /\ level \in Nat \ {0} /\ size \in Nat
  BY MaxLevelAssumption DEF TypeOK
<1>4. /\ \A n \in Alive \ {gone} : node'[n] = node[n]
      /\ Alive' = Alive \ {gone}
      /\ node' \in [Nodes -> SkipListNodes \cup {Null}]
      /\ \A l \in Levels : OnLevel(l)' = OnLevel(l) \ {gone}
  <2>1. \A n \in Nodes : node'[n] = IF n = gone THEN Null ELSE node[n]
    BY <1>1, <1>2, <1>3
  <2>2. node' \in [Nodes -> SkipListNodes \cup {Null}]
    BY <1>1, <1>2, <1>3
  <2>3. Alive' = Alive \ {gone}
    BY <2>1 DEF Alive
  <2>4. \A n \in Alive \ {gone} : node'[n] = node[n]
    BY <2>1 DEF Alive
  <2> QED
    BY <2>2, <2>3, <2>4 DEF OnLevel
<1>5. /\ Keyed(node, Alive) /\ \A l \in Levels : Keyed(node, OnLevel(l))
      /\ Keyed(node', Alive')
  <2>1. Keyed(node, Alive)
    BY DEF Linked
  <2>2. \A l \in Levels : Keyed(node, OnLevel(l))
    BY <1>2, <2>1 DEF Keyed
  <2>3. Keyed(node', Alive')
    BY <1>4, <2>1 DEF Keyed
  <2> QED
    BY <2>1, <2>2, <2>3
<1>6. \A l \in Levels :
         /\ forward'[l] \in [Nodes \cup {Header} -> Nodes \cup {Null}]
         /\ forward'[l] = IF l < level /\ forward[l][update[l]] = gone
                          THEN [forward[l] EXCEPT ![update[l]] = forward[l][gone], ![gone] = Null]
                          ELSE [forward[l] EXCEPT ![gone] = Null]
  <2> SUFFICES ASSUME NEW l \in Levels
               PROVE  /\ forward'[l] \in [Nodes \cup {Header} -> Nodes \cup {Null}]
                      /\ forward'[l] = IF l < level /\ forward[l][update[l]] = gone
                          THEN [forward[l] EXCEPT ![update[l]] = forward[l][gone], ![gone] = Null]
                          ELSE [forward[l] EXCEPT ![gone] = Null]
    OBVIOUS
  <2>1. forward'[l] = IF l < level /\ forward[l][update[l]] = gone
                      THEN [forward[l] EXCEPT ![update[l]] = forward[l][gone], ![gone] = Null]
                      ELSE [forward[l] EXCEPT ![gone] = Null]
    BY <1>1 DEF Bypassing
  <2>2. /\ forward[l] \in [Nodes \cup {Header} -> Nodes \cup {Null}]
        /\ forward[l][gone] \in Nodes \cup {Null}
    BY <1>2
  <2> QED
    BY <2>1, <2>2
<1>7. forward' \in [Levels -> [Nodes \cup {Header} -> Nodes \cup {Null}]]
  <2>1. forward' = [l \in Levels |-> forward'[l]]
    BY <1>1 DEF Bypassing
  <2> QED
    BY <1>6, <2>1
<1>8. ASSUME NEW l \in Levels PROVE Chain(node', forward'[l], OnLevel(l)')
  <2>1. Chain(node, forward'[l], OnLevel(l) \ {gone})
    <3>1. Chain(node, forward[l], OnLevel(l))
      BY DEF Linked
    <3>2. CASE gone \in OnLevel(l)
      <4>1. l < level /\ forward[l][update[l]] = gone /\ update[l] \in OnLevel(l) \cup {Header}
        BY <3>2
      <4>2. Chain(node, [forward[l] EXCEPT ![update[l]] = forward[l][gone], ![gone] = Null],
                  OnLevel(l) \ {gone})
        BY <1>2, <1>5, <3>1, <3>2, <4>1, UnlinkChain
      <4> QED
        BY <1>6, <4>1, <4>2
    <3>3. CASE gone \notin OnLevel(l)
      <4>1. ~ (l < level /\ forward[l][update[l]] = gone)
        BY <1>2, <3>1, <3>3 DEF Chain, Succ
      <4>2. forward'[l] = [forward[l] EXCEPT ![gone] = Null]
        BY <1>6, <4>1
      <4>3. \A n \in OnLevel(l) \cup {Header} : forward'[l][n] = forward[l][n]
        BY <1>2, <3>3, <4>2
      <4> QED
        BY <3>1, <3>3, <4>3 DEF Chain
    <3> QED
      BY <3>2, <3>3
  <2>2. \A n \in OnLevel(l) \ {gone} : node'[n] = node[n]
    BY <1>2, <1>4
  <2>3. Chain(node', forward'[l], OnLevel(l) \ {gone})
    BY <2>1, <2>2, SameNodes
  <2> QED
    BY <1>4, <2>3
<1>9. /\ level' \in 1 .. level
      /\ level' = 1 \/ forward'[level' - 1][Header] # Null
      /\ \A j \in level' .. level - 1 : forward'[j][Header] = Null
  <2> DEFINE first == [l \in Levels |-> forward'[l][Header]]
             k == Used(first, level)
  <2>1. /\ k \in 1 .. level
        /\ k = 1 \/ first[k - 1] # Null
        /\ \A j \in k .. level - 1 : first[j] = Null
    <3> HIDE DEF first
    <3> QED
      BY <1>3, UsedLevels
  <2>2. level' = k
    BY <1>1
  <2> HIDE DEF k
  <2>3. k - 1 \in Levels /\ \A j \in k .. level - 1 : j \in Levels
    BY <1>3, <2>1, MaxLevelAssumption DEF Levels
  <2> QED
    BY <2>1, <2>2, <2>3
<1>13. level' \in 1 .. MaxLevel
  BY <1>3, <1>9, MaxLevelAssumption
<1>10. ASSUME NEW l \in Levels, l > 0 PROVE l < level' <=> OnLevel(l)' # {}
  <2>1. l \in Nat /\ level' \in Nat
    BY <1>2, <1>3, <1>9
  <2>2. ASSUME l < level' PROVE OnLevel(l)' # {}
    <3>1. level' - 1 \in Levels /\ l <= level' - 1
      <4>1. level' \in 1 .. MaxLevel
        BY <1>13
      <4> QED
        BY <2>2, <4>1, TopLevel, Zenon
    <3>2. forward'[level' - 1][Header] # Null
      BY <1>9, <1>10, <2>1, <2>2
    <3>3. \E n : n \in OnLevel(level' - 1) \ {gone}
      <4> DEFINE k == level' - 1
      <4>1. Chain(node', forward'[k], OnLevel(k) \ {gone})
        BY <1>4, <1>8, <3>1
      <4>2. forward'[k][Header] \in OnLevel(k) \ {gone}
        BY <3>2, <4>1 DEF Chain, Succ
      <4> QED
        BY <4>2
    <3>4. OnLevel(level' - 1) \subseteq OnLevel(l)
      BY <3>1, NodeTypes
    <3> QED
      BY <1>4, <3>3, <3>4
  <2>3. ASSUME ~ (l < level') PROVE OnLevel(l)' = {}
    <3>1. CASE l < level
      <4>1. l \in level' .. level - 1
        BY <1>3, <2>1, <2>3, <3>1
      <4>2. forward'[l][Header] = Null
        BY <1>9, <4>1
      <4>3. Succ(node', OnLevel(l)', Header, Null)
        BY <1>8, <4>2 DEF Chain
      <4> QED
        BY <4>3 DEF Succ, Below
    <3>2. CASE ~ (l < level)
      BY <1>4, <1>10, <3>2 DEF Linked
    <3> QED
      BY <3>1, <3>2
  <2> QED
    BY <2>2, <2>3
<1>11. Mirror(node', backward', Alive') /\ LastOf(node', Alive', tail')
  <2>1. Mirror(node, backward, Alive) /\ LastOf(node, Alive, tail)
    BY DEF Linked
  <2>2. Succ(node, Alive, gone, next)
    BY <1>2 DEF Linked, Chain
  <2> HIDE DEF next
  <2>3. /\ Mirror(node, [n \in Nodes |-> CASE n = gone -> Null
                                           [] n # gone /\ n = next -> backward[gone]
                                           [] OTHER -> backward[n]], Alive \ {gone})
        /\ LastOf(node, Alive \ {gone}, IF next = Null THEN backward[gone] ELSE tail)
    BY <1>3, <1>5, <2>1, <2>2, UnlinkMirror
  <2>4. Mirror(node, backward', Alive \ {gone}) /\ LastOf(node, Alive \ {gone}, tail')
    BY <1>1, <2>3
  <2> QED
    BY <1>4, <2>4, SameNodes
<1>12. IsFiniteSet(Alive') /\ size' = Cardinality(Alive') /\ size' \in Nat
  <2>1. IsFiniteSet(Alive) /\ size = Cardinality(Alive)
    BY DEF Linked
  <2>2. IsFiniteSet(Alive \ {gone}) /\ Cardinality(Alive \ {gone}) = Cardinality(Alive) - 1
    BY <2>1, FS_RemoveElement
  <2>3. Cardinality(Alive \ {gone}) \in Nat
    BY <2>2, FS_CardinalityType
  <2> QED
    BY <1>1, <1>4, <2>1, <2>2, <2>3
<1>14. backward' \in [Nodes -> Nodes \cup {Null}] /\ tail' \in Nodes \cup {Null}
  <2>1. backward[gone] \in Nodes \cup {Null}
    BY <1>2, <1>3
  <2> HIDE DEF next
  <2>2. \A n \in Nodes : (CASE n = gone -> Null
                            [] n # gone /\ n = next -> backward[gone]
                            [] OTHER -> backward[n]) \in Nodes \cup {Null}
    BY <1>3, <2>1
  <2> QED
    BY <1>1, <1>3, <2>1, <2>2
<1> QED
  BY <1>4, <1>5, <1>7, <1>8, <1>10, <1>11, <1>12, <1>13, <1>14 DEF Linked

\* The search for a member that the map knew ends ahead of its node.
LEMMA GoneFound ==
    ASSUME Numbers, IInv, Found, call \in {"delete", "replace"}
    PROVE  LET gone == forward[0][cur]
           IN  /\ gone # Null /\ gone \in Alive /\ node[gone].member = member
               /\ \A l \in Levels : gone \in OnLevel(l) => l < level /\ forward[l][update[l]] = gone
               /\ \A l \in Levels : l < level => update[l] \in OnLevel(l) \cup {Header}
<1>1. TypeOK /\ Linked /\ Mapped /\ Called
  BY DEF IInv
<1>2. /\ cur = update[0] /\ 0 < level /\ level \in Nat
      /\ \A l \in Levels : l < level =>
           Landed(node, score, member, OnLevel(l), forward[l], update[l])
  BY LandedAll
<1>3. /\ 0 \in Levels /\ OnLevel(0) = Alive /\ Alive \subseteq Nodes
      /\ \A l \in Levels : OnLevel(l) \subseteq Alive /\ l \in Nat
  BY <1>1, NodeTypes
<1>4. member \in Elems /\ score = oldScore /\ Filed(member) = oldScore /\ oldScore # Null
  BY <1>1, Nulls DEF Called, score, Filed
<1>5. PICK gone \in Alive : node[gone].member = member
  BY <1>1, <1>4 DEF Mapped
<1>6. node[gone].score = score
  BY <1>1, <1>4, <1>5 DEF Mapped
<1>7. ASSUME NEW l \in Levels, gone \in OnLevel(l)
      PROVE  l < level /\ forward[l][update[l]] = gone
  <2>1. l < level
    <3>1. CASE l = 0
      BY <1>2, <3>1
    <3>2. CASE l > 0
      BY <1>1, <1>7, <3>2 DEF Linked
    <3> QED
      BY <1>3, <3>1, <3>2
  <2>2. Keyed(node, OnLevel(l)) /\ Chain(node, forward[l], OnLevel(l))
    BY <1>1, <1>3 DEF Linked, Keyed
  <2>3. Landed(node, node[gone].score, node[gone].member, OnLevel(l), forward[l], update[l])
    BY <1>2, <1>5, <1>6, <2>1
  <2> QED
    BY <1>7, <2>1, <2>2, <2>3, Reached
<1>8. forward[0][cur] = gone
  BY <1>2, <1>3, <1>7
<1>9. gone # Null
  BY <1>1, NodeTypes
<1>10. \A l \in Levels : l < level => update[l] \in OnLevel(l) \cup {Header}
  BY <1>2 DEF Landed
<1> QED
  BY <1>5, <1>7, <1>8, <1>9, <1>10

LEMMA EraseInv ==
    ASSUME Numbers, IInv, Erase
    PROVE  IInv'
<1> DEFINE gone == forward[0][cur]
<1>1. Found /\ call \in {"delete", "replace"} /\ UNCHANGED score_map
  BY DEF Erase
<1>2. TypeOK /\ Linked /\ Mapped /\ Called
  BY DEF IInv
<1>3. /\ gone # Null /\ gone \in Alive /\ node[gone].member = member
      /\ \A l \in Levels : gone \in OnLevel(l) => l < level /\ forward[l][update[l]] = gone
      /\ \A l \in Levels : l < level => update[l] \in OnLevel(l) \cup {Header}
  BY <1>1, GoneFound
<1>4. /\ Unlink(gone)
      /\ IF call = "replace"
         THEN call' = "insert" /\ Seek(level') /\ UNCHANGED <<member, newScore, oldScore, answer>>
         ELSE Return(TRUE)
  BY <1>3 DEF Erase
<1> HIDE DEF gone
<1>5. /\ Linked' /\ Alive' = Alive \ {gone} /\ level' \in 1 .. MaxLevel /\ size' \in Nat
      /\ \A n \in Alive \ {gone} : node'[n] = node[n]
      /\ node' \in [Nodes -> SkipListNodes \cup {Null}]
      /\ forward' \in [Levels -> [Nodes \cup {Header} -> Nodes \cup {Null}]]
      /\ backward' \in [Nodes -> Nodes \cup {Null}]
      /\ tail' \in Nodes \cup {Null}
  BY <1>2, <1>3, <1>4, UnlinkInv
<1>6. /\ score_map' \in [Elems -> ScoreSet \cup {Null}]
      /\ member \in Elems /\ score_map[member] = Null
  BY <1>1, <1>2 DEF TypeOK, Called
<1>7. call' \in {"idle", "insert"}
  BY <1>4 DEF Return
<1>8. Mapped'
  <2>1. \A m : Filed(m)' = score_map[m]
    BY <1>1, <1>7 DEF Filed
  <2>2. \A m \in Elems : m # member => Filed(m) = score_map[m]
    BY DEF Filed
  <2>3. \A n \in Alive \ {gone} : node[n].member # member /\ node[n].member \in Elems
    BY <1>2, <1>3, NodeTypes DEF Linked, Keyed
  <2>4. \A n \in Alive' : node'[n].score = score_map[node'[n].member]
    <3>1. \A n \in Alive \ {gone} : node[n].score = score_map[node[n].member]
      BY <1>2, <2>2, <2>3 DEF Mapped
    <3> QED
      BY <1>5, <3>1
  <2>5. ASSUME NEW m \in Elems, Filed(m)' # Null PROVE \E n \in Alive' : node'[n].member = m
    <3>1. m # member /\ Filed(m) # Null
      BY <1>6, <2>1, <2>2, <2>5
    <3>2. PICK n \in Alive : node[n].member = m
      BY <1>2, <3>1 DEF Mapped
    <3> QED
      BY <1>3, <1>5, <3>1, <3>2
  <2> QED
    BY <2>1, <2>4, <2>5 DEF Mapped
<1>9. CASE call = "replace"
  <2>1. /\ call' = "insert" /\ member' = member /\ newScore' = newScore
        /\ oldScore' = oldScore /\ answer' = answer
        /\ cur' = Header /\ i' = level' - 1 /\ tied' = FALSE
        /\ update' = [l \in Levels |-> Header]
    BY <1>4, <1>9 DEF Seek
  <2>2. TypeOK'
    <3>1. i' \in -1 .. MaxLevel - 1
      <4>1. level' \in 1 .. MaxLevel /\ i' = level' - 1
        BY <1>5, <2>1, Zenon
      <4> QED
        BY <4>1, TopLevel, Zenon
    <3>2. /\ member' \in Elems \cup {Null} /\ {newScore', oldScore'} \subseteq ScoreSet \cup {Null}
          /\ answer' \in BOOLEAN /\ update' \in [Levels -> Nodes \cup {Header}]
      BY <1>2, <2>1 DEF TypeOK
    <3> QED
      BY <1>5, <1>6, <2>1, <3>1, <3>2 DEF TypeOK
  <2>3. Called'
    BY <1>1, <1>2, <1>9, <2>1 DEF Called
  <2>4. Sought'
    <3>1. level' \in 1 .. MaxLevel /\ i' = level' - 1
      BY <1>5, <2>1, Zenon
    <3>2. /\ level' - 1 < level' /\ level' - 1 # -1
          /\ \A l \in Levels : ~ (level' - 1 < l /\ l < level')
      BY <3>1, TopLevel, Zenon
    <3>3. i' < level' /\ i' # -1 /\ \A l \in Levels : ~ (i' < l /\ l < level')
      BY <3>1, <3>2, Zenon
    <3> QED
      BY <2>1, <3>3 DEF Sought, Earlier
  <2> QED
    BY <1>5, <1>8, <2>2, <2>3, <2>4 DEF IInv
<1>10. CASE call # "replace"
  <2>1. Return(TRUE)
    BY <1>4, <1>10
  <2>2. /\ call' = "idle" /\ member' = Null /\ newScore' = Null /\ oldScore' = Null
        /\ cur' = Header /\ i' = -1 /\ tied' = FALSE
        /\ update' \in [Levels -> Nodes \cup {Header}] /\ answer' = TRUE
    BY <2>1, ReturnTyped
  <2>3. TypeOK'
    <3>1. i' \in -1 .. MaxLevel - 1
      BY <2>2, MaxLevelAssumption
    <3> QED
      BY <1>5, <1>6, <2>2, <3>1 DEF TypeOK
  <2> QED
    BY <1>5, <1>8, <2>2, <2>3, IdleInv DEF IInv
<1> QED
  BY <1>9, <1>10

LEMMA NextInv ==
    ASSUME Numbers, IInv, [Next]_vars
    PROVE  IInv'
<1>1. CASE \E m \in Elems : Delete(m)
  BY <1>1, DeleteInv
<1>2. CASE \E m \in Elems, s \in ScoreSet : Insert(s, m)
  BY <1>2, InsertInv
<1>3. CASE Advance
  BY <1>3, AdvanceInv
<1>4. CASE Descend
  BY <1>4, DescendInv
<1>5. CASE Erase
  BY <1>5, EraseInv
<1>6. CASE \E top \in 1 .. MaxLevel, new \in Nodes : Link(top, new)
  BY <1>6, LinkInv
<1>7. CASE UNCHANGED vars
  <2>1. UNCHANGED links /\ UNCHANGED score_map /\ UNCHANGED arguments
        /\ UNCHANGED <<cur, i, tied, update, answer>>
    BY <1>7 DEF vars
  <2>2. /\ Linked' /\ Mapped' /\ Called'
        /\ \A l \in Levels : OnLevel(l)' = OnLevel(l)
        /\ score' = score /\ member' = member /\ node' = node /\ forward' = forward
        /\ cur' \in Nodes \cup {Header} /\ i' \in -1 .. MaxLevel - 1 /\ tied' \in BOOLEAN
                /\ update' \in [Levels -> Nodes \cup {Header}] => TypeOK'
    BY <2>1, SearchKeeps
  <2>3. TypeOK'
    BY <2>1, <2>2 DEF IInv, TypeOK
  <2>4. Sought'
    <3>1. Sought /\ call' = call /\ i' = i /\ level' = level /\ cur' = cur
          /\ update' = update /\ tied' = tied
      BY <2>1 DEF IInv, arguments, links
    <3>2. (i >= 0 => cur \in OnLevel(i) \cup {Header})' = (i >= 0 => cur \in OnLevel(i) \cup {Header})
      BY <2>2, <3>1 DEF OnLevel, Alive
    <3> QED
      BY <2>2, <3>1, <3>2 DEF Sought
  <2> QED
    BY <2>2, <2>3, <2>4 DEF IInv
<1> QED
  BY <1>1, <1>2, <1>3, <1>4, <1>5, <1>6, <1>7 DEF Next, Step

LEMMA Invariant ==
    ASSUME Numbers
    PROVE  Spec => []IInv
<1>1. Init => IInv
  BY InitInv
<1>2. IInv /\ [Next]_vars => IInv'
  BY NextInv
<1> QED
  BY <1>1, <1>2, PTL DEF Spec

-----------------------------------------------------------------------------
(* What the invariant says to a reader of the code.                        *)

\* Whatever calls are made with numbers for scores, the nodes, links, map and
\* search of SkipList::Insert and SkipList::Delete keep their types: no link is
\* followed from a null pointer and no level outside the list is used.
THEOREM SkipListTypeCorrect ==
    ASSUME Numbers
    PROVE  Spec => []TypeOK
<1>1. IInv => TypeOK
  BY DEF IInv
<1> QED
  BY <1>1, Invariant, PTL

\* In every step of every call the links of each level lead through all nodes
\* of that level in order (Insert's and Delete's loops over update).
THEOREM LevelsStayLinked ==
    ASSUME Numbers
    PROVE  Spec => []LevelsLinked
<1>1. ASSUME IInv PROVE LevelsLinked
  <2>1. TypeOK /\ Linked
    BY <1>1 DEF IInv
  <2>2. ASSUME NEW l \in Levels, NEW n \in OnLevel(l) \cup {Header}
        PROVE  IsFirst(forward[l][n], After(n, OnLevel(l)))
    <3>1. Succ(node, OnLevel(l), n, forward[l][n])
      BY <2>1 DEF Linked, Chain
    <3>2. After(n, OnLevel(l)) = {o \in OnLevel(l) : Below(node, n, o)}
      BY DEF After, Below, Precedes, Prec
    <3>3. \A a, b \in OnLevel(l) : Precedes(a, b) = Prec(node, a, b)
      BY DEF Precedes, Prec
    <3>4. CASE forward[l][n] = Null
      BY <3>1, <3>2, <3>4 DEF Succ, IsFirst
    <3>5. CASE forward[l][n] # Null
      <4> DEFINE f == forward[l][n]
                 S == OnLevel(l)
                 T == After(n, S)
      <4>1. f \in S /\ Below(node, n, f) /\ f # Null
        BY <3>1, <3>5 DEF Succ
      <4>2. f \in T
        BY <3>2, <4>1
      <4>3. \A o \in T \ {f} : Precedes(f, o)
        BY <3>1, <3>2, <3>3, <4>1 DEF Succ
      <4> QED
        BY <4>1, <4>2, <4>3 DEF IsFirst
    <3> QED
      BY <3>4, <3>5
  <2> QED
    BY <2>1, <2>2 DEF LevelsLinked, Linked
<1> QED
  BY <1>1, Invariant, PTL

\* In every step of every call, backward and tail_ are the links of level 0 read
\* the other way.
THEOREM BackwardStaysMirrored ==
    ASSUME Numbers
    PROVE  Spec => []BackwardMirrors
<1>1. ASSUME IInv PROVE BackwardMirrors
  <2>1. Mirror(node, backward, Alive) /\ LastOf(node, Alive, tail)
    BY <1>1 DEF IInv, Linked
  <2>2. \A a, b : Precedes(a, b) = Prec(node, a, b)
    BY DEF Precedes, Prec
  <2>3. ASSUME NEW n \in Alive PROVE IsLast(backward[n], {o \in Alive : Precedes(o, n)})
    <3>1. Pred(node, Alive, n, backward[n])
      BY <2>1 DEF Mirror
    <3>2. CASE backward[n] = Null
      BY <2>2, <3>1, <3>2 DEF Pred, IsLast
    <3>3. CASE backward[n] # Null
      BY <2>2, <3>1, <3>3 DEF Pred, IsLast
    <3> QED
      BY <3>2, <3>3
  <2>4. IsLast(tail, Alive)
    BY <2>1, <2>2 DEF LastOf, IsLast
  <2> QED
    BY <2>3, <2>4 DEF BackwardMirrors
<1> QED
  BY <1>1, Invariant, PTL

\* In every step of every call the list holds what score_map_ holds, but for the
\* member that Delete has taken out of the map and not yet out of the list, and
\* size_ counts the nodes.
THEOREM IndexStaysAgreed ==
    ASSUME Numbers
    PROVE  Spec => []IndexAgrees
<1>1. ASSUME IInv PROVE IndexAgrees
  <2>1. TypeOK /\ Linked /\ Mapped
    BY <1>1 DEF IInv
  <2>2. size = Cardinality(Alive) /\ \A n, o \in Alive : node[n].member = node[o].member => n = o
    BY <2>1 DEF Linked, Keyed
  <2>3. ASSUME NEW m \in Elems
        PROVE  {node[n].score : n \in {n \in Alive : node[n].member = m}}
                 = IF Filed(m) = Null THEN {} ELSE {Filed(m)}
    <3>1. \A n \in Alive : node[n].member = m => node[n].score = Filed(m) /\ Filed(m) # Null
      BY <2>1, NodeTypes, Nulls DEF Mapped
    <3>2. Filed(m) # Null => \E n \in Alive : node[n].member = m
      BY <2>1 DEF Mapped
    <3> QED
      BY <3>1, <3>2
  <2> QED
    BY <2>2, <2>3 DEF IndexAgrees, Filed
<1> QED
  BY <1>1, Invariant, PTL

-----------------------------------------------------------------------------
(* The list is a sorted set.                                               *)

\* Until a call returns, nobody sees what it has done.
LEMMA ContentsKept ==
    ASSUME IInv, IInv', call # "idle", call' # "idle",
           UNCHANGED <<score_map, member, oldScore>>
    PROVE  Contents' = Contents
BY DEF Contents

LEMMA StepRefines ==
    ASSUME Numbers, IInv, [Next]_vars
    PROVE  [Abstract!Next]_(Abstract!vars)
<1>1. /\ TypeOK /\ Called /\ score_map \in [Elems -> ScoreSet \cup {Null}]
      /\ Null \notin ScoreSet
  BY Nulls DEF IInv, TypeOK
<1>2. ASSUME NEW m \in Elems, Delete(m) PROVE [Abstract!Next]_(Abstract!vars)
  <2>1. call = "idle" /\ Contents = score_map
    BY <1>2 DEF Delete, Contents
  <2>2. CASE score_map[m] = Null
    <3>1. answer' = FALSE /\ Contents' = score_map
      BY <1>2, <2>2 DEF Delete, Return, Contents
    <3>2. [Contents EXCEPT ![m] = Null] = Contents
      BY <1>1, <2>1, <2>2
    <3> QED
      BY <2>1, <2>2, <3>1, <3>2 DEF Abstract!Next, Abstract!Delete
  <2>3. CASE score_map[m] # Null
    <3>1. answer' = answer /\ Contents' = [[score_map EXCEPT ![m] = Null] EXCEPT ![m] = score_map[m]]
      BY <1>2, <2>3 DEF Delete, Begin, Contents
    <3>2. [[score_map EXCEPT ![m] = Null] EXCEPT ![m] = score_map[m]] = score_map
      BY <1>1
    <3> QED
      BY <2>1, <3>1, <3>2 DEF Abstract!vars
  <2> QED
    BY <2>2, <2>3
<1>3. ASSUME NEW m \in Elems, NEW s \in ScoreSet, Insert(s, m)
      PROVE  [Abstract!Next]_(Abstract!vars)
  <2>1. call = "idle" /\ Contents = score_map
    BY <1>3 DEF Insert, Contents
  <2>2. CASE Same(score_map[m], s)
    <3>1. answer' = FALSE /\ Contents' = score_map
      BY <1>3, <2>2 DEF Insert, Return, Contents
    <3>2. score_map[m] = s /\ [Contents EXCEPT ![m] = s] = Contents
      BY <1>1, <2>1, <2>2 DEF Same
    <3> QED
      BY <2>1, <3>1, <3>2 DEF Abstract!Next, Abstract!Insert
  <2>3. CASE ~ Same(score_map[m], s)
    <3> DEFINE c == IF score_map[m] = Null THEN "insert" ELSE "replace"
    <3>1. Begin(c, m, s) /\ c # "idle"
      BY <1>3, <2>3 DEF Insert
    <3> HIDE DEF c
    <3>2. answer' = answer /\ Contents' = [[score_map EXCEPT ![m] = Null] EXCEPT ![m] = score_map[m]]
      BY <3>1 DEF Begin, Contents
    <3>3. [[score_map EXCEPT ![m] = Null] EXCEPT ![m] = score_map[m]] = score_map
      BY <1>1
    <3> QED
      BY <2>1, <3>2, <3>3 DEF Abstract!vars
  <2> QED
    BY <2>2, <2>3
<1>4. CASE Advance \/ Descend
  <2>1. UNCHANGED <<score_map, arguments, answer>>
    BY <1>4 DEF Advance, Descend
  <2> QED
    BY <2>1 DEF Contents, arguments, Abstract!vars
<1>5. CASE Erase
  <2>1. call \in {"delete", "replace"} /\ Found /\ score_map' = score_map
    BY <1>5 DEF Erase
  <2>2. forward[0][cur] # Null /\ node[forward[0][cur]].member = member
    BY <2>1, GoneFound
  <2>3. /\ member \in Elems /\ score_map[member] = Null /\ oldScore \in ScoreSet
        /\ Contents = [score_map EXCEPT ![member] = oldScore]
    BY <1>1, <2>1 DEF Called, Contents
  <2>4. CASE call = "replace"
    <3>1. /\ call' = "insert" /\ member' = member /\ oldScore' = oldScore /\ answer' = answer
      BY <1>5, <2>4 DEF Erase
    <3> QED
      BY <2>1, <2>4, <3>1 DEF Contents, Abstract!vars
  <2>5. CASE call = "delete"
    <3>1. Return(TRUE)
      BY <1>5, <2>2, <2>5 DEF Erase
    <3>2. answer' = TRUE /\ Contents' = score_map
      BY <2>1, <3>1 DEF Return, Contents
    <3>3. /\ [Contents EXCEPT ![member] = Null] = score_map
          /\ Contents[member] # Null
      BY <1>1, <2>3
    <3>4. Abstract!Delete(member)
      BY <3>2, <3>3 DEF Abstract!Delete
    <3> QED
      BY <2>3, <3>4 DEF Abstract!Next
  <2> QED
    BY <2>1, <2>4, <2>5
<1>6. ASSUME NEW top \in 1 .. MaxLevel, NEW new \in Nodes, Link(top, new)
      PROVE  [Abstract!Next]_(Abstract!vars)
  <2>1. /\ call = "insert" /\ score = newScore /\ Return(TRUE)
        /\ score_map' = [score_map EXCEPT ![member] = score]
    BY <1>6 DEF Link, score
  <2>2. /\ member \in Elems /\ newScore \in ScoreSet /\ newScore # oldScore
        /\ Contents = [score_map EXCEPT ![member] = oldScore]
    BY <1>1, <2>1 DEF Called, Contents
  <2>3. answer' = TRUE /\ Contents' = [score_map EXCEPT ![member] = newScore]
    BY <2>1 DEF Return, Contents
  <2>4. /\ [Contents EXCEPT ![member] = newScore] = [score_map EXCEPT ![member] = newScore]
        /\ Contents[member] = oldScore
    BY <1>1, <2>2
  <2>5. Abstract!Insert(newScore, member)
    BY <2>2, <2>3, <2>4 DEF Abstract!Insert
  <2> QED
    BY <2>2, <2>5 DEF Abstract!Next
<1>7. CASE UNCHANGED vars
  BY <1>7 DEF vars, arguments, Contents, Abstract!vars
<1> QED
  BY <1>2, <1>3, <1>4, <1>5, <1>6, <1>7 DEF Next, Step

\* Insert and Delete, pointer by pointer and with a change of score as a deletion
\* and an insertion, are to their callers steps of a sorted set: each call
\* changes the contents once, when it returns, and answers accordingly.
THEOREM SkipListRefines ==
    ASSUME Numbers
    PROVE  Spec => ImplementsSortedSet
<1>1. Init => Abstract!Init
  BY DEF Init, Contents, Abstract!Init
<1>2. IInv /\ [Next]_vars => [Abstract!Next]_(Abstract!vars)
  BY StepRefines
<1> QED
  BY <1>1, <1>2, Invariant, PTL DEF Spec, ImplementsSortedSet, Abstract!Spec

-----------------------------------------------------------------------------
(* Ranks.                                                                  *)

\* A sorted set of finitely many members that all have numbers.
Scorable(zset) ==
    /\ IsFiniteSet(Present(zset))
    /\ \A m \in Present(zset) : zset[m] \in Int

Lower(zset, m) == {x \in Present(zset) : Before(zset, x, m)}

LEMMA BeforeOrders ==
    ASSUME NEW zset, Scorable(zset)
    PROVE  /\ \A a \in Present(zset) : ~ Before(zset, a, a)
           /\ \A a, b \in Present(zset) : a = b \/ Before(zset, a, b) \/ Before(zset, b, a)
           /\ \A a, b, c \in Present(zset) : Before(zset, a, b) /\ Before(zset, b, c) => Before(zset, a, c)
<1>1. \A m \in Present(zset) : m \in Int /\ zset[m] \in Int
  BY ElemsAssumption DEF Scorable, Present
<1> QED
  BY <1>1 DEF Before

LEMMA RankIs ==
    ASSUME NEW zset, Scorable(zset), NEW m \in Present(zset)
    PROVE  /\ IsFiniteSet(Lower(zset, m))
           /\ Rank(zset, m) = Cardinality(Lower(zset, m))
           /\ Rank(zset, m) \in Nat
           /\ Rank(zset, m) + 1 = Cardinality(Lower(zset, m) \cup {m})
           /\ Cardinality(Present(zset)) \in Nat
           /\ Rank(zset, m) + 1 <= Cardinality(Present(zset))
<1> DEFINE P == Present(zset)
           A == Lower(zset, m)
<1>1. IsFiniteSet(P) /\ A \in SUBSET P /\ m \notin A
  BY BeforeOrders DEF Scorable, Lower
<1>2. IsFiniteSet(A)
  BY <1>1, FS_Subset
<1>3. Cardinality(A) \in Nat /\ Cardinality(P) \in Nat
  BY <1>1, <1>2, FS_CardinalityType
<1>4. Cardinality(A \cup {m}) = Cardinality(A) + 1
  BY <1>1, <1>2, FS_AddElement
<1>5. Cardinality(A \cup {m}) <= Cardinality(P)
  <2>1. A \cup {m} \in SUBSET P
    BY <1>1
  <2> QED
    BY <1>1, <2>1, FS_Subset
<1>6. Rank(zset, m) = Cardinality(A)
  BY DEF Rank, Lower
<1> HIDE DEF P, A
<1>7. Cardinality(A) + 1 <= Cardinality(P)
  BY <1>4, <1>5
<1> QED
  BY <1>2, <1>3, <1>4, <1>6, <1>7 DEF P, A

\* A member that comes later has a higher rank, and the next one if nothing lies
\* between.
LEMMA RankMore ==
    ASSUME NEW zset, Scorable(zset), NEW a \in Present(zset), NEW b \in Present(zset),
           Before(zset, a, b)
    PROVE  /\ Rank(zset, a) < Rank(zset, b)
           /\ (\A x \in Present(zset) : Before(zset, x, b) => x = a \/ Before(zset, x, a))
                => Rank(zset, b) = Rank(zset, a) + 1
<1> DEFINE A == Lower(zset, a) \cup {a}
           B == Lower(zset, b)
<1>1. A \in SUBSET B
  BY BeforeOrders DEF Lower
<1>2. IsFiniteSet(B) /\ Cardinality(A) = Rank(zset, a) + 1 /\ Cardinality(B) = Rank(zset, b)
      /\ Rank(zset, a) \in Nat /\ Rank(zset, b) \in Nat
  BY RankIs
<1>3. Cardinality(A) <= Cardinality(B)
  BY <1>1, <1>2, FS_Subset
<1>4. ASSUME \A x \in Present(zset) : Before(zset, x, b) => x = a \/ Before(zset, x, a)
      PROVE  B \in SUBSET A
  BY <1>4 DEF Lower
<1> HIDE DEF A, B
<1>5. Rank(zset, a) < Rank(zset, b)
  BY <1>2, <1>3
<1>6. ASSUME \A x \in Present(zset) : Before(zset, x, b) => x = a \/ Before(zset, x, a)
      PROVE  Rank(zset, b) = Rank(zset, a) + 1
  <2>1. A = B
    BY <1>1, <1>4, <1>6
  <2> QED
    BY <1>2, <2>1
<1> QED
  BY <1>5, <1>6

\* The first member has rank 0, and the last one the highest.
LEMMA RankEnds ==
    ASSUME NEW zset, Scorable(zset), NEW a \in Present(zset)
    PROVE  /\ (\A x \in Present(zset) : ~ Before(zset, x, a)) => Rank(zset, a) = 0
           /\ (\A x \in Present(zset) : ~ Before(zset, a, x))
                => Rank(zset, a) + 1 = Cardinality(Present(zset))
<1>1. ASSUME \A x \in Present(zset) : ~ Before(zset, x, a) PROVE Rank(zset, a) = 0
  <2>1. Lower(zset, a) = {}
    BY <1>1 DEF Lower
  <2> QED
    BY <2>1, RankIs, FS_EmptySet
<1>2. ASSUME \A x \in Present(zset) : ~ Before(zset, a, x)
      PROVE  Rank(zset, a) + 1 = Cardinality(Present(zset))
  <2>1. Lower(zset, a) \cup {a} = Present(zset)
    BY <1>2, BeforeOrders DEF Lower
  <2> QED
    BY <2>1, RankIs
<1> QED
  BY <1>1, <1>2

LEMMA RankHits ==
    ASSUME NEW zset, Scorable(zset), NEW k \in 1 .. Cardinality(Present(zset))
    PROVE  \E m \in Present(zset) : Rank(zset, m) = k - 1
<1> DEFINE P == Present(zset)
           n == Cardinality(P)
           f == [m \in P |-> Rank(zset, m) + 1]
<1>1. IsFiniteSet(P) /\ n \in Nat
  BY FS_CardinalityType DEF Scorable
<1>8. \A m \in P : Rank(zset, m) + 1 \in 1 .. n
  <2> SUFFICES ASSUME NEW m \in P PROVE Rank(zset, m) + 1 \in 1 .. n
    OBVIOUS
  <2>1. Rank(zset, m) \in Nat /\ Rank(zset, m) + 1 <= n
    BY RankIs
  <2> QED
    BY <1>1, <2>1
<1>2. f \in [P -> 1 .. n]
  BY <1>8
<1>3. \A a, b \in P : f[a] = f[b] => a = b
  <2> SUFFICES ASSUME NEW a \in P, NEW b \in P, a # b PROVE f[a] # f[b]
    OBVIOUS
  <2>1. Rank(zset, a) \in Nat /\ Rank(zset, b) \in Nat
    BY RankIs
  <2>2. Before(zset, a, b) \/ Before(zset, b, a)
    BY BeforeOrders
  <2>3. Rank(zset, a) # Rank(zset, b)
    BY <2>1, <2>2, RankMore
  <2> QED
    BY <2>1, <2>3
<1>4. IsFiniteSet(1 .. n) /\ Cardinality(1 .. n) = n
  BY <1>1, FS_Interval
<1> HIDE DEF f
<1>5. f \in Injection(P, 1 .. n)
  BY <1>2, <1>3 DEF Injection, IsInjective
<1>6. f \in Surjection(P, 1 .. n)
  BY <1>4, <1>5, FS_Injection
<1>7. PICK m \in P : f[m] = k
  BY <1>6 DEF Surjection
<1> QED
  <2>1. Rank(zset, m) + 1 = k /\ Rank(zset, m) \in Nat
    BY <1>7, RankIs DEF f
  <2> QED
    BY <1>7, <2>1

\* ByRank has each member at its rank.
LEMMA ByRankIs ==
    ASSUME NEW zset, Scorable(zset)
    PROVE  /\ ByRank(zset) \in Seq(Present(zset))
           /\ Len(ByRank(zset)) = Cardinality(Present(zset))
           /\ \A m \in Present(zset) : ByRank(zset)[Rank(zset, m) + 1] = m
<1> DEFINE P == Present(zset)
           n == Cardinality(P)
           Of(k) == CHOOSE m \in P : Rank(zset, m) = k - 1
<1>1. n \in Nat
  BY FS_CardinalityType DEF Scorable
<1>2. \A k \in 1 .. n : Of(k) \in P /\ Rank(zset, Of(k)) = k - 1
  BY RankHits
<1>3. ByRank(zset) = [k \in 1 .. n |-> Of(k)]
  BY DEF ByRank
<1>4. ASSUME NEW m \in P PROVE ByRank(zset)[Rank(zset, m) + 1] = m
  <2>0. Rank(zset, m) \in Nat /\ Rank(zset, m) + 1 <= n
    BY RankIs
  <2>1. Rank(zset, m) \in Nat /\ Rank(zset, m) + 1 \in 1 .. n
    BY <1>1, <2>0
  <2>2. ByRank(zset)[Rank(zset, m) + 1] = Of(Rank(zset, m) + 1)
    BY <1>3, <2>1
  <2>3. Of(Rank(zset, m) + 1) \in P /\ Rank(zset, Of(Rank(zset, m) + 1)) = Rank(zset, m)
    BY <1>2, <2>1
  <2> DEFINE o == Of(Rank(zset, m) + 1)
  <2>4. o \in P /\ Rank(zset, o) = Rank(zset, m)
    BY <2>3
  <2> HIDE DEF o
  <2>5. o = m
    <3>1. ~ Before(zset, o, m) /\ ~ Before(zset, m, o)
      BY <2>1, <2>4, RankMore
    <3> QED
      BY <2>4, <3>1, BeforeOrders
  <2> QED
    BY <2>2, <2>5 DEF o
<1> HIDE DEF Of
<1>5. ByRank(zset) \in Seq(P) /\ Len(ByRank(zset)) = n
  BY <1>1, <1>2, <1>3
<1> QED
  BY <1>4, <1>5

-----------------------------------------------------------------------------
(* The readers.                                                            *)

Total == Cardinality(Present(score_map))

\* How many members come before that of the node n, where a walk stands.
Passed(n) == IF n = Null THEN Total ELSE Rank(score_map, node[n].member)

LEMMA Listed ==
    ASSUME Numbers, IInv, call = "idle"
    PROVE  /\ \A n \in Alive : /\ node[n].member \in Present(score_map)
                               /\ node[n].score = score_map[node[n].member]
           /\ \A m \in Present(score_map) : \E n \in Alive : node[n].member = m
           /\ Scorable(score_map)
           /\ \A a, b \in Alive :
                 Prec(node, a, b) <=> Before(score_map, node[a].member, node[b].member)
<1>1. TypeOK /\ Linked /\ Mapped
  BY DEF IInv
<1>2. \A n \in Alive : /\ node[n].score \in ScoreSet /\ node[n].member \in Elems
                       /\ node[n].score = score_map[node[n].member]
  <2>1. \A n \in Alive : node[n].score \in ScoreSet /\ node[n].member \in Elems
    BY <1>1, NodeTypes
  <2>2. \A n \in Alive : node[n].score = score_map[node[n].member]
    BY <1>1 DEF Mapped, Filed
  <2> QED
    BY <2>1, <2>2
<1>3. \A n \in Alive : node[n].member \in Present(score_map)
  BY <1>2, Nulls DEF Present
<1>4. \A m \in Present(score_map) : \E n \in Alive : node[n].member = m
  BY <1>1 DEF Mapped, Filed, Present
<1>5. IsFiniteSet(Present(score_map))
  <2> DEFINE f == [n \in Alive |-> node[n].member]
  <2>1. f \in Surjection(Alive, Present(score_map))
    <3>1. f \in [Alive -> Present(score_map)]
      BY <1>3
    <3>2. \A m \in Present(score_map) : \E n \in Alive : f[n] = m
      BY <1>4
    <3> QED
      BY <3>1, <3>2 DEF Surjection
  <2> HIDE DEF f
  <2> QED
    BY <1>1, <2>1, FS_Surjection DEF Linked
<1>6. \A m \in Present(score_map) : score_map[m] \in Int
  BY <1>2, <1>4 DEF Numbers
<1> QED
  BY <1>2, <1>3, <1>4, <1>5, <1>6 DEF Scorable, Prec, Before

\* A walk goes from member to member, in the order of their ranks.
LEMMA Walk ==
    ASSUME Numbers, IInv, call = "idle"
    PROVE  /\ Total \in Nat
           /\ Null \notin Alive
           /\ forward[0][Header] \in Alive \cup {Null} /\ Passed(forward[0][Header]) = 0
           /\ \A n \in Alive : /\ forward[0][n] \in Alive \cup {Null}
                               /\ Passed(n) \in Nat /\ Passed(n) < Total
                               /\ Passed(forward[0][n]) = Passed(n) + 1
<1>1. TypeOK /\ Linked
  BY DEF IInv
<1>2. /\ Alive \subseteq Nodes /\ Null \notin Alive /\ Header \notin Alive
      /\ \A n \in Alive \cup {Header} : Succ(node, Alive, n, forward[0][n])
  BY <1>1, NodeTypes DEF Linked, Chain
<1>3. Scorable(score_map)
  BY Listed
<1>4. Total \in Nat
  BY <1>3, FS_CardinalityType DEF Scorable, Total
<1>5. \A n \in Alive \cup {Header} : forward[0][n] \in Alive \cup {Null}
  BY <1>2 DEF Succ
<1>6. \A a, b \in Alive : a = b \/ Prec(node, a, b) \/ Prec(node, b, a)
  BY <1>1, Order DEF Linked
<1>7. \A a, b \in Alive : ~ (Prec(node, a, b) /\ Prec(node, b, a))
  BY <1>1, Order DEF Linked
<1>8. /\ \A n \in Alive : node[n].member \in Present(score_map)
      /\ \A m \in Present(score_map) : \E n \in Alive : node[n].member = m
      /\ \A a, b \in Alive :
            Prec(node, a, b) <=> Before(score_map, node[a].member, node[b].member)
  BY Listed
<1>9. Passed(forward[0][Header]) = 0
  <2> DEFINE f == forward[0][Header]
  <2>1. Succ(node, Alive, Header, f) /\ f \in Alive \cup {Null}
    BY <1>2, <1>5
  <2> HIDE DEF f
  <2>2. CASE f = Null
    <3>1. Alive = {}
      BY <2>1, <2>2 DEF Succ, Below
    <3>2. Present(score_map) = {}
      BY <1>8, <3>1
    <3> QED
      BY <2>2, <3>2, FS_EmptySet DEF Passed, Total, f
  <2>3. CASE f # Null
    <3>1. f \in Alive /\ \A o \in Alive : o = f \/ Prec(node, f, o)
      BY <2>1, <2>3 DEF Succ, Below
    <3>2. \A o \in Alive : ~ Prec(node, o, f)
      BY <1>7, <3>1
    <3>3. \A x \in Present(score_map) : ~ Before(score_map, x, node[f].member)
      BY <1>8, <3>1, <3>2
    <3>4. Rank(score_map, node[f].member) = 0
      BY <1>3, <1>8, <3>1, <3>3, RankEnds
    <3> QED
      BY <2>3, <3>4 DEF Passed, f
  <2> QED
    BY <2>2, <2>3
<1>10. ASSUME NEW n \in Alive
       PROVE  /\ Passed(n) \in Nat /\ Passed(n) < Total
              /\ Passed(forward[0][n]) = Passed(n) + 1
  <2> DEFINE f == forward[0][n]
             m == node[n].member
  <2>1. Succ(node, Alive, n, f) /\ f \in Alive \cup {Null} /\ n # Header /\ n # Null
    BY <1>2, <1>5
  <2>2. m \in Present(score_map) /\ Passed(n) = Rank(score_map, m)
    BY <1>8, <2>1 DEF Passed
  <2> HIDE DEF f, m
  <2>3. Rank(score_map, m) \in Nat /\ Rank(score_map, m) + 1 <= Total
    BY <1>3, <2>2, RankIs DEF Total
  <2>4. CASE f = Null
    <3>1. \A o \in Alive : ~ Prec(node, n, o)
      BY <2>1, <2>4 DEF Succ, Below
    <3>2. \A x \in Present(score_map) : ~ Before(score_map, m, x)
      BY <1>8, <3>1 DEF m
    <3>3. Rank(score_map, m) + 1 = Total
      BY <1>3, <2>2, <3>2, RankEnds DEF Total
    <3>4. Passed(f) = Total
      BY <2>4 DEF Passed
    <3> QED
      BY <1>4, <2>2, <2>3, <3>3, <3>4 DEF f
  <2>5. CASE f # Null
    <3>1. f \in Alive /\ Prec(node, n, f) /\ \A o \in Alive : Prec(node, n, o) => o = f \/ Prec(node, f, o)
      BY <2>1, <2>5 DEF Succ, Below
    <3>2. \A o \in Alive : Prec(node, o, f) => o = n \/ Prec(node, o, n)
      BY <1>6, <1>7, <3>1
    <3> DEFINE k == node[f].member
    <3>3. k \in Present(score_map) /\ Before(score_map, m, k) /\ Passed(f) = Rank(score_map, k)
      BY <1>8, <2>5, <3>1 DEF m, Passed
    <3>4. \A x \in Present(score_map) : Before(score_map, x, k) => x = m \/ Before(score_map, x, m)
      BY <1>8, <3>1, <3>2 DEF m
    <3> HIDE DEF k
    <3>5. Rank(score_map, k) = Rank(score_map, m) + 1
      BY <1>3, <2>2, <3>3, <3>4, RankMore
    <3>6. Passed(f) = Passed(n) + 1
      BY <2>2, <3>3, <3>5
    <3>7. Passed(n) \in Nat /\ Passed(n) < Total
      BY <1>4, <2>2, <2>3
    <3> QED
      BY <3>6, <3>7 DEF f
  <2> QED
    BY <2>4, <2>5
<1> QED
  BY <1>2, <1>4, <1>5, <1>9, <1>10

\* Two functions that agree at the end of the list, and at each node if they agree
\* at the next, are the same.
LEMMA Backwards ==
    ASSUME Numbers, IInv, call = "idle",
           NEW f, NEW g, f[Null] = g[Null],
           \A n \in Alive : f[forward[0][n]] = g[forward[0][n]] => f[n] = g[n]
    PROVE  \A n \in Alive \cup {Null} : f[n] = g[n]
<1> DEFINE T == {k \in Nat : \A n \in Alive \cup {Null} : Total - Passed(n) = k => f[n] = g[n]}
<1>1. /\ Total \in Nat
      /\ Null \notin Alive
      /\ \A n \in Alive : /\ forward[0][n] \in Alive \cup {Null}
                          /\ Passed(n) \in Nat /\ Passed(n) < Total
                          /\ Passed(forward[0][n]) = Passed(n) + 1
  BY Walk
<1>2. Passed(Null) = Total
  BY DEF Passed
<1>3. 0 \in T
  <2>1. \A n \in Alive : Total - Passed(n) # 0
    BY <1>1
  <2> QED
    BY <2>1
<1>4. ASSUME NEW k \in T PROVE k + 1 \in T
  <2> SUFFICES ASSUME NEW n \in Alive, Total - Passed(n) = k + 1 PROVE f[n] = g[n]
    OBVIOUS
  <2>1. Total - Passed(forward[0][n]) = k
    BY <1>1
  <2>2. forward[0][n] \in Alive \cup {Null}
    BY <1>1
  <2>3. f[forward[0][n]] = g[forward[0][n]]
    BY <2>1, <2>2
  <2> QED
    BY <2>3
<1>5. T = Nat
  <2>1. T \in SUBSET Nat
    OBVIOUS
  <2> HIDE DEF T
  <2> QED
    BY <1>3, <1>4, <2>1, Inductive
<1>6. ASSUME NEW n \in Alive \cup {Null} PROVE f[n] = g[n]
  <2>1. Total - Passed(n) \in Nat
    BY <1>1, <1>2
  <2>2. Total - Passed(n) \in T
    BY <1>5, <2>1
  <2> QED
    BY <2>2
<1> QED
  BY <1>6

LEMMA GetRankIs ==
    ASSUME Numbers, IInv, call = "idle", NEW m \in Elems
    PROVE  GetRank(m) = IF score_map[m] = Null THEN Null ELSE Rank(score_map, m)
<1>1. CASE score_map[m] = Null
  BY <1>1 DEF GetRank
<1>2. CASE score_map[m] # Null
  <2> DEFINE s == score_map[m]
             r == Rank(score_map, m)
             Stops == Alive \cup {Null}
             Lesser(n) == Less(node[n].score, s) \/ (Same(node[n].score, s) /\ node[n].member < m)
             More(rest) == IF rest = Null THEN Null ELSE rest + 1
             Value(f, n) ==
                 IF n = Null THEN Null
                 ELSE IF Lesser(n) THEN More(f[forward[0][n]])
                 ELSE IF node[n].member = m THEN 0 ELSE f[forward[0][n]]
             F(f) == [n \in Stops |-> Value(f, n)]
             v == CHOOSE f : f = F(f)
             g == [n \in Stops |-> IF Passed(n) <= r THEN r - Passed(n) ELSE Null]
  <2>1. GetRank(m) = v[forward[0][Header]]
    BY <1>2 DEF GetRank
  <2>2. m \in Present(score_map)
    BY <1>2 DEF Present
  <2>3. /\ Scorable(score_map)
        /\ \A n \in Alive : /\ node[n].member \in Present(score_map)
                            /\ node[n].score = score_map[node[n].member]
    BY Listed
  <2>4. r \in Nat /\ r + 1 <= Total
    BY <2>2, <2>3, RankIs DEF Total
  <2>5. ASSUME NEW n \in Alive
        PROVE  /\ Lesser(n) <=> Passed(n) < r
               /\ node[n].member = m <=> Passed(n) = r
    <3> DEFINE k == node[n].member
    <3>1. k \in Present(score_map) /\ node[n].score = score_map[k] /\ n # Null
      BY <2>3, Walk
    <3>2. score_map[k] \in Int /\ s \in Int /\ k \in Int /\ m \in Int
      BY <2>2, <2>3, <3>1, ElemsAssumption DEF Scorable, Present
    <3>3. Lesser(n) <=> Before(score_map, k, m)
      BY <3>1, <3>2 DEF Before, Less, Same
    <3>4. Passed(n) = Rank(score_map, k)
      BY <3>1 DEF Passed
    <3> HIDE DEF k
    <3>5. Rank(score_map, k) \in Nat
      BY <2>3, <3>1, RankIs
    <3>6. k = m \/ Before(score_map, k, m) \/ Before(score_map, m, k)
      BY <2>2, <2>3, <3>1, BeforeOrders
    <3>7. Before(score_map, k, m) => Rank(score_map, k) < r
      BY <2>2, <2>3, <3>1, RankMore
    <3>8. Before(score_map, m, k) => r < Rank(score_map, k)
      BY <2>2, <2>3, <3>1, RankMore
    <3> HIDE DEF r, Lesser
    <3>9. Before(score_map, k, m) <=> Rank(score_map, k) < r
      BY <2>4, <3>5, <3>6, <3>7, <3>8 DEF r
    <3>10. k = m <=> Rank(score_map, k) = r
      BY <2>4, <3>5, <3>6, <3>7, <3>8 DEF r
    <3> QED
      BY <3>3, <3>4, <3>9, <3>10 DEF k
  <2>6. /\ Total \in Nat
        /\ forward[0][Header] \in Stops /\ Passed(forward[0][Header]) = 0
        /\ \A n \in Alive : /\ forward[0][n] \in Stops
                            /\ Passed(n) \in Nat
                            /\ Passed(forward[0][n]) = Passed(n) + 1
                            /\ n # Null
    BY Walk
  <2>7. Passed(Null) = Total
    BY DEF Passed
  <2> HIDE DEF r, Lesser, s
  <2>8. g[Null] = Null
    BY <2>4, <2>6, <2>7
  <2>9. ASSUME NEW n \in Alive PROVE g[n] = Value(g, n)
    <3> DEFINE o == forward[0][n]
    <3>1. o \in Stops /\ Passed(n) \in Nat /\ Passed(o) = Passed(n) + 1 /\ n \in Stops /\ n # Null
      BY <2>6
    <3>2. g[n] = (IF Passed(n) <= r THEN r - Passed(n) ELSE Null)
          /\ g[o] = (IF Passed(o) <= r THEN r - Passed(o) ELSE Null)
      BY <3>1
    <3> HIDE DEF g, o
    <3>3. CASE Passed(n) < r
      <4>1. g[n] = r - Passed(n) /\ g[o] = r - (Passed(n) + 1)
        BY <2>4, <3>1, <3>2, <3>3
      <4>2. g[o] # Null
        <5>1. g[o] \in Int
          BY <2>4, <3>1, <4>1
        <5> QED
          BY <5>1, Nulls
      <4>3. g[n] = More(g[o])
        BY <2>4, <3>1, <4>1, <4>2
      <4> QED
        BY <2>5, <3>1, <3>3, <4>3 DEF o
    <3>4. CASE Passed(n) = r
      <4>1. g[n] = 0 /\ ~ (Passed(n) < r)
        BY <2>4, <3>1, <3>2, <3>4
      <4> QED
        BY <2>5, <3>1, <3>4, <4>1
    <3>5. CASE r < Passed(n)
      <4>1. g[n] = Null /\ g[o] = Null /\ ~ (Passed(n) < r) /\ Passed(n) # r
        BY <2>4, <3>1, <3>2, <3>5
      <4> QED
        BY <2>5, <3>1, <4>1 DEF o
    <3> QED
      BY <2>4, <3>1, <3>3, <3>4, <3>5
  <2>10. g = F(g)
    <3>1. g = [n \in Stops |-> g[n]]
      OBVIOUS
    <3>2. \A n \in Stops : g[n] = Value(g, n)
      BY <2>8, <2>9
    <3> HIDE DEF g, Value
    <3>3. [n \in Stops |-> g[n]] = F(g)
      BY <3>2
    <3> QED
      BY <3>1, <3>3, Zenon
  <2>11. v = F(v)
    <3> HIDE DEF F, g
    <3> QED
      BY <2>10
  <2> HIDE DEF v
  <2>12. \A n \in Stops : v[n] = Value(v, n)
    <3> HIDE DEF Value
    <3> QED
      BY <2>11
  <2>13. \A n \in Stops : v[n] = g[n]
    <3>1. v[Null] = g[Null]
      BY <2>8, <2>12
    <3>2. ASSUME NEW n \in Alive, v[forward[0][n]] = g[forward[0][n]] PROVE v[n] = g[n]
      <4>1. v[n] = Value(v, n) /\ g[n] = Value(g, n)
        BY <2>9, <2>12
      <4>2. Value(v, n) = Value(g, n)
        <5> HIDE DEF g, More
        <5> QED
          BY <3>2
      <4> QED
        BY <4>1, <4>2
    <3> HIDE DEF g
    <3> QED
      BY <3>1, <3>2, Backwards
  <2>14. g[forward[0][Header]] = r
    BY <2>4, <2>6
  <2> HIDE DEF g
  <2>15. v[forward[0][Header]] = r
    BY <2>6, <2>13, <2>14
  <2> QED
    BY <1>2, <2>1, <2>15 DEF r
<1> QED
  BY <1>1, <1>2

\* A part of the members in order, from the one at a node on.
LEMMA Suffix ==
    ASSUME Numbers, IInv, call = "idle", NEW n \in Alive,
           NEW k \in Nat, Passed(n) < k, k <= Total
    PROVE  LET B == ByRank(score_map)
           IN  <<node[n].member>> \o SubSeq(B, Passed(forward[0][n]) + 1, k)
                 = SubSeq(B, Passed(n) + 1, k)
<1> DEFINE B == ByRank(score_map)
           p == Passed(n)
           m == node[n].member
<1>1. p \in Nat /\ p < Total /\ Total \in Nat /\ n # Null /\ Passed(forward[0][n]) = p + 1
  BY Walk
<1>2. m \in Present(score_map) /\ Scorable(score_map)
  BY Listed
<1>3. B \in Seq(Present(score_map)) /\ Len(B) = Total
  BY <1>2, ByRankIs DEF Total
<1>4. B[p + 1] = m
  <2>1. p = Rank(score_map, m)
    BY <1>1 DEF Passed
  <2> HIDE DEF p, m
  <2> QED
    BY <1>2, <2>1, ByRankIs
<1> HIDE DEF B, p, m
<1>5. p < k
  BY DEF p
<1>6. <<m>> \o SubSeq(B, p + 1 + 1, k) = SubSeq(B, p + 1, k)
  <2> DEFINE a == <<m>> \o SubSeq(B, p + 1 + 1, k)
             b == SubSeq(B, p + 1, k)
  <2>1. Len(SubSeq(B, p + 1 + 1, k)) = k - p - 1 /\ Len(b) = k - p
    BY <1>1, <1>3, <1>5
  <2>2. Len(a) = k - p
    BY <1>1, <1>5, <2>1
  <2>3. \A j \in 1 .. k - p : a[j] = b[j]
    <3> SUFFICES ASSUME NEW j \in 1 .. k - p PROVE a[j] = b[j]
      OBVIOUS
    <3>1. b[j] = B[p + j]
      BY <1>1, <1>3, <1>5
    <3>2. CASE j = 1
      BY <1>1, <1>4, <3>1, <3>2
    <3>3. CASE j # 1
      <4>1. a[j] = SubSeq(B, p + 1 + 1, k)[j - 1]
        BY <2>1, <3>3, <1>1, <1>5
      <4>2. j - 1 \in 1 .. k - p - 1
        BY <1>1, <1>5, <3>3
      <4>3. SubSeq(B, p + 1 + 1, k)[j - 1] = B[p + j]
        BY <1>1, <1>3, <1>5, <4>2
      <4> QED
        BY <3>1, <4>1, <4>3
    <3> QED
      BY <3>2, <3>3
  <2>4. a \in Seq(Present(score_map)) /\ b \in Seq(Present(score_map))
    BY <1>1, <1>2, <1>3, <1>5
  <2> HIDE DEF a, b
  <2>5. a = b
    BY <2>1, <2>2, <2>3, <2>4
  <2> QED
    BY <2>5 DEF a, b
<1> QED
  BY <1>1, <1>6 DEF B, p, m

LEMMA MembersInOrder ==
    ASSUME Numbers, IInv, call = "idle", NEW start, NEW stop
    PROVE  MembersByRank(start, stop) = RangeByRank(score_map, start, stop)
<1> DEFINE B == ByRank(score_map)
           Stops == Alive \cup {Null}
           Value(f, n) == IF n = Null THEN << >> ELSE <<node[n].member>> \o f[forward[0][n]]
           F(f) == [n \in Stops |-> Value(f, n)]
           v == CHOOSE f : f = F(f)
           g == [n \in Stops |-> SubSeq(B, Passed(n) + 1, Total)]
<1>1. MembersByRank(start, stop) = Slice(v[forward[0][Header]], start, stop)
  BY DEF MembersByRank
<1>2. /\ Total \in Nat /\ Null \notin Alive
      /\ forward[0][Header] \in Stops /\ Passed(forward[0][Header]) = 0
      /\ \A n \in Alive : /\ forward[0][n] \in Stops
                          /\ Passed(n) \in Nat
                          /\ Passed(n) < Total
  BY Walk
<1>3. Passed(Null) = Total
  BY DEF Passed
<1>4. B \in Seq(Present(score_map)) /\ Len(B) = Total
  BY Listed, ByRankIs DEF Total
<1> HIDE DEF B
<1>5. g[Null] = << >>
  <2>1. g[Null] = SubSeq(B, Total + 1, Total)
    BY <1>3
  <2>2. SubSeq(B, Total + 1, Total) = << >>
    BY <1>2, <1>4
  <2> HIDE DEF g
  <2> QED
    BY <2>1, <2>2
<1>6. ASSUME NEW n \in Alive PROVE g[n] = Value(g, n)
  <2>1. <<node[n].member>> \o SubSeq(B, Passed(forward[0][n]) + 1, Total)
          = SubSeq(B, Passed(n) + 1, Total)
    <3>1. Total \in Nat /\ Passed(n) < Total /\ Total <= Total
      BY <1>2
    <3> QED
      BY <3>1, Suffix, Zenon DEF B
  <2>2. /\ g[n] = SubSeq(B, Passed(n) + 1, Total)
        /\ g[forward[0][n]] = SubSeq(B, Passed(forward[0][n]) + 1, Total)
        /\ n # Null
    BY <1>2
  <2> HIDE DEF g
  <2> QED
    BY <2>1, <2>2
<1>7. g = F(g)
  <2>1. g = [n \in Stops |-> g[n]]
    OBVIOUS
  <2>2. \A n \in Stops : g[n] = Value(g, n)
    BY <1>5, <1>6
  <2> HIDE DEF g, Value
  <2>3. [n \in Stops |-> g[n]] = F(g)
    BY <2>2
  <2> QED
    BY <2>1, <2>3, Zenon
<1>8. v = F(v)
  <2> HIDE DEF F, g
  <2> QED
    BY <1>7
<1> HIDE DEF v
<1>9. \A n \in Stops : v[n] = Value(v, n)
  <2> HIDE DEF Value
  <2> QED
    BY <1>8
<1>10. \A n \in Stops : v[n] = g[n]
  <2>1. v[Null] = g[Null]
    BY <1>5, <1>9
  <2>2. ASSUME NEW n \in Alive, v[forward[0][n]] = g[forward[0][n]] PROVE v[n] = g[n]
    <3>1. v[n] = Value(v, n) /\ g[n] = Value(g, n)
      BY <1>6, <1>9
    <3>2. Value(v, n) = Value(g, n)
      <4> HIDE DEF g
      <4> QED
        BY <2>2
    <3> QED
      BY <3>1, <3>2
  <2> HIDE DEF g
  <2> QED
    BY <2>1, <2>2, Backwards
<1>11. g[forward[0][Header]] = B
  <2>1. g[forward[0][Header]] = SubSeq(B, 1, Total)
    BY <1>2
  <2> HIDE DEF g
  <2> QED
    BY <1>2, <1>4, <2>1
<1> HIDE DEF g
<1>12. v[forward[0][Header]] = B
  BY <1>2, <1>10, <1>11
<1> QED
  BY <1>1, <1>12 DEF RangeByRank, B

-----------------------------------------------------------------------------
(* Ranges of scores.                                                       *)

Initial(zset, D) == \A a \in D, x \in Present(zset) : Before(zset, x, a) => x \in D

\* The members ahead of some place are those whose rank is less than their number.
LEMMA Segment ==
    ASSUME NEW zset, Scorable(zset), NEW D \in SUBSET Present(zset), Initial(zset, D)
    PROVE  /\ IsFiniteSet(D) /\ Cardinality(D) \in Nat
           /\ Cardinality(D) <= Cardinality(Present(zset))
           /\ \A m \in Present(zset) : m \in D <=> Rank(zset, m) < Cardinality(D)
<1>1. IsFiniteSet(Present(zset))
  BY DEF Scorable
<1>2. IsFiniteSet(D) /\ Cardinality(D) <= Cardinality(Present(zset))
  BY <1>1, FS_Subset
<1>3. Cardinality(D) \in Nat
  BY <1>2, FS_CardinalityType
<1>4. ASSUME NEW m \in D PROVE Rank(zset, m) + 1 <= Cardinality(D)
  <2>1. Lower(zset, m) \cup {m} \in SUBSET D
    BY DEF Lower, Initial
  <2>2. m \in Present(zset)
    OBVIOUS
  <2>3. Rank(zset, m) + 1 = Cardinality(Lower(zset, m) \cup {m})
    BY <2>2, RankIs
  <2>4. Cardinality(Lower(zset, m) \cup {m}) <= Cardinality(D)
    BY <1>2, <2>1, FS_Subset
  <2> QED
    BY <2>3, <2>4
<1>5. ASSUME NEW m \in Present(zset), m \notin D PROVE Cardinality(D) <= Rank(zset, m)
  <2>1. D \in SUBSET Lower(zset, m)
    BY <1>5, BeforeOrders DEF Lower, Initial
  <2>2. IsFiniteSet(Lower(zset, m)) /\ Rank(zset, m) = Cardinality(Lower(zset, m))
    BY RankIs
  <2> QED
    BY <2>1, <2>2, FS_Subset
<1>6. \A m \in Present(zset) : Rank(zset, m) \in Nat
  BY RankIs
<1> QED
  BY <1>2, <1>3, <1>4, <1>5, <1>6

\* The members with a score less than s, and those with none above it.
Under(zset, s) == {m \in Present(zset) : zset[m] < s}

UpTo(zset, s) == {m \in Present(zset) : zset[m] <= s}

LEMMA Segments ==
    ASSUME NEW zset, Scorable(zset), NEW s \in Int
    PROVE  /\ Under(zset, s) \in SUBSET Present(zset) /\ Initial(zset, Under(zset, s))
           /\ UpTo(zset, s) \in SUBSET Present(zset) /\ Initial(zset, UpTo(zset, s))
<1>1. \A m \in Present(zset) : zset[m] \in Int
  BY DEF Scorable
<1> QED
  BY <1>1 DEF Under, UpTo, Initial, Before

\* What is left between two scores is a part of the whole.
LEMMA WithinIs ==
    ASSUME NEW zset, Scorable(zset), NEW min \in Int, NEW max \in Int, Null \notin Int
    PROVE  ByRank(ScoredWithin(zset, min, max))
             = SubSeq(ByRank(zset), Cardinality(Under(zset, min)) + 1, Cardinality(UpTo(zset, max)))
<1> DEFINE P == Present(zset)
           z == ScoredWithin(zset, min, max)
           W == Present(z)
           L == Under(zset, min)
           U == UpTo(zset, max)
           lo == Cardinality(L)
           hi == Cardinality(U)
           B == ByRank(zset)
           C == ByRank(z)
<1>1. \A m \in P : zset[m] \in Int /\ m \in Elems /\ zset[m] # Null
  BY DEF Scorable, Present
<1>2. W = {m \in P : min <= zset[m] /\ zset[m] <= max} /\ \A m \in W : z[m] = zset[m]
  BY <1>1 DEF Present, ScoredWithin
<1>3. Scorable(z)
  <2>1. IsFiniteSet(W)
    <3>1. IsFiniteSet(P) /\ W \in SUBSET P
      BY <1>2 DEF Scorable
    <3> QED
      BY <3>1, FS_Subset
  <2> HIDE DEF z
  <2> QED
    BY <1>1, <1>2, <2>1 DEF Scorable
<1>4. /\ IsFiniteSet(L) /\ lo \in Nat /\ lo <= Cardinality(P)
      /\ IsFiniteSet(U) /\ hi \in Nat /\ hi <= Cardinality(P)
  BY Segments, Segment
<1>5. B \in Seq(P) /\ Len(B) = Cardinality(P) /\ \A m \in P : B[Rank(zset, m) + 1] = m
  BY ByRankIs
<1>6. C \in Seq(W) /\ Len(C) = Cardinality(W) /\ \A m \in W : C[Rank(z, m) + 1] = m
  <2> HIDE DEF z
  <2> QED
    BY <1>3, ByRankIs
<1>7. IsFiniteSet(W) /\ Cardinality(W) \in Nat
  BY <1>3, FS_CardinalityType DEF Scorable
<1>8. CASE min <= max
  <2>1. W = U \ L /\ U \cap L = L
    BY <1>1, <1>2, <1>8 DEF UpTo, Under
  <2>2. Cardinality(W) = hi - lo
    BY <1>4, <2>1, FS_Difference
  <2>3. ASSUME NEW m \in W PROVE Rank(zset, m) = lo + Rank(z, m)
    <3>1. m \in P
      BY <1>2
    <3>2. Lower(zset, m) = L \cup Lower(z, m) /\ L \cap Lower(z, m) = {}
      <4>1. \A x \in W : Before(z, x, m) <=> Before(zset, x, m)
        <5> HIDE DEF W
        <5> QED
          BY <1>2 DEF Before
      <4>2. \A x \in L : x \in P /\ x \notin W /\ Before(zset, x, m)
        <5> HIDE DEF z
        <5> QED
          BY <1>1, <1>2, <3>1 DEF Under, Before
      <4>3. \A x \in P : Before(zset, x, m) => x \in L \/ x \in W
        <5> HIDE DEF z
        <5> QED
          BY <1>1, <1>2, <3>1 DEF Under, Before
      <4>4. W \subseteq P
        BY <1>2
      <4>5. Lower(zset, m) = {x \in P : Before(zset, x, m)} /\ Lower(z, m) = {x \in W : Before(z, x, m)}
        BY DEF Lower
      <4> HIDE DEF P, W, L, z
      <4> QED
        BY <4>1, <4>2, <4>3, <4>4, <4>5
    <3>3. IsFiniteSet(Lower(z, m)) /\ Rank(z, m) = Cardinality(Lower(z, m)) /\ Rank(z, m) \in Nat
      <4> HIDE DEF z
      <4> QED
        BY <1>3, RankIs
    <3>4. Rank(zset, m) = Cardinality(Lower(zset, m))
      BY <3>1, RankIs
    <3>5. Cardinality(L \cup Lower(z, m))
            = Cardinality(L) + Cardinality(Lower(z, m)) - Cardinality(L \cap Lower(z, m))
      BY <1>4, <3>3, FS_Union
    <3>6. Cardinality(L \cap Lower(z, m)) = 0
      BY <3>2, FS_EmptySet
    <3> HIDE DEF z
    <3> QED
      BY <1>4, <3>2, <3>3, <3>4, <3>5, <3>6
  <2>4. ASSUME NEW k \in 1 .. hi - lo PROVE C[k] = B[lo + k]
    <3>1. PICK m \in W : Rank(z, m) = k - 1
      <4> HIDE DEF z
      <4> QED
        BY <1>3, <2>2, RankHits
    <3>2. C[k] = m
      <4>1. C[k - 1 + 1] = m
        BY <1>6, <3>1
      <4> QED
        BY <1>4, <4>1
    <3>3. B[lo + k] = m
      <4>1. m \in P /\ Rank(zset, m) = lo + (k - 1)
        BY <1>2, <2>3, <3>1
      <4>2. B[Rank(zset, m) + 1] = m
        BY <1>5, <4>1
      <4>3. Rank(zset, m) + 1 = lo + k
        BY <1>4, <4>1
      <4> QED
        BY <4>2, <4>3
    <3> QED
      BY <3>2, <3>3
  <2> HIDE DEF B, C, lo, hi, W, P
  <2>5. Len(C) = hi - lo /\ C \in Seq(W) /\ B \in Seq(P) /\ hi <= Len(B)
    BY <1>4, <1>5, <1>6, <2>2
  <2>6. C = SubSeq(B, lo + 1, hi)
    <3> DEFINE D == SubSeq(B, lo + 1, hi)
    <3>1. D \in Seq(P) /\ Len(D) = hi - lo
      BY <1>4, <1>7, <2>2, <2>5
    <3>2. \A k \in 1 .. hi - lo : D[k] = B[lo + k]
      BY <1>4, <2>5
    <3> HIDE DEF D
    <3>3. C = D
      BY <2>4, <2>5, <3>1, <3>2
    <3> QED
      BY <3>3 DEF D
  <2> QED
    BY <2>6 DEF B, C, lo, hi, W, P
<1>9. CASE max < min
  <2>1. W = {} /\ U \in SUBSET L
    BY <1>1, <1>2, <1>9 DEF UpTo, Under
  <2>2. hi <= lo
    BY <1>4, <2>1, FS_Subset
  <2>3. Len(C) = 0
    BY <1>6, <2>1, FS_EmptySet
  <2> HIDE DEF B, C, lo, hi
  <2>4. C = << >>
    BY <1>6, <2>3
  <2>5. SubSeq(B, lo + 1, hi) = << >>
    BY <1>4, <1>5, <2>2
  <2> QED
    BY <2>4, <2>5 DEF B, C, lo, hi
<1> QED
  BY <1>8, <1>9

\* A node is one of those with a score under min, or up to max, if it is passed
\* before as many as there are of them.
LEMMA ScoresPassed ==
    ASSUME Numbers, IInv, call = "idle", NEW s \in Int
    PROVE  LET under == Cardinality(Under(score_map, s))
               upto  == Cardinality(UpTo(score_map, s))
           IN  /\ under \in Nat /\ under <= Total
               /\ upto \in Nat /\ upto <= Total
               /\ \A n \in Alive : /\ Less(node[n].score, s) <=> Passed(n) < under
                                   /\ (Less(node[n].score, s) \/ Same(node[n].score, s)) <=> Passed(n) < upto
<1> DEFINE U == Under(score_map, s)
           W == UpTo(score_map, s)
<1>1. Scorable(score_map)
  BY Listed
<1>2. /\ Cardinality(U) \in Nat /\ Cardinality(U) <= Total
      /\ Cardinality(W) \in Nat /\ Cardinality(W) <= Total
      /\ \A m \in Present(score_map) : /\ m \in U <=> Rank(score_map, m) < Cardinality(U)
                                       /\ m \in W <=> Rank(score_map, m) < Cardinality(W)
  BY <1>1, Segments, Segment DEF Total
<1>3. ASSUME NEW n \in Alive
      PROVE  /\ Less(node[n].score, s) <=> Passed(n) < Cardinality(U)
             /\ (Less(node[n].score, s) \/ Same(node[n].score, s)) <=> Passed(n) < Cardinality(W)
  <2> DEFINE m == node[n].member
  <2>1. m \in Present(score_map) /\ node[n].score = score_map[m] /\ n # Null
    BY Listed, Walk
  <2>2. Passed(n) = Rank(score_map, m)
    BY <2>1 DEF Passed
  <2> HIDE DEF m
  <2>3. score_map[m] \in Int
    BY <1>1, <2>1 DEF Scorable
  <2>4. Less(node[n].score, s) <=> m \in U
    BY <2>1, <2>3 DEF Less, Under
  <2>5. (Less(node[n].score, s) \/ Same(node[n].score, s)) <=> m \in W
    BY <2>1, <2>3 DEF Less, Same, UpTo
  <2> HIDE DEF U, W
  <2> QED
    BY <1>2, <2>1, <2>2, <2>4, <2>5
<1> QED
  BY <1>2, <1>3

\* There is one place in the list for each number of members passed.
LEMMA PlaceOf ==
    ASSUME Numbers, IInv, call = "idle"
    PROVE  /\ \A p \in 0 .. Total : \E n \in Alive \cup {Null} : Passed(n) = p
           /\ \A a, b \in Alive \cup {Null} : Passed(a) = Passed(b) => a = b
<1>1. /\ Scorable(score_map)
      /\ \A n \in Alive : node[n].member \in Present(score_map)
      /\ \A m \in Present(score_map) : \E n \in Alive : node[n].member = m
  BY Listed
<1>2. /\ Total \in Nat /\ Null \notin Alive
      /\ \A n \in Alive : Passed(n) \in Nat /\ Passed(n) < Total
  BY Walk
<1>3. Passed(Null) = Total
  BY DEF Passed
<1>4. \A n \in Alive : Passed(n) = Rank(score_map, node[n].member)
  BY <1>2 DEF Passed
<1>5. ASSUME NEW p \in 0 .. Total PROVE \E n \in Alive \cup {Null} : Passed(n) = p
  <2>1. CASE p = Total
    BY <1>3, <2>1
  <2>2. CASE p # Total
    <3>1. p + 1 \in 1 .. Cardinality(Present(score_map))
      BY <1>2, <2>2 DEF Total
    <3>2. PICK m \in Present(score_map) : Rank(score_map, m) = p + 1 - 1
      BY <1>1, <3>1, RankHits
    <3>3. p + 1 - 1 = p
      BY <1>2
    <3> QED
      BY <1>1, <1>4, <3>2, <3>3
  <2> QED
    BY <2>1, <2>2
<1>6. ASSUME NEW a \in Alive, NEW b \in Alive, Passed(a) = Passed(b) PROVE a = b
  <2>1. Rank(score_map, node[a].member) = Rank(score_map, node[b].member)
    BY <1>4, <1>6
  <2>2. \A m \in Present(score_map) : ByRank(score_map)[Rank(score_map, m) + 1] = m
    BY <1>1, ByRankIs
  <2>3. node[a].member = node[b].member
    BY <1>1, <2>1, <2>2
  <2> QED
    BY <2>3 DEF IInv, Linked, Keyed
<1>7. \A n \in Alive : Passed(n) # Passed(Null)
  BY <1>2, <1>3
<1> QED
  BY <1>5, <1>6, <1>7

LEMMA ScoresInOrder ==
    ASSUME Numbers, IInv, call = "idle", NEW min \in Int, NEW max \in Int
    PROVE  MembersByScore(min, max) = ByRank(ScoredWithin(score_map, min, max))
<1> DEFINE B == ByRank(score_map)
           lo == Cardinality(Under(score_map, min))
           hi == Cardinality(UpTo(score_map, max))
           Stops == Alive \cup {Null}
           Higher(n) == ~ (Less(node[n].score, max) \/ Same(node[n].score, max))
           Value(f, n) == IF n = Null \/ Higher(n) THEN << >> ELSE <<node[n].member>> \o f[forward[0][n]]
           F(f) == [n \in Stops |-> Value(f, n)]
           v == CHOOSE f : f = F(f)
           g == [n \in Stops |-> SubSeq(B, Passed(n) + 1, hi)]
           Skip(f, n) == IF n # Null /\ Less(node[n].score, min) THEN f[forward[0][n]] ELSE n
           H(f) == [n \in Stops |-> Skip(f, n)]
           w == CHOOSE f : f = H(f)
           first == forward[0][Header]
<1>1. MembersByScore(min, max) = v[w[first]]
  BY DEF MembersByScore
<1>2. /\ Total \in Nat /\ Null \notin Alive
      /\ first \in Stops /\ Passed(first) = 0
      /\ \A n \in Alive : /\ forward[0][n] \in Stops
                          /\ Passed(n) \in Nat
                          /\ Passed(n) < Total
                          /\ Passed(forward[0][n]) = Passed(n) + 1
  BY Walk
<1>3. Passed(Null) = Total
  BY DEF Passed
<1>4. /\ lo \in Nat /\ lo <= Total /\ hi \in Nat /\ hi <= Total
      /\ \A n \in Alive : /\ Less(node[n].score, min) <=> Passed(n) < lo
                          /\ Higher(n) <=> ~ (Passed(n) < hi)
  BY ScoresPassed
<1>5. B \in Seq(Present(score_map)) /\ Len(B) = Total
  BY Listed, ByRankIs DEF Total
<1>6. PICK c \in Stops : Passed(c) = lo
  BY <1>2, <1>4, PlaceOf
<1> DEFINE h == [n \in Stops |-> IF Passed(n) < lo THEN c ELSE n]
<1> HIDE DEF B, lo, hi, Higher, first
<1>7. \A n \in Stops : Passed(n) \in Nat /\ Passed(n) <= Total
  BY <1>2, <1>3
<1>8. \A p \in Nat : ~ (p < hi) => SubSeq(B, p + 1, hi) = << >>
  BY <1>2, <1>4, <1>5
<1>9. g[Null] = << >>
  <2>1. g[Null] = SubSeq(B, Total + 1, hi)
    BY <1>3
  <2>2. SubSeq(B, Total + 1, hi) = << >>
    BY <1>2, <1>4, <1>8
  <2> HIDE DEF g
  <2> QED
    BY <2>1, <2>2
<1>10. ASSUME NEW n \in Alive PROVE g[n] = Value(g, n)
  <2>1. /\ g[n] = SubSeq(B, Passed(n) + 1, hi)
        /\ g[forward[0][n]] = SubSeq(B, Passed(forward[0][n]) + 1, hi)
        /\ n # Null /\ Passed(n) \in Nat
    BY <1>2
  <2> HIDE DEF g
  <2>2. CASE Passed(n) < hi
    <3>1. <<node[n].member>> \o SubSeq(B, Passed(forward[0][n]) + 1, hi) = SubSeq(B, Passed(n) + 1, hi)
      BY <1>4, <2>2, Suffix, Zenon DEF B
    <3> QED
      BY <1>4, <2>1, <2>2, <3>1
  <2>3. CASE ~ (Passed(n) < hi)
    BY <1>4, <1>8, <2>1, <2>3
  <2> QED
    BY <2>2, <2>3
<1>11. g = F(g)
  <2>1. g = [n \in Stops |-> g[n]]
    OBVIOUS
  <2>2. \A n \in Stops : g[n] = Value(g, n)
    BY <1>9, <1>10
  <2> HIDE DEF g, Value
  <2>3. [n \in Stops |-> g[n]] = F(g)
    BY <2>2
  <2> QED
    BY <2>1, <2>3, Zenon
<1>12. v = F(v)
  <2> HIDE DEF F, g
  <2> QED
    BY <1>11
<1> HIDE DEF v
<1>13. \A n \in Stops : v[n] = Value(v, n)
  <2> HIDE DEF Value
  <2> QED
    BY <1>12
<1>14. \A n \in Stops : v[n] = g[n]
  <2>1. v[Null] = g[Null]
    BY <1>9, <1>13
  <2>2. ASSUME NEW n \in Alive, v[forward[0][n]] = g[forward[0][n]] PROVE v[n] = g[n]
    <3>1. v[n] = Value(v, n) /\ g[n] = Value(g, n)
      BY <1>10, <1>13
    <3>2. Value(v, n) = Value(g, n)
      <4> HIDE DEF g
      <4> QED
        BY <2>2
    <3> QED
      BY <3>1, <3>2
  <2> HIDE DEF g
  <2> QED
    BY <2>1, <2>2, Backwards
<1>15. h[Null] = Null
  BY <1>3, <1>4, <1>2
<1>16. ASSUME NEW n \in Alive PROVE h[n] = Skip(h, n)
  <2> DEFINE o == forward[0][n]
  <2>1. o \in Stops /\ Passed(n) \in Nat /\ Passed(o) = Passed(n) + 1 /\ n # Null /\ n \in Stops
    BY <1>2
  <2>2. h[n] = (IF Passed(n) < lo THEN c ELSE n) /\ h[o] = (IF Passed(o) < lo THEN c ELSE o)
    BY <2>1
  <2>3. Less(node[n].score, min) <=> Passed(n) < lo
    BY <1>4
  <2> HIDE DEF h, o
  <2>4. CASE Passed(n) < lo
    <3>1. h[o] = c
      <4>1. CASE Passed(o) < lo
        BY <2>2, <4>1
      <4>2. CASE ~ (Passed(o) < lo)
        <5>1. Passed(o) = Passed(c)
          BY <1>4, <1>6, <2>1, <2>4, <4>2
        <5>2. o = c
          BY <2>1, <5>1, PlaceOf
        <5> QED
          BY <2>2, <4>2, <5>2
      <4> QED
        BY <4>1, <4>2
    <3> QED
      BY <2>1, <2>2, <2>3, <2>4, <3>1 DEF o
  <2>5. CASE ~ (Passed(n) < lo)
    BY <2>2, <2>3, <2>5
  <2> QED
    BY <2>4, <2>5
<1>17. h = H(h)
  <2>1. h = [n \in Stops |-> h[n]]
    OBVIOUS
  <2>2. \A n \in Stops : h[n] = Skip(h, n)
    BY <1>15, <1>16
  <2> HIDE DEF h, Skip
  <2>3. [n \in Stops |-> h[n]] = H(h)
    BY <2>2
  <2> QED
    BY <2>1, <2>3, Zenon
<1>18. w = H(w)
  <2> HIDE DEF H, h
  <2> QED
    BY <1>17
<1> HIDE DEF w
<1>19. \A n \in Stops : w[n] = Skip(w, n)
  <2> HIDE DEF Skip
  <2> QED
    BY <1>18
<1>20. \A n \in Stops : w[n] = h[n]
  <2>1. w[Null] = h[Null]
    BY <1>15, <1>19
  <2>2. ASSUME NEW n \in Alive, w[forward[0][n]] = h[forward[0][n]] PROVE w[n] = h[n]
    <3>1. w[n] = Skip(w, n) /\ h[n] = Skip(h, n)
      BY <1>16, <1>19
    <3>2. Skip(w, n) = Skip(h, n)
      <4> HIDE DEF h
      <4> QED
        BY <2>2
    <3> QED
      BY <3>1, <3>2
  <2> HIDE DEF h
  <2> QED
    BY <2>1, <2>2, Backwards
<1>21. w[first] \in Stops /\ Passed(w[first]) = lo
  <2>1. h[first] = IF Passed(first) < lo THEN c ELSE first
    BY <1>2
  <2>2. w[first] = h[first]
    BY <1>2, <1>20
  <2> HIDE DEF h
  <2> QED
    BY <1>2, <1>4, <1>6, <2>1, <2>2
<1>22. v[w[first]] = SubSeq(B, lo + 1, hi)
  <2> DEFINE o == w[first]
  <2>1. g[o] = SubSeq(B, Passed(o) + 1, hi)
    BY <1>21
  <2>2. v[o] = g[o]
    BY <1>14, <1>21
  <2> HIDE DEF g
  <2> QED
    BY <1>21, <2>1, <2>2
<1>23. ByRank(ScoredWithin(score_map, min, max)) = SubSeq(B, lo + 1, hi)
  BY Listed, Nulls, WithinIs DEF B, lo, hi
<1> QED
  BY <1>1, <1>22, <1>23

\* Between calls, for any contents, ranks and bounds: what GetRank, RangeByRank and
\* RangeByScore find by walking the list is what the score map says, so that ZRANK,
\* ZRANGE and ZREVRANGE answer what the scores alone determine.
THEOREM ReadersAlwaysAgree ==
    ASSUME Numbers
    PROVE  Spec => []ReadersAgree
<1>1. ASSUME IInv PROVE ReadersAgree
  <2> SUFFICES ASSUME call = "idle"
               PROVE  /\ \A m \in Elems :
                            GetRank(m) = IF score_map[m] = Null THEN Null ELSE Rank(score_map, m)
                      /\ \A start, stop : MembersByRank(start, stop) = RangeByRank(score_map, start, stop)
                      /\ \A min, max \in ScoreSet :
                            MembersByScore(min, max) = ByRank(ScoredWithin(score_map, min, max))
    BY DEF ReadersAgree
  <2>1. \A min, max \in ScoreSet :
           MembersByScore(min, max) = ByRank(ScoredWithin(score_map, min, max))
    BY <1>1, ScoresInOrder DEF Numbers
  <2>2. \A start, stop : MembersByRank(start, stop) = RangeByRank(score_map, start, stop)
    BY <1>1, MembersInOrder
  <2>3. \A m \in Elems : GetRank(m) = IF score_map[m] = Null THEN Null ELSE Rank(score_map, m)
    BY <1>1, GetRankIs
  <2> QED
    BY <2>1, <2>2, <2>3
<1> QED
  BY <1>1, Invariant, PTL
=============================================================================
