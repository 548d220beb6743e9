----------------------------- MODULE Induction ------------------------------
(***************************************************************************)
(* Induction over the naturals, stated for sets, and what is defined by    *)
(* recursion over them: what the proofs about this system cite when they    *)
(* count.                                                                  *)
(***************************************************************************)
EXTENDS WellFoundedInduction, SequencesExt, TLAPS

\* A set of naturals has a least element: their order is well-founded.
LEMMA Least ==
    ASSUME NEW T \in SUBSET Nat, T # {}
    PROVE  \E n \in T : \A m \in T : n <= m
<1> DEFINE R == OpToRel(<, Nat)
<1>1. IsWellFoundedOn(R, Nat)
  BY NatLessThanWellFounded
<1>2. \A a, b \in Nat : a < b => <<a, b>> \in R
  BY DEF OpToRel
<1> HIDE DEF R
<1>3. PICK n \in T : \A m \in T : ~ (<<m, n>> \in R)
  BY <1>1, WFMin
<1>4. \A m \in T : ~ (m < n)
  BY <1>2, <1>3, Zenon
<1> QED
  BY <1>4

\* What holds of 0, and of n + 1 when of n, holds of every natural.
LEMMA Inductive ==
    ASSUME NEW T \in SUBSET Nat, 0 \in T, \A n \in T : n + 1 \in T
    PROVE  T = Nat
<1> SUFFICES ASSUME Nat \ T # {} PROVE FALSE
  OBVIOUS
<1>1. PICK n \in Nat \ T : \A m \in Nat \ T : n <= m
  BY Least
<1>2. n # 0 /\ n - 1 \in Nat
  BY <1>1
<1>3. n - 1 \in T
  BY <1>1, <1>2
<1> QED
  BY <1>1, <1>3

\* A function on S for each of n steps, and what goes from c through these steps.
Steps(step, S, n) == step \in [1 .. n -> [S -> S]]

Iterates(g, c, n, step) == g[0] = c /\ \A i \in 1 .. n : g[i] = step[i][g[i - 1]]

\* There is such a thing.
LEMMA Iteration ==
    ASSUME NEW S, NEW c \in S, NEW n \in Nat, NEW step, Steps(step, S, n)
    PROVE  \E g \in [0 .. n -> S] : Iterates(g, c, n, step)
<1> DEFINE T == {m \in Nat : m <= n => \E g \in [0 .. m -> S] : Iterates(g, c, m, step)}
<1>1. 0 \in T
  <2>1. [i \in 0 .. 0 |-> c] \in [0 .. 0 -> S] /\ Iterates([i \in 0 .. 0 |-> c], c, 0, step)
    BY DEF Iterates
  <2> QED
    BY <2>1
<1>2. ASSUME NEW m \in Nat, m \in T, m + 1 <= n
      PROVE  \E g \in [0 .. m + 1 -> S] : Iterates(g, c, m + 1, step)
  <2>1. PICK g \in [0 .. m -> S] : Iterates(g, c, m, step)
    BY <1>2
  <2> DEFINE h == [i \in 0 .. m + 1 |-> IF i = m + 1 THEN step[i][g[m]] ELSE g[i]]
  <2>2. step[m + 1][g[m]] \in S
    BY <1>2, m + 1 \in 1 .. n, g[m] \in S DEF Steps
  <2>3. h \in [0 .. m + 1 -> S]
    BY <2>2
  <2>4. \A i \in 0 .. m : h[i] = g[i]
    OBVIOUS
  <2>5. h[0] = c
    BY <2>1, <2>4 DEF Iterates
  <2>6. ASSUME NEW i \in 1 .. m + 1 PROVE h[i] = step[i][h[i - 1]]
    <3>1. CASE i = m + 1
      BY <2>4, <3>1
    <3>2. CASE i # m + 1
      <4>1. g[i] = step[i][g[i - 1]]
        BY <2>1, <3>2 DEF Iterates
      <4> QED
        BY <3>2, <4>1, <2>4
    <3> QED
      BY <3>1, <3>2
  <2> HIDE DEF h
  <2> QED
    BY <2>3, <2>5, <2>6 DEF Iterates
<1>3. \A m \in T : m + 1 \in T
  BY <1>2
<1>4. n \in T
  <2>1. T \in SUBSET Nat
    OBVIOUS
  <2> HIDE DEF T
  <2> QED
    BY <1>1, <1>3, <2>1, Inductive
<1> QED
  BY <1>4

\* What every step keeps holds all the way.
LEMMA Along ==
    ASSUME NEW S, NEW n \in Nat, NEW g, g[0] \in S,
           \A j \in 1 .. n : g[j - 1] \in S => g[j] \in S, NEW i \in 0 .. n
    PROVE  g[i] \in S
<1> DEFINE T == {m \in Nat : m <= n => g[m] \in S}
<1>1. 0 \in T
  OBVIOUS
<1>2. ASSUME NEW m \in Nat, m + 1 <= n, g[m] \in S PROVE g[m + 1] \in S
  BY <1>2, m + 1 \in 1 .. n, m + 1 - 1 = m
<1>3. \A m \in T : m + 1 \in T
  BY <1>2
<1>4. i \in T
  <2>1. T \in SUBSET Nat
    OBVIOUS
  <2> HIDE DEF T
  <2> QED
    BY <1>1, <1>3, <2>1, Inductive
<1> QED
  BY <1>4

\* The same for a set of the indices.
LEMMA Climb ==
    ASSUME NEW n \in Nat, NEW T, 0 \in T, \A j \in 1 .. n : j - 1 \in T => j \in T, NEW i \in 0 .. n
    PROVE  i \in T
<1> DEFINE g == [j \in 0 .. n |-> j]
<1>1. \A j \in 0 .. n : g[j] = j
  OBVIOUS
<1> HIDE DEF g
<1>2. g[0] \in T /\ \A j \in 1 .. n : g[j - 1] \in T => g[j] \in T
  <2>1. \A j \in 1 .. n : j \in 0 .. n /\ j - 1 \in 0 .. n
    OBVIOUS
  <2>2. 0 \in 0 .. n
    OBVIOUS
  <2> QED
    BY <1>1, <2>1, <2>2
<1>3. g[i] \in T
  BY <1>2, Along
<1> QED
  BY <1>1, <1>3

\* Downwards from n: what holds of an index when it holds of all behind it.
LEMMA Downward ==
    ASSUME NEW n \in Nat, NEW T, n \in T,
           \A i \in 1 .. n - 1 : (\A j \in i + 1 .. n : j \in T) => i \in T, NEW m \in 1 .. n
    PROVE  m \in T
<1> DEFINE U == {u \in 0 .. n - 1 : n - u \notin T}
<1> SUFFICES ASSUME m \notin T PROVE FALSE
  OBVIOUS
<1>0. U # {}
  <2>1. n - m \in 0 .. n - 1 /\ n - (n - m) = m
    OBVIOUS
  <2>2. n - m \in U
    BY <2>1
  <2> QED
    BY <2>2
<1>1. PICK u \in U : \A v \in U : u <= v
  <2>1. U \in SUBSET Nat
    OBVIOUS
  <2> HIDE DEF U
  <2> QED
    BY <1>0, <2>1, Least
<1>2. u \in 0 .. n - 1 /\ n - u \notin T
  OBVIOUS
<1>3. n - u \in 1 .. n - 1
  BY <1>2
<1>4. ASSUME NEW j \in n - u + 1 .. n PROVE j \in T
  <2>1. n - j \in 0 .. n - 1 /\ n - (n - j) = j /\ ~ (u <= n - j)
    BY <1>2
  <2>2. n - j \notin U
    <3> HIDE DEF U
    <3> QED
      BY <1>1, <2>1
  <2> QED
    BY <2>1, <2>2
<1> QED
  BY <1>2, <1>3, <1>4

\* A later index for each before n, and a function on V; what is b at n, and before it
\* comes from its value at the later index.
LaterIndex(next, n) == next \in [1 .. n - 1 -> 1 .. n] /\ \A i \in 1 .. n - 1 : i < next[i]

Maps(op, V, n) == op \in [1 .. n - 1 -> [V -> V]]

Descends(f, b, n, next, op) == f[n] = b /\ \A i \in 1 .. n - 1 : f[i] = op[i][f[next[i]]]

\* There is such a thing.
LEMMA Descent ==
    ASSUME NEW n \in Nat \ {0}, NEW V, NEW b \in V, NEW next, LaterIndex(next, n), NEW op, Maps(op, V, n)
    PROVE  \E f \in [1 .. n -> V] : Descends(f, b, n, next, op)
<1> DEFINE From(f, m) == f[n] = b /\ \A i \in n - m .. n - 1 : f[i] = op[i][f[next[i]]]
           T == {m \in Nat : m <= n - 1 => \E f \in [1 .. n -> V] : From(f, m)}
<1>1. 0 \in T
  <2>1. [i \in 1 .. n |-> b] \in [1 .. n -> V] /\ From([i \in 1 .. n |-> b], 0)
    OBVIOUS
  <2> QED
    BY <2>1
<1>2. ASSUME NEW m \in Nat, m \in T, m + 1 <= n - 1
      PROVE  \E f \in [1 .. n -> V] : From(f, m + 1)
  <2>1. PICK f \in [1 .. n -> V] : From(f, m)
    BY <1>2
  <2> DEFINE p == n - (m + 1)
             v == op[p][f[next[p]]]
             g == [f EXCEPT ![p] = v]
  <2>2. p \in 1 .. n - 1 /\ next[p] \in 1 .. n /\ p < next[p]
    BY <1>2 DEF LaterIndex
  <2>3. v \in V
    BY <2>2 DEF Maps
  <2>4. g \in [1 .. n -> V] /\ g[p] = v /\ \A i \in 1 .. n : i # p => g[i] = f[i]
    BY <2>2, <2>3
  <2>5. p \in Int /\ n # p /\ n \in 1 .. n
    BY <2>2
  <2>6. g[n] = b
    BY <2>1, <2>4, <2>5
  <2>7. ASSUME NEW i \in p .. n - 1 PROVE g[i] = op[i][g[next[i]]]
    <3>1. i \in 1 .. n - 1 /\ next[i] \in 1 .. n /\ next[i] # p /\ i < next[i]
      BY <2>2 DEF LaterIndex
    <3>2. g[next[i]] = f[next[i]]
      BY <2>4, <3>1
    <3>3. CASE i = p
      BY <2>4, <3>2, <3>3
    <3>4. CASE i # p
      <4>1. i \in n - m .. n - 1
        BY <2>2, <3>4
      <4>2. f[i] = op[i][f[next[i]]]
        BY <2>1, <4>1
      <4>3. g[i] = f[i]
        BY <2>4, <3>1, <3>4
      <4> QED
        BY <3>2, <4>2, <4>3
    <3> QED
      BY <3>3, <3>4
  <2> HIDE DEF g, v
  <2> QED
    BY <2>4, <2>6, <2>7
<1>3. ASSUME NEW m \in T PROVE m + 1 \in T
  <2>1. m + 1 <= n - 1 => \E f \in [1 .. n -> V] : From(f, m + 1)
    BY <1>2
  <2> HIDE DEF From
  <2> QED
    BY <2>1
<1>4. n - 1 \in T
  <2>1. T \in SUBSET Nat
    OBVIOUS
  <2>2. n - 1 \in Nat
    OBVIOUS
  <2> HIDE DEF T
  <2>3. T = Nat
    BY <1>1, <1>3, <2>1, Inductive
  <2> QED
    BY <2>2, <2>3
<1>5. PICK f \in [1 .. n -> V] : From(f, n - 1)
  BY <1>4
<1> QED
  BY <1>5 DEF Descends

\* What FlattenSeq computes, one more of the sequences at a time.
LEMMA FlattenIs ==
    ASSUME NEW A, NEW seqs \in Seq(Seq(A))
    PROVE  \E g \in [0 .. Len(seqs) -> Seq(A)] :
              /\ g[0] = << >>
              /\ \A i \in 1 .. Len(seqs) : g[i] = g[i - 1] \o seqs[i]
              /\ FlattenSeq(seqs) = g[Len(seqs)]
<1> DEFINE n == Len(seqs)
           S == Seq(A)
           step == [i \in 1 .. n |-> [v \in S |-> v \o seqs[i]]]
<1>1. n \in Nat /\ \A i \in 1 .. n : seqs[i] \in S
  OBVIOUS
<1>2. \A i \in 1 .. n, v \in S : step[i][v] = v \o seqs[i]
  OBVIOUS
<1>3. Steps(step, S, n)
  <2>1. ASSUME NEW i \in 1 .. n, NEW v \in S PROVE v \o seqs[i] \in S
    BY <1>1
  <2> QED
    BY <2>1 DEF Steps
<1>4. << >> \in S
  OBVIOUS
<1> HIDE DEF step, S
<1>5. PICK g \in [0 .. n -> S] : Iterates(g, << >>, n, step)
  BY <1>1, <1>3, <1>4, Iteration
<1>6. ASSUME NEW i \in 1 .. n PROVE g[i] = g[i - 1] \o seqs[i]
  <2>1. i - 1 \in 0 .. n
    BY <1>1
  <2>2. g[i - 1] \in S
    BY <1>5, <2>1
  <2> QED
    BY <1>2, <1>5, <2>2 DEF Iterates
<1>7. g[0] = << >>
  BY <1>5 DEF Iterates
<1>8. g \in [0 .. Len(seqs) -> Seq(A)] /\ g[0] = << >> /\ \A i \in 1 .. Len(seqs) : g[i] = g[i - 1] \o seqs[i]
  BY <1>5, <1>6, <1>7 DEF S, n
<1> HIDE DEF n
<1>9. ASSUME NEW i \in 1 .. n PROVE g[i] = IF i = 1 THEN seqs[i] ELSE g[i - 1] \o seqs[i]
  <2>1. CASE i = 1
    <3>1. seqs[1] \in Seq(A)
      BY <1>1, <2>1 DEF S
    <3>2. g[1] = g[1 - 1] \o seqs[1]
      BY <1>6, <2>1
    <3>3. 1 - 1 = 0 /\ << >> \o seqs[1] = seqs[1]
      BY <3>1
    <3>4. g[1] = seqs[1]
      BY <1>7, <3>2, <3>3
    <3> QED
      BY <2>1, <3>4
  <2>2. CASE i # 1
    BY <1>6, <2>2
  <2> QED
    BY <2>1, <2>2
<1>10. CASE n = 0
  <2>1. seqs = << >>
    BY <1>10 DEF n
  <2>2. FlattenSeq(seqs) = seqs
    BY <1>10 DEF FlattenSeq, n
  <2> QED
    BY <1>7, <1>8, <1>10, <2>1, <2>2 DEF n
<1>11. CASE n # 0
  <2> DEFINE F(f) == [i \in 1 .. n |-> IF i = 1 THEN seqs[i] ELSE f[i - 1] \o seqs[i]]
             fl == CHOOSE f : f = F(f)
             h == [i \in 1 .. n |-> g[i]]
  <2>1. ASSUME NEW i \in 1 .. n PROVE h[i] = IF i = 1 THEN seqs[i] ELSE h[i - 1] \o seqs[i]
    <3>1. CASE i = 1
      BY <1>9, <3>1
    <3>2. CASE i # 1
      <4>1. i - 1 \in 1 .. n
        BY <1>1, <3>2
      <4>2. h[i] = g[i] /\ h[i - 1] = g[i - 1]
        BY <4>1
      <4> HIDE DEF h
      <4> QED
        BY <1>9, <3>2, <4>2
    <3> QED
      BY <3>1, <3>2
  <2>2. h = [i \in 1 .. n |-> h[i]]
    OBVIOUS
  <2> HIDE DEF h
  <2>3. [i \in 1 .. n |-> h[i]] = F(h)
    BY <2>1
  <2>4. h = F(h)
    BY <2>2, <2>3, Zenon
  <2>5. fl = F(fl)
    BY <2>4
  <2>6. FlattenSeq(seqs) = fl[n]
    BY <1>11 DEF FlattenSeq, n
  <2> HIDE DEF fl
  <2>7. \A i \in 1 .. n : fl[i] = IF i = 1 THEN seqs[i] ELSE fl[i - 1] \o seqs[i]
    BY <2>5
  <2>8. fl[n] = g[n]
    <3> DEFINE T == {i \in 1 .. n : fl[i] # g[i]}
    <3>1. CASE T = {}
      <4>1. n \in 1 .. n
        BY <1>1, <1>11
      <4> QED
        BY <3>1, <4>1
    <3>2. CASE T # {}
      <4>1. PICK i \in T : \A j \in T : i <= j
        <5>1. T \subseteq Nat
          BY <1>1
        <5> HIDE DEF T
        <5> QED
          BY <3>2, <5>1, Least
      <4>2. i \in 1 .. n /\ fl[i] # g[i]
        OBVIOUS
      <4>3. i # 1
        BY <1>9, <2>7, <4>2
      <4>4. i - 1 \in 1 .. n /\ ~ (i <= i - 1)
        BY <1>1, <4>2, <4>3
      <4>5. i - 1 \notin T
        <5> HIDE DEF T
        <5> QED
          BY <4>1, <4>4
      <4>6. fl[i - 1] = g[i - 1]
        BY <4>4, <4>5
      <4> HIDE DEF T
      <4> QED
        BY <1>9, <2>7, <4>2, <4>3, <4>6
    <3> QED
      BY <3>1, <3>2
  <2> QED
    BY <1>8, <2>6, <2>8 DEF n
<1> QED
  BY <1>10, <1>11

\* b begins with a.
Begins(a, b) == Len(a) <= Len(b) /\ \A j \in 1 .. Len(a) : b[j] = a[j]

Grows(g, seqs, n) == \A i \in 1 .. n : g[i] = g[i - 1] \o seqs[i]

\* What grows by appending keeps its front.
LEMMA Fronts ==
    ASSUME NEW A, NEW n \in Nat, NEW g \in [0 .. n -> Seq(A)], NEW seqs \in [1 .. n -> Seq(A)],
           Grows(g, seqs, n), NEW i \in 0 .. n
    PROVE  Begins(g[i], g[n])
<1> DEFINE S == {b \in Seq(A) : Begins(g[i], b)}
           h == [m \in 0 .. n - i |-> g[i + m]]
<1>1. g[i] \in Seq(A) /\ n - i \in Nat /\ n - i \in 0 .. n - i
  OBVIOUS
<1>2. h[0] \in S
  BY DEF Begins
<1>3. ASSUME NEW m \in 1 .. n - i, h[m - 1] \in S PROVE h[m] \in S
  <2> DEFINE b == g[i + m - 1]
             s == seqs[i + m]
             c == g[i + m]
  <2>1. i + m \in 1 .. n /\ i + m - 1 \in 0 .. n /\ i + (m - 1) = i + m - 1 /\ m \in 0 .. n - i
        /\ m - 1 \in 0 .. n - i
    OBVIOUS
  <2>2. b \in Seq(A) /\ s \in Seq(A) /\ c = b \o s
    BY <2>1 DEF Grows
  <2>3. h[m - 1] = b /\ h[m] = c
    BY <2>1
  <2>4. Begins(g[i], b)
    BY <1>3, <2>3
  <2> HIDE DEF b, s, c, h
  <2>5. c \in Seq(A) /\ Len(c) = Len(b) + Len(s) /\ \A l \in 1 .. Len(b) : c[l] = b[l]
    BY <2>2
  <2>6. Begins(g[i], c)
    <3> DEFINE a == g[i]
    <3>1. Len(a) \in Nat /\ Len(b) \in Nat /\ Len(s) \in Nat
      BY <1>1, <2>2
    <3>2. Len(a) <= Len(b) /\ \A l \in 1 .. Len(a) : b[l] = a[l]
      BY <2>4 DEF Begins
    <3> HIDE DEF a
    <3>3. Begins(a, c)
      BY <2>5, <3>1, <3>2 DEF Begins
    <3> QED
      BY <3>3 DEF a
  <2> QED
    BY <2>3, <2>5, <2>6
<1> HIDE DEF S, h
<1>4. h[n - i] \in S
  BY <1>1, <1>2, <1>3, Along
<1>5. h[n - i] = g[n]
  BY <1>1 DEF h
<1> QED
  BY <1>4, <1>5 DEF S
=============================================================================
