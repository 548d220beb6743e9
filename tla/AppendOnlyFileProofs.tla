----------------------- MODULE AppendOnlyFileProofs -----------------------
(***************************************************************************)
(* What the append-only file holds and what a start makes of it, for all   *)
(* commands, however many of them and however often something goes wrong.  *)
(***************************************************************************)
EXTENDS AppendOnlyFile, DecoderProofs

-----------------------------------------------------------------------------
(* Replay skips what has no name.                                          *)

CommandSeqs == Seq(Seq(Seq(STRING)))

NamedNext(cmds, i, v) == IF cmds[i][1] = << >> THEN v ELSE Append(v, cmds[i])

LEMMA NamedIs ==
    ASSUME NEW cmds \in CommandSeqs
    PROVE  /\ Named(cmds)[0] = << >>
           /\ \A i \in 1 .. Len(cmds) : Named(cmds)[i] = NamedNext(cmds, i, Named(cmds)[i - 1])
           /\ \A i \in 0 .. Len(cmds) : Named(cmds)[i] \in CommandSeqs
<1> DEFINE n == Len(cmds)
           step == [i \in 1 .. n |-> [v \in CommandSeqs |-> NamedNext(cmds, i, v)]]
           F(f) == [i \in 0 .. n |-> IF i = 0 THEN << >> ELSE NamedNext(cmds, i, f[i - 1])]
           v == Named(cmds)
<1>1. n \in Nat /\ << >> \in CommandSeqs
  BY DEF CommandSeqs
<1>2. \A i \in 1 .. n, w \in CommandSeqs : NamedNext(cmds, i, w) \in CommandSeqs
  <2> SUFFICES ASSUME NEW i \in 1 .. n, NEW w \in CommandSeqs
               PROVE  NamedNext(cmds, i, w) \in CommandSeqs
    OBVIOUS
  <2>1. cmds[i] \in Seq(Seq(STRING))
    BY DEF CommandSeqs
  <2>2. Append(w, cmds[i]) \in CommandSeqs
    BY <2>1 DEF CommandSeqs
  <2> QED
    BY <2>2, Zenon DEF NamedNext
<1>3. Steps(step, CommandSeqs, n)
  BY <1>2 DEF Steps
<1>4. v = CHOOSE f : f = F(f)
  BY DEF Named, NamedNext
<1>5. \A i \in 1 .. n, w \in CommandSeqs : step[i][w] = NamedNext(cmds, i, w)
  OBVIOUS
<1> HIDE DEF n, step, v
<1>6. PICK g \in [0 .. n -> CommandSeqs] : Iterates(g, << >>, n, step)
  BY <1>1, <1>3, Iteration
<1>7. g[0] = << >> /\ \A i \in 1 .. n : g[i] = NamedNext(cmds, i, g[i - 1])
  BY <1>1, <1>5, <1>6 DEF Iterates
<1>8. g = F(g)
  <2>1. \A i \in 0 .. n : g[i] = IF i = 0 THEN << >> ELSE NamedNext(cmds, i, g[i - 1])
    BY <1>1, <1>7
  <2>2. g = [i \in 0 .. n |-> g[i]]
    OBVIOUS
  <2>3. [i \in 0 .. n |-> g[i]] = F(g)
    BY <2>1
  <2> QED
    BY <2>2, <2>3, Zenon
<1>9. v = F(v)
  BY <1>4, <1>8
<1>10. v[0] = << >> /\ \A i \in 1 .. n : v[i] = NamedNext(cmds, i, v[i - 1])
  BY <1>1, <1>9
<1>11. ASSUME NEW i \in 0 .. n PROVE v[i] \in CommandSeqs
  <2>1. v[0] \in CommandSeqs /\ \A j \in 1 .. n : v[j - 1] \in CommandSeqs => v[j] \in CommandSeqs
    BY <1>1, <1>2, <1>10
  <2> QED
    BY <1>1, <2>1, Along
<1> QED
  BY <1>10, <1>11 DEF n, v

\* Nothing is skipped of commands that all have names, and what follows them is
\* called behind them.
LEMMA CalledIs ==
    ASSUME NEW a \in CommandSeqs, NEW b \in CommandSeqs, \A j \in 1 .. Len(a) : a[j][1] # << >>
    PROVE  IsPrefix(a, Called(a \o b)) /\ (b = << >> => Called(a \o b) = a)
<1> DEFINE cmds == a \o b
           f == Named(cmds)
           m == Len(a)
           n == Len(cmds)
<1>1. /\ cmds \in CommandSeqs /\ m \in Nat /\ n \in Nat /\ m <= n
      /\ \A j \in 1 .. m : cmds[j] = a[j]
      /\ b = << >> => n = m
  BY DEF CommandSeqs
<1>2. /\ f[0] = << >> /\ \A i \in 1 .. n : f[i] = NamedNext(cmds, i, f[i - 1])
      /\ \A i \in 0 .. n : f[i] \in CommandSeqs
  BY <1>1, NamedIs
<1>3. \A j \in 1 .. m : cmds[j] = a[j] /\ cmds[j][1] # << >> /\ a[j] \in Seq(Seq(STRING))
  BY <1>1 DEF CommandSeqs
<1> HIDE DEF cmds, f, n
<1> DEFINE T == {i \in Nat : i <= m => f[i] = SubSeq(a, 1, i)}
<1>4. 0 \in T
  <2>1. SubSeq(a, 1, 0) = << >>
    BY DEF CommandSeqs
  <2> QED
    BY <1>2, <2>1
<1>5. ASSUME NEW i \in T PROVE i + 1 \in T
  <2> SUFFICES ASSUME i + 1 <= m PROVE f[i + 1] = SubSeq(a, 1, i + 1)
    OBVIOUS
  <2>1. i \in Nat /\ i + 1 \in 1 .. m /\ i + 1 \in 1 .. n /\ (i + 1) - 1 = i /\ i <= m
    BY <1>1
  <2>2. f[i] = SubSeq(a, 1, i)
    BY <2>1
  <2>3. f[i + 1] = NamedNext(cmds, i + 1, f[i])
    BY <1>2, <2>1
  <2>4. f[i + 1] = Append(SubSeq(a, 1, i), a[i + 1])
    BY <1>3, <2>1, <2>2, <2>3, Zenon DEF NamedNext
  <2>5. Append(SubSeq(a, 1, i), a[i + 1]) = SubSeq(a, 1, i + 1)
    BY <2>1 DEF CommandSeqs
  <2> QED
    BY <2>4, <2>5
<1>6. T = Nat
  <2>1. T \subseteq Nat
    OBVIOUS
  <2> HIDE DEF T
  <2> QED
    BY <1>4, <1>5, <2>1, Inductive
<1>7. f[m] = a
  <2>1. SubSeq(a, 1, m) = a
    BY DEF CommandSeqs
  <2> HIDE DEF m
  <2>2. m \in T
    BY <1>1, <1>6
  <2>3. f[m] = SubSeq(a, 1, m)
    BY <1>1, <2>2
  <2> QED
    BY <2>1, <2>3
<1> DEFINE U == {i \in Nat : m + i <= n => Begins(a, f[m + i])}
<1> HIDE DEF m
<1>8. 0 \in U
  <2>1. Begins(a, a)
    <3>1. Len(a) \in Nat
      BY DEF CommandSeqs
    <3> QED
      BY <3>1 DEF Begins
  <2> QED
    BY <1>1, <1>7, <2>1
<1>9. ASSUME NEW i \in U PROVE i + 1 \in U
  <2> SUFFICES ASSUME m + (i + 1) <= n PROVE Begins(a, f[m + (i + 1)])
    OBVIOUS
  <2> DEFINE l == m + (i + 1)
  <2>1. l \in 1 .. n /\ l - 1 = m + i /\ m + i <= n /\ m + i \in 0 .. n
    BY <1>1
  <2>2. Begins(a, f[m + i])
    BY <2>1
  <2> HIDE DEF l
  <2>3. f[l] = NamedNext(cmds, l, f[m + i]) /\ f[m + i] \in CommandSeqs /\ cmds[l] \in Seq(Seq(STRING))
    <3>1. f[l] = NamedNext(cmds, l, f[l - 1]) /\ f[m + i] \in CommandSeqs
      BY <1>2, <2>1
    <3>2. cmds[l] \in Seq(Seq(STRING))
      BY <1>1, <2>1 DEF CommandSeqs, n
    <3> QED
      BY <2>1, <3>1, <3>2
  <2> DEFINE s == f[m + i]
             t == f[l]
  <2>4. Len(a) \in Nat
    BY DEF CommandSeqs
  <2> HIDE DEF s, t
  <2>5. Begins(a, t)
    <3>1. CASE t = s
      BY <2>2, <3>1 DEF s
    <3>2. CASE t = Append(s, cmds[l])
      <4>1. Len(t) = Len(s) + 1 /\ Len(s) \in Nat /\ \A j \in 1 .. Len(s) : t[j] = s[j]
        BY <2>3, <3>2 DEF CommandSeqs, s
      <4>2. Len(a) <= Len(s) /\ \A j \in 1 .. Len(a) : s[j] = a[j]
        BY <2>2 DEF Begins, s
      <4> QED
        BY <2>4, <4>1, <4>2 DEF Begins
    <3> QED
      BY <2>3, <3>1, <3>2, Zenon DEF NamedNext, s, t
  <2> QED
    BY <2>5 DEF t, l
<1>10. U = Nat
  <2>1. U \subseteq Nat
    OBVIOUS
  <2> HIDE DEF U
  <2> QED
    BY <1>8, <1>9, <2>1, Inductive
<1>11. Begins(a, f[n])
  <2>1. n - m \in Nat /\ m + (n - m) = n
    BY <1>1
  <2>2. n - m \in U
    <3> HIDE DEF U
    <3> QED
      BY <1>10, <2>1
  <2> QED
    BY <1>1, <2>1, <2>2
<1>12. Called(cmds) = f[n]
  BY DEF Called, f, n
<1>13. IsPrefix(a, f[n])
  <2> DEFINE s == f[n]
  <2>1. s \in CommandSeqs
    BY <1>1, <1>2
  <2>2. Len(a) <= Len(s) /\ \A j \in 1 .. Len(a) : s[j] = a[j]
    BY <1>11 DEF Begins
  <2> HIDE DEF s
  <2>3. SubSeq(a, 1, Len(a)) = SubSeq(s, 1, Len(a))
    <3> DEFINE l == Len(a)
    <3>1. l \in Nat /\ SubSeq(a, 1, l) = [j \in 1 .. l |-> a[j]]
      BY DEF CommandSeqs
    <3>2. \A j \in 1 .. l : s[j] = a[j]
      BY <2>2
    <3> HIDE DEF l
    <3>3. SubSeq(s, 1, l) = [j \in 1 .. l |-> s[j]]
      BY <2>1, <3>1 DEF CommandSeqs
    <3> QED
      BY <3>1, <3>2, <3>3 DEF l
  <2>4. IsPrefix(a, s)
    BY <2>2, <2>3 DEF IsPrefix
  <2> QED
    BY <2>4 DEF s
<1> QED
  BY <1>1, <1>7, <1>12, <1>13 DEF cmds

-----------------------------------------------------------------------------
(* The inductive invariant.                                                *)

\* Nothing, or the beginning of a command.
Piece(rest) ==
    \/ rest = << >>
    \/ \E cmd \in Commands : \E n \in 1 .. Len(Encode(cmd)) - 1 : rest = SubSeq(Encode(cmd), 1, n)

\* The file holds the intact commands, and behind them rest.
Holds(rest) ==
    /\ rest \in Seq(STRING)
    /\ file = Text(intact) \o rest
    /\ ~ torn => rest = << >>
    /\ ~ behind => Piece(rest)

\* The file is what the history of the model says it is.
FileInv ==
    /\ intact \in Seq(Commands)
    /\ torn \in BOOLEAN /\ behind \in BOOLEAN /\ (behind => torn)
    /\ \E rest : Holds(rest)

\* While nothing has gone wrong.
GoodInv == faults = 0 => intact = acked /\ pending = Null /\ ~ torn

AofInv ==
    /\ FileInv
    /\ GoodInv
    /\ up \in BOOLEAN /\ faults \in Nat
    /\ acked \in Seq(Commands)
    /\ pending \in Commands \cup {Null} /\ (pending # Null => up)

LEMMA CommandsSpoken ==
    /\ Commands \subseteq Spoken
    /\ \A cmds \in Seq(Commands) : cmds \in Seq(Spoken) /\ \A j \in 1 .. Len(cmds) : cmds[j][1] # << >>
<1>1. Commands \subseteq Spoken
  BY CommandsAssumption DEF Spoken
<1>2. ASSUME NEW cmds \in Seq(Commands)
      PROVE  cmds \in Seq(Spoken) /\ \A j \in 1 .. Len(cmds) : cmds[j][1] # << >>
  <2>1. \A j \in 1 .. Len(cmds) : cmds[j] \in Commands
    OBVIOUS
  <2>2. cmds \in Seq(Spoken)
    BY <1>1, <2>1
  <2> QED
    BY <2>1, <2>2, CommandsAssumption
<1> QED
  BY <1>1, <1>2

LEMMA NothingMore ==
    ASSUME NEW a \in Seq(STRING)
    PROVE  a \o << >> = a
OBVIOUS

Regroups(a, b, c) == (a \o b) \o c = a \o (b \o c) /\ b \o c \in Seq(STRING)

LEMMA Regrouped ==
    ASSUME NEW a \in Seq(STRING), NEW b \in Seq(STRING), NEW c \in Seq(STRING)
    PROVE  Regroups(a, b, c)
BY DEF Regroups

LEMMA WrittenIs ==
    ASSUME NEW cmd \in Commands
    PROVE  /\ Encode(cmd) \in Seq(STRING) /\ Len(Encode(cmd)) \in Nat \ {0}
           /\ \A n \in 0 .. Len(Encode(cmd)) :
                 /\ SubSeq(Encode(cmd), 1, n) \in Seq(STRING) /\ n \in Nat
                 /\ n = Len(Encode(cmd)) => SubSeq(Encode(cmd), 1, n) = Encode(cmd)
                 /\ n = 0 => SubSeq(Encode(cmd), 1, n) = << >>
                 /\ n # Len(Encode(cmd)) => Piece(SubSeq(Encode(cmd), 1, n))
<1> DEFINE e == Encode(cmd)
<1>1. e \in Seq(STRING) /\ Len(e) \in Nat \ {0}
  BY CommandsSpoken, SpokenIs
<1> HIDE DEF e
<1>2. ASSUME NEW n \in 0 .. Len(e)
      PROVE  /\ SubSeq(e, 1, n) \in Seq(STRING) /\ n \in Nat
             /\ n = Len(e) => SubSeq(e, 1, n) = e
             /\ n = 0 => SubSeq(e, 1, n) = << >>
  BY <1>1
<1>3. ASSUME NEW n \in 0 .. Len(e), n # Len(e) PROVE Piece(SubSeq(e, 1, n))
  <2>1. n = 0 \/ n \in 1 .. Len(e) - 1
    BY <1>1, <1>3
  <2> QED
    BY <1>2, <2>1 DEF Piece, e
<1> QED
  BY <1>1, <1>2, <1>3 DEF e

\* Whatever part of a command is written.
LEMMA WrittenKeeps ==
    ASSUME FileInv, NEW cmd \in Commands, NEW n \in 0 .. Len(Encode(cmd)), Written(cmd, n)
    PROVE  /\ FileInv'
           /\ ~ torn /\ n = Len(Encode(cmd)) => intact' = Append(intact, cmd) /\ ~ torn'
<1> DEFINE e == Encode(cmd)
           w == SubSeq(e, 1, n)
<1>1. /\ e \in Seq(STRING) /\ Len(e) \in Nat \ {0} /\ w \in Seq(STRING) /\ n \in Nat
      /\ n = Len(e) => w = e
      /\ n = 0 => w = << >>
      /\ n # Len(e) => Piece(w)
  BY WrittenIs
<1>2. /\ file' = file \o w
      /\ intact' = IF ~ torn /\ n = Len(e) THEN Append(intact, cmd) ELSE intact
      /\ torn' = (torn \/ (~ (n = Len(e)) /\ n > 0))
      /\ behind' = (behind \/ (torn /\ n > 0))
  BY DEF Written
<1>3. PICK rest : Holds(rest)
  BY DEF FileInv
<1>4. intact \in Seq(Commands) /\ torn \in BOOLEAN /\ behind \in BOOLEAN /\ (behind => torn)
  BY DEF FileInv
<1>5. intact \in Seq(Spoken) /\ cmd \in Spoken /\ Text(intact) \in Seq(STRING)
  <2>1. intact \in Seq(Spoken) /\ cmd \in Spoken
    BY <1>4, CommandsSpoken
  <2> QED
    BY <2>1, RoundTrip
<1>6. Piece(w) = Piece(w)'
  BY DEF Piece, w, e
<1> HIDE DEF e, w
<1>7. /\ intact' \in Seq(Commands) /\ torn' \in BOOLEAN /\ behind' \in BOOLEAN /\ (behind' => torn')
  <2>1. intact' \in Seq(Commands)
    BY <1>2, <1>4
  <2> QED
    BY <1>2, <1>4, <2>1
<1>8. CASE ~ torn /\ n = Len(e)
  <2>1. rest = << >> /\ file = Text(intact) \o << >>
    BY <1>3, <1>8 DEF Holds
  <2>2. file = Text(intact)
    BY <1>5, <2>1, NothingMore
  <2>3. Text(intact') = Text(intact) \o e /\ intact' = Append(intact, cmd)
    BY <1>2, <1>5, <1>8, TextMore DEF e
  <2>4. file' = Text(intact')
    BY <1>1, <1>2, <1>8, <2>2, <2>3
  <2>5. Text(intact') \in Seq(STRING) /\ << >> \in Seq(STRING)
    BY <1>1, <1>5, <2>3
  <2>6. file' = Text(intact') \o << >>
    BY <2>4, <2>5, NothingMore
  <2>7. ~ torn' /\ ~ behind'
    BY <1>2, <1>4, <1>8
  <2>8. Holds(<< >>)'
    BY <2>5, <2>6 DEF Holds, Piece
  <2> QED
    BY <1>7, <2>3, <2>7, <2>8 DEF FileInv, e
<1>9. CASE ~ torn /\ n # Len(e)
  <2>1. rest = << >> /\ file = Text(intact) \o << >>
    BY <1>3, <1>9 DEF Holds
  <2>2. file = Text(intact)
    BY <1>5, <2>1, NothingMore
  <2>3. intact' = intact /\ file' = Text(intact') \o w
    BY <1>2, <1>9, <2>2
  <2>4. ~ torn' => w = << >>
    <3> SUFFICES ASSUME ~ torn' PROVE w = << >>
      OBVIOUS
    <3>1. ~ (n > 0)
      BY <1>2, <1>9, Zenon
    <3>2. n = 0
      BY <1>1, <3>1
    <3> QED
      BY <1>1, <3>2
  <2>5. Holds(w)'
    BY <1>1, <1>6, <1>9, <2>3, <2>4 DEF Holds
  <2> QED
    BY <1>7, <1>9, <2>5 DEF FileInv, e
<1>10. CASE torn
  <2>1. intact' = intact /\ torn'
    BY <1>2, <1>10
  <2>2. rest \in Seq(STRING) /\ file = Text(intact) \o rest /\ (~ behind => Piece(rest))
    BY <1>3 DEF Holds
  <2>3. PICK more : more = rest \o w
    OBVIOUS
  <2>4. file' = Text(intact') \o more /\ more \in Seq(STRING)
    <3>1. Regroups(Text(intact), rest, w)
      BY <1>1, <1>5, <2>2, Regrouped
    <3> QED
      BY <1>2, <2>1, <2>2, <2>3, <3>1, Zenon DEF Regroups
  <2>5. ~ behind' => Piece(more)
    <3> SUFFICES ASSUME ~ behind' PROVE Piece(more)
      OBVIOUS
    <3>1. n = 0 /\ ~ behind
      <4>1. ~ (n > 0) /\ ~ behind
        BY <1>2, <1>10, Zenon
      <4>2. n = 0
        BY <1>1, <4>1
      <4> QED
        BY <4>1, <4>2
    <3>2. rest \o w = rest
      BY <1>1, <2>2, <3>1, NothingMore
    <3> QED
      BY <2>2, <2>3, <3>1, <3>2
  <2>6. Holds(more)'
    BY <2>1, <2>4, <2>5 DEF Holds, Piece
  <2> QED
    BY <1>7, <1>10, <2>6 DEF FileInv, e
<1> QED
  BY <1>8, <1>9, <1>10 DEF e

-----------------------------------------------------------------------------
(* A power failure.                                                        *)

LEMMA KeptIs ==
    ASSUME NEW n \in Nat, intact \in Seq(Commands)
    PROVE  /\ Kept(n) = Cardinality(Complete(intact, n))
           /\ \A i \in 0 .. Len(intact) :
                 FlattenSeq([j \in 1 .. i |-> Encode(intact[j])]) = Text(SubSeq(intact, 1, i))
<1>1. ASSUME NEW i \in 0 .. Len(intact)
      PROVE  FlattenSeq([j \in 1 .. i |-> Encode(intact[j])]) = Text(SubSeq(intact, 1, i))
  <2> DEFINE s == SubSeq(intact, 1, i)
  <2>1. i \in Nat /\ Len(s) = i /\ \A j \in 1 .. i : s[j] = intact[j]
    OBVIOUS
  <2> HIDE DEF s
  <2>2. Encodings(s) = [j \in 1 .. i |-> Encode(intact[j])]
    BY <2>1 DEF Encodings
  <2> QED
    BY <2>2, Zenon DEF Text, s
<1>2. \A i \in 1 .. Len(intact) : i \in 0 .. Len(intact)
  OBVIOUS
<1>3. Kept(n) = Cardinality(Complete(intact, n))
  BY <1>1, <1>2 DEF Kept, Complete
<1> QED
  BY <1>1, <1>3

LEMMA PieceShorter ==
    ASSUME NEW rest \in Seq(STRING), Piece(rest), NEW k \in Nat, k <= Len(rest)
    PROVE  Piece(SubSeq(rest, 1, k))
<1>1. CASE k = 0
  <2>1. SubSeq(rest, 1, k) = << >>
    BY <1>1
  <2> QED
    BY <2>1 DEF Piece
<1>2. CASE k # 0
  <2>1. rest # << >>
    BY <1>2
  <2>2. PICK cmd \in Commands : \E n \in 1 .. Len(Encode(cmd)) - 1 : rest = SubSeq(Encode(cmd), 1, n)
    BY <2>1 DEF Piece
  <2> DEFINE e == Encode(cmd)
  <2>3. e \in Seq(STRING) /\ Len(e) \in Nat
    BY WrittenIs
  <2> HIDE DEF e
  <2>4. PICK n \in 1 .. Len(e) - 1 : rest = SubSeq(e, 1, n)
    BY <2>2 DEF e
  <2>5. Len(rest) = n /\ n \in Nat /\ n <= Len(e)
    BY <2>3, <2>4
  <2>6. SubSeq(rest, 1, k) = SubSeq(e, 1, k)
    BY <2>3, <2>4, <2>5
  <2>7. k \in 1 .. Len(e) - 1
    BY <1>2, <2>3, <2>4, <2>5
  <2> QED
    BY <2>6, <2>7 DEF Piece, e
<1> QED
  BY <1>1, <1>2

LEMMA PowerLossKeeps ==
    ASSUME FileInv, PowerLoss
    PROVE  FileInv'
<1>1. PICK n \in 0 .. Len(file) :
          LET rest == n - Len(FlattenSeq([j \in 1 .. Kept(n) |-> Encode(intact[j])]))
          IN  /\ file' = SubSeq(file, 1, n)
              /\ intact' = SubSeq(intact, 1, Kept(n))
              /\ torn' = (rest > 0)
              /\ behind' = (behind /\ rest > 0 /\ Kept(n) = Len(intact))
  BY DEF PowerLoss
<1>2. intact \in Seq(Commands) /\ torn \in BOOLEAN /\ behind \in BOOLEAN /\ (behind => torn)
  BY DEF FileInv
<1>3. PICK old : Holds(old)
  BY DEF FileInv
<1> DEFINE text == Text(intact)
           l == Len(text)
<1>4. intact \in Seq(Spoken) /\ text \in Seq(STRING) /\ l \in Nat /\ Len(intact) \in Nat
  <2>1. intact \in Seq(Spoken)
    BY <1>2, CommandsSpoken
  <2>2. text \in Seq(STRING)
    BY <2>1, RoundTrip
  <2> QED
    BY <1>2, <2>1, <2>2
<1> HIDE DEF text
<1>5. old \in Seq(STRING) /\ file = text \o old /\ (~ torn => old = << >>) /\ (~ behind => Piece(old))
  BY <1>3 DEF Holds, text
<1>6. Len(file) = l + Len(old) /\ Len(old) \in Nat /\ n \in Nat /\ n <= Len(file)
  <2>1. text \o old \in Seq(STRING) /\ Len(text \o old) = Len(text) + Len(old)
    BY <1>4, <1>5, Glue
  <2> QED
    BY <1>4, <1>5, <2>1
<1>7. SUFFICES \E m \in 0 .. Len(intact), rest \in Seq(STRING) :
                  /\ Kept(n) = m
                  /\ SubSeq(file, 1, n) = Text(SubSeq(intact, 1, m)) \o rest
                  /\ n - Len(Text(SubSeq(intact, 1, m))) = Len(rest)
                  /\ (behind /\ Len(rest) > 0 /\ m = Len(intact)) \/ Piece(rest)
  <2>1. PICK m \in 0 .. Len(intact), rest \in Seq(STRING) :
                  /\ Kept(n) = m
                  /\ SubSeq(file, 1, n) = Text(SubSeq(intact, 1, m)) \o rest
                  /\ n - Len(Text(SubSeq(intact, 1, m))) = Len(rest)
                  /\ (behind /\ Len(rest) > 0 /\ m = Len(intact)) \/ Piece(rest)
    BY <1>7
  <2>2. n - Len(FlattenSeq([j \in 1 .. Kept(n) |-> Encode(intact[j])])) = Len(rest)
    BY <1>2, <1>6, <2>1, KeptIs
  <2>3. /\ file' = SubSeq(file, 1, n) /\ intact' = SubSeq(intact, 1, m)
        /\ torn' = (Len(rest) > 0)
        /\ behind' = (behind /\ Len(rest) > 0 /\ m = Len(intact))
    BY <1>1, <2>1, <2>2, Zenon
  <2>4. intact' \in Seq(Commands)
    BY <1>2, <2>3
  <2>5. torn' \in BOOLEAN /\ behind' \in BOOLEAN /\ (behind' => torn')
    <3>1. torn' \in BOOLEAN
      <4>1. (Len(rest) > 0) \in BOOLEAN
        OBVIOUS
      <4> QED
        BY <2>3, <4>1, Zenon
    <3> QED
      BY <1>2, <2>3, <3>1, Zenon
  <2>6. ~ torn' => rest = << >>
    <3>1. ~ (Len(rest) > 0) => rest = << >>
      OBVIOUS
    <3> QED
      BY <2>3, <3>1, Zenon
  <2>7. ~ behind' => Piece(rest)
    BY <2>1, <2>3, Zenon
  <2>8. file' = Text(intact') \o rest
    BY <2>1, <2>3, Zenon
  <2>9. Holds(rest)'
    BY <2>6, <2>7, <2>8 DEF Holds, Piece
  <2> QED
    BY <2>4, <2>5, <2>9 DEF FileInv
<1>8. CASE n <= l
  <2>1. n \in 0 .. Len(Text(intact))
    BY <1>4, <1>6, <1>8 DEF text
  <2>2. PICK m \in 0 .. Len(intact), rest \in Seq(STRING) : CutOff(intact, n, m, rest)
    BY <1>4, <2>1, TextCut
  <2>3. Kept(n) = m
    BY <1>2, <1>6, <2>2, KeptIs DEF CutOff
  <2>4. SubSeq(file, 1, n) = SubSeq(text, 1, n)
    BY <1>4, <1>5, <1>6, <1>8
  <2>5. SubSeq(file, 1, n) = Text(SubSeq(intact, 1, m)) \o rest
    BY <2>2, <2>4, Zenon DEF CutOff, text
  <2>6. n - Len(Text(SubSeq(intact, 1, m))) = Len(rest)
    <3>1. n = Len(Text(SubSeq(intact, 1, m))) + Len(rest)
      BY <2>2 DEF CutOff
    <3> DEFINE a == Text(SubSeq(intact, 1, m))
    <3>2. a \in Seq(STRING)
      BY <1>4, TextFront
    <3> HIDE DEF a
    <3>3. n = Len(a) + Len(rest)
      BY <3>1 DEF a
    <3>4. n - Len(a) = Len(rest)
      BY <3>2, <3>3
    <3> QED
      BY <3>4 DEF a
  <2>7. Piece(rest)
    <3>1. CASE rest = << >>
      BY <3>1 DEF Piece
    <3>2. CASE rest # << >>
      <4>1. /\ m < Len(intact)
            /\ \E k \in 1 .. Len(Encode(intact[m + 1])) - 1 : rest = SubSeq(Encode(intact[m + 1]), 1, k)
        BY <2>2, <3>2 DEF CutOff
      <4>2. intact[m + 1] \in Commands
        BY <1>2, <4>1
      <4> QED
        BY <4>1, <4>2, Zenon DEF Piece
    <3> QED
      BY <3>1, <3>2
  <2> QED
    BY <2>3, <2>5, <2>6, <2>7
<1>9. CASE ~ (n <= l)
  <2> DEFINE m == Len(intact)
             k == n - l
             rest == SubSeq(old, 1, k)
  <2>1. k \in Nat /\ k <= Len(old) /\ k # 0 /\ n = l + k
    BY <1>4, <1>6, <1>9
  <2> HIDE DEF k, l
  <2>2. rest \in Seq(STRING) /\ Len(rest) = k
    BY <1>5, <2>1
  <2>3. \A j \in 1 .. m : Len(Text(SubSeq(intact, 1, j))) <= n
    <3> SUFFICES ASSUME NEW j \in 1 .. m PROVE Len(Text(SubSeq(intact, 1, j))) <= n
      OBVIOUS
    <3>1. j \in 0 .. Len(intact)
      OBVIOUS
    <3> DEFINE a == Text(SubSeq(intact, 1, j))
    <3>2. a \in Seq(STRING) /\ Len(a) <= l
      BY <1>4, <3>1, TextFront DEF l, text
    <3> HIDE DEF a
    <3>3. Len(a) <= n
      BY <1>4, <1>6, <1>9, <3>2
    <3> QED
      BY <3>3 DEF a
  <2>4. Complete(intact, n) = 1 .. m
    BY <2>3 DEF Complete
  <2>5. Kept(n) = m
    <3>1. \A j \in Nat : Cardinality(1 .. j) = j
      <4> SUFFICES ASSUME NEW j \in Nat PROVE Cardinality(1 .. j) = j
        OBVIOUS
      <4>1. Cardinality(1 .. j) = IF 1 > j THEN 0 ELSE j - 1 + 1
        BY FS_Interval
      <4> QED
        BY <4>1
    <3>2. Cardinality(1 .. m) = m
      BY <1>4, <3>1
    <3> QED
      BY <1>2, <1>6, <2>4, <3>2, KeptIs
  <2>6. SubSeq(intact, 1, m) = intact
    BY <1>2
  <2>7. SubSeq(file, 1, n) = text \o rest
    <3>1. Heads(text, old, file)
      <4> DEFINE f == text \o old
      <4>1. Len(f) = Len(text) + Len(old) /\ \A i \in 1 .. Len(text) : f[i] = text[i]
        BY <1>4, <1>5
      <4>2. \A i \in 1 .. Len(old) : f[Len(text) + i] = old[i]
        BY <1>4, <1>5
      <4>3. f = file /\ Len(f) \in Nat
        BY <1>5, <1>4
      <4> HIDE DEF f
      <4>4. Heads(text, old, f)
        BY <4>1, <4>2, <4>3 DEF Heads
      <4> QED
        BY <4>3, <4>4
    <3>2. text \o old \in Seq(STRING)
      BY <1>4, <1>5, Glue
    <3>3. k \in 0 .. Len(old)
      BY <1>6, <2>1
    <3>4. CutIn(text, old, file, k)
      BY <1>4, <1>5, <3>1, <3>2, <3>3, CutJoins
    <3> QED
      BY <2>1, <3>4 DEF CutIn, l
  <2>8. ~ behind => Piece(rest)
    BY <1>5, <2>1, PieceShorter
  <2>9. n - Len(Text(SubSeq(intact, 1, m))) = Len(rest)
    <3>1. Len(Text(SubSeq(intact, 1, m))) = l
      BY <2>6 DEF text, l
    <3> QED
      BY <1>4, <2>1, <2>2, <3>1
  <2>10. SubSeq(file, 1, n) = Text(SubSeq(intact, 1, m)) \o rest
    BY <2>6, <2>7 DEF text
  <2>11. Len(rest) > 0 /\ m \in 0 .. Len(intact)
    BY <1>4, <2>1, <2>2
  <2> HIDE DEF rest
  <2> QED
    BY <2>2, <2>5, <2>8, <2>9, <2>10, <2>11
<1> QED
  BY <1>4, <1>6, <1>8, <1>9

-----------------------------------------------------------------------------
(* The invariant is kept.                                                  *)

LEMMA AofInvInit == Init => AofInv
<1> SUFFICES ASSUME Init PROVE AofInv
  OBVIOUS
<1>1. << >> \in Seq(Commands) /\ << >> \in Seq(Spoken) /\ << >> \in Seq(STRING)
  OBVIOUS
<1>2. Text(<< >>) = << >>
  <2> DEFINE e == << >>
  <2>1. PICK g : Streams(g, e) /\ Text(e) = g[Len(e)]
    BY <1>1, StreamsOf
  <2>2. Len(e) = 0
    OBVIOUS
  <2>3. g[0] = << >>
    BY <2>1 DEF Streams, Flattens
  <2> QED
    BY <2>1, <2>2, <2>3
<1>3. Holds(<< >>)
  <2>1. << >> \o << >> = << >>
    OBVIOUS
  <2> QED
    BY <1>1, <1>2, <2>1 DEF Init, Holds, Piece
<1> QED
  BY <1>1, <1>3 DEF Init, AofInv, FileInv, GoodInv

\* A step that leaves the file as it is.
LEMMA FileSame ==
    ASSUME FileInv, UNCHANGED <<file, intact, torn, behind>>
    PROVE  FileInv'
<1>1. PICK rest : Holds(rest)
  BY DEF FileInv
<1>2. Holds(rest)'
  BY <1>1 DEF Holds, Piece
<1> QED
  BY <1>2 DEF FileInv

LEMMA AofInvNext == AofInv /\ [Next]_vars => AofInv'
<1> SUFFICES ASSUME AofInv, [Next]_vars PROVE AofInv'
  OBVIOUS
<1>1. /\ FileInv /\ GoodInv /\ up \in BOOLEAN /\ faults \in Nat /\ acked \in Seq(Commands)
      /\ pending \in Commands \cup {Null} /\ (pending # Null => up)
  BY DEF AofInv
<1>2. faults + 1 \in Nat /\ faults + 1 # 0
  BY <1>1
<1>3. ASSUME NEW cmd \in Commands PROVE Append(acked, cmd) \in Seq(Commands)
  BY <1>1
<1>4. CASE Start
  <2>1. FileInv'
    BY <1>1, <1>4, FileSame DEF Start
  <2>2. /\ up' = TRUE /\ pending' = Null
        /\ UNCHANGED <<file, acked, intact, torn, behind, faults>>
    BY <1>4 DEF Start
  <2> QED
    BY <1>1, <2>1, <2>2 DEF AofInv, GoodInv
<1>5. CASE Stop
  <2>1. up' = FALSE /\ pending' = Null /\ acked' = acked /\ faults' = faults
    BY <1>5 DEF Stop
  <2>2. CASE pending = Null
    <3>1. UNCHANGED <<file, intact, torn, behind>>
      BY <1>5, <2>2 DEF Stop
    <3>2. FileInv'
      BY <1>1, <3>1, FileSame
    <3> QED
      BY <1>1, <2>1, <3>1, <3>2 DEF AofInv, GoodInv
  <2>3. CASE pending # Null
    <3>1. PICK n \in 0 .. Len(Encode(pending)) : Written(pending, n)
      BY <1>5, <2>3 DEF Stop
    <3>2. FileInv'
      BY <1>1, <2>3, <3>1, WrittenKeeps
    <3>3. faults # 0
      BY <1>1, <2>3 DEF GoodInv
    <3> QED
      BY <1>1, <2>1, <3>2, <3>3 DEF AofInv, GoodInv
  <2> QED
    BY <2>2, <2>3
<1>6. CASE Crash
  <2>1. FileInv'
    BY <1>1, <1>6, FileSame DEF Crash
  <2>2. /\ up' = FALSE /\ pending' = Null
        /\ UNCHANGED <<file, acked, intact, torn, behind, faults>>
    BY <1>6 DEF Crash
  <2> QED
    BY <1>1, <2>1, <2>2 DEF AofInv, GoodInv
<1>7. CASE PowerLoss
  <2>1. FileInv'
    BY <1>1, <1>7, PowerLossKeeps
  <2>2. up' = FALSE /\ pending' = Null /\ faults' = faults + 1 /\ acked' = acked
    BY <1>7 DEF PowerLoss
  <2> QED
    BY <1>1, <1>2, <2>1, <2>2 DEF AofInv, GoodInv
<1>8. ASSUME NEW cmd \in Commands, AppendCommand(cmd) PROVE AofInv'
  <2>1. up /\ acked' = Append(acked, cmd) /\ up' = up /\ acked' \in Seq(Commands)
    BY <1>3, <1>8 DEF AppendCommand
  <2>2. CASE pending = Null /\ Written(cmd, Len(Encode(cmd))) /\ UNCHANGED <<pending, faults>>
    <3>1. Len(Encode(cmd)) \in 0 .. Len(Encode(cmd))
      BY WrittenIs
    <3>2. FileInv' /\ (~ torn => intact' = Append(intact, cmd) /\ ~ torn')
      BY <1>1, <2>2, <3>1, WrittenKeeps
    <3>3. GoodInv'
      BY <1>1, <2>1, <2>2, <3>2 DEF GoodInv
    <3> QED
      BY <1>1, <2>1, <2>2, <3>2, <3>3 DEF AofInv
  <2>3. CASE pending # Null /\ UNCHANGED <<file, pending, intact, torn, behind, faults>>
    <3>1. FileInv'
      BY <1>1, <2>3, FileSame
    <3>2. GoodInv'
      BY <1>1, <2>3 DEF GoodInv
    <3> QED
      BY <1>1, <2>1, <2>3, <3>1, <3>2 DEF AofInv
  <2> QED
    BY <1>8, <2>2, <2>3 DEF AppendCommand
<1>9. ASSUME NEW cmd \in Commands, Refused(cmd) PROVE AofInv'
  <2>1. PICK n \in 0 .. Len(Encode(cmd)) - 1 : Written(cmd, n)
    BY <1>9 DEF Refused
  <2>2. n \in 0 .. Len(Encode(cmd))
    BY <2>1, WrittenIs
  <2>3. FileInv'
    BY <1>1, <2>1, <2>2, WrittenKeeps
  <2>4. /\ up /\ up' = up /\ acked' = Append(acked, cmd) /\ acked' \in Seq(Commands)
        /\ pending' = cmd /\ faults' = faults + 1
    BY <1>3, <1>9 DEF Refused
  <2> QED
    BY <1>1, <1>2, <2>3, <2>4 DEF AofInv, GoodInv
<1>10. ASSUME NEW cmd \in Commands, CrashInAppend(cmd) PROVE AofInv'
  <2>1. PICK n \in 0 .. Len(Encode(cmd)) : Written(cmd, n)
    BY <1>10 DEF CrashInAppend
  <2>2. FileInv'
    BY <1>1, <2>1, WrittenKeeps
  <2>3. pending = Null /\ up' = FALSE /\ faults' = faults + 1 /\ UNCHANGED <<pending, acked>>
    BY <1>10 DEF CrashInAppend
  <2> QED
    BY <1>1, <1>2, <2>2, <2>3 DEF AofInv, GoodInv
<1>11. CASE UNCHANGED vars
  <2>1. UNCHANGED <<up, file, pending, acked, intact, torn, behind, faults>>
    BY <1>11 DEF vars
  <2>2. FileInv'
    BY <1>1, <2>1, FileSame
  <2> QED
    BY <1>1, <2>1, <2>2 DEF AofInv, GoodInv
<1> QED
  BY <1>4, <1>5, <1>6, <1>7, <1>8, <1>9, <1>10, <1>11 DEF Next

\* After any appends, refusals, stops, kills and power failures the file is the text of
\* the intact commands, and a piece of one more unless something stands behind that
\* (AofLogger::Open, Append and Close).
THEOREM AofInvAlways == Spec => []AofInv
<1> QED
  BY AofInvInit, AofInvNext, PTL DEF Spec

Extends(w, v, x) ==
    /\ Len(w) = Len(v) + 1 /\ Len(v) \in Nat /\ w[Len(v) + 1] = x
    /\ \A j \in 1 .. Len(v) : w[j] = v[j]

LEMMA Appended ==
    ASSUME NEW S, NEW v \in Seq(S), NEW x \in S
    PROVE  Extends(Append(v, x), v, x)
  BY DEF Extends

LEMMA CalledNamed ==
    ASSUME NEW cmds \in CommandSeqs
    PROVE  /\ Called(cmds) \in CommandSeqs
           /\ \A j \in 1 .. Len(Called(cmds)) : Called(cmds)[j][1] # << >>
<1> DEFINE f == Named(cmds)
           n == Len(cmds)
           Fine(v) == v \in CommandSeqs /\ \A j \in 1 .. Len(v) : v[j][1] # << >>
<1>1. n \in Nat
  BY DEF CommandSeqs
<1>2. /\ f[0] = << >> /\ \A i \in 1 .. n : f[i] = NamedNext(cmds, i, f[i - 1])
      /\ \A i \in 0 .. n : f[i] \in CommandSeqs
  BY NamedIs
<1>3. \A i \in 1 .. n : cmds[i] \in Seq(Seq(STRING))
  BY DEF CommandSeqs
<1> HIDE DEF f, n
<1> DEFINE T == {i \in Nat : i <= n => Fine(f[i])}
<1>4. 0 \in T
  BY <1>1, <1>2
<1>5. ASSUME NEW i \in T PROVE i + 1 \in T
  <2> SUFFICES ASSUME i + 1 <= n PROVE Fine(f[i + 1])
    OBVIOUS
  <2>1. i + 1 \in 1 .. n /\ (i + 1) - 1 = i /\ i <= n /\ i + 1 \in 0 .. n
    BY <1>1
  <2> DEFINE v == f[i]
             w == f[i + 1]
  <2>2. Fine(v) /\ w \in CommandSeqs /\ w = NamedNext(cmds, i + 1, v)
    BY <1>2, <2>1
  <2>3. cmds[i + 1] \in Seq(Seq(STRING))
    BY <1>3, <2>1
  <2> HIDE DEF v, w
  <2>4. CASE cmds[i + 1][1] = << >>
    <3>1. w = v
      BY <2>2, <2>4, Zenon DEF NamedNext
    <3> QED
      BY <2>2, <3>1 DEF w
  <2>5. CASE cmds[i + 1][1] # << >>
    <3>1. w = Append(v, cmds[i + 1])
      BY <2>2, <2>5, Zenon DEF NamedNext
    <3>2. /\ Len(w) = Len(v) + 1 /\ Len(v) \in Nat /\ w[Len(v) + 1] = cmds[i + 1]
          /\ \A j \in 1 .. Len(v) : w[j] = v[j]
      <4>1. v \in Seq(Seq(Seq(STRING)))
        BY <2>2 DEF CommandSeqs
      <4>2. Extends(w, v, cmds[i + 1])
        BY <2>3, <3>1, <4>1, Appended, Zenon
      <4> QED
        BY <4>2 DEF Extends
    <3>3. \A j \in 1 .. Len(w) : w[j][1] # << >>
      BY <2>2, <2>5, <3>2
    <3> QED
      BY <2>2, <3>3 DEF w
  <2> QED
    BY <2>4, <2>5
<1>6. T = Nat
  <2>1. T \subseteq Nat
    OBVIOUS
  <2> HIDE DEF T
  <2> QED
    BY <1>4, <1>5, <2>1, Inductive
<1>7. Fine(f[n])
  <2>1. n \in T
    BY <1>1, <1>6
  <2> QED
    BY <1>1, <2>1
<1> QED
  BY <1>7 DEF Called, f, n

\* What a process has replayed are commands, and they have names.
Loaded ==
    /\ replayed \in CommandSeqs
    /\ \A i \in 1 .. Len(replayed) : replayed[i][1] # << >>

LEMMA FileType == FileInv => file \in Seq(STRING)
<1> SUFFICES ASSUME FileInv PROVE file \in Seq(STRING)
  OBVIOUS
<1>1. PICK rest : Holds(rest)
  BY DEF FileInv
<1>2. Text(intact) \in Seq(STRING)
  BY CommandsSpoken, RoundTrip DEF FileInv
<1>3. Text(intact) \o rest \in Seq(STRING)
  BY <1>1, <1>2, Glue DEF Holds
<1> QED
  BY <1>1, <1>3 DEF Holds

LEMMA LoadedNext == AofInv /\ Loaded /\ [Next]_vars => Loaded'
<1> SUFFICES ASSUME AofInv, Loaded, [Next]_vars PROVE Loaded'
  OBVIOUS
<1>1. CASE Start
  <2>1. file \in Seq(STRING) /\ << >> \in Seq(STRING)
    BY FileType DEF AofInv
  <2>2. Feed(<< >>, file).cmds \in CommandSeqs
    BY <2>1, FeedType DEF CommandSeqs
  <2>3. replayed' = Called(Feed(<< >>, file).cmds)
    BY <1>1 DEF Start, Replay
  <2> QED
    BY <2>2, <2>3, CalledNamed DEF Loaded
<1>2. CASE replayed' = << >>
  BY <1>2 DEF Loaded, CommandSeqs
<1>3. CASE replayed' = replayed
  BY <1>3 DEF Loaded
<1>4. CASE Stop \/ Crash \/ PowerLoss
  BY <1>2, <1>4 DEF Stop, Crash, PowerLoss
<1>5. ASSUME NEW cmd \in Commands, AppendCommand(cmd) \/ Refused(cmd) \/ CrashInAppend(cmd)
      PROVE  Loaded'
  BY <1>2, <1>3, <1>5 DEF AppendCommand, Refused, CrashInAppend
<1>6. CASE UNCHANGED vars
  BY <1>3, <1>6 DEF vars
<1> QED
  BY <1>1, <1>4, <1>5, <1>6 DEF Next

\* Types, and that no start replays a command without a name, for all commands and
\* whatever has become of the file (AofLogger::Replay).
THEOREM AofTypeCorrect == Spec => []TypeOK
<1>1. Init => Loaded
  BY DEF Init, Loaded, CommandSeqs
<1>2. AofInv /\ Loaded => TypeOK
  <2> SUFFICES ASSUME AofInv, Loaded PROVE TypeOK
    OBVIOUS
  <2>1. intact \in Seq(Commands) /\ acked \in Seq(Commands) /\ (behind => torn)
    BY DEF AofInv, FileInv
  <2>2. file \in Seq(STRING)
    BY FileType DEF AofInv
  <2> QED
    BY <2>1, <2>2 DEF TypeOK, AofInv, Loaded, CommandSeqs
<1> QED
  BY <1>1, <1>2, AofInvAlways, LoadedNext, PTL DEF Spec

-----------------------------------------------------------------------------
(* What a start replays.                                                   *)

LEMMA ReplayIs == FileInv => IsPrefix(intact, Replay(file)) /\ (behind \/ Replay(file) = intact)
<1> SUFFICES ASSUME FileInv
             PROVE  IsPrefix(intact, Replay(file)) /\ (~ behind => Replay(file) = intact)
  BY DEF FileInv
<1>1. PICK rest : Holds(rest)
  BY DEF FileInv
<1>2. /\ intact \in Seq(Spoken) /\ intact \in CommandSeqs
      /\ \A j \in 1 .. Len(intact) : intact[j][1] # << >>
  <2>1. intact \in Seq(Spoken) /\ \A j \in 1 .. Len(intact) : intact[j][1] # << >>
    BY CommandsSpoken DEF FileInv
  <2>2. Spoken \subseteq Seq(Seq(STRING))
    BY DEF Spoken
  <2>3. \A S, T : S \subseteq T => Seq(S) \subseteq Seq(T)
    OBVIOUS
  <2> QED
    BY <2>1, <2>2, <2>3, Zenon DEF CommandSeqs
<1> DEFINE text == Text(intact)
<1>3. text \in Seq(STRING) /\ Decoded(text).cmds = intact /\ Decoded(text).rest = << >>
  <2>1. text \in Seq(STRING) /\ Feed(<< >>, text) = [cmds |-> intact, rest |-> << >>]
    BY <1>2, RoundTrip
  <2> QED
    BY <2>1 DEF Decoded
<1> HIDE DEF text
<1>4. rest \in Seq(STRING) /\ file = text \o rest
  BY <1>1 DEF Holds, text
<1> DEFINE b == Decoded(rest).cmds
<1>5. b \in CommandSeqs
  <2>1. << >> \in Seq(STRING)
    OBVIOUS
  <2> QED
    BY <1>4, <2>1, FeedType DEF Decoded, CommandSeqs
<1>6. ~ behind => b = << >>
  <2> SUFFICES ASSUME Piece(rest) PROVE b = << >>
    BY <1>1 DEF Holds
  <2>1. CASE rest = << >>
    BY <2>1, FeedNothing DEF Decoded
  <2>2. CASE rest # << >>
    <3>1. PICK cmd \in Commands : \E n \in 1 .. Len(Encode(cmd)) - 1 : rest = SubSeq(Encode(cmd), 1, n)
      BY <2>2 DEF Piece
    <3>2. PICK n \in 1 .. Len(Encode(cmd)) - 1 : rest = SubSeq(Encode(cmd), 1, n)
      BY <3>1
    <3>3. cmd \in Spoken /\ n \in 0 .. Len(Encode(cmd)) - 1
      <4>1. Len(Encode(cmd)) \in Nat
        BY WrittenIs
      <4> QED
        BY <3>2, <4>1, CommandsSpoken
    <3>4. Decoded(SubSeq(Encode(cmd), 1, n)) = [cmds |-> << >>, rest |-> SubSeq(Encode(cmd), 1, n)]
      BY <3>3, PieceDecoded
    <3> QED
      BY <3>2, <3>4
  <2> QED
    BY <2>1, <2>2
<1>7. Feed(<< >>, file).cmds = intact \o b
  <2> DEFINE both == Decoded(text \o rest)
             end == Decoded(rest)
  <2>1. both = [cmds |-> Decoded(text).cmds \o end.cmds, rest |-> end.rest]
    BY <1>3, <1>4, DecodedBehind
  <2> HIDE DEF both, end
  <2>2. both.cmds = intact \o end.cmds
    BY <1>3, <2>1
  <2> QED
    BY <1>4, <2>2 DEF both, end, Decoded
<1>8. IsPrefix(intact, Called(intact \o b)) /\ (b = << >> => Called(intact \o b) = intact)
  <2> HIDE DEF b
  <2> QED
    BY <1>2, <1>5, CalledIs
<1>9. Replay(file) = Called(intact \o b)
  BY <1>7, Zenon DEF Replay
<1> QED
  BY <1>6, <1>8, <1>9, Zenon

LEMMA StartReplays ==
    ASSUME [Next]_vars, ~ up, up'
    PROVE  replayed' = Replay(file) /\ UNCHANGED <<file, acked, intact, torn, behind, faults>>
<1>1. CASE Start
  BY <1>1 DEF Start
<1>2. CASE Stop \/ Crash
  BY <1>2 DEF Stop, Crash
<1>3. CASE PowerLoss
  BY <1>3 DEF PowerLoss
<1>4. CASE \E cmd \in Commands : AppendCommand(cmd) \/ Refused(cmd) \/ CrashInAppend(cmd)
  BY <1>4 DEF AppendCommand, Refused, CrashInAppend
<1>5. CASE UNCHANGED vars
  BY <1>5 DEF vars
<1> QED
  BY <1>1, <1>2, <1>3, <1>4, <1>5 DEF Next

\* However the file got its end, a start replays the commands that are in it as they
\* were written, first and in order, and nothing of a command that was cut off at the
\* end (AofLogger::Replay over what Append, Close and failures have left).
THEOREM ReplaysWhatIsIntact == Spec => IntactReplayed
<1>1. AofInv /\ [Next]_vars =>
         [~ up /\ up' => IsPrefix(intact, replayed') /\ (behind \/ replayed' = intact)]_vars
  <2> SUFFICES ASSUME AofInv, [Next]_vars, ~ up, up'
               PROVE  IsPrefix(intact, replayed') /\ (behind \/ replayed' = intact)
    OBVIOUS
  <2>1. replayed' = Replay(file)
    BY StartReplays
  <2> QED
    BY <2>1, ReplayIs DEF AofInv
<1> QED
  BY <1>1, AofInvAlways, PTL DEF Spec, IntactReplayed

\* Until something goes wrong, every start replays exactly the commands that have
\* been acknowledged, after any number of stops and kills between two commands.
THEOREM ReplaysWhatIsAcked == Spec => WritesSurvive
<1>1. AofInv /\ [Next]_vars => [~ up /\ up' /\ faults = 0 => replayed' = acked]_vars
  <2> SUFFICES ASSUME AofInv, [Next]_vars, ~ up, up', faults = 0 PROVE replayed' = acked
    OBVIOUS
  <2>1. replayed' = Replay(file)
    BY StartReplays
  <2>2. ~ torn /\ intact = acked /\ ~ behind
    BY DEF AofInv, GoodInv, FileInv
  <2> QED
    BY <2>1, <2>2, ReplayIs DEF AofInv
<1> QED
  BY <1>1, AofInvAlways, PTL DEF Spec, WritesSurvive
=============================================================================
