--------------------------- MODULE DecoderProofs ---------------------------
(***************************************************************************)
(* What the decoder makes of a stream does not depend on the reads in      *)
(* which the stream arrives; and encoded commands, of any number and any   *)
(* bytes, are decoded to what was encoded.                                 *)
(***************************************************************************)
EXTENDS RespCodec, Induction, FiniteSetTheorems

-----------------------------------------------------------------------------
(* The recursive definitions of the decoder.                               *)

LEMMA LeadingIs ==
    ASSUME NEW line \in Seq(STRING), NEW bytes
    PROVE  /\ Leading(line, bytes) \in 0 .. Len(line)
           /\ \A i \in 1 .. Leading(line, bytes) : line[i] \in bytes
           /\ Leading(line, bytes) < Len(line) => line[Leading(line, bytes) + 1] \notin bytes
<1> DEFINE Stops == {n \in Nat : n < Len(line) => line[n + 1] \notin bytes}
           Good(n) == /\ \A i \in 1 .. n : line[i] \in bytes
                      /\ n < Len(line) => line[n + 1] \notin bytes
<1>1. Len(line) \in Stops
  OBVIOUS
<1>2. PICK n \in Stops : \A m \in Stops : n <= m
  <2> HIDE DEF Stops
  <2>1. Stops \in SUBSET Nat /\ Stops # {}
    BY <1>1 DEF Stops
  <2> QED
    BY <2>1, Least
<1>3. n \in 0 .. Len(line)
  BY <1>1, <1>2
<1>4. \A i \in 1 .. n : line[i] \in bytes
  <2> SUFFICES ASSUME NEW i \in 1 .. n, line[i] \notin bytes PROVE FALSE
    OBVIOUS
  <2>1. i - 1 \in Nat /\ i - 1 + 1 = i
    OBVIOUS
  <2>2. i - 1 \in Stops
    BY <2>1
  <2>3. n <= i - 1
    BY <1>2, <2>2
  <2> QED
    BY <1>3, <2>1, <2>3
<1>5. Good(n)
  BY <1>2, <1>4
<1> QED
  BY <1>3, <1>5 DEF Leading

LEMMA DigitsAheadIs ==
    ASSUME NEW line \in Seq(STRING)
    PROVE  /\ DigitsAhead(line) \in 0 .. Len(line)
           /\ \A i \in 1 .. DigitsAhead(line) : IsDigit(line[i])
           /\ DigitsAhead(line) < Len(line) => ~ IsDigit(line[DigitsAhead(line) + 1])
  BY LeadingIs DEF DigitsAhead, IsDigit

LEMMA DigitAtType ==
    ASSUME NEW line, NEW i, IsDigit(line[i])
    PROVE  DigitAt(line, i) \in 0 .. 9
<1>1. \E d \in 1 .. 10 : Digits[d] = line[i]
  BY DEF IsDigit, ToSet, Digits
<1> QED
  BY <1>1 DEF DigitAt

LEMMA ValuesIs ==
    ASSUME NEW line \in Seq(STRING)
    PROVE  /\ Values(line) \in [0 .. DigitsAhead(line) -> Nat]
           /\ Values(line)[0] = 0
           /\ \A n \in 1 .. DigitsAhead(line) :
                 Values(line)[n] = 10 * Values(line)[n - 1] + DigitAt(line, n)
<1> DEFINE k == DigitsAhead(line)
           step == [i \in 1 .. k |-> [v \in Nat |-> 10 * v + DigitAt(line, i)]]
<1>1. k \in Nat
  BY DigitsAheadIs
<1>2. \A i \in 1 .. k : DigitAt(line, i) \in 0 .. 9
  BY DigitsAheadIs, DigitAtType
<1>3. \A i \in 1 .. k, v \in Nat : step[i][v] = 10 * v + DigitAt(line, i)
  OBVIOUS
<1>4. step \in [1 .. k -> [Nat -> Nat]]
  BY <1>1, <1>2
<1>5. Steps(step, Nat, k)
  BY <1>4 DEF Steps
<1>20. \A i \in 1 .. k : DigitAt(line, i) \in Nat
  BY <1>2
<1> HIDE DEF step, k
<1>6. PICK g \in [0 .. k -> Nat] : Iterates(g, 0, k, step)
  BY <1>1, <1>5, 0 \in Nat, Iteration
<1>7. ASSUME NEW i \in 1 .. k PROVE g[i] = 10 * g[i - 1] + DigitAt(line, i)
  <2>1. i - 1 \in 0 .. k
    BY <1>1
  <2>2. g[i - 1] \in Nat
    BY <1>1, <1>6, <2>1
  <2> QED
    BY <1>3, <1>6, <2>2 DEF Iterates
<1> DEFINE F(f) == [n \in 0 .. k |-> IF n = 0 THEN 0 ELSE 10 * f[n - 1] + DigitAt(line, n)]
           v == Values(line)
<1>8. \E f : f = F(f)
  <2> DEFINE f == [n \in 0 .. k |-> g[n]]
  <2>1. f[0] = 0 /\ \A n \in 1 .. k : f[n] = 10 * f[n - 1] + DigitAt(line, n)
    BY <1>1, <1>6, <1>7 DEF Iterates
  <2>2. f = [n \in 0 .. k |-> f[n]]
    OBVIOUS
  <2> HIDE DEF f
  <2>3. f = F(f)
    <3>1. \A n \in 0 .. k : f[n] = IF n = 0 THEN 0 ELSE 10 * f[n - 1] + DigitAt(line, n)
      BY <1>1, <2>1
    <3>2. [n \in 0 .. k |-> f[n]] = F(f)
      BY <3>1
    <3> QED
      BY <2>2, <3>2, Zenon
  <2> QED
    BY <2>3
<1>9. v = F(v)
  BY <1>8 DEF Values, k
<1> HIDE DEF v
<1>10. v[0] = 0 /\ \A n \in 1 .. k : v[n] = 10 * v[n - 1] + DigitAt(line, n)
  BY <1>1, <1>9
<1>12. ASSUME NEW i \in 0 .. k PROVE v[i] \in Nat
  <2>1. v[0] \in Nat /\ \A j \in 1 .. k : v[j - 1] \in Nat => v[j] \in Nat
    BY <1>1, <1>20, <1>10
  <2> QED
    BY <1>1, <2>1, Along
<1>13. v \in [0 .. k -> Nat]
  BY <1>9, <1>12
<1> QED
  BY <1>10, <1>13 DEF v, k

LEMMA StrtollType ==
    ASSUME NEW line \in Seq(STRING)
    PROVE  Strtoll(line) \in Int
<1>1. \A s \in Seq(STRING) : Natural(s) \in Nat
  BY ValuesIs, DigitsAheadIs DEF Natural
<1>2. ASSUME NEW s \in Seq(STRING) PROVE Signed(s) \in Int
  <2>1. Natural(s) \in Nat /\ (s # << >> => Natural(Tail(s)) \in Nat)
    <3>1. s # << >> => Tail(s) \in Seq(STRING)
      OBVIOUS
    <3> QED
      BY <1>1, <3>1
  <2>2. CASE s # << >> /\ s[1] = "-"
    BY <2>1, <2>2 DEF Signed
  <2>3. CASE s # << >> /\ s[1] = "+" /\ s[1] # "-"
    BY <2>1, <2>3 DEF Signed
  <2>4. CASE s = << >> \/ (s[1] # "-" /\ s[1] # "+")
    BY <2>1, <2>4 DEF Signed
  <2> QED
    BY <2>2, <2>3, <2>4
<1>3. SubSeq(line, Leading(line, Spaces) + 1, Len(line)) \in Seq(STRING)
  <2>1. Leading(line, Spaces) \in Nat
    BY LeadingIs
  <2> QED
    BY <2>1
<1> QED
  BY <1>2, <1>3 DEF Strtoll

-----------------------------------------------------------------------------
(* The buffer r is a part of the buffer z, from position k + 1 on.         *)

Within(r, k, z) ==
    /\ r \in Seq(STRING) /\ z \in Seq(STRING)
    /\ k \in Nat /\ k + Len(r) <= Len(z)
    /\ \A i \in 1 .. Len(r) : z[k + i] = r[i]

\* What is read to its end, or up to the end of both, is the same in both.
Reads(pos, r, k, z) == pos # 0 \/ k + Len(r) = Len(z)

Shift(pos, k) == IF pos = 0 THEN 0 ELSE pos + k

LEMMA WithinSub ==
    ASSUME NEW r, NEW k \in Nat, NEW z, Within(r, k, z), NEW m \in Nat \ {0}, NEW n \in Nat, n <= Len(r),
           NEW i \in Int, i = m + k, NEW j \in Int, j = n + k
    PROVE  SubSeq(z, i, j) = SubSeq(r, m, n)
<1>1. \A l \in m .. n : z[l + k] = r[l]
  BY DEF Within
<1>2. Len(SubSeq(z, i, j)) = Len(SubSeq(r, m, n))
  BY DEF Within
<1>3. \A l \in 1 .. Len(SubSeq(r, m, n)) : SubSeq(z, i, j)[l] = SubSeq(r, m, n)[l]
  BY <1>1 DEF Within
<1> QED
  BY <1>2, <1>3 DEF Within

LEMMA LineEndIs ==
    ASSUME NEW buf \in Seq(STRING), NEW pos \in Nat \ {0}, LineEnds(buf, pos) # {}
    PROVE  /\ LineEnd(buf, pos) \in LineEnds(buf, pos)
           /\ LineEnd(buf, pos) \in pos .. Len(buf) - 1
           /\ \A f \in LineEnds(buf, pos) : LineEnd(buf, pos) <= f
<1> DEFINE L == LineEnds(buf, pos)
<1>1. L \in SUBSET (pos .. Len(buf) - 1)
  BY DEF LineEnds
<1>2. PICK e \in L : \A f \in L : e <= f
  <2> HIDE DEF L
  <2>1. L \in SUBSET Nat /\ L # {}
    BY <1>1 DEF L
  <2> QED
    BY <2>1, Least
<1> HIDE DEF L
<1>3. LineEnd(buf, pos) \in L /\ \A f \in L : LineEnd(buf, pos) <= f
  BY <1>2 DEF LineEnd, L
<1> QED
  BY <1>1, <1>3 DEF L

LEMMA LineEndsWithin ==
    ASSUME NEW r, NEW k \in Nat, NEW z, Within(r, k, z), NEW pos \in Nat \ {0}, NEW e \in Int
    PROVE  e \in LineEnds(r, pos) <=> e + k \in LineEnds(z, pos + k) /\ e < Len(r)
BY SMTT(30) DEF LineEnds, Within

LEMMA LineWithin ==
    ASSUME NEW r, NEW k \in Nat, NEW z, Within(r, k, z), NEW pos \in Nat \ {0},
           LineEnds(r, pos) # {}
    PROVE  /\ LineEnds(z, pos + k) # {}
           /\ LineEnd(z, pos + k) = LineEnd(r, pos) + k
           /\ LineNumber(z, pos + k) = LineNumber(r, pos)
<1>1. /\ LineEnd(r, pos) \in LineEnds(r, pos) /\ LineEnd(r, pos) \in pos .. Len(r) - 1
      /\ \A f \in LineEnds(r, pos) : LineEnd(r, pos) <= f
  BY LineEndIs DEF Within
<1>2. LineEnd(r, pos) + k \in LineEnds(z, pos + k)
  BY <1>1, LineEndsWithin
<1>3. /\ LineEnd(z, pos + k) \in LineEnds(z, pos + k) /\ LineEnd(z, pos + k) \in pos + k .. Len(z) - 1
      /\ \A f \in LineEnds(z, pos + k) : LineEnd(z, pos + k) <= f
  BY <1>2, LineEndIs DEF Within
<1>4. LineEnd(z, pos + k) <= LineEnd(r, pos) + k
  BY <1>2, <1>3
<1>5. LineEnd(z, pos + k) - k \in LineEnds(r, pos)
  <2> DEFINE e == LineEnd(z, pos + k) - k
  <2>1. e \in Int /\ e < Len(r) /\ e + k \in LineEnds(z, pos + k)
    BY <1>1, <1>3, <1>4 DEF Within
  <2> HIDE DEF e
  <2>2. e \in LineEnds(r, pos)
    BY <2>1, LineEndsWithin
  <2> QED
    BY <2>2 DEF e
<1>6. LineEnd(r, pos) <= LineEnd(z, pos + k) - k
  BY <1>1, <1>5
<1>7. k \in Nat /\ Len(r) \in Nat /\ Len(z) \in Nat
  BY DEF Within
<1>8. LineEnd(r, pos) \in Nat /\ LineEnd(z, pos + k) \in Nat
  BY <1>1, <1>3, <1>7
<1>9. LineEnd(z, pos + k) = LineEnd(r, pos) + k
  BY <1>4, <1>6, <1>7, <1>8
<1>10. SubSeq(z, pos + k, LineEnd(z, pos + k) - 1) = SubSeq(r, pos, LineEnd(r, pos) - 1)
  <2>1. ASSUME NEW n \in Nat, n <= Len(r)
        PROVE  SubSeq(z, pos + k, n + k) = SubSeq(r, pos, n)
    BY <2>1, WithinSub
  <2>2. LineEnd(r, pos) - 1 \in Nat /\ LineEnd(r, pos) - 1 <= Len(r)
    BY <1>1, <1>7, <1>8
  <2>3. SubSeq(z, pos + k, LineEnd(r, pos) - 1 + k) = SubSeq(r, pos, LineEnd(r, pos) - 1)
    BY <2>1, <2>2, Zenon
  <2>4. LineEnd(z, pos + k) - 1 = LineEnd(r, pos) - 1 + k
    BY <1>7, <1>8, <1>9
  <2> QED
    BY <2>3, <2>4
<1> QED
  BY <1>2, <1>9, <1>10 DEF LineNumber

LEMMA NoLineWithin ==
    ASSUME NEW r, NEW k \in Nat, NEW z, Within(r, k, z), k + Len(r) = Len(z),
           NEW pos \in Nat \ {0}, LineEnds(r, pos) = {}
    PROVE  LineEnds(z, pos + k) = {}
<1> SUFFICES ASSUME NEW e \in LineEnds(z, pos + k) PROVE FALSE
  OBVIOUS
<1>1. \A d \in Int : d + k \in LineEnds(z, pos + k) /\ d < Len(r) => d \in LineEnds(r, pos)
  BY LineEndsWithin
<1>2. e - k \in Int /\ e - k + k = e /\ e - k < Len(r)
  BY DEF LineEnds, Within
<1>3. e - k \in LineEnds(r, pos)
  BY <1>1, <1>2
<1> QED
  BY <1>3

LEMMA LineNumberType ==
    ASSUME NEW buf \in Seq(STRING), NEW pos \in Nat \ {0}, LineEnds(buf, pos) # {}
    PROVE  LineNumber(buf, pos) \in Int
<1>1. LineEnd(buf, pos) \in pos .. Len(buf) - 1
  BY LineEndIs
<1>2. SubSeq(buf, pos, LineEnd(buf, pos) - 1) \in Seq(STRING)
  BY <1>1
<1> QED
  BY <1>2, StrtollType DEF LineNumber

-----------------------------------------------------------------------------
(* Words, elements and units.                                              *)

LEMMA WordType ==
    ASSUME NEW buf \in Seq(STRING), NEW from \in Nat \ {0}, NEW n \in Nat
    PROVE  /\ Word(buf, from, n) \in [pos : Nat, word : Seq(STRING)]
           /\ Word(buf, from, n).pos # 0 => Word(buf, from, n).pos \in from + n .. Len(buf) + 1
<1>1. CASE from + n + 1 > Len(buf)
  BY <1>1 DEF Word
<1>2. CASE ~ (from + n + 1 > Len(buf))
  <2>1. SubSeq(buf, from, from + n - 1) \in Seq(STRING)
    BY <1>2
  <2> QED
    BY <1>2, <2>1 DEF Word
<1> QED
  BY <1>1, <1>2

LEMMA WordWithin ==
    ASSUME NEW r, NEW k \in Nat, NEW z, Within(r, k, z), NEW from \in Nat \ {0}, NEW n \in Nat,
           Reads(Word(r, from, n).pos, r, k, z)
    PROVE  Word(z, from + k, n) = [pos |-> Shift(Word(r, from, n).pos, k), word |-> Word(r, from, n).word]
<1>1. CASE from + n + 1 > Len(r)
  <2>1. Word(r, from, n) = [pos |-> 0, word |-> << >>]
    BY <1>1 DEF Word
  <2>2. from + k + n + 1 > Len(z)
    BY <1>1, <2>1 DEF Reads, Within
  <2> QED
    BY <2>1, <2>2 DEF Word, Shift
<1>2. CASE ~ (from + n + 1 > Len(r))
  <2>1. k \in Nat /\ Len(r) \in Nat /\ Len(z) \in Nat /\ k + Len(r) <= Len(z)
    BY DEF Within
  <2> DEFINE at == from + n
             last == from + n - 1
  <2>2. /\ at \in Nat \ {0} /\ at + 1 <= Len(r) /\ from + k + n = at + k
        /\ last \in Nat /\ last <= Len(r) /\ from + k + n - 1 = last + k
    BY <1>2, <2>1
  <2>3. ~ (at + k + 1 > Len(z))
    BY <2>1, <2>2
  <2>4. Word(r, from, n) = [pos |-> at + IF at \in LineEnds(r, at) THEN 2 ELSE 0,
                            word |-> SubSeq(r, from, last)]
    BY <1>2 DEF Word
  <2>5. Word(z, from + k, n) =
           [pos |-> at + k + IF at + k \in LineEnds(z, at + k) THEN 2 ELSE 0,
            word |-> SubSeq(z, from + k, from + k + n - 1)]
    BY <2>2, <2>3 DEF Word
  <2> HIDE DEF at, last
  <2>6. SubSeq(z, from + k, from + k + n - 1) = SubSeq(r, from, last)
    BY <2>1, <2>2, WithinSub
  <2>7. at \in LineEnds(r, at) <=> at + k \in LineEnds(z, at + k)
    BY <2>1, <2>2, LineEndsWithin
  <2>8. Word(r, from, n).pos = at + IF at \in LineEnds(r, at) THEN 2 ELSE 0
    BY <2>4
  <2>9. Shift(Word(r, from, n).pos, k) = at + k + IF at + k \in LineEnds(z, at + k) THEN 2 ELSE 0
    BY <2>1, <2>2, <2>7, <2>8 DEF Shift
  <2>10. Word(r, from, n).word = SubSeq(r, from, last)
    BY <1>2 DEF Word, last
  <2> QED
    BY <2>5, <2>6, <2>9, <2>10
<1> QED
  BY <1>1, <1>2

LEMMA MaxZero ==
    ASSUME NEW n \in Int
    PROVE  Max({0, n}) \in Nat
BY DEF Max

ElementOf == [pos : Nat, word : Seq(STRING)]

LEMMA ElementType ==
    ASSUME NEW buf \in Seq(STRING), NEW pos \in Nat \ {0}
    PROVE  /\ Element(buf, pos) \in ElementOf
           /\ Element(buf, pos).pos # 0 => Element(buf, pos).pos \in pos + 1 .. Len(buf) + 1
<1>1. CASE pos > Len(buf) \/ buf[pos] # "$" \/ LineEnds(buf, pos + 1) = {}
  BY <1>1 DEF Element, ElementOf
<1>2. CASE ~ (pos > Len(buf) \/ buf[pos] # "$" \/ LineEnds(buf, pos + 1) = {})
  <2> DEFINE from == LineEnd(buf, pos + 1) + 2
             n == Max({0, LineNumber(buf, pos + 1)})
  <2>1. pos + 1 \in Nat \ {0} /\ LineEnd(buf, pos + 1) \in pos + 1 .. Len(buf) - 1
    BY <1>2, LineEndIs
  <2>2. from \in Nat \ {0} /\ from > pos
    BY <2>1
  <2>3. n \in Nat
    BY <1>2, <2>1, LineNumberType, MaxZero
  <2>4. Element(buf, pos) = Word(buf, from, n)
    BY <1>2 DEF Element
  <2> HIDE DEF from, n
  <2>5. /\ Word(buf, from, n) \in ElementOf
        /\ Word(buf, from, n).pos # 0 => Word(buf, from, n).pos \in from + n .. Len(buf) + 1
    BY <2>2, <2>3, WordType DEF ElementOf
  <2>6. from + n .. Len(buf) + 1 \subseteq pos + 1 .. Len(buf) + 1
    BY <2>2, <2>3
  <2> QED
    BY <2>4, <2>5, <2>6, Zenon
<1> QED
  BY <1>1, <1>2

LEMMA ElementWithin ==
    ASSUME NEW r, NEW k \in Nat, NEW z, Within(r, k, z), NEW pos \in Nat \ {0},
           Reads(Element(r, pos).pos, r, k, z)
    PROVE  Element(z, pos + k) = [pos |-> Shift(Element(r, pos).pos, k), word |-> Element(r, pos).word]
<1>0. Len(r) \in Nat /\ Len(z) \in Nat /\ k + Len(r) <= Len(z)
  BY DEF Within
<1>1. CASE pos > Len(r) \/ r[pos] # "$" \/ LineEnds(r, pos + 1) = {}
  <2>1. Element(r, pos) = [pos |-> 0, word |-> << >>]
    BY <1>1 DEF Element
  <2>2. k + Len(r) = Len(z)
    BY <2>1 DEF Reads
  <2>3. pos > Len(r) => pos + k > Len(z)
    BY <1>0, <2>2
  <2>4. pos <= Len(r) => z[pos + k] = r[pos]
    BY DEF Within
  <2>5. LineEnds(r, pos + 1) = {} => LineEnds(z, pos + 1 + k) = {}
    BY <2>2, pos + 1 \in Nat \ {0}, NoLineWithin
  <2>6. pos + 1 + k = pos + k + 1
    OBVIOUS
  <2>7. pos + k > Len(z) \/ z[pos + k] # "$" \/ LineEnds(z, pos + k + 1) = {}
    BY <1>0, <1>1, <2>3, <2>4, <2>5, <2>6
  <2>8. Element(z, pos + k) = [pos |-> 0, word |-> << >>]
    BY <2>7 DEF Element
  <2> QED
    BY <2>1, <2>8 DEF Shift
<1>2. CASE ~ (pos > Len(r) \/ r[pos] # "$" \/ LineEnds(r, pos + 1) = {})
  <2> DEFINE from == LineEnd(r, pos + 1) + 2
             n == Max({0, LineNumber(r, pos + 1)})
  <2>1. /\ LineEnds(z, pos + 1 + k) # {}
        /\ LineEnd(z, pos + 1 + k) = LineEnd(r, pos + 1) + k
        /\ LineNumber(z, pos + 1 + k) = LineNumber(r, pos + 1)
    BY <1>2, pos + 1 \in Nat \ {0}, LineWithin
  <2>2. LineEnd(r, pos + 1) \in pos + 1 .. Len(r) - 1
    BY <1>2, pos + 1 \in Nat \ {0}, LineEndIs DEF Within
  <2>3. from \in Nat \ {0}
    BY <2>2
  <2>4. n \in Nat
    BY <1>2, pos + 1 \in Nat \ {0}, LineNumberType, MaxZero DEF Within
  <2>5. Element(r, pos) = Word(r, from, n)
    BY <1>2 DEF Element
  <2>6. pos + 1 + k = pos + k + 1
    OBVIOUS
  <2>7. LineEnd(z, pos + k + 1) + 2 = from + k
    BY <1>0, <2>1, <2>2, <2>6
  <2>8. Max({0, LineNumber(z, pos + k + 1)}) = n
    BY <2>1, <2>6
  <2>9. pos + k <= Len(z) /\ z[pos + k] = "$" /\ LineEnds(z, pos + k + 1) # {}
    <3>1. z[k + pos] = r[pos] /\ pos <= Len(r)
      BY <1>0, <1>2 DEF Within
    <3>2. k + pos = pos + k
      OBVIOUS
    <3> QED
      BY <1>0, <1>2, <2>1, <2>6, <3>1, <3>2
  <2>10. Element(z, pos + k) = Word(z, LineEnd(z, pos + k + 1) + 2, Max({0, LineNumber(z, pos + k + 1)}))
    <3>1. ~ (pos + k > Len(z))
      BY <1>0, <2>9
    <3> QED
      BY <2>9, <3>1 DEF Element
  <2> HIDE DEF from, n
  <2>11. Word(z, from + k, n) = [pos |-> Shift(Word(r, from, n).pos, k), word |-> Word(r, from, n).word]
    BY <2>3, <2>4, <2>5, WordWithin
  <2> QED
    BY <2>5, <2>7, <2>8, <2>10, <2>11
<1> QED
  BY <1>1, <1>2

ElementsOf == [pos : Nat, words : Seq(Seq(STRING))]

LEMMA NextElementType ==
    ASSUME NEW buf \in Seq(STRING), NEW before \in ElementsOf
    PROVE  /\ NextElement(buf, before) \in ElementsOf
           /\ NextElement(buf, before).pos # 0 =>
                 NextElement(buf, before).pos \in before.pos + 1 .. Len(buf) + 1
<1>1. CASE before.pos = 0
  BY <1>1 DEF NextElement
<1>2. CASE before.pos # 0
  <2> DEFINE e == Element(buf, before.pos)
  <2>1. before.pos \in Nat \ {0} /\ before.words \in Seq(Seq(STRING))
    BY <1>2 DEF ElementsOf
  <2>2. e \in ElementOf /\ (e.pos # 0 => e.pos \in before.pos + 1 .. Len(buf) + 1)
    BY <2>1, ElementType
  <2>3. NextElement(buf, before) = [pos |-> e.pos, words |-> Append(before.words, e.word)]
    BY <1>2 DEF NextElement
  <2> HIDE DEF e
  <2>4. Append(before.words, e.word) \in Seq(Seq(STRING))
    BY <2>1, <2>2 DEF ElementOf
  <2> QED
    BY <2>2, <2>3, <2>4 DEF ElementOf, ElementsOf
<1> QED
  BY <1>1, <1>2

LEMMA ElementsReadIs ==
    ASSUME NEW buf \in Seq(STRING), NEW pos \in Nat \ {0}, NEW n \in Nat
    PROVE  /\ ElementsRead(buf, pos, n) \in [0 .. n -> ElementsOf]
           /\ ElementsRead(buf, pos, n)[0] = [pos |-> pos, words |-> << >>]
           /\ \A i \in 1 .. n :
                 ElementsRead(buf, pos, n)[i] = NextElement(buf, ElementsRead(buf, pos, n)[i - 1])
<1> DEFINE c == [pos |-> pos, words |-> << >>]
           step == [i \in 1 .. n |-> [s \in ElementsOf |-> NextElement(buf, s)]]
           F(f) == [i \in 0 .. n |-> IF i = 0 THEN c ELSE NextElement(buf, f[i - 1])]
           v == ElementsRead(buf, pos, n)
<1>1. c \in ElementsOf
  BY DEF ElementsOf
<1>2. \A i \in 1 .. n, s \in ElementsOf : step[i][s] = NextElement(buf, s)
  OBVIOUS
<1>3. Steps(step, ElementsOf, n)
  BY NextElementType DEF Steps
<1>4. v = CHOOSE f : f = F(f)
  BY DEF ElementsRead
<1> HIDE DEF c, step, v
<1>5. PICK g \in [0 .. n -> ElementsOf] : Iterates(g, c, n, step)
  BY <1>1, <1>3, Iteration
<1>6. g[0] = c /\ \A i \in 1 .. n : g[i] = NextElement(buf, g[i - 1])
  BY <1>2, <1>5 DEF Iterates
<1>7. g = [i \in 0 .. n |-> g[i]]
  OBVIOUS
<1>8. g = F(g)
  <2>1. \A i \in 0 .. n : g[i] = IF i = 0 THEN c ELSE NextElement(buf, g[i - 1])
    BY <1>6
  <2>2. [i \in 0 .. n |-> g[i]] = F(g)
    BY <2>1
  <2> QED
    BY <1>7, <2>2, Zenon
<1>9. v = F(v)
  BY <1>4, <1>8
<1>10. v[0] = c /\ \A i \in 1 .. n : v[i] = NextElement(buf, v[i - 1])
  BY <1>9
<1>11. ASSUME NEW i \in 0 .. n PROVE v[i] \in ElementsOf
  <2>1. v[0] \in ElementsOf /\ \A j \in 1 .. n : v[j - 1] \in ElementsOf => v[j] \in ElementsOf
    BY <1>1, <1>10, NextElementType
  <2> QED
    BY <2>1, Along
<1>12. v \in [0 .. n -> ElementsOf]
  BY <1>9, <1>11
<1> QED
  BY <1>10, <1>12 DEF v, c

LEMMA ElementsType ==
    ASSUME NEW buf \in Seq(STRING), NEW pos \in Nat \ {0}, NEW n \in Nat \ {0}
    PROVE  /\ Elements(buf, pos, n) \in ElementsOf
           /\ Elements(buf, pos, n).pos # 0 => Elements(buf, pos, n).pos \in pos + 1 .. Len(buf) + 1
<1> DEFINE f == ElementsRead(buf, pos, n)
           S == {s \in ElementsOf : s.pos # 0 => s.pos >= pos}
<1>1. /\ f \in [0 .. n -> ElementsOf] /\ f[0] = [pos |-> pos, words |-> << >>]
      /\ \A i \in 1 .. n : f[i] = NextElement(buf, f[i - 1])
  BY ElementsReadIs
<1> HIDE DEF f
<1>2. f[0] \in S
  BY <1>1
<1>3. \A j \in 1 .. n : f[j - 1] \in S => f[j] \in S
  <2> SUFFICES ASSUME NEW j \in 1 .. n, f[j - 1] \in S PROVE f[j] \in S
    OBVIOUS
  <2>1. f[j - 1] \in ElementsOf /\ f[j - 1].pos \in Nat /\ (f[j - 1].pos # 0 => f[j - 1].pos >= pos)
    BY DEF ElementsOf
  <2>2. /\ f[j] \in ElementsOf
        /\ f[j].pos # 0 => f[j].pos \in f[j - 1].pos + 1 .. Len(buf) + 1
    BY <1>1, <2>1, NextElementType
  <2>3. f[j].pos # 0 => f[j - 1].pos # 0
    BY <1>1 DEF NextElement
  <2> QED
    BY <2>1, <2>2, <2>3
<1>4. f[n - 1] \in S
  <2>1. n - 1 \in 0 .. n
    OBVIOUS
  <2> HIDE DEF S
  <2> QED
    BY <1>2, <1>3, <2>1, Along
<1>5. f[n] = NextElement(buf, f[n - 1])
  BY <1>1
<1>6. /\ f[n] \in ElementsOf
      /\ f[n].pos # 0 => f[n].pos \in f[n - 1].pos + 1 .. Len(buf) + 1
  BY <1>4, <1>5, NextElementType
<1>7. f[n].pos # 0 => f[n - 1].pos # 0
  BY <1>5 DEF NextElement
<1>8. f[n - 1].pos \in Nat
  BY <1>4 DEF ElementsOf
<1> QED
  BY <1>4, <1>6, <1>7, <1>8 DEF Elements, f

LEMMA NextElementWithin ==
    ASSUME NEW r, NEW k \in Nat, NEW z, Within(r, k, z), NEW before \in ElementsOf,
           Reads(NextElement(r, before).pos, r, k, z)
    PROVE  /\ Reads(before.pos, r, k, z)
           /\ NextElement(z, [pos |-> Shift(before.pos, k), words |-> before.words]) =
                 [pos   |-> Shift(NextElement(r, before).pos, k),
                  words |-> NextElement(r, before).words]
<1>1. CASE before.pos = 0
  BY <1>1 DEF NextElement, Shift, ElementsOf
<1>2. CASE before.pos # 0
  <2>1. before.pos \in Nat \ {0}
    BY <1>2 DEF ElementsOf
  <2>2. NextElement(r, before) =
           [pos   |-> Element(r, before.pos).pos,
            words |-> Append(before.words, Element(r, before.pos).word)]
    BY <1>2 DEF NextElement
  <2>3. Element(z, before.pos + k) =
           [pos  |-> Shift(Element(r, before.pos).pos, k), word |-> Element(r, before.pos).word]
    BY <2>1, <2>2, ElementWithin
  <2>4. Shift(before.pos, k) = before.pos + k /\ before.pos + k # 0
    BY <2>1 DEF Shift
  <2> DEFINE b == [pos |-> before.pos + k, words |-> before.words]
  <2>5. NextElement(z, b) = [pos   |-> Element(z, before.pos + k).pos,
                             words |-> Append(before.words, Element(z, before.pos + k).word)]
    BY <2>4 DEF NextElement
  <2> HIDE DEF b
  <2>6. NextElement(z, b) = [pos   |-> Shift(NextElement(r, before).pos, k),
                             words |-> NextElement(r, before).words]
    <3>1. /\ NextElement(r, before).pos = Element(r, before.pos).pos
          /\ NextElement(r, before).words = Append(before.words, Element(r, before.pos).word)
      BY <2>2
    <3>2. /\ Element(z, before.pos + k).pos = Shift(Element(r, before.pos).pos, k)
          /\ Element(z, before.pos + k).word = Element(r, before.pos).word
      BY <2>3
    <3> QED
      BY <2>5, <3>1, <3>2, Zenon
  <2>7. [pos |-> Shift(before.pos, k), words |-> before.words] = b
    BY <2>4 DEF b
  <2>8. Reads(before.pos, r, k, z)
    BY <1>2 DEF Reads
  <2> QED
    BY <2>6, <2>7, <2>8, Zenon
<1> QED
  BY <1>1, <1>2

LEMMA ElementsWithin ==
    ASSUME NEW r, NEW k \in Nat, NEW z, Within(r, k, z), NEW pos \in Nat \ {0}, NEW n \in Nat,
           Reads(Elements(r, pos, n).pos, r, k, z)
    PROVE  Elements(z, pos + k, n) =
              [pos |-> Shift(Elements(r, pos, n).pos, k), words |-> Elements(r, pos, n).words]
<1> DEFINE f == ElementsRead(r, pos, n)
           h == ElementsRead(z, pos + k, n)
           T == {m \in Nat : m <= n /\ Reads(f[m].pos, r, k, z) =>
                               h[m] = [pos |-> Shift(f[m].pos, k), words |-> f[m].words]}
<1>1. /\ f \in [0 .. n -> ElementsOf] /\ f[0] = [pos |-> pos, words |-> << >>]
      /\ \A i \in 1 .. n : f[i] = NextElement(r, f[i - 1])
  BY ElementsReadIs DEF Within
<1>2. /\ h[0] = [pos |-> pos + k, words |-> << >>]
      /\ \A i \in 1 .. n : h[i] = NextElement(z, h[i - 1])
  BY pos + k \in Nat \ {0}, ElementsReadIs DEF Within
<1> HIDE DEF f, h
<1>3. 0 \in T
  BY <1>1, <1>2 DEF Shift
<1>4. ASSUME NEW m \in Nat, m \in T, m + 1 <= n, Reads(f[m + 1].pos, r, k, z)
      PROVE  h[m + 1] = [pos |-> Shift(f[m + 1].pos, k), words |-> f[m + 1].words]
  <2>1. m \in 0 .. n /\ m + 1 \in 1 .. n /\ m + 1 - 1 = m
    BY <1>4
  <2>2. f[m + 1] = NextElement(r, f[m]) /\ h[m + 1] = NextElement(z, h[m]) /\ f[m] \in ElementsOf
    BY <1>1, <1>2, <2>1
  <2>3. /\ Reads(f[m].pos, r, k, z)
        /\ NextElement(z, [pos |-> Shift(f[m].pos, k), words |-> f[m].words]) =
              [pos |-> Shift(f[m + 1].pos, k), words |-> f[m + 1].words]
    <3> DEFINE b == f[m]
               a == f[m + 1]
    <3>1. b \in ElementsOf /\ a = NextElement(r, b) /\ Reads(a.pos, r, k, z)
      BY <1>4, <2>2
    <3> HIDE DEF a, b
    <3>2. /\ Reads(b.pos, r, k, z)
          /\ NextElement(z, [pos |-> Shift(b.pos, k), words |-> b.words]) =
                [pos |-> Shift(a.pos, k), words |-> a.words]
      BY <3>1, NextElementWithin
    <3> QED
      BY <3>2 DEF a, b
  <2>4. h[m] = [pos |-> Shift(f[m].pos, k), words |-> f[m].words]
    BY <1>4, <2>1, <2>3
  <2> QED
    BY <2>2, <2>3, <2>4
<1>5. \A m \in T : m + 1 \in T
  BY <1>4
<1>6. n \in T
  <2>1. T \in SUBSET Nat
    OBVIOUS
  <2> HIDE DEF T
  <2> QED
    BY <1>3, <1>5, <2>1, Inductive
<1> QED
  BY <1>6 DEF Elements, f, h

LEMMA UnitType ==
    ASSUME NEW buf \in Seq(STRING), NEW pos \in 1 .. Len(buf)
    PROVE  /\ Unit(buf, pos) \in ElementsOf
           /\ Unit(buf, pos).pos # 0 => Unit(buf, pos).pos \in pos + 1 .. Len(buf) + 1
<1>0. Len(buf) \in Nat /\ pos + 1 \in Nat \ {0} /\ << >> \in Seq(Seq(STRING))
  OBVIOUS
<1>1. CASE buf[pos] # "*"
  BY <1>0, <1>1 DEF Unit, ElementsOf
<1>2. CASE buf[pos] = "*" /\ LineEnds(buf, pos + 1) = {}
  BY <1>0, <1>2 DEF Unit, ElementsOf
<1>3. CASE buf[pos] = "*" /\ LineEnds(buf, pos + 1) # {}
  <2> DEFINE from == LineEnd(buf, pos + 1) + 2
             n == LineNumber(buf, pos + 1)
  <2>1. from \in pos + 3 .. Len(buf) + 1
    BY <1>0, <1>3, LineEndIs
  <2>2. Unit(buf, pos) = IF n \notin 1 .. MaxArray THEN [pos |-> from, words |-> << >>]
                         ELSE Elements(buf, from, n)
    BY <1>3 DEF Unit
  <2> HIDE DEF from, n
  <2>3. CASE n \notin 1 .. MaxArray
    BY <1>0, <2>1, <2>2, <2>3 DEF ElementsOf
  <2>4. CASE n \in 1 .. MaxArray
    <3>1. n \in Nat \ {0} /\ from \in Nat \ {0}
      BY <1>0, <2>1, <2>4, MaxArrayAssumption
    <3>2. /\ Elements(buf, from, n) \in ElementsOf
          /\ Elements(buf, from, n).pos # 0 => Elements(buf, from, n).pos \in from + 1 .. Len(buf) + 1
      BY <3>1, ElementsType
    <3>3. Unit(buf, pos) = Elements(buf, from, n)
      BY <2>2, <2>4
    <3>4. from + 1 .. Len(buf) + 1 \subseteq pos + 1 .. Len(buf) + 1
      BY <1>0, <2>1
    <3> QED
      BY <3>2, <3>3, <3>4, Zenon
  <2> QED
    BY <2>3, <2>4
<1> QED
  BY <1>1, <1>2, <1>3

LEMMA UnitWithin ==
    ASSUME NEW r, NEW k \in Nat, NEW z, Within(r, k, z), NEW pos \in 1 .. Len(r),
           Reads(Unit(r, pos).pos, r, k, z)
    PROVE  Unit(z, pos + k) = [pos |-> Shift(Unit(r, pos).pos, k), words |-> Unit(r, pos).words]
<1>0. /\ Len(r) \in Nat /\ Len(z) \in Nat /\ k + Len(r) <= Len(z) /\ z[pos + k] = r[pos]
      /\ pos + 1 \in Nat \ {0} /\ pos + 1 + k = pos + k + 1
  <2>1. z[k + pos] = r[pos] /\ k + pos = pos + k
    BY DEF Within
  <2> QED
    BY <2>1 DEF Within
<1>1. CASE r[pos] # "*"
  <2>1. /\ Unit(r, pos) = [pos |-> pos + 1, words |-> << >>]
        /\ Unit(z, pos + k) = [pos |-> pos + k + 1, words |-> << >>]
    BY <1>0, <1>1 DEF Unit
  <2> QED
    BY <1>0, <2>1 DEF Shift
<1>2. CASE r[pos] = "*" /\ LineEnds(r, pos + 1) = {}
  <2>1. Unit(r, pos) = [pos |-> 0, words |-> << >>]
    BY <1>2 DEF Unit
  <2>2. LineEnds(z, pos + k + 1) = {}
    <3>1. k + Len(r) = Len(z)
      BY <2>1 DEF Reads
    <3>2. LineEnds(z, pos + 1 + k) = {}
      BY <1>0, <1>2, <3>1, NoLineWithin
    <3> QED
      BY <1>0, <3>2
  <2>3. Unit(z, pos + k) = [pos |-> 0, words |-> << >>]
    BY <1>0, <1>2, <2>2 DEF Unit
  <2> QED
    BY <2>1, <2>3 DEF Shift
<1>3. CASE r[pos] = "*" /\ LineEnds(r, pos + 1) # {}
  <2> DEFINE from == LineEnd(r, pos + 1) + 2
             n == LineNumber(r, pos + 1)
  <2>1. /\ LineEnds(z, pos + 1 + k) # {}
        /\ LineEnd(z, pos + 1 + k) = LineEnd(r, pos + 1) + k
        /\ LineNumber(z, pos + 1 + k) = LineNumber(r, pos + 1)
    BY <1>0, <1>3, LineWithin
  <2>2. LineEnd(r, pos + 1) \in pos + 1 .. Len(r) - 1
    BY <1>0, <1>3, LineEndIs DEF Within
  <2>3. LineEnds(z, pos + k + 1) # {} /\ LineNumber(z, pos + k + 1) = n
    BY <1>0, <2>1
  <2>4. LineEnd(z, pos + k + 1) + 2 = from + k
    BY <1>0, <2>1, <2>2
  <2>5. from \in Nat \ {0}
    BY <1>0, <2>2
  <2>6. Unit(r, pos) = IF n \notin 1 .. MaxArray THEN [pos |-> from, words |-> << >>]
                       ELSE Elements(r, from, n)
    BY <1>3 DEF Unit
  <2>7. Unit(z, pos + k) = IF n \notin 1 .. MaxArray THEN [pos |-> from + k, words |-> << >>]
                           ELSE Elements(z, from + k, n)
    BY <1>0, <1>3, <2>3, <2>4 DEF Unit
  <2> HIDE DEF from, n
  <2>8. CASE n \notin 1 .. MaxArray
    <3>1. Unit(r, pos) = [pos |-> from, words |-> << >>]
      BY <2>6, <2>8
    <3>2. Unit(z, pos + k) = [pos |-> from + k, words |-> << >>]
      BY <2>7, <2>8
    <3>3. Unit(r, pos).pos = from /\ Unit(r, pos).words = << >> /\ Shift(from, k) = from + k
      BY <2>5, <3>1 DEF Shift
    <3> QED
      BY <3>2, <3>3
  <2>9. CASE n \in 1 .. MaxArray
    <3>1. n \in Nat
      BY <2>9, MaxArrayAssumption
    <3>2. Unit(r, pos) = Elements(r, from, n) /\ Unit(z, pos + k) = Elements(z, from + k, n)
      BY <2>6, <2>7, <2>9
    <3>3. Elements(z, from + k, n) =
             [pos |-> Shift(Elements(r, from, n).pos, k), words |-> Elements(r, from, n).words]
      BY <2>5, <3>1, <3>2, ElementsWithin
    <3> QED
      BY <3>2, <3>3
  <2> QED
    BY <2>8, <2>9
<1> QED
  BY <1>1, <1>2, <1>3

-----------------------------------------------------------------------------
(* The way of the decoder through a buffer.                                *)

Passing == [pos : Nat \ {0}, stopped : BOOLEAN, cmds : Seq(Seq(Seq(STRING)))]

Done(buf, s) == s.stopped \/ s.pos > Len(buf)

LEMMA NextUnitType ==
    ASSUME NEW buf \in Seq(STRING), NEW s \in Passing
    PROVE  /\ NextUnit(buf, s) \in Passing
           /\ Done(buf, s) => NextUnit(buf, s) = s
           /\ ~ Done(buf, s) =>
                 \/ NextUnit(buf, s).stopped /\ NextUnit(buf, s).pos = s.pos
                 \/ ~ NextUnit(buf, s).stopped /\ NextUnit(buf, s).pos \in s.pos + 1 .. Len(buf) + 1
<1>1. CASE Done(buf, s)
  BY <1>1 DEF Done, NextUnit
<1>2. CASE ~ Done(buf, s)
  <2> DEFINE u == Unit(buf, s.pos)
  <2>0. s.pos \in 1 .. Len(buf) /\ ~ s.stopped
    BY <1>2 DEF Done, Passing
  <2>1. u \in ElementsOf /\ (u.pos # 0 => u.pos \in s.pos + 1 .. Len(buf) + 1)
    BY <2>0, UnitType
  <2>2. NextUnit(buf, s) =
           IF u.pos = 0 THEN [s EXCEPT !.stopped = TRUE]
           ELSE [pos |-> u.pos, stopped |-> FALSE,
                 cmds |-> IF u.words = << >> THEN s.cmds ELSE Append(s.cmds, u.words)]
    BY <2>0 DEF NextUnit
  <2> HIDE DEF u
  <2>3. CASE u.pos = 0
    <3>1. NextUnit(buf, s) = [s EXCEPT !.stopped = TRUE]
      BY <2>2, <2>3
    <3> QED
      BY <1>2, <3>1 DEF Passing
  <2>4. CASE u.pos # 0
    <3> DEFINE cs == IF u.words = << >> THEN s.cmds ELSE Append(s.cmds, u.words)
    <3>1. NextUnit(buf, s) = [pos |-> u.pos, stopped |-> FALSE, cmds |-> cs]
      BY <2>2, <2>4
    <3>2. cs \in Seq(Seq(Seq(STRING)))
      <4> DEFINE W == Seq(Seq(STRING))
      <4>1. u.words \in W /\ s.cmds \in Seq(W)
        BY <2>1 DEF Passing, ElementsOf
      <4> HIDE DEF W
      <4>2. Append(s.cmds, u.words) \in Seq(W)
        BY <4>1
      <4>3. cs \in Seq(W)
        BY <4>1, <4>2
      <4> QED
        BY <4>3 DEF W
    <3>3. u.pos \in Nat \ {0}
      BY <2>1, <2>4 DEF ElementsOf
    <3> HIDE DEF cs
    <3>4. NextUnit(buf, s) \in Passing
      BY <3>1, <3>2, <3>3 DEF Passing
    <3>5. NextUnit(buf, s).stopped = FALSE /\ NextUnit(buf, s).pos = u.pos
      BY <3>1
    <3> QED
      BY <1>2, <2>1, <2>4, <3>4, <3>5
  <2> QED
    BY <2>3, <2>4
<1> QED
  BY <1>1, <1>2

LEMMA UnitsPassedIs ==
    ASSUME NEW buf \in Seq(STRING)
    PROVE  /\ UnitsPassed(buf) \in [0 .. Len(buf) -> Passing]
           /\ UnitsPassed(buf)[0] = [pos |-> 1, stopped |-> FALSE, cmds |-> << >>]
           /\ \A i \in 1 .. Len(buf) : UnitsPassed(buf)[i] = NextUnit(buf, UnitsPassed(buf)[i - 1])
<1> DEFINE c == [pos |-> 1, stopped |-> FALSE, cmds |-> << >>]
           n == Len(buf)
           step == [i \in 1 .. n |-> [s \in Passing |-> NextUnit(buf, s)]]
           F(f) == [i \in 0 .. n |-> IF i = 0 THEN c ELSE NextUnit(buf, f[i - 1])]
           v == UnitsPassed(buf)
<1>1. c \in Passing /\ n \in Nat
  BY DEF Passing
<1>2. \A i \in 1 .. n, s \in Passing : step[i][s] = NextUnit(buf, s)
  OBVIOUS
<1>3. Steps(step, Passing, n)
  BY NextUnitType DEF Steps
<1>4. v = CHOOSE f : f = F(f)
  BY DEF UnitsPassed
<1> HIDE DEF c, step, v, n
<1>5. PICK g \in [0 .. n -> Passing] : Iterates(g, c, n, step)
  BY <1>1, <1>3, Iteration
<1>6. g[0] = c /\ \A i \in 1 .. n : g[i] = NextUnit(buf, g[i - 1])
  BY <1>1, <1>2, <1>5 DEF Iterates
<1>7. g = [i \in 0 .. n |-> g[i]]
  OBVIOUS
<1>8. g = F(g)
  <2>1. \A i \in 0 .. n : g[i] = IF i = 0 THEN c ELSE NextUnit(buf, g[i - 1])
    BY <1>1, <1>6
  <2>2. [i \in 0 .. n |-> g[i]] = F(g)
    BY <2>1
  <2> QED
    BY <1>7, <2>2, Zenon
<1>9. v = F(v)
  BY <1>4, <1>8
<1>10. v[0] = c /\ \A i \in 1 .. n : v[i] = NextUnit(buf, v[i - 1])
  BY <1>1, <1>9
<1>11. ASSUME NEW i \in 0 .. n PROVE v[i] \in Passing
  <2>1. v[0] \in Passing /\ \A j \in 1 .. n : v[j - 1] \in Passing => v[j] \in Passing
    BY <1>1, <1>10, NextUnitType
  <2> QED
    BY <1>1, <2>1, Along
<1>12. v \in [0 .. n -> Passing]
  BY <1>9, <1>11
<1> QED
  BY <1>10, <1>12 DEF v, c, n

\* The decoder ends inside the buffer or right behind it, and has nothing left to do.
LEMMA ParseType ==
    ASSUME NEW buf \in Seq(STRING)
    PROVE  Parse(buf) \in Passing /\ Done(buf, Parse(buf)) /\ Parse(buf).pos <= Len(buf) + 1
<1> DEFINE f == UnitsPassed(buf)
           n == Len(buf)
           T == {m \in Nat : m <= n => /\ f[m] \in Passing /\ f[m].pos <= n + 1
                                       /\ Done(buf, f[m]) \/ f[m].pos > m}
<1>1. /\ f \in [0 .. n -> Passing] /\ f[0] = [pos |-> 1, stopped |-> FALSE, cmds |-> << >>]
      /\ \A i \in 1 .. n : f[i] = NextUnit(buf, f[i - 1])
  BY UnitsPassedIs
<1>2. n \in Nat
  OBVIOUS
<1> HIDE DEF f
<1>3. 0 \in T
  BY <1>1
<1>4. ASSUME NEW m \in Nat, m \in T, m + 1 <= n
      PROVE  /\ f[m + 1] \in Passing /\ f[m + 1].pos <= n + 1
             /\ Done(buf, f[m + 1]) \/ f[m + 1].pos > m + 1
  <2> DEFINE s == f[m]
             t == f[m + 1]
  <2>1. m + 1 \in 1 .. n /\ m + 1 - 1 = m
    BY <1>4
  <2>2. t = NextUnit(buf, s) /\ s \in Passing /\ s.pos <= n + 1 /\ (Done(buf, s) \/ s.pos > m)
    BY <1>1, <1>4, <2>1
  <2> HIDE DEF s, t
  <2>3. /\ t \in Passing
        /\ Done(buf, s) => t = s
        /\ ~ Done(buf, s) => \/ t.stopped /\ t.pos = s.pos
                             \/ ~ t.stopped /\ t.pos \in s.pos + 1 .. n + 1
    BY <2>2, NextUnitType
  <2>4. s.pos \in Nat
    BY <2>2 DEF Passing
  <2>5. t \in Passing /\ t.pos <= n + 1 /\ (Done(buf, t) \/ t.pos > m + 1)
    BY <1>2, <2>2, <2>3, <2>4 DEF Done
  <2> QED
    BY <2>5 DEF t
<1>5. \A m \in T : m + 1 \in T
  BY <1>4
<1>6. n \in T
  <2>1. T \in SUBSET Nat
    OBVIOUS
  <2> HIDE DEF T
  <2> QED
    BY <1>2, <1>3, <1>5, <2>1, Inductive
<1>7. f[n] \in Passing /\ f[n].pos <= n + 1 /\ (Done(buf, f[n]) \/ f[n].pos > n)
  BY <1>6
<1> QED
  BY <1>7 DEF Parse, Done, f

LEMMA Settled ==
    ASSUME NEW buf \in Seq(STRING), NEW n \in 0 .. Len(buf), Done(buf, UnitsPassed(buf)[n])
    PROVE  Parse(buf) = UnitsPassed(buf)[n]
<1> DEFINE f == UnitsPassed(buf)
           T == {m \in Nat : n + m <= Len(buf) => f[n + m] = f[n]}
<1>1. /\ f \in [0 .. Len(buf) -> Passing]
      /\ \A i \in 1 .. Len(buf) : f[i] = NextUnit(buf, f[i - 1])
  BY UnitsPassedIs
<1>2. NextUnit(buf, f[n]) = f[n]
  BY <1>1, NextUnitType
<1> HIDE DEF f
<1>3. 0 \in T
  OBVIOUS
<1>4. \A m \in T : m + 1 \in T
  <2> SUFFICES ASSUME NEW m \in Nat, m \in T, n + (m + 1) <= Len(buf)
               PROVE  f[n + (m + 1)] = f[n]
    OBVIOUS
  <2>1. n + (m + 1) \in 1 .. Len(buf) /\ n + (m + 1) - 1 = n + m
    OBVIOUS
  <2>2. f[n + m] = f[n]
    OBVIOUS
  <2> QED
    BY <1>1, <1>2, <2>1, <2>2
<1>5. Len(buf) - n \in T
  <2>1. T \in SUBSET Nat /\ Len(buf) - n \in Nat
    OBVIOUS
  <2> HIDE DEF T
  <2> QED
    BY <1>3, <1>4, <2>1, Inductive
<1> QED
  BY <1>5 DEF Parse, f

LEMMA StoppedAt ==
    ASSUME NEW s \in Passing
    PROVE  [s EXCEPT !.stopped = TRUE] = [pos |-> s.pos, stopped |-> TRUE, cmds |-> s.cmds]
<1> DEFINE e == [s EXCEPT !.stopped = TRUE]
<1>1. e \in Passing /\ e.pos = s.pos /\ e.stopped = TRUE /\ e.cmds = s.cmds
  BY DEF Passing
<1> HIDE DEF e
<1>2. e = [pos |-> e.pos, stopped |-> e.stopped, cmds |-> e.cmds]
  BY <1>1 DEF Passing
<1> QED
  BY <1>1, <1>2 DEF e

LEMMA AppendBehind ==
    ASSUME NEW S, NEW a \in Seq(S), NEW b \in Seq(S), NEW w \in S
    PROVE  Append(a \o b, w) = a \o Append(b, w)
OBVIOUS

Moved(s, k, cmds) == [pos |-> s.pos + k, stopped |-> s.stopped, cmds |-> cmds \o s.cmds]

\* In the rest of a buffer the decoder does what it does in the buffer.
LEMMA NextUnitWithin ==
    ASSUME NEW r, NEW k \in Nat, NEW z, Within(r, k, z), k + Len(r) = Len(z),
           NEW cmds \in Seq(Seq(Seq(STRING))), NEW s \in Passing
    PROVE  NextUnit(z, Moved(s, k, cmds)) = Moved(NextUnit(r, s), k, cmds)
<1> DEFINE t == Moved(s, k, cmds)
           W == Seq(Seq(STRING))
<1>0. /\ Len(r) \in Nat /\ Len(z) \in Nat /\ r \in Seq(STRING) /\ z \in Seq(STRING)
      /\ s.pos \in Nat \ {0} /\ s.stopped \in BOOLEAN /\ s.cmds \in Seq(W) /\ cmds \in Seq(W)
  BY DEF Within, Passing
<1>1. t.pos = s.pos + k /\ t.stopped = s.stopped /\ t.cmds = cmds \o s.cmds
  BY DEF Moved
<1>2. Done(z, t) <=> Done(r, s)
  BY <1>0, <1>1 DEF Done
<1> HIDE DEF t
<1>3. CASE Done(r, s)
  <2>1. NextUnit(z, t) = t /\ NextUnit(r, s) = s
    BY <1>2, <1>3 DEF Done, NextUnit
  <2> QED
    BY <2>1 DEF t
<1>4. CASE ~ Done(r, s)
  <2> DEFINE u == Unit(r, s.pos)
             v == Unit(z, s.pos + k)
  <2>1. s.pos \in 1 .. Len(r) /\ ~ s.stopped
    BY <1>0, <1>4 DEF Done
  <2>2. v = [pos |-> Shift(u.pos, k), words |-> u.words]
    BY <2>1, UnitWithin DEF Reads
  <2>3. u.pos \in Nat /\ u.words \in W
    BY <1>0, <2>1, UnitType DEF ElementsOf
  <2>4. NextUnit(r, s) =
           IF u.pos = 0 THEN [s EXCEPT !.stopped = TRUE]
           ELSE [pos |-> u.pos, stopped |-> FALSE,
                 cmds |-> IF u.words = << >> THEN s.cmds ELSE Append(s.cmds, u.words)]
    BY <1>4 DEF NextUnit, Done
  <2>5. NextUnit(z, t) =
           IF v.pos = 0 THEN [t EXCEPT !.stopped = TRUE]
           ELSE [pos |-> v.pos, stopped |-> FALSE,
                 cmds |-> IF v.words = << >> THEN t.cmds ELSE Append(t.cmds, v.words)]
    BY <1>1, <1>2, <1>4 DEF NextUnit, Done
  <2> HIDE DEF u, v, W
  <2>6. v.pos = Shift(u.pos, k) /\ v.words = u.words
    BY <2>2
  <2>7. CASE u.pos = 0
    <3>1. NextUnit(r, s) = [s EXCEPT !.stopped = TRUE]
      BY <2>4, <2>7
    <3>2. NextUnit(z, t) = [t EXCEPT !.stopped = TRUE]
      BY <2>5, <2>6, <2>7 DEF Shift
    <3>3. [s EXCEPT !.stopped = TRUE] = [pos |-> s.pos, stopped |-> TRUE, cmds |-> s.cmds]
      BY StoppedAt
    <3>4. [t EXCEPT !.stopped = TRUE] = [pos |-> s.pos + k, stopped |-> TRUE, cmds |-> cmds \o s.cmds]
      <4>1. cmds \o s.cmds \in Seq(W)
        BY <1>0
      <4>2. t \in Passing
        BY <1>0, <4>1 DEF t, Moved, Passing, W
      <4> QED
        BY <1>1, <4>2, StoppedAt
    <3>5. Moved(NextUnit(r, s), k, cmds) = [pos |-> s.pos + k, stopped |-> TRUE, cmds |-> cmds \o s.cmds]
      BY <3>1, <3>3 DEF Moved
    <3> QED
      BY <3>2, <3>4, <3>5 DEF t
  <2>8. CASE u.pos # 0
    <3> DEFINE a == IF u.words = << >> THEN s.cmds ELSE Append(s.cmds, u.words)
               b == IF u.words = << >> THEN t.cmds ELSE Append(t.cmds, u.words)
    <3>1. v.pos = u.pos + k /\ v.pos # 0
      BY <2>3, <2>6, <2>8 DEF Shift
    <3>2. NextUnit(r, s) = [pos |-> u.pos, stopped |-> FALSE, cmds |-> a]
      BY <2>4, <2>8
    <3>3. NextUnit(z, t) = [pos |-> u.pos + k, stopped |-> FALSE, cmds |-> b]
      BY <2>5, <2>6, <3>1
    <3>4. Append(cmds \o s.cmds, u.words) = cmds \o Append(s.cmds, u.words)
      <4>1. ASSUME NEW d \in Seq(W), NEW e \in Seq(W), NEW w \in W
            PROVE  Append(d \o e, w) = d \o Append(e, w)
        BY AppendBehind
      <4>2. cmds \in Seq(W) /\ s.cmds \in Seq(W) /\ u.words \in W
        BY <1>0, <2>3
      <4> QED
        BY <4>1, <4>2, Zenon
    <3>5. b = cmds \o a
      BY <1>1, <3>4
    <3> HIDE DEF a, b
    <3> QED
      BY <3>2, <3>3, <3>5 DEF Moved, t
  <2> QED
    BY <2>7, <2>8
<1> QED
  BY <1>3, <1>4

\* With more behind the buffer the decoder comes by the place where it ended without.
LEMMA PrefixPassed ==
    ASSUME NEW r, NEW z, Within(r, 0, z)
    PROVE  \E n \in 0 .. Len(z) :
              /\ n < Parse(r).pos
              /\ UnitsPassed(z)[n] = [pos |-> Parse(r).pos, stopped |-> FALSE, cmds |-> Parse(r).cmds]
<1> DEFINE f == UnitsPassed(r)
           h == UnitsPassed(z)
           At(m, n) == n < f[m].pos /\ h[n] = [pos |-> f[m].pos, stopped |-> FALSE, cmds |-> f[m].cmds]
           T == {m \in Nat : m <= Len(r) => \E n \in 0 .. m : At(m, n)}
<1>0. r \in Seq(STRING) /\ z \in Seq(STRING) /\ Len(r) \in Nat /\ Len(z) \in Nat /\ Len(r) <= Len(z)
  BY DEF Within
<1>1. /\ f \in [0 .. Len(r) -> Passing] /\ f[0] = [pos |-> 1, stopped |-> FALSE, cmds |-> << >>]
      /\ \A i \in 1 .. Len(r) : f[i] = NextUnit(r, f[i - 1])
  BY <1>0, UnitsPassedIs
<1>2. /\ h[0] = [pos |-> 1, stopped |-> FALSE, cmds |-> << >>]
      /\ \A i \in 1 .. Len(z) : h[i] = NextUnit(z, h[i - 1])
  BY <1>0, UnitsPassedIs
<1> HIDE DEF f, h
<1>3. 0 \in T
  <2>1. 0 \in 0 .. 0 /\ At(0, 0)
    BY <1>1, <1>2
  <2> HIDE DEF At
  <2> QED
    BY <2>1
<1>4. ASSUME NEW m \in Nat, m \in T, m + 1 <= Len(r)
      PROVE  \E n \in 0 .. m + 1 : At(m + 1, n)
  <2>1. PICK n \in 0 .. m : At(m, n)
    <3>1. m <= Len(r)
      BY <1>0, <1>4
    <3> HIDE DEF At
    <3> QED
      BY <1>4, <3>1
  <2> DEFINE s == f[m]
             t == f[m + 1]
  <2>2. m + 1 \in 1 .. Len(r) /\ m + 1 - 1 = m
    BY <1>4
  <2>3. s \in Passing /\ t = NextUnit(r, s)
    BY <1>1, <2>2
  <2>4. n < s.pos /\ h[n] = [pos |-> s.pos, stopped |-> FALSE, cmds |-> s.cmds]
    BY <2>1
  <2>5. n + 1 \in 1 .. Len(z) /\ n + 1 - 1 = n
    BY <1>0, <2>2
  <2>6. h[n + 1] = NextUnit(z, h[n])
    BY <1>2, <2>5
  <2> HIDE DEF s, t
  <2>7. CASE t.pos = s.pos /\ t.cmds = s.cmds
    <3>1. At(m + 1, n)
      BY <2>4, <2>7 DEF s, t
    <3> HIDE DEF At
    <3> QED
      BY <3>1
  <2>8. CASE ~ (t.pos = s.pos /\ t.cmds = s.cmds)
    <3> DEFINE u == Unit(r, s.pos)
    <3>1. ~ Done(r, s)
      BY <2>3, <2>8, <1>0, NextUnitType
    <3>2. s.pos \in 1 .. Len(r) /\ ~ s.stopped
      BY <1>0, <2>3, <3>1 DEF Done, Passing
    <3>3. u.pos # 0
      <4>1. u.pos = 0 => t = [s EXCEPT !.stopped = TRUE]
        BY <2>3, <3>1 DEF NextUnit, Done
      <4> QED
        BY <2>3, <2>8, <4>1, StoppedAt
    <3>4. Unit(z, s.pos + 0) = [pos |-> Shift(u.pos, 0), words |-> u.words]
      BY <3>2, <3>3, 0 \in Nat, UnitWithin DEF Reads
    <3>5. u.pos \in s.pos + 1 .. Len(r) + 1 /\ u \in ElementsOf
      BY <1>0, <3>2, <3>3, UnitType
    <3> DEFINE cs == IF u.words = << >> THEN s.cmds ELSE Append(s.cmds, u.words)
    <3>6. t = [pos |-> u.pos, stopped |-> FALSE, cmds |-> cs]
      BY <2>3, <3>1, <3>3 DEF NextUnit, Done
    <3> HIDE DEF u, cs
    <3>7. Unit(z, s.pos).pos = u.pos /\ Unit(z, s.pos).words = u.words
      <4>1. s.pos + 0 = s.pos /\ Shift(u.pos, 0) = u.pos
        BY <3>2, <3>5 DEF Shift
      <4> QED
        BY <3>4, <4>1
    <3>8. s.pos <= Len(z)
      BY <1>0, <3>2
    <3> DEFINE b == [pos |-> s.pos, stopped |-> FALSE, cmds |-> s.cmds]
    <3>9. b.pos = s.pos /\ b.stopped = FALSE /\ b.cmds = s.cmds
      OBVIOUS
    <3> HIDE DEF b
    <3>10. NextUnit(z, b) = [pos |-> u.pos, stopped |-> FALSE, cmds |-> cs]
      <4>1. ~ (b.stopped \/ b.pos > Len(z))
        BY <1>0, <3>2, <3>8, <3>9
      <4>2. Unit(z, b.pos).pos # 0
        BY <3>3, <3>7, <3>9
      <4>3. NextUnit(z, b) =
               [pos |-> Unit(z, b.pos).pos, stopped |-> FALSE,
                cmds |-> IF Unit(z, b.pos).words = << >> THEN b.cmds
                         ELSE Append(b.cmds, Unit(z, b.pos).words)]
        BY <4>1, <4>2 DEF NextUnit
      <4> QED
        BY <3>7, <3>9, <4>3 DEF cs
    <3>11. h[n + 1] = [pos |-> t.pos, stopped |-> FALSE, cmds |-> t.cmds] /\ n + 1 < t.pos
      BY <2>4, <2>6, <3>2, <3>5, <3>6, <3>10 DEF b
    <3>12. At(m + 1, n + 1)
      BY <3>11 DEF t
    <3> HIDE DEF At
    <3> QED
      BY <3>12
  <2> QED
    BY <2>7, <2>8
<1>5. \A m \in T : m + 1 \in T
  BY <1>4
<1>6. Len(r) \in T
  <2>1. T \in SUBSET Nat
    OBVIOUS
  <2> HIDE DEF T
  <2> QED
    BY <1>0, <1>3, <1>5, <2>1, Inductive
<1>7. PICK n \in 0 .. Len(r) : At(Len(r), n)
  <2> HIDE DEF At
  <2> QED
    BY <1>0, <1>6
<1> QED
  BY <1>0, <1>7 DEF Parse, f, h

\* Where t ends having passed k bytes with cmds in them and then what s passed.
Joins(t, s, k, cmds) == t.pos = s.pos + k /\ t.cmds = cmds \o s.cmds

LEMMA MovedJoins ==
    ASSUME NEW s, NEW k, NEW cmds
    PROVE  Joins(Moved(s, k, cmds), s, k, cmds)
BY DEF Joins, Moved

\* From a place it has come by, the decoder goes on as if the buffer began there.
LEMMA SuffixPassed ==
    ASSUME NEW r, NEW k \in Nat, NEW z, Within(r, k, z), k + Len(r) = Len(z),
           NEW cmds \in Seq(Seq(Seq(STRING))), NEW n \in 0 .. k,
           UnitsPassed(z)[n] = [pos |-> k + 1, stopped |-> FALSE, cmds |-> cmds]
    PROVE  Joins(Parse(z), Parse(r), k, cmds)
<1> DEFINE f == UnitsPassed(r)
           h == UnitsPassed(z)
           T == {m \in Nat : m <= Len(r) => h[n + m] = Moved(f[m], k, cmds)}
<1>0. r \in Seq(STRING) /\ z \in Seq(STRING) /\ Len(r) \in Nat /\ Len(z) \in Nat
  BY DEF Within
<1>1. /\ f \in [0 .. Len(r) -> Passing] /\ f[0] = [pos |-> 1, stopped |-> FALSE, cmds |-> << >>]
      /\ \A i \in 1 .. Len(r) : f[i] = NextUnit(r, f[i - 1])
  BY <1>0, UnitsPassedIs
<1>2. \A i \in 1 .. Len(z) : h[i] = NextUnit(z, h[i - 1])
  BY <1>0, UnitsPassedIs
<1>3. h[n] = [pos |-> k + 1, stopped |-> FALSE, cmds |-> cmds]
  OBVIOUS
<1> HIDE DEF f, h
<1>4. 0 \in T
  <2>1. cmds \o << >> = cmds /\ 1 + k = k + 1 /\ n + 0 = n
    OBVIOUS
  <2>2. Moved(f[0], k, cmds) = [pos |-> 1 + k, stopped |-> FALSE, cmds |-> cmds \o << >>]
    BY <1>1 DEF Moved
  <2> QED
    BY <1>3, <2>1, <2>2
<1>5. ASSUME NEW m \in Nat, m \in T, m + 1 <= Len(r)
      PROVE  h[n + (m + 1)] = Moved(f[m + 1], k, cmds)
  <2>1. m + 1 \in 1 .. Len(r) /\ m + 1 - 1 = m
    BY <1>5
  <2>2. n + (m + 1) \in 1 .. Len(z) /\ n + (m + 1) - 1 = n + m
    BY <1>0, <1>5
  <2>3. h[n + (m + 1)] = NextUnit(z, h[n + m]) /\ f[m + 1] = NextUnit(r, f[m]) /\ f[m] \in Passing
    <3> HIDE DEF T
    <3>1. h[n + (m + 1)] = NextUnit(z, h[n + m])
      <4> DEFINE l == n + (m + 1)
      <4>1. l \in 1 .. Len(z) /\ l - 1 = n + m
        BY <2>2
      <4> HIDE DEF l
      <4>2. h[l] = NextUnit(z, h[n + m])
        BY <1>2, <4>1
      <4> QED
        BY <4>2 DEF l
    <3>2. f[m + 1] = NextUnit(r, f[m])
      BY <1>1, <2>1
    <3>3. f[m] \in Passing
      <4>1. m \in 0 .. Len(r)
        BY <1>0, <2>1
      <4> QED
        BY <1>1, <4>1
    <3> QED
      BY <2>2, <3>1, <3>2, <3>3
  <2>4. h[n + m] = Moved(f[m], k, cmds)
    BY <1>5
  <2>5. NextUnit(z, Moved(f[m], k, cmds)) = Moved(NextUnit(r, f[m]), k, cmds)
    BY <2>3, NextUnitWithin
  <2> QED
    BY <2>3, <2>4, <2>5
<1>6. \A m \in T : m + 1 \in T
  BY <1>5
<1>7. Len(r) \in T
  <2>1. T \in SUBSET Nat
    OBVIOUS
  <2> HIDE DEF T
  <2> QED
    BY <1>0, <1>4, <1>6, <2>1, Inductive
<1>8. h[n + Len(r)] = Moved(f[Len(r)], k, cmds)
  BY <1>0, <1>7
<1>9. f[Len(r)] \in Passing /\ Done(r, f[Len(r)])
  BY <1>0, ParseType DEF f, Parse
<1>10. Done(z, h[n + Len(r)])
  <2> DEFINE s == f[Len(r)]
             t == h[n + Len(r)]
  <2>1. t = Moved(s, k, cmds) /\ s \in Passing /\ Done(r, s)
    BY <1>8, <1>9
  <2> HIDE DEF s, t
  <2>2. t.pos = s.pos + k /\ t.stopped = s.stopped /\ s.pos \in Nat
    BY <2>1 DEF Moved, Passing
  <2>3. Done(z, t)
    BY <1>0, <2>1, <2>2 DEF Done
  <2> QED
    BY <2>3 DEF t
<1>11. n + Len(r) \in 0 .. Len(z)
  BY <1>0
<1>12. Parse(z) = h[n + Len(r)]
  BY <1>0, <1>10, <1>11, Settled DEF h
<1>13. Parse(r) = f[Len(r)]
  BY DEF f, Parse
<1>14. Joins(h[n + Len(r)], f[Len(r)], k, cmds)
  BY <1>8, MovedJoins
<1> QED
  BY <1>12, <1>13, <1>14

LEMMA RestWithin ==
    ASSUME NEW r \in Seq(STRING), NEW b \in Seq(STRING), NEW k \in Nat, k <= Len(r)
    PROVE  /\ Within(SubSeq(r, k + 1, Len(r)) \o b, k, r \o b)
           /\ k + Len(SubSeq(r, k + 1, Len(r)) \o b) = Len(r \o b)
<1> DEFINE s == SubSeq(r, k + 1, Len(r))
           y == s \o b
           z == r \o b
<1>1. s \in Seq(STRING) /\ Len(s) = Len(r) - k /\ \A i \in 1 .. Len(s) : s[i] = r[k + i]
  OBVIOUS
<1>2. Len(r) \in Nat /\ Len(b) \in Nat
  OBVIOUS
<1> HIDE DEF s
<1>3. y \in Seq(STRING) /\ z \in Seq(STRING) /\ Len(y) = Len(s) + Len(b) /\ Len(z) = Len(r) + Len(b)
  <2>1. s \in Seq(STRING)
    BY <1>1
  <2>2. y \in Seq(STRING) /\ Len(y) = Len(s) + Len(b)
    BY <2>1
  <2>3. z \in Seq(STRING) /\ Len(z) = Len(r) + Len(b)
    OBVIOUS
  <2> QED
    BY <2>2, <2>3
<1>4. ASSUME NEW i \in 1 .. Len(y) PROVE z[k + i] = y[i]
  <2>1. CASE i <= Len(s)
    BY <1>1, <1>2, <1>3, <2>1
  <2>2. CASE i > Len(s)
    <3>1. y[i] = b[i - Len(s)]
      BY <1>1, <1>2, <1>3, <2>2
    <3>2. z[k + i] = b[k + i - Len(r)]
      BY <1>1, <1>2, <1>3, <2>2
    <3> QED
      BY <1>1, <1>2, <3>1, <3>2
  <2> QED
    BY <1>1, <1>2, <1>3, <2>1, <2>2
<1> HIDE DEF y, z
<1>5. Within(y, k, z)
  BY <1>1, <1>2, <1>3, <1>4 DEF Within
<1> QED
  BY <1>1, <1>2, <1>3, <1>5 DEF s, y, z

\* r is what is left of z where the decoder ends with q, which is at the front of z.
Cut(q, k, r, z) ==
    Within(q, 0, z) /\ Within(r, k, z) /\ k + Len(r) = Len(z) /\ Parse(q).pos = k + 1

SameRest(r, k, z) == \A p \in Nat \ {0} : SubSeq(z, p + k, Len(z)) = SubSeq(r, p, Len(r))

LEMMA RestOf ==
    ASSUME NEW q, NEW k \in Nat, NEW r, NEW z, Cut(q, k, r, z)
    PROVE  SameRest(r, k, z)
<1> SUFFICES ASSUME NEW p \in Nat \ {0} PROVE SubSeq(z, p + k, Len(z)) = SubSeq(r, p, Len(r))
  BY DEF SameRest
<1>0. Within(r, k, z) /\ k + Len(r) = Len(z)
  BY DEF Cut
<1>1. PICK l \in Nat : l = Len(r) /\ l <= Len(r)
  BY <1>0 DEF Within
<1>2. SubSeq(z, p + k, l + k) = SubSeq(r, p, l)
  BY <1>0, <1>1, WithinSub
<1>3. Len(z) = l + k
  BY <1>0, <1>1 DEF Within
<1> QED
  BY <1>1, <1>2, <1>3

LEMMA ParseWithin ==
    ASSUME NEW r, NEW y, NEW z, NEW k \in Nat, Cut(r, k, y, z)
    PROVE  /\ Parse(z).cmds = Parse(r).cmds \o Parse(y).cmds
           /\ SubSeq(z, Parse(z).pos, Len(z)) = SubSeq(y, Parse(y).pos, Len(y))
<1>1. /\ r \in Seq(STRING) /\ y \in Seq(STRING) /\ z \in Seq(STRING)
      /\ Len(y) \in Nat /\ Len(z) \in Nat
  BY DEF Cut, Within
<1>2. Parse(r).cmds \in Seq(Seq(Seq(STRING)))
  BY <1>1, ParseType DEF Passing
<1>3. PICK n \in 0 .. Len(z) :
         /\ n < k + 1
         /\ UnitsPassed(z)[n] = [pos |-> k + 1, stopped |-> FALSE, cmds |-> Parse(r).cmds]
  BY PrefixPassed DEF Cut
<1>4. n \in 0 .. k
  BY <1>1, <1>3
<1>5. Joins(Parse(z), Parse(y), k, Parse(r).cmds)
  BY <1>2, <1>3, <1>4, SuffixPassed DEF Cut
<1>6. Parse(z).cmds = Parse(r).cmds \o Parse(y).cmds /\ Parse(z).pos = Parse(y).pos + k
  BY <1>5 DEF Joins
<1>7. SubSeq(z, Parse(y).pos + k, Len(z)) = SubSeq(y, Parse(y).pos, Len(y))
  <2>1. SameRest(y, k, z)
    BY RestOf
  <2>2. Parse(y).pos \in Nat \ {0}
    BY <1>1, ParseType DEF Passing
  <2> QED
    BY <2>1, <2>2, Zenon DEF SameRest
<1> QED
  BY <1>6, <1>7

\* Fed in two parts as in one.
FedApart(read_buf, a, b, first, second) ==
    Feed(read_buf, a \o b) = [cmds |-> first.cmds \o second.cmds, rest |-> second.rest]

LEMMA FeedInTwo ==
    ASSUME NEW read_buf \in Seq(STRING), NEW a \in Seq(STRING), NEW b \in Seq(STRING),
           NEW first, first = Feed(read_buf, a), NEW second, second = Feed(first.rest, b)
    PROVE  FedApart(read_buf, a, b, first, second)
<1> DEFINE r == read_buf \o a
           z == read_buf \o (a \o b)
           y == first.rest \o b
<1>1. r \in Seq(STRING) /\ z = r \o b
  OBVIOUS
<1>2. first.cmds = Parse(r).cmds /\ first.rest = SubSeq(r, Parse(r).pos, Len(r))
  BY DEF Feed, Fed
<1>3. second.cmds = Parse(y).cmds /\ second.rest = SubSeq(y, Parse(y).pos, Len(y))
  BY DEF Feed, Fed
<1>4. Feed(read_buf, a \o b) = [cmds |-> Parse(z).cmds, rest |-> SubSeq(z, Parse(z).pos, Len(z))]
  BY DEF Feed, Fed
<1>5. y = SubSeq(r, Parse(r).pos, Len(r)) \o b
  BY <1>2
<1> HIDE DEF r, z, y
<1>6. PICK k \in Nat : Parse(r).pos = k + 1 /\ k <= Len(r)
  <2>1. Parse(r).pos \in Nat \ {0} /\ Parse(r).pos <= Len(r) + 1
    BY <1>1, ParseType DEF Passing
  <2>2. ASSUME NEW p \in Nat \ {0}, NEW l \in Nat, p <= l + 1
        PROVE  \E k \in Nat : p = k + 1 /\ k <= l
    BY <2>2, p - 1 \in Nat
  <2>3. Len(r) \in Nat
    BY <1>1
  <2> QED
    BY <2>1, <2>2, <2>3
<1>7. Within(r, 0, z)
  <2>1. z \in Seq(STRING) /\ Len(z) = Len(r) + Len(b) /\ \A i \in 1 .. Len(r) : z[i] = r[i]
    BY <1>1
  <2> QED
    BY <1>1, <2>1 DEF Within
<1>8. Within(y, k, z) /\ k + Len(y) = Len(z)
  BY <1>1, <1>5, <1>6, RestWithin
<1>9. /\ Parse(z).cmds = Parse(r).cmds \o Parse(y).cmds
      /\ SubSeq(z, Parse(z).pos, Len(z)) = SubSeq(y, Parse(y).pos, Len(y))
  BY <1>6, <1>7, <1>8, ParseWithin DEF Cut
<1> QED
  BY <1>2, <1>3, <1>4, <1>9 DEF FedApart

\* What the decoder makes of bytes does not depend on where they are cut: fed a part
\* and then the rest, it yields the commands it would have yielded if fed both at
\* once, and keeps the same bytes.
THEOREM FeedSplit ==
    ASSUME NEW read_buf \in Seq(STRING), NEW a \in Seq(STRING), NEW b \in Seq(STRING)
    PROVE  LET first == Feed(read_buf, a)
               second == Feed(first.rest, b)
           IN  Feed(read_buf, a \o b) = [cmds |-> first.cmds \o second.cmds, rest |-> second.rest]
<1> DEFINE first == Feed(read_buf, a)
           second == Feed(first.rest, b)
<1>1. FedApart(read_buf, a, b, first, second)
  BY FeedInTwo, Zenon
<1> QED
  BY <1>1, Zenon DEF FedApart

LEMMA FeedType ==
    ASSUME NEW read_buf \in Seq(STRING), NEW data \in Seq(STRING)
    PROVE  /\ Feed(read_buf, data).cmds \in Seq(Seq(Seq(STRING)))
           /\ Feed(read_buf, data).rest \in Seq(STRING)
<1> DEFINE buf == read_buf \o data
<1>1. buf \in Seq(STRING)
  OBVIOUS
<1>2. /\ Feed(read_buf, data).cmds = Parse(buf).cmds
      /\ Feed(read_buf, data).rest = SubSeq(buf, Parse(buf).pos, Len(buf))
  BY DEF Feed, Fed
<1> HIDE DEF buf
<1>3. Parse(buf).cmds \in Seq(Seq(Seq(STRING))) /\ Parse(buf).pos \in Nat \ {0}
  BY <1>1, ParseType DEF Passing
<1>4. SubSeq(buf, Parse(buf).pos, Len(buf)) \in Seq(STRING)
  BY <1>1, <1>3
<1> QED
  BY <1>2, <1>3, <1>4

LEMMA FeedNothing ==
    Feed(<< >>, << >>).cmds = << >> /\ Feed(<< >>, << >>).rest = << >>
<1> DEFINE e == << >> \o << >>
<1>1. e \in Seq(STRING) /\ Len(e) = 0 /\ e = << >>
  OBVIOUS
<1>2. Feed(<< >>, << >>).cmds = Parse(e).cmds /\ Feed(<< >>, << >>).rest = SubSeq(e, Parse(e).pos, Len(e))
  BY DEF Feed, Fed
<1> HIDE DEF e
<1>3. Parse(e) = [pos |-> 1, stopped |-> FALSE, cmds |-> << >>]
  BY <1>1, UnitsPassedIs DEF Parse
<1>4. Parse(e).cmds = << >> /\ Parse(e).pos = 1
  BY <1>3
<1>5. SubSeq(e, 1, 0) = << >>
  BY <1>1
<1> QED
  BY <1>1, <1>2, <1>4, <1>5

-----------------------------------------------------------------------------
(* Numbers are read as they are written.                                   *)

\* What the definition of Decimal says of n, of a function f.
Spells(f, n) ==
    f[n] = IF n < 10 THEN <<Digits[n + 1]>> ELSE f[n \div 10] \o <<Digits[(n % 10) + 1]>>

Spelled(f, l) == \A n \in 0 .. l : Spells(f, n)

LEMMA LastDigit ==
    ASSUME NEW n \in Nat
    PROVE  /\ n >= 10 => n \div 10 \in Nat /\ n \div 10 < n
           /\ n % 10 \in 0 .. 9
           /\ n = 10 * (n \div 10) + (n % 10)
OBVIOUS

LEMMA DigitIs ==
    ASSUME NEW d \in 0 .. 9
    PROVE  Digits[d + 1] \in STRING
<1>1. Digits[d + 1] \in ToSet(Digits)
  BY DEF Digits, ToSet
<1> QED
  BY <1>1, MarksAssumption

\* There is a function that does what the definition says, up to any number.
LEMMA SpellsUpTo ==
    ASSUME NEW m \in Nat
    PROVE  \E f \in [0 .. m -> Seq(STRING)] : \A n \in 0 .. m : Spells(f, n)
<1> DEFINE T == {l \in Nat : \E f \in [0 .. l -> Seq(STRING)] : \A n \in 0 .. l : Spells(f, n)}
<1>1. 0 \in T
  <2> DEFINE f == [n \in 0 .. 0 |-> <<Digits[1]>>]
  <2>1. Digits[0 + 1] \in STRING
    BY DigitIs
  <2>2. f \in [0 .. 0 -> Seq(STRING)] /\ f[0] = <<Digits[0 + 1]>>
    BY <2>1
  <2> HIDE DEF f
  <2>3. Spells(f, 0)
    BY <2>2 DEF Spells
  <2>4. \A n \in 0 .. 0 : n = 0
    OBVIOUS
  <2> QED
    BY <2>2, <2>3, <2>4
<1>2. ASSUME NEW l \in T PROVE l + 1 \in T
  <2>1. PICK f \in [0 .. l -> Seq(STRING)] : \A n \in 0 .. l : Spells(f, n)
    BY <1>2
  <2> DEFINE m1 == l + 1
             new == IF m1 < 10 THEN <<Digits[m1 + 1]>> ELSE f[m1 \div 10] \o <<Digits[(m1 % 10) + 1]>>
             g == [n \in 0 .. m1 |-> IF n = m1 THEN new ELSE f[n]]
  <2>2. m1 \in Nat /\ l \in Nat
    OBVIOUS
  <2>3. new \in Seq(STRING)
    <3>1. CASE m1 < 10
      <4> HIDE DEF m1
      <4>2. m1 \in 0 .. 9
        BY <2>2, <3>1
      <4>1. Digits[m1 + 1] \in STRING
        BY <4>2, DigitIs, Zenon
      <4> QED
        BY <3>1, <4>1
    <3>2. CASE ~ (m1 < 10)
      <4>1. m1 \div 10 \in 0 .. l /\ m1 % 10 \in 0 .. 9
        BY <2>2, <3>2, LastDigit
      <4>2. Digits[(m1 % 10) + 1] \in STRING
        BY <4>1, DigitIs
      <4>3. f[m1 \div 10] \in Seq(STRING)
        BY <4>1
      <4> QED
        BY <3>2, <4>2, <4>3
    <3> QED
      BY <3>1, <3>2
  <2>4. g \in [0 .. m1 -> Seq(STRING)]
    <3> HIDE DEF new
    <3> QED
      BY <2>2, <2>3
  <2>5. ASSUME NEW n \in 0 .. m1 PROVE Spells(g, n)
    <3>1. n \in Nat
      BY <2>2
    <3>2. CASE n < 10
      <4>1. g[n] = <<Digits[n + 1]>>
        <5>1. CASE n = m1
          BY <5>1, <3>2
        <5>2. CASE n # m1
          <6>1. n \in 0 .. l /\ g[n] = f[n]
            BY <2>2, <5>2
          <6>2. Spells(f, n)
            BY <2>1, <6>1
          <6> QED
            BY <3>2, <6>1, <6>2 DEF Spells
        <5> QED
          BY <5>1, <5>2
      <4> HIDE DEF g
      <4> QED
        BY <3>2, <4>1 DEF Spells
    <3>3. CASE ~ (n < 10)
      <4>1. n \div 10 \in 0 .. l /\ n \div 10 # m1 /\ n \div 10 \in 0 .. m1
        BY <2>2, <3>1, <3>3, LastDigit
      <4>2. g[n \div 10] = f[n \div 10]
        BY <4>1
      <4>3. g[n] = f[n \div 10] \o <<Digits[(n % 10) + 1]>>
        <5>1. CASE n = m1
          BY <5>1, <3>3
        <5>2. CASE n # m1
          <6>1. n \in 0 .. l /\ g[n] = f[n]
            BY <2>2, <5>2
          <6>2. Spells(f, n)
            BY <2>1, <6>1
          <6> QED
            BY <3>3, <6>1, <6>2 DEF Spells
        <5> QED
          BY <5>1, <5>2
      <4> HIDE DEF g
      <4> QED
        BY <3>3, <4>2, <4>3 DEF Spells
    <3> QED
      BY <3>2, <3>3
  <2> HIDE DEF g
  <2> QED
    BY <2>2, <2>4, <2>5
<1>3. T = Nat
  <2>1. T \subseteq Nat
    OBVIOUS
  <2> HIDE DEF T
  <2> QED
    BY <1>1, <1>2, <2>1, Inductive
<1> QED
  BY <1>3

\* All such functions agree.
LEMMA SpellsAlike ==
    ASSUME NEW l \in Nat, NEW m \in Nat, NEW f, NEW g,
           Spelled(f, l), Spelled(g, m), NEW n \in 0 .. l, n \in 0 .. m
    PROVE  f[n] = g[n]
<1> DEFINE T == {i \in Nat : i <= l /\ i <= m /\ f[i] # g[i]}
<1> SUFFICES ASSUME T # {} PROVE FALSE
  OBVIOUS
<1>1. PICK i \in T : \A j \in T : i <= j
  <2>1. T \subseteq Nat
    OBVIOUS
  <2> HIDE DEF T
  <2> QED
    BY <2>1, Least
<1>2. Spells(f, i) /\ Spells(g, i) /\ i \in Nat
  BY DEF Spelled
<1>3. CASE i < 10
  BY <1>2, <1>3 DEF Spells
<1>4. CASE ~ (i < 10)
  <2>1. i \div 10 \in Nat /\ i \div 10 < i
    BY <1>2, <1>4, LastDigit
  <2>2. i \div 10 \notin T
    BY <1>1, <1>2, <2>1
  <2>3. f[i \div 10] = g[i \div 10]
    BY <1>2, <2>1, <2>2
  <2> QED
    BY <1>2, <1>4, <2>3 DEF Spells
<1> QED
  BY <1>3, <1>4

LEMMA DecimalIs ==
    ASSUME NEW n \in Nat
    PROVE  Spells(Decimal, n) /\ Decimal[n] \in Seq(STRING)
<1> DEFINE Up(m) == CHOOSE f \in [0 .. m -> Seq(STRING)] : \A i \in 0 .. m : Spells(f, i)
           D == [m \in Nat |-> Up(m)[m]]
           F(f) == [m \in Nat |-> IF m < 10 THEN <<Digits[m + 1]>>
                                  ELSE f[m \div 10] \o <<Digits[(m % 10) + 1]>>]
<1>1. ASSUME NEW m \in Nat
      PROVE  Up(m) \in [0 .. m -> Seq(STRING)] /\ \A i \in 0 .. m : Spells(Up(m), i)
  BY SpellsUpTo
<1>2. ASSUME NEW m \in Nat PROVE Spells(D, m) /\ D[m] \in Seq(STRING)
  <2> DEFINE u == Up(m)
             v == Up(m \div 10)
  <2>1. u \in [0 .. m -> Seq(STRING)] /\ \A i \in 0 .. m : Spells(u, i)
    BY <1>1
  <2>2. D[m] = u[m]
    OBVIOUS
  <2>3. D[m] \in Seq(STRING)
    <3> HIDE DEF u, D
    <3> QED
      BY <2>1, <2>2
  <2>4. CASE m < 10
    <3> HIDE DEF u, D
    <3>1. Spells(u, m)
      BY <2>1
    <3> QED
      BY <2>2, <2>3, <2>4, <3>1 DEF Spells
  <2>5. CASE ~ (m < 10)
    <3>1. m \div 10 \in Nat /\ m \div 10 < m
      BY <2>5, LastDigit
    <3>2. Spelled(v, m \div 10)
      BY <1>1, <3>1 DEF Spelled
    <3>3. D[m \div 10] = v[m \div 10]
      BY <3>1
    <3> HIDE DEF u, v, D
    <3>4. v[m \div 10] = u[m \div 10]
      <4>1. Spelled(u, m)
        BY <2>1 DEF Spelled
      <4>2. m \div 10 \in 0 .. m \div 10 /\ m \div 10 \in 0 .. m
        BY <3>1
      <4> QED
        BY <3>1, <3>2, <4>1, <4>2, SpellsAlike
    <3>5. Spells(u, m)
      BY <2>1
    <3> QED
      BY <2>2, <2>3, <2>5, <3>3, <3>4, <3>5 DEF Spells
  <2> QED
    BY <2>4, <2>5
<1> HIDE DEF Up
<1>3. D = F(D)
  <2>1. \A m \in Nat : D[m] = IF m < 10 THEN <<Digits[m + 1]>>
                              ELSE D[m \div 10] \o <<Digits[(m % 10) + 1]>>
    BY <1>2 DEF Spells
  <2>2. D = [m \in Nat |-> D[m]]
    OBVIOUS
  <2> HIDE DEF D
  <2>3. [m \in Nat |-> D[m]] = F(D)
    BY <2>1
  <2> QED
    BY <2>2, <2>3, Zenon
<1> HIDE DEF D
<1>4. Decimal = F(Decimal)
  BY <1>3 DEF Decimal
<1>5. \A m \in Nat : Spells(Decimal, m)
  BY <1>4 DEF Spells
<1>6. Decimal[n] = D[n]
  <2>1. \A m \in 0 .. n : Spells(Decimal, m) /\ Spells(D, m)
    BY <1>2, <1>5
  <2>2. Spelled(Decimal, n) /\ Spelled(D, n)
    BY <2>1 DEF Spelled
  <2>3. n \in 0 .. n
    OBVIOUS
  <2> QED
    BY <2>2, <2>3, SpellsAlike
<1> QED
  BY <1>2, <1>5, <1>6

AllDigits(s) == s \in Seq(STRING) /\ \A i \in 1 .. Len(s) : IsDigit(s[i])

LEMMA AllAhead ==
    ASSUME NEW s, AllDigits(s)
    PROVE  DigitsAhead(s) = Len(s)
<1>1. s \in Seq(STRING) /\ \A i \in 1 .. Len(s) : IsDigit(s[i])
  BY DEF AllDigits
<1>2. /\ DigitsAhead(s) \in 0 .. Len(s)
      /\ DigitsAhead(s) < Len(s) => ~ IsDigit(s[DigitsAhead(s) + 1])
  BY <1>1, DigitsAheadIs
<1>3. Len(s) \in Nat
  BY <1>1
<1> QED
  BY <1>1, <1>2, <1>3

LEMMA DigitRead ==
    ASSUME NEW d \in 0 .. 9, NEW line, NEW i, line[i] = Digits[d + 1]
    PROVE  IsDigit(line[i]) /\ DigitAt(line, i) = d
<1>1. \A e \in 1 .. 10 : Digits[e] = Digits[d + 1] <=> e = d + 1
  BY DEF Digits
<1> DEFINE c == CHOOSE e \in 1 .. 10 : Digits[e] = line[i]
<1>2. c = d + 1
  BY <1>1
<1>3. DigitAt(line, i) = d
  <2>1. DigitAt(line, i) = c - 1
    BY DEF DigitAt
  <2> HIDE DEF c
  <2> QED
    BY <1>2, <2>1
<1>4. Digits[d + 1] \in ToSet(Digits)
  BY DEF Digits, ToSet
<1> QED
  BY <1>3, <1>4 DEF IsDigit

LEMMA OneDigitMore ==
    ASSUME NEW s, AllDigits(s), NEW d \in 0 .. 9, NEW t, t = s \o <<Digits[d + 1]>>
    PROVE  AllDigits(t) /\ Natural(t) = 10 * Natural(s) + d
<1> DEFINE n == Len(s)
           v == Values(s)
           w == Values(t)
<1>1. s \in Seq(STRING) /\ n \in Nat /\ \A i \in 1 .. n : IsDigit(s[i])
  BY DEF AllDigits
<1>2. Digits[d + 1] \in STRING
  BY DigitIs
<1>3. /\ t \in Seq(STRING) /\ Len(t) = n + 1
      /\ t[n + 1] = Digits[d + 1] /\ \A i \in 1 .. n : t[i] = s[i]
  BY <1>1, <1>2
<1>4. IsDigit(t[n + 1]) /\ DigitAt(t, n + 1) = d
  BY <1>3, DigitRead
<1>5. AllDigits(t)
  <2>1. ASSUME NEW i \in 1 .. Len(t) PROVE IsDigit(t[i])
    <3>1. CASE i = n + 1
      BY <1>4, <3>1
    <3>2. CASE i # n + 1
      BY <1>1, <1>3, <3>2
    <3> QED
      BY <3>1, <3>2
  <2> QED
    BY <1>3, <2>1 DEF AllDigits
<1>6. DigitsAhead(s) = n /\ DigitsAhead(t) = n + 1
  BY <1>3, <1>5, AllAhead
<1>7. /\ v \in [0 .. n -> Nat] /\ v[0] = 0
      /\ \A i \in 1 .. n : v[i] = 10 * v[i - 1] + DigitAt(s, i)
  BY <1>1, <1>6, ValuesIs
<1>8. /\ w \in [0 .. n + 1 -> Nat] /\ w[0] = 0
      /\ \A i \in 1 .. n + 1 : w[i] = 10 * w[i - 1] + DigitAt(t, i)
  BY <1>3, <1>6, ValuesIs
<1>9. \A i \in 1 .. n : DigitAt(t, i) = DigitAt(s, i)
  BY <1>3 DEF DigitAt
<1>10. Natural(s) = v[n] /\ Natural(t) = w[n + 1]
  BY <1>6 DEF Natural
<1> HIDE DEF n, v, w
<1>11. w[n] = v[n]
  <2> DEFINE T == {i \in 0 .. n : w[i] # v[i]}
  <2> SUFFICES ASSUME T # {} PROVE FALSE
    BY <1>1
  <2>1. PICK i \in T : \A j \in T : i <= j
    <3>1. T \subseteq Nat
      BY <1>1
    <3> HIDE DEF T
    <3> QED
      BY <3>1, Least
  <2>2. i \in 0 .. n /\ w[i] # v[i]
    OBVIOUS
  <2>3. i \in 1 .. n /\ i - 1 \in 0 .. n /\ i \in 1 .. n + 1
    BY <1>1, <1>7, <1>8, <2>2
  <2>4. w[i - 1] = v[i - 1]
    BY <2>1, <2>3
  <2>5. /\ v[i] = 10 * v[i - 1] + DigitAt(s, i)
        /\ w[i] = 10 * w[i - 1] + DigitAt(t, i)
        /\ DigitAt(t, i) = DigitAt(s, i)
    BY <1>7, <1>8, <1>9, <2>3
  <2> QED
    BY <2>2, <2>4, <2>5
<1>12. w[n + 1] = 10 * w[n] + DigitAt(t, n + 1)
  <2> DEFINE m == n + 1
  <2>1. m \in 1 .. n + 1 /\ m - 1 = n
    BY <1>1
  <2> HIDE DEF m
  <2>2. w[m] = 10 * w[m - 1] + DigitAt(t, m)
    BY <1>8, <2>1
  <2>3. w[m] = 10 * w[n] + DigitAt(t, m)
    BY <2>1, <2>2
  <2> QED
    BY <2>3 DEF m
<1> QED
  BY <1>4, <1>5, <1>10, <1>11, <1>12

\* A number is read back as it was written.
ReadsBack(n) ==
    AllDigits(Decimal[n]) /\ Decimal[n] # << >> /\ Natural(Decimal[n]) = n

LEMMA NaturalNothing == AllDigits(<< >>) /\ Natural(<< >>) = 0
<1>1. << >> \in Seq(STRING) /\ Len(<< >>) = 0
  OBVIOUS
<1>2. AllDigits(<< >>)
  BY <1>1 DEF AllDigits
<1>3. DigitsAhead(<< >>) = 0
  BY <1>1, <1>2, AllAhead
<1>4. Values(<< >>)[0] = 0
  BY <1>1, ValuesIs
<1> QED
  BY <1>2, <1>3, <1>4 DEF Natural

LEMMA DecimalReadable ==
    ASSUME NEW n \in Nat
    PROVE  ReadsBack(n)
<1> DEFINE T == {i \in Nat : ~ ReadsBack(i)}
<1> SUFFICES ASSUME T # {} PROVE FALSE
  OBVIOUS
<1>1. PICK i \in T : \A j \in T : i <= j
  <2>1. T \subseteq Nat
    OBVIOUS
  <2> HIDE DEF T
  <2> QED
    BY <2>1, Least
<1>2. i \in Nat /\ ~ ReadsBack(i) /\ \A j \in Nat : j < i => ReadsBack(j)
  BY <1>1
<1>3. Spells(Decimal, i)
  BY <1>2, DecimalIs
<1>4. ASSUME NEW s, AllDigits(s), NEW d \in 0 .. 9, Decimal[i] = s \o <<Digits[d + 1]>>,
             i = 10 * Natural(s) + d
      PROVE  FALSE
  <2>1. AllDigits(Decimal[i]) /\ Natural(Decimal[i]) = i
    BY <1>4, OneDigitMore
  <2>2. Decimal[i] # << >>
    <3>1. s \in Seq(STRING) /\ Digits[d + 1] \in STRING
      BY <1>4, DigitIs DEF AllDigits
    <3>2. Len(s \o <<Digits[d + 1]>>) = Len(s) + 1 /\ Len(s) \in Nat
      BY <3>1
    <3> QED
      BY <1>4, <3>2
  <2> QED
    BY <1>2, <2>1, <2>2 DEF ReadsBack
<1>5. CASE i < 10
  <2>1. i \in 0 .. 9
    BY <1>2, <1>5
  <2>2. Decimal[i] = <<Digits[i + 1]>>
    BY <1>3, <1>5 DEF Spells
  <2>3. <<Digits[i + 1]>> = << >> \o <<Digits[i + 1]>>
    <3>1. Digits[i + 1] \in STRING
      BY <2>1, DigitIs
    <3> QED
      BY <3>1
  <2>4. i = 10 * Natural(<< >>) + i
    BY <2>1, NaturalNothing
  <2>5. Decimal[i] = << >> \o <<Digits[i + 1]>>
    BY <2>2, <2>3, Zenon
  <2> QED
    BY <1>4, <2>1, <2>4, <2>5, NaturalNothing
<1>6. CASE ~ (i < 10)
  <2>1. i \div 10 \in Nat /\ i \div 10 < i /\ i % 10 \in 0 .. 9 /\ i = 10 * (i \div 10) + (i % 10)
    BY <1>2, <1>6, LastDigit
  <2>2. Decimal[i] = Decimal[i \div 10] \o <<Digits[(i % 10) + 1]>>
    BY <1>3, <1>6 DEF Spells
  <2>3. ReadsBack(i \div 10)
    BY <1>2, <2>1
  <2>4. AllDigits(Decimal[i \div 10]) /\ i = 10 * Natural(Decimal[i \div 10]) + (i % 10)
    BY <2>1, <2>3 DEF ReadsBack
  <2> QED
    BY <1>4, <2>1, <2>2, <2>4, Zenon
<1> QED
  BY <1>5, <1>6

LEMMA StrtollDecimal ==
    ASSUME NEW n \in Nat
    PROVE  Strtoll(Decimal[n]) = n
<1> DEFINE s == Decimal[n]
<1>1. AllDigits(s) /\ s # << >> /\ Natural(s) = n
  BY DecimalReadable DEF ReadsBack
<1> HIDE DEF s
<1>2. IsDigit(s[1])
  <2>1. s \in Seq(STRING) /\ Len(s) # 0
    BY <1>1 DEF AllDigits
  <2>2. 1 \in 1 .. Len(s)
    BY <2>1
  <2> QED
    BY <1>1, <2>2 DEF AllDigits
<1>3. s[1] # "-" /\ s[1] # "+" /\ s[1] \notin Spaces
  <2>1. s[1] \in {"0", "1", "2", "3", "4", "5", "6", "7", "8", "9"}
    BY <1>2 DEF IsDigit, ToSet, Digits
  <2>2. s[1] \notin Spaces
    BY <2>1, Zenon DEF Spaces
  <2> QED
    BY <2>1, <2>2
<1>4. Leading(s, Spaces) = 0
  <2>1. s \in Seq(STRING)
    BY <1>1 DEF AllDigits
  <2>2. /\ Leading(s, Spaces) \in Nat
        /\ \A i \in 1 .. Leading(s, Spaces) : s[i] \in Spaces
    BY <2>1, LeadingIs
  <2> QED
    BY <1>3, <2>2
<1>5. SubSeq(s, 1, Len(s)) = s
  BY <1>1 DEF AllDigits
<1>6. Strtoll(s) = Signed(s)
  <2>1. Leading(s, Spaces) + 1 = 1
    BY <1>4
  <2> QED
    BY <1>5, <2>1, Zenon DEF Strtoll
<1>7. Signed(s) = Natural(s)
  BY <1>3 DEF Signed
<1> QED
  BY <1>1, <1>6, <1>7 DEF s

-----------------------------------------------------------------------------
(* A line with a number, a word, the words of a command.                   *)

\* buf begins with a byte and a line that holds n.
Headed(buf, n) ==
    LET x == Decimal[n]
    IN  /\ buf \in Seq(STRING) /\ Len(x) + 3 <= Len(buf)
        /\ \A i \in 1 .. Len(x) : buf[i + 1] = x[i]
        /\ buf[Len(x) + 2] = "\r" /\ buf[Len(x) + 3] = "\n"

LEMMA HeaderRead ==
    ASSUME NEW n \in Nat, NEW buf, Headed(buf, n)
    PROVE  /\ LineEnds(buf, 2) # {}
           /\ LineEnd(buf, 2) = Len(Decimal[n]) + 2
           /\ LineNumber(buf, 2) = n
<1> DEFINE x == Decimal[n]
           e == Len(x) + 2
<1>1. /\ buf \in Seq(STRING) /\ Len(x) + 3 <= Len(buf)
      /\ \A i \in 1 .. Len(x) : buf[i + 1] = x[i]
      /\ buf[Len(x) + 2] = "\r" /\ buf[Len(x) + 3] = "\n"
  BY DEF Headed
<1>2. AllDigits(x) /\ Strtoll(x) = n
  BY DecimalReadable, StrtollDecimal DEF ReadsBack
<1> HIDE DEF x
<1>3. x \in Seq(STRING) /\ Len(x) \in Nat /\ Len(buf) \in Nat
  BY <1>1, <1>2 DEF AllDigits
<1>4. e \in LineEnds(buf, 2)
  BY <1>1, <1>3 DEF LineEnds
<1>5. ASSUME NEW f \in LineEnds(buf, 2), f < e PROVE FALSE
  <2>1. f \in 2 .. Len(buf) - 1 /\ buf[f] = "\r"
    BY DEF LineEnds
  <2>2. f - 1 \in 1 .. Len(x) /\ f - 1 + 1 = f
    BY <1>3, <1>5, <2>1
  <2>3. IsDigit(x[f - 1])
    BY <1>2, <2>2 DEF AllDigits
  <2>4. x[f - 1] = "\r"
    BY <1>1, <2>1, <2>2
  <2>5. ~ IsDigit("\r")
    BY DEF IsDigit, ToSet, Digits
  <2> QED
    BY <2>3, <2>4, <2>5
<1>6. /\ LineEnd(buf, 2) \in LineEnds(buf, 2)
      /\ LineEnd(buf, 2) \in 2 .. Len(buf) - 1
      /\ \A f \in LineEnds(buf, 2) : LineEnd(buf, 2) <= f
  BY <1>1, <1>4, LineEndIs
<1>7. LineEnd(buf, 2) = e
  BY <1>3, <1>4, <1>5, <1>6
<1>8. SubSeq(buf, 2, e - 1) = x
  <2>1. e - 1 = Len(x) + 1
    BY <1>3
  <2>2. SubSeq(buf, 2, Len(x) + 1) \in Seq(STRING) /\ Len(SubSeq(buf, 2, Len(x) + 1)) = Len(x)
    BY <1>1, <1>3
  <2>3. \A i \in 1 .. Len(x) : SubSeq(buf, 2, Len(x) + 1)[i] = x[i]
    BY <1>1, <1>3
  <2>4. SubSeq(buf, 2, Len(x) + 1) = x
    BY <1>3, <2>2, <2>3
  <2> QED
    BY <2>1, <2>4
<1>9. LineNumber(buf, 2) = Strtoll(x)
  BY <1>7, <1>8 DEF LineNumber
<1> QED
  BY <1>2, <1>4, <1>7, <1>9 DEF x

LEMMA DecimalType ==
    ASSUME NEW n \in Nat
    PROVE  Decimal[n] \in Seq(STRING) /\ Len(Decimal[n]) \in Nat \ {0}
<1>1. Decimal[n] \in Seq(STRING) /\ Decimal[n] # << >>
  BY DecimalReadable DEF ReadsBack, AllDigits
<1> QED
  BY <1>1

LEMMA MarksAre == "*" \in STRING /\ "$" \in STRING /\ "\r" \in STRING /\ "\n" \in STRING
BY MarksAssumption

\* c is a and then b.
Joined(a, b, c) ==
    /\ c \in Seq(STRING) /\ Len(c) = Len(a) + Len(b)
    /\ \A i \in 1 .. Len(a) : c[i] = a[i]
    /\ \A i \in 1 .. Len(b) : c[Len(a) + i] = b[i]

LEMMA Joining ==
    ASSUME NEW a \in Seq(STRING), NEW b \in Seq(STRING)
    PROVE  Joined(a, b, a \o b)
BY DEF Joined

\* A mark, the bytes of a number, an end of line, and what follows.
LEMMA HeaderBytes ==
    ASSUME NEW m \in Seq(STRING), Len(m) = 1, NEW x \in Seq(STRING), NEW w \in Seq(STRING),
           NEW a, Joined(m, x, a), NEW b, Joined(a, CRLF, b), NEW buf, Joined(b, w, buf)
    PROVE  /\ buf \in Seq(STRING) /\ buf[1] = m[1] /\ Len(buf) = Len(x) + 3 + Len(w)
           /\ \A i \in 1 .. Len(x) : buf[i + 1] = x[i]
           /\ buf[Len(x) + 2] = "\r" /\ buf[Len(x) + 3] = "\n"
           /\ \A i \in 1 .. Len(w) : buf[Len(x) + 3 + i] = w[i]
<1> DEFINE d == Len(x)
<1>1. d \in Nat /\ Len(w) \in Nat
  OBVIOUS
<1>2. Len(CRLF) = 2 /\ CRLF[1] = "\r" /\ CRLF[2] = "\n"
  BY DEF CRLF
<1>4. a \in Seq(STRING) /\ Len(a) = d + 1 /\ a[1] = m[1]
  BY <1>1 DEF Joined
<1>5. \A i \in 1 .. d : a[i + 1] = x[i]
  <2> SUFFICES ASSUME NEW i \in 1 .. d PROVE a[i + 1] = x[i]
    OBVIOUS
  <2>1. a[1 + i] = x[i]
    BY DEF Joined
  <2>2. 1 + i = i + 1
    OBVIOUS
  <2> QED
    BY <2>1, <2>2
<1>6. /\ b \in Seq(STRING) /\ Len(b) = d + 3 /\ \A i \in 1 .. d + 1 : b[i] = a[i]
      /\ \A i \in 1 .. 2 : b[d + 1 + i] = CRLF[i]
  BY <1>1, <1>2, <1>4 DEF Joined
<1>7. b[d + 2] = "\r" /\ b[d + 3] = "\n"
  <2>1. b[d + 1 + 1] = CRLF[1] /\ b[d + 1 + 2] = CRLF[2]
    BY <1>6
  <2>2. d + 1 + 1 = d + 2 /\ d + 1 + 2 = d + 3
    BY <1>1
  <2> QED
    BY <1>2, <2>1, <2>2
<1>8. /\ buf \in Seq(STRING) /\ Len(buf) = d + 3 + Len(w)
      /\ \A i \in 1 .. d + 3 : buf[i] = b[i]
      /\ \A i \in 1 .. Len(w) : buf[d + 3 + i] = w[i]
  BY <1>1, <1>6 DEF Joined
<1> HIDE DEF d
<1>9. buf[1] = b[1] /\ b[1] = a[1] /\ buf[d + 2] = b[d + 2] /\ buf[d + 3] = b[d + 3]
  BY <1>1, <1>6, <1>8
<1>10. \A i \in 1 .. d : buf[i + 1] = x[i]
  <2> SUFFICES ASSUME NEW i \in 1 .. d PROVE buf[i + 1] = x[i]
    OBVIOUS
  <2>1. i + 1 \in 1 .. d + 1 /\ i + 1 \in 1 .. d + 3
    BY <1>1
  <2> QED
    BY <1>5, <1>6, <1>8, <2>1
<1> QED
  BY <1>4, <1>7, <1>8, <1>9, <1>10 DEF d

LEMMA OneByte ==
    ASSUME NEW S, NEW b \in S
    PROVE  <<b>> \in Seq(S) /\ Len(<<b>>) = 1 /\ <<b>>[1] = b
OBVIOUS

LEMMA HeaderShape ==
    ASSUME NEW mark \in STRING, NEW n \in Nat, NEW w \in Seq(STRING)
    PROVE  LET buf == ((<<mark>> \o Decimal[n]) \o CRLF) \o w
           IN  /\ Headed(buf, n)
               /\ buf[1] = mark
               /\ Len(buf) = Len(Decimal[n]) + 3 + Len(w)
               /\ \A i \in 1 .. Len(w) : buf[Len(Decimal[n]) + 3 + i] = w[i]
<1> DEFINE x == Decimal[n]
           a == <<mark>> \o x
           b == a \o CRLF
           c == b \o w
<1>1. x \in Seq(STRING) /\ Len(x) \in Nat
  <2>1. x \in Seq(STRING) /\ Len(x) \in Nat \ {0}
    BY DecimalType, Zenon
  <2> HIDE DEF x
  <2> QED
    BY <2>1
<1> DEFINE m == <<mark>>
<1>10. m \in Seq(STRING) /\ Len(m) = 1 /\ m[1] = mark
  BY OneByte
<1>2. CRLF \in Seq(STRING)
  BY MarksAre DEF CRLF
<1>3. Joined(m, x, a)
  BY <1>1, <1>10, Joining
<1>4. Joined(a, CRLF, b)
  BY <1>2, <1>3, Joining DEF Joined
<1>5. Joined(b, w, c)
  BY <1>4, Joining DEF Joined
<1> HIDE DEF x, a, b, c, m
<1>6. /\ c \in Seq(STRING) /\ c[1] = mark /\ Len(c) = Len(x) + 3 + Len(w)
      /\ \A i \in 1 .. Len(x) : c[i + 1] = x[i]
      /\ c[Len(x) + 2] = "\r" /\ c[Len(x) + 3] = "\n"
      /\ \A i \in 1 .. Len(w) : c[Len(x) + 3 + i] = w[i]
  BY <1>1, <1>3, <1>4, <1>5, <1>10, HeaderBytes
<1>7. Len(x) + 3 <= Len(c)
  BY <1>1, <1>6
<1>8. Headed(c, n)
  BY <1>6, <1>7, Zenon DEF Headed, x
<1>9. c = ((<<mark>> \o Decimal[n]) \o CRLF) \o w
  BY DEF x, a, b, c, m
<1> QED
  BY <1>6, <1>8, <1>9, Zenon DEF x

-----------------------------------------------------------------------------
(* One word.                                                               *)

LEMMA MaxIs ==
    ASSUME NEW n \in Nat
    PROVE  Max({0, n}) = n
BY DEF Max

LEMMA BulkStringIs ==
    ASSUME NEW w \in Seq(STRING)
    PROVE  LET n == Len(w)
               h == Len(Decimal[n]) + 3
               buf == BulkString(w)
           IN  /\ Headed(buf, n) /\ buf[1] = "$" /\ Len(buf) = h + n + 2
               /\ \A i \in 1 .. n : buf[h + i] = w[i]
               /\ buf[h + n + 1] = "\r" /\ buf[h + n + 2] = "\n"
<1> DEFINE n == Len(w)
           x == Decimal[n]
           h == Len(x) + 3
           v == w \o CRLF
           buf == ((<<"$">> \o x) \o CRLF) \o v
<1>1. n \in Nat /\ "$" \in STRING
  BY MarksAre
<1>2. CRLF \in Seq(STRING) /\ Len(CRLF) = 2 /\ CRLF[1] = "\r" /\ CRLF[2] = "\n"
  BY MarksAre DEF CRLF
<1>3. Joined(w, CRLF, v)
  BY <1>2, Joining
<1>4. v \in Seq(STRING)
  BY <1>3 DEF Joined
<1>5. x \in Seq(STRING) /\ Len(x) \in Nat
  BY <1>1, DecimalType
<1>6. BulkString(w) = buf
  <2> DEFINE b == (<<"$">> \o x) \o CRLF
  <2>1. <<"$">> \in Seq(STRING)
    BY <1>1
  <2>2. b \in Seq(STRING)
    BY <1>2, <1>5, <2>1
  <2>3. BulkString(w) = (b \o w) \o CRLF
    BY DEF BulkString
  <2> HIDE DEF b
  <2>4. (b \o w) \o CRLF = b \o (w \o CRLF)
    BY <1>2, <2>2
  <2> QED
    BY <2>3, <2>4 DEF b
<1> HIDE DEF v
<1>7. /\ Headed(buf, n) /\ buf[1] = "$" /\ Len(buf) = Len(Decimal[n]) + 3 + Len(v)
      /\ \A i \in 1 .. Len(v) : buf[Len(Decimal[n]) + 3 + i] = v[i]
  BY <1>1, <1>4, HeaderShape, SMTT(30)
<1> HIDE DEF buf, x
<1>8. Len(buf) = h + Len(v) /\ \A i \in 1 .. Len(v) : buf[h + i] = v[i]
  BY <1>7 DEF x
<1>9. h \in Nat
  BY <1>5
<1> HIDE DEF h
<1>10. /\ Len(v) = n + 2 /\ \A i \in 1 .. n : v[i] = w[i]
       /\ v[n + 1] = CRLF[1] /\ v[n + 2] = CRLF[2]
  BY <1>1, <1>2, <1>3 DEF Joined
<1> HIDE DEF n
<1>11. buf[h + (n + 1)] = v[n + 1] /\ buf[h + (n + 2)] = v[n + 2]
  BY <1>1, <1>8, <1>10
<1>12. h + (n + 1) = h + n + 1 /\ h + (n + 2) = h + n + 2
  BY <1>1, <1>9
<1>13. buf[h + n + 1] = "\r" /\ buf[h + n + 2] = "\n"
  BY <1>2, <1>10, <1>11, <1>12
<1>14. Len(buf) = h + n + 2 /\ \A i \in 1 .. n : buf[h + i] = w[i]
  BY <1>1, <1>8, <1>9, <1>10
<1> QED
  BY <1>6, <1>7, <1>13, <1>14 DEF h, x, n

LEMMA BulkStringRead ==
    ASSUME NEW w \in Seq(STRING)
    PROVE  Element(BulkString(w), 1) = [pos |-> Len(BulkString(w)) + 1, word |-> w]
<1> DEFINE n == Len(w)
           h == Len(Decimal[n]) + 3
           buf == BulkString(w)
           from == h + 1
<1>1. n \in Nat /\ h \in Nat /\ h > 2
  <2>1. n \in Nat
    OBVIOUS
  <2>2. Len(Decimal[n]) \in Nat \ {0}
    BY <2>1, DecimalType
  <2> HIDE DEF n
  <2> QED
    BY <2>1, <2>2
<1>2. /\ Headed(buf, n) /\ buf[1] = "$" /\ Len(buf) = h + n + 2
      /\ \A i \in 1 .. n : buf[h + i] = w[i]
      /\ buf[h + n + 1] = "\r" /\ buf[h + n + 2] = "\n"
  BY BulkStringIs
<1> HIDE DEF buf
<1>3. LineEnds(buf, 2) # {} /\ LineEnd(buf, 2) = Len(Decimal[n]) + 2 /\ LineNumber(buf, 2) = n
  BY <1>1, <1>2, HeaderRead
<1>4. LineEnd(buf, 2) + 2 = from
  <2>1. Len(Decimal[n]) \in Nat
    BY <1>1, DecimalType
  <2> QED
    BY <1>3, <2>1
<1>5. buf \in Seq(STRING)
  BY <1>2 DEF Headed
<1> HIDE DEF h
<1>6. Element(buf, 1) = Word(buf, from, n)
  <2>1. ~ (1 > Len(buf)) /\ 1 + 1 = 2
    BY <1>1, <1>2
  <2>2. Max({0, LineNumber(buf, 2)}) = n
    BY <1>1, <1>3, MaxIs
  <2> HIDE DEF from, n
  <2> QED
    BY <1>2, <1>3, <1>4, <2>1, <2>2 DEF Element
<1> HIDE DEF n
<1>7. ~ (from + n + 1 > Len(buf)) /\ from + n = h + n + 1
  BY <1>1, <1>2
<1>8. from + n \in LineEnds(buf, from + n)
  <2>1. h + n + 1 \in h + n + 1 .. Len(buf) - 1 /\ h + n + 1 + 1 = h + n + 2
    BY <1>1, <1>2
  <2>2. h + n + 1 \in LineEnds(buf, h + n + 1)
    BY <1>2, <2>1 DEF LineEnds
  <2> QED
    BY <1>7, <2>2
<1>9. from + n + 2 = Len(buf) + 1
  BY <1>1, <1>2
<1>10. SubSeq(buf, from, from + n - 1) = w
  <2>1. Len(SubSeq(buf, from, from + n - 1)) = n /\ SubSeq(buf, from, from + n - 1) \in Seq(STRING)
    BY <1>1, <1>2, <1>5
  <2>2. ASSUME NEW i \in 1 .. n PROVE SubSeq(buf, from, from + n - 1)[i] = w[i]
    <3>1. SubSeq(buf, from, from + n - 1)[i] = buf[h + i]
      BY <1>1, <1>2, <1>5
    <3> QED
      BY <1>2, <3>1
  <2>3. Len(w) = n
    BY DEF n
  <2> HIDE DEF from
  <2> QED
    BY <1>5, <2>1, <2>2, <2>3
<1> HIDE DEF from
<1>11. Word(buf, from, n) = [pos |-> from + n + 2, word |-> w]
  BY <1>7, <1>8, <1>10 DEF Word
<1> QED
  BY <1>6, <1>9, <1>11 DEF buf

-----------------------------------------------------------------------------
(* All words of a command.                                                 *)

\* g[i] is the first i of these sequences, one behind the other.
Flattens(g, seqs) ==
    /\ g \in [0 .. Len(seqs) -> Seq(STRING)]
    /\ g[0] = << >>
    /\ \A i \in 1 .. Len(seqs) : g[i] = g[i - 1] \o seqs[i]

LEMMA Flattening ==
    ASSUME NEW seqs \in Seq(Seq(STRING))
    PROVE  \E g : Flattens(g, seqs) /\ FlattenSeq(seqs) = g[Len(seqs)]
BY FlattenIs DEF Flattens

LEMMA FlattenStep ==
    ASSUME NEW seqs \in Seq(Seq(STRING)), NEW g, Flattens(g, seqs), NEW i \in 1 .. Len(seqs)
    PROVE  /\ g[i] \in Seq(STRING) /\ g[i - 1] \in Seq(STRING) /\ seqs[i] \in Seq(STRING)
           /\ Joined(g[i - 1], seqs[i], g[i])
<1>1. i \in 0 .. Len(seqs) /\ i - 1 \in 0 .. Len(seqs)
  OBVIOUS
<1>2. g[i] \in Seq(STRING) /\ g[i - 1] \in Seq(STRING) /\ g[i] = g[i - 1] \o seqs[i]
  BY <1>1 DEF Flattens
<1>3. seqs[i] \in Seq(STRING)
  OBVIOUS
<1> QED
  BY <1>2, <1>3, Joining

\* What is put together of the first i is at the front of what is put together of all.
LEMMA FlattenFront ==
    ASSUME NEW seqs \in Seq(Seq(STRING)), NEW g, Flattens(g, seqs), NEW i \in 0 .. Len(seqs)
    PROVE  Begins(g[i], g[Len(seqs)])
<1> DEFINE n == Len(seqs)
<1>1. n \in Nat /\ seqs \in [1 .. n -> Seq(STRING)]
  OBVIOUS
<1>2. g \in [0 .. n -> Seq(STRING)] /\ Grows(g, seqs, n)
  BY DEF Flattens, Grows
<1>3. i \in 0 .. n
  OBVIOUS
<1> HIDE DEF n
<1>4. Begins(g[i], g[n])
  BY <1>1, <1>2, <1>3, Fronts
<1> QED
  BY <1>4 DEF n

\* Each of them is a part of the whole, behind the ones before it.
LEMMA FlattenWithin ==
    ASSUME NEW seqs \in Seq(Seq(STRING)), NEW g, Flattens(g, seqs), NEW i \in 1 .. Len(seqs)
    PROVE  /\ Len(g[i - 1]) \in Nat
           /\ Len(g[i]) = Len(g[i - 1]) + Len(seqs[i])
           /\ Within(seqs[i], Len(g[i - 1]), g[Len(seqs)])
<1> DEFINE a == g[i - 1]
           b == g[i]
           c == g[Len(seqs)]
           s == seqs[i]
<1>1. a \in Seq(STRING) /\ b \in Seq(STRING) /\ s \in Seq(STRING) /\ Joined(a, s, b)
  BY FlattenStep
<1>2. Begins(b, c)
  <2>1. i \in 0 .. Len(seqs)
    OBVIOUS
  <2> QED
    BY <2>1, FlattenFront
<1>3. c \in Seq(STRING)
  <2>1. Len(seqs) \in 0 .. Len(seqs)
    OBVIOUS
  <2> QED
    BY <2>1 DEF Flattens
<1> HIDE DEF a, b, c, s
<1>4. Len(a) \in Nat /\ Len(s) \in Nat /\ Len(c) \in Nat
  BY <1>1, <1>3
<1>5. Len(b) = Len(a) + Len(s) /\ \A j \in 1 .. Len(s) : b[Len(a) + j] = s[j]
  BY <1>1 DEF Joined
<1>6. ASSUME NEW j \in 1 .. Len(s) PROVE c[Len(a) + j] = s[j]
  <2>1. Len(a) + j \in 1 .. Len(b)
    BY <1>4, <1>5
  <2> QED
    BY <1>2, <1>5, <2>1 DEF Begins
<1>7. Len(a) + Len(s) <= Len(c)
  BY <1>2, <1>5 DEF Begins
<1>8. Within(s, Len(a), c)
  BY <1>1, <1>3, <1>4, <1>6, <1>7 DEF Within
<1> QED
  BY <1>4, <1>5, <1>8 DEF a, b, c, s

BulkStrings(cmd) == [i \in 1 .. Len(cmd) |-> BulkString(cmd[i])]

LEMMA BulkStringsType ==
    ASSUME NEW cmd \in Seq(Seq(STRING))
    PROVE  /\ BulkStrings(cmd) \in Seq(Seq(STRING)) /\ Len(BulkStrings(cmd)) = Len(cmd)
           /\ \A i \in 1 .. Len(cmd) : BulkStrings(cmd)[i] = BulkString(cmd[i]) /\ cmd[i] \in Seq(STRING)
<1>1. ASSUME NEW i \in 1 .. Len(cmd) PROVE BulkString(cmd[i]) \in Seq(STRING)
  <2>1. cmd[i] \in Seq(STRING)
    OBVIOUS
  <2>2. Headed(BulkString(cmd[i]), Len(cmd[i]))
    BY <2>1, BulkStringIs
  <2> QED
    BY <2>2 DEF Headed
<1>2. Len(cmd) \in Nat
  OBVIOUS
<1> QED
  BY <1>1, <1>2 DEF BulkStrings

\* The encoding of cmd: a header, whose length is h, and the words, of which g[i]
\* is the first i.
Encodes(buf, cmd, h, g) ==
    /\ Headed(buf, Len(cmd)) /\ buf[1] = "*" /\ h = Len(Decimal[Len(cmd)]) + 3 /\ h \in Nat
    /\ Flattens(g, BulkStrings(cmd))
    /\ Len(buf) = h + Len(g[Len(cmd)])
    /\ \A i \in 1 .. Len(g[Len(cmd)]) : buf[h + i] = g[Len(cmd)][i]

LEMMA EncodeIs ==
    ASSUME NEW cmd \in Seq(Seq(STRING))
    PROVE  \E h, g : Encodes(Encode(cmd), cmd, h, g)
<1> DEFINE n == Len(cmd)
           f == FlattenSeq(BulkStrings(cmd))
           h == Len(Decimal[n]) + 3
<1>1. n \in Nat /\ "*" \in STRING
  BY MarksAre
<1>2. PICK g : Flattens(g, BulkStrings(cmd)) /\ f = g[n]
  <2>1. BulkStrings(cmd) \in Seq(Seq(STRING)) /\ Len(BulkStrings(cmd)) = n
    BY BulkStringsType
  <2> QED
    BY <2>1, Flattening
<1>3. f \in Seq(STRING)
  <2>1. g \in [0 .. n -> Seq(STRING)]
    BY <1>2, BulkStringsType DEF Flattens
  <2>2. n \in 0 .. n
    BY <1>1
  <2> QED
    BY <1>2, <2>1, <2>2
<1>4. Encode(cmd) = ((<<"*">> \o Decimal[n]) \o CRLF) \o f
  BY DEF Encode, BulkStrings
<1> HIDE DEF f, n
<1>5. /\ Headed(Encode(cmd), n) /\ Encode(cmd)[1] = "*"
      /\ Len(Encode(cmd)) = Len(Decimal[n]) + 3 + Len(f)
      /\ \A i \in 1 .. Len(f) : Encode(cmd)[Len(Decimal[n]) + 3 + i] = f[i]
  BY <1>1, <1>3, <1>4, HeaderShape
<1>6. h \in Nat
  <2>1. Len(Decimal[n]) \in Nat
    BY <1>1, DecimalType
  <2> QED
    BY <2>1
<1>7. Encodes(Encode(cmd), cmd, h, g)
  BY <1>2, <1>5, <1>6 DEF Encodes, n
<1> QED
  BY <1>7

\* The decoder has read the first i words.
WordsRead(cmd, h, g, i) == [pos |-> h + 1 + Len(g[i]), words |-> SubSeq(cmd, 1, i)]

LEMMA NextWordRead ==
    ASSUME NEW cmd \in Seq(Seq(STRING)), NEW buf, NEW h, NEW g, Encodes(buf, cmd, h, g),
           NEW i \in 1 .. Len(cmd)
    PROVE  NextElement(buf, WordsRead(cmd, h, g, i - 1)) = WordsRead(cmd, h, g, i)
<1> DEFINE n == Len(cmd)
           s == BulkString(cmd[i])
           k == h + Len(g[i - 1])
           p == h + 1 + Len(g[i - 1])
           f == g[n]
<1>1. /\ h \in Nat /\ buf \in Seq(STRING) /\ Flattens(g, BulkStrings(cmd)) /\ Len(buf) = h + Len(f)
      /\ \A j \in 1 .. Len(f) : buf[h + j] = f[j]
  BY DEF Encodes, Headed
<1>2. /\ BulkStrings(cmd) \in Seq(Seq(STRING)) /\ Len(BulkStrings(cmd)) = n
      /\ BulkStrings(cmd)[i] = s /\ cmd[i] \in Seq(STRING)
  BY BulkStringsType
<1>3. /\ Len(g[i - 1]) \in Nat /\ Len(g[i]) = Len(g[i - 1]) + Len(s)
      /\ Within(s, Len(g[i - 1]), f)
  <2> DEFINE q == BulkStrings(cmd)
  <2>1. q \in Seq(Seq(STRING)) /\ Flattens(g, q) /\ i \in 1 .. Len(q) /\ q[i] = s /\ Len(q) = n
    BY <1>1, <1>2
  <2> HIDE DEF q, n, s
  <2>2. /\ Len(g[i - 1]) \in Nat /\ Len(g[i]) = Len(g[i - 1]) + Len(q[i])
        /\ Within(q[i], Len(g[i - 1]), g[Len(q)])
    BY <2>1, FlattenWithin
  <2> QED
    BY <2>1, <2>2
<1> HIDE DEF s, f
<1>4. Within(s, k, buf)
  <2> DEFINE l == Len(g[i - 1])
  <2>1. /\ s \in Seq(STRING) /\ f \in Seq(STRING) /\ l + Len(s) <= Len(f)
        /\ \A j \in 1 .. Len(s) : f[l + j] = s[j]
    BY <1>3 DEF Within
  <2>2. Len(s) \in Nat /\ Len(f) \in Nat /\ l \in Nat
    BY <1>3, <2>1
  <2> HIDE DEF l
  <2>3. ASSUME NEW j \in 1 .. Len(s) PROVE buf[h + l + j] = s[j]
    <3>1. l + j \in 1 .. Len(f) /\ h + (l + j) = h + l + j
      BY <1>1, <2>1, <2>2
    <3>2. buf[h + (l + j)] = f[l + j] /\ f[l + j] = s[j]
      BY <1>1, <2>1, <3>1
    <3> QED
      BY <3>1, <3>2
  <2>4. h + l \in Nat /\ h + l + Len(s) <= Len(buf)
    BY <1>1, <2>1, <2>2
  <2>5. Within(s, h + l, buf)
    BY <1>1, <2>1, <2>3, <2>4 DEF Within
  <2> QED
    BY <2>5 DEF l
<1>5. Element(s, 1) = [pos |-> Len(s) + 1, word |-> cmd[i]]
  BY <1>2, BulkStringRead DEF s
<1>6. k \in Nat /\ 1 + k = p /\ p # 0 /\ Len(s) \in Nat
  <2>1. s \in Seq(STRING)
    BY <1>3 DEF Within
  <2>2. Len(s) \in Nat
    BY <2>1
  <2>3. \A a, b \in Nat : a + b \in Nat /\ 1 + (a + b) = a + 1 + b /\ a + 1 + b # 0
    OBVIOUS
  <2>4. Len(g[i - 1]) \in Nat /\ h \in Nat
    BY <1>1, <1>3
  <2> QED
    BY <2>2, <2>3, <2>4, Zenon
<1>7. Element(s, 1).pos = Len(s) + 1 /\ Len(s) + 1 # 0 /\ Element(s, 1).word = cmd[i]
  BY <1>5, <1>6
<1> HIDE DEF k, p
<1>8. Element(buf, 1 + k) = [pos |-> Shift(Len(s) + 1, k), word |-> cmd[i]]
  <2>1. Reads(Element(s, 1).pos, s, k, buf) /\ 1 \in Nat \ {0}
    BY <1>7 DEF Reads
  <2>2. Element(buf, 1 + k) = [pos |-> Shift(Element(s, 1).pos, k), word |-> Element(s, 1).word]
    BY <1>4, <1>6, <2>1, ElementWithin
  <2> QED
    BY <1>7, <2>2
<1>9. Shift(Len(s) + 1, k) = h + 1 + Len(g[i])
  <2>1. Shift(Len(s) + 1, k) = Len(s) + 1 + k
    BY <1>7 DEF Shift
  <2>2. \A a, b, c \in Nat : b + 1 + (c + a) = c + 1 + (a + b)
    OBVIOUS
  <2>3. Len(s) + 1 + (h + Len(g[i - 1])) = h + 1 + (Len(g[i - 1]) + Len(s))
    BY <1>1, <1>3, <1>6, <2>2
  <2> QED
    BY <1>3, <2>1, <2>3 DEF k
<1>10. Append(SubSeq(cmd, 1, i - 1), cmd[i]) = SubSeq(cmd, 1, i)
  OBVIOUS
<1> DEFINE before == WordsRead(cmd, h, g, i - 1)
<1>11. before.pos = p /\ before.words = SubSeq(cmd, 1, i - 1)
  BY DEF WordsRead, p
<1>12. Element(buf, p).pos = h + 1 + Len(g[i]) /\ Element(buf, p).word = cmd[i]
  BY <1>6, <1>8, <1>9
<1> HIDE DEF before
<1>13. NextElement(buf, before) = [pos |-> Element(buf, p).pos, words |-> Append(before.words, Element(buf, p).word)]
  BY <1>6, <1>11 DEF NextElement
<1>14. NextElement(buf, before) = [pos |-> h + 1 + Len(g[i]), words |-> SubSeq(cmd, 1, i)]
  BY <1>10, <1>11, <1>12, <1>13
<1> QED
  BY <1>14 DEF before, WordsRead

LEMMA EncodedWordsRead ==
    ASSUME NEW cmd \in Seq(Seq(STRING)), NEW buf, NEW h, NEW g, Encodes(buf, cmd, h, g)
    PROVE  Elements(buf, h + 1, Len(cmd)) = WordsRead(cmd, h, g, Len(cmd))
<1> DEFINE n == Len(cmd)
           r == ElementsRead(buf, h + 1, n)
           t(i) == WordsRead(cmd, h, g, i)
           T == {i \in 0 .. n : r[i] # t(i)}
<1>1. n \in Nat /\ h + 1 \in Nat \ {0} /\ buf \in Seq(STRING) /\ g[0] = << >> /\ h \in Nat
  BY DEF Encodes, Headed, Flattens
<1>2. /\ r[0] = [pos |-> h + 1, words |-> << >>]
      /\ \A i \in 1 .. n : r[i] = NextElement(buf, r[i - 1])
  BY <1>1, ElementsReadIs
<1>3. \A i \in 1 .. n : NextElement(buf, t(i - 1)) = t(i)
  BY NextWordRead
<1>4. t(0) = [pos |-> h + 1, words |-> << >>]
  <2>1. SubSeq(cmd, 1, 0) = << >> /\ Len(g[0]) = 0
    BY <1>1
  <2>2. h + 1 + Len(g[0]) = h + 1
    BY <1>1, <2>1
  <2> QED
    BY <2>1, <2>2 DEF WordsRead
<1> HIDE DEF n, r, t
<1>5. CASE T = {}
  <2>1. r[n] = t(n)
    BY <1>1, <1>5
  <2> QED
    BY <2>1 DEF Elements, r, t, n
<1>6. CASE T # {}
  <2>1. PICK i \in T : \A j \in T : i <= j
    <3>1. T \subseteq Nat
      BY <1>1
    <3> HIDE DEF T
    <3> QED
      BY <1>6, <3>1, Least
  <2>2. i \in 0 .. n /\ r[i] # t(i)
    OBVIOUS
  <2>3. i # 0
    BY <1>2, <1>4, <2>2
  <2>4. i \in 1 .. n /\ i - 1 \in 0 .. n /\ ~ (i <= i - 1)
    BY <1>1, <2>2, <2>3
  <2>5. i - 1 \notin T
    <3> HIDE DEF T
    <3> QED
      BY <2>1, <2>4
  <2>6. r[i - 1] = t(i - 1)
    BY <2>4, <2>5
  <2> QED
    BY <1>2, <1>3, <2>2, <2>4, <2>6
<1> QED
  BY <1>5, <1>6

\* The decoder makes of the encoding the command, and is through with it.
LEMMA EncodedUnit ==
    ASSUME NEW cmd \in Seq(Seq(STRING)), Len(cmd) \in 1 .. MaxArray
    PROVE  /\ Encode(cmd) \in Seq(STRING) /\ Len(Encode(cmd)) \in Nat \ {0}
           /\ Unit(Encode(cmd), 1) = [pos |-> Len(Encode(cmd)) + 1, words |-> cmd]
<1> DEFINE buf == Encode(cmd)
           n == Len(cmd)
<1>1. PICK h, g : Encodes(buf, cmd, h, g)
  BY EncodeIs
<1> HIDE DEF buf
<1>2. n \in Nat /\ n \in 1 .. MaxArray
  OBVIOUS
<1>3. Elements(buf, h + 1, n) = WordsRead(cmd, h, g, n)
  BY <1>1, EncodedWordsRead
<1> HIDE DEF n
<1>4. /\ Headed(buf, n) /\ buf[1] = "*" /\ h = Len(Decimal[n]) + 3 /\ h \in Nat
      /\ Len(buf) = h + Len(g[n]) /\ buf \in Seq(STRING)
  BY <1>1 DEF Encodes, Headed, n
<1>5. LineEnds(buf, 2) # {} /\ LineEnd(buf, 2) = Len(Decimal[n]) + 2 /\ LineNumber(buf, 2) = n
  BY <1>2, <1>4, HeaderRead
<1>6. LineEnd(buf, 2) + 2 = h + 1 /\ Len(Decimal[n]) \in Nat
  <2>1. Len(Decimal[n]) \in Nat \ {0}
    BY <1>2, DecimalType
  <2> QED
    BY <1>4, <1>5, <2>1
<1>7. Len(g[n]) \in Nat
  <2>1. Len(BulkStrings(cmd)) = n
    BY BulkStringsType DEF n
  <2>2. g \in [0 .. n -> Seq(STRING)]
    BY <1>1, <2>1 DEF Encodes, Flattens
  <2>3. g[n] \in Seq(STRING)
    BY <1>2, <2>2
  <2> QED
    BY <2>3
<1>8. Unit(buf, 1) = Elements(buf, h + 1, n)
  <2>1. 1 + 1 = 2
    OBVIOUS
  <2> QED
    BY <1>2, <1>4, <1>5, <1>6, <2>1 DEF Unit
<1>9. SubSeq(cmd, 1, n) = cmd
  BY DEF n
<1>10. h + 1 + Len(g[n]) = Len(buf) + 1 /\ Len(buf) \in Nat \ {0}
  <2>1. \A a, b \in Nat : /\ (a + 3) + 1 + b = (a + 3) + b + 1
                          /\ (a + 3) + b \in Nat \ {0}
    OBVIOUS
  <2> DEFINE a == Len(Decimal[n])
             b == Len(g[n])
  <2>2. a \in Nat /\ b \in Nat /\ h = a + 3 /\ Len(buf) = h + b
    BY <1>4, <1>6, <1>7
  <2> HIDE DEF a, b
  <2>3. h + 1 + b = Len(buf) + 1 /\ Len(buf) \in Nat \ {0}
    BY <2>1, <2>2
  <2> QED
    BY <2>3 DEF b
<1> QED
  BY <1>3, <1>4, <1>8, <1>9, <1>10 DEF WordsRead, buf

-----------------------------------------------------------------------------
(* What is encoded is decoded.                                             *)

\* The commands that the decoder takes.
Spoken == {cmd \in Seq(Seq(STRING)) : Len(cmd) \in 1 .. MaxArray}

Fresh == [pos |-> 1, stopped |-> FALSE, cmds |-> << >>]

LEMMA SpokenIs ==
    ASSUME NEW cmd \in Spoken
    PROVE  /\ cmd \in Seq(Seq(STRING)) /\ cmd # << >>
           /\ Encode(cmd) \in Seq(STRING) /\ Len(Encode(cmd)) \in Nat \ {0}
           /\ Unit(Encode(cmd), 1) = [pos |-> Len(Encode(cmd)) + 1, words |-> cmd]
<1>1. cmd \in Seq(Seq(STRING)) /\ Len(cmd) \in 1 .. MaxArray
  BY DEF Spoken
<1>2. cmd # << >>
  BY <1>1
<1> QED
  BY <1>1, <1>2, EncodedUnit

\* A buffer that a unit fills, or that ends inside its first unit.
LEMMA FirstUnit ==
    ASSUME NEW buf \in Seq(STRING), Len(buf) # 0
    PROVE  /\ \A cmd \in Spoken : Unit(buf, 1) = [pos |-> Len(buf) + 1, words |-> cmd] =>
                  Parse(buf) = [pos |-> Len(buf) + 1, stopped |-> FALSE, cmds |-> <<cmd>>]
           /\ Unit(buf, 1).pos = 0 => Parse(buf) = [pos |-> 1, stopped |-> TRUE, cmds |-> << >>]
<1>1. Len(buf) \in Nat /\ 1 \in 0 .. Len(buf) /\ 1 \in 1 .. Len(buf) /\ 1 - 1 = 0
  OBVIOUS
<1>2. UnitsPassed(buf)[1] = NextUnit(buf, Fresh)
  <2>1. UnitsPassed(buf)[1] = NextUnit(buf, UnitsPassed(buf)[0])
    BY <1>1, UnitsPassedIs
  <2> QED
    BY <2>1, UnitsPassedIs DEF Fresh
<1>3. Fresh.pos = 1 /\ ~ Fresh.stopped /\ Fresh.cmds = << >> /\ ~ (1 > Len(buf))
  BY <1>1 DEF Fresh
<1>4. ASSUME NEW cmd \in Spoken, Unit(buf, 1) = [pos |-> Len(buf) + 1, words |-> cmd]
      PROVE  Parse(buf) = [pos |-> Len(buf) + 1, stopped |-> FALSE, cmds |-> <<cmd>>]
  <2>1. Unit(buf, 1).pos = Len(buf) + 1 /\ Unit(buf, 1).words = cmd /\ Len(buf) + 1 # 0
    BY <1>1, <1>4
  <2>2. cmd # << >> /\ Append(<< >>, cmd) = <<cmd>>
    BY SpokenIs
  <2>3. NextUnit(buf, Fresh) = [pos |-> Len(buf) + 1, stopped |-> FALSE, cmds |-> <<cmd>>]
    BY <1>3, <2>1, <2>2 DEF NextUnit
  <2>4. Len(buf) + 1 > Len(buf)
    BY <1>1
  <2>5. Done(buf, UnitsPassed(buf)[1])
    BY <1>2, <2>3, <2>4 DEF Done
  <2> QED
    BY <1>1, <1>2, <2>3, <2>5, Settled
<1>5. ASSUME Unit(buf, 1).pos = 0
      PROVE  Parse(buf) = [pos |-> 1, stopped |-> TRUE, cmds |-> << >>]
  <2>1. NextUnit(buf, Fresh) = [Fresh EXCEPT !.stopped = TRUE]
    BY <1>3, <1>5 DEF NextUnit
  <2>2. UnitsPassed(buf)[1] = [pos |-> 1, stopped |-> TRUE, cmds |-> << >>]
    BY <1>2, <2>1 DEF Fresh
  <2>3. Done(buf, UnitsPassed(buf)[1])
    BY <2>2 DEF Done
  <2> QED
    BY <1>1, <2>2, <2>3, Settled
<1> QED
  BY <1>4, <1>5

\* The decoder that has kept nothing is fed bytes.
Decoded(bytes) == Feed(<< >>, bytes)

LEMMA DecodedIs ==
    ASSUME NEW bytes \in Seq(STRING)
    PROVE  Decoded(bytes) = [cmds |-> Parse(bytes).cmds,
                             rest |-> SubSeq(bytes, Parse(bytes).pos, Len(bytes))]
<1>1. << >> \o bytes = bytes
  OBVIOUS
<1> QED
  BY <1>1 DEF Decoded, Feed, Fed

LEMMA WholeDecoded ==
    ASSUME NEW cmd \in Spoken
    PROVE  Decoded(Encode(cmd)) = [cmds |-> <<cmd>>, rest |-> << >>]
<1> DEFINE buf == Encode(cmd)
<1>1. /\ buf \in Seq(STRING) /\ Len(buf) \in Nat \ {0}
      /\ Unit(buf, 1) = [pos |-> Len(buf) + 1, words |-> cmd]
  BY SpokenIs
<1> HIDE DEF buf
<1>2. Parse(buf) = [pos |-> Len(buf) + 1, stopped |-> FALSE, cmds |-> <<cmd>>]
  BY <1>1, FirstUnit
<1>3. SubSeq(buf, Len(buf) + 1, Len(buf)) = << >>
  BY <1>1
<1>4. Parse(buf).cmds = <<cmd>> /\ Parse(buf).pos = Len(buf) + 1
  BY <1>2
<1> QED
  BY <1>1, <1>3, <1>4, DecodedIs DEF buf

\* A piece of a command is kept, and nothing is made of it.
LEMMA PieceDecoded ==
    ASSUME NEW cmd \in Spoken, NEW n \in 0 .. Len(Encode(cmd)) - 1
    PROVE  /\ SubSeq(Encode(cmd), 1, n) \in Seq(STRING)
           /\ Decoded(SubSeq(Encode(cmd), 1, n)) = [cmds |-> << >>, rest |-> SubSeq(Encode(cmd), 1, n)]
<1> DEFINE buf == Encode(cmd)
           r == SubSeq(buf, 1, n)
<1>1. /\ buf \in Seq(STRING) /\ Len(buf) \in Nat \ {0}
      /\ Unit(buf, 1) = [pos |-> Len(buf) + 1, words |-> cmd]
  BY SpokenIs
<1> HIDE DEF buf
<1>2. n \in Nat /\ n < Len(buf)
  BY <1>1 DEF buf
<1>3. r \in Seq(STRING) /\ Len(r) = n /\ \A i \in 1 .. n : r[i] = buf[i]
  BY <1>1, <1>2
<1> HIDE DEF r
<1>4. CASE n = 0
  <2>1. r = << >>
    BY <1>3, <1>4
  <2>2. Decoded(r).cmds = << >> /\ Decoded(r).rest = << >>
    BY <2>1, FeedNothing DEF Decoded
  <2>3. Decoded(r) = [cmds |-> Parse(r).cmds, rest |-> SubSeq(r, Parse(r).pos, Len(r))]
    BY <1>3, DecodedIs
  <2>4. Decoded(r) = [cmds |-> Decoded(r).cmds, rest |-> Decoded(r).rest]
    BY <2>3
  <2>5. Decoded(r) = [cmds |-> << >>, rest |-> r]
    BY <2>1, <2>2, <2>4
  <2> QED
    BY <1>3, <2>5 DEF r, buf
<1>5. CASE n # 0
  <2>1. Within(r, 0, buf)
    BY <1>1, <1>2, <1>3 DEF Within
  <2>2. Unit(r, 1).pos = 0
    <3> SUFFICES ASSUME Unit(r, 1).pos # 0 PROVE FALSE
      OBVIOUS
    <3>1. 1 \in 1 .. Len(r)
      BY <1>2, <1>3, <1>5
    <3>2. Reads(Unit(r, 1).pos, r, 0, buf) /\ 0 \in Nat
      BY DEF Reads
    <3>3. Unit(buf, 1 + 0) = [pos |-> Shift(Unit(r, 1).pos, 0), words |-> Unit(r, 1).words]
      BY <2>1, <3>1, <3>2, UnitWithin
    <3>4. Unit(r, 1).pos \in 1 + 1 .. Len(r) + 1
      BY <1>3, <3>1, UnitType
    <3>5. Shift(Unit(r, 1).pos, 0) = Unit(r, 1).pos
      BY <3>4 DEF Shift
    <3>6. Unit(buf, 1).pos = Unit(r, 1).pos
      BY <3>3, <3>5
    <3>7. Unit(buf, 1).pos = Len(buf) + 1
      BY <1>1
    <3> QED
      BY <1>1, <1>2, <1>3, <3>4, <3>6, <3>7
  <2>3. Parse(r) = [pos |-> 1, stopped |-> TRUE, cmds |-> << >>]
    BY <1>3, <1>5, <2>2, FirstUnit
  <2>4. SubSeq(r, 1, Len(r)) = r
    BY <1>3
  <2>5. Decoded(r) = [cmds |-> << >>, rest |-> r]
    <3>1. Parse(r).cmds = << >> /\ Parse(r).pos = 1
      BY <2>3
    <3> QED
      BY <1>3, <2>4, <3>1, DecodedIs
  <2> QED
    BY <1>3, <2>5 DEF r, buf
<1> QED
  BY <1>4, <1>5

\* Behind bytes that are all decoded, others are decoded as if they came first.
LEMMA DecodedBehind ==
    ASSUME NEW a \in Seq(STRING), NEW b \in Seq(STRING), Decoded(a).rest = << >>
    PROVE  Decoded(a \o b) = [cmds |-> Decoded(a).cmds \o Decoded(b).cmds, rest |-> Decoded(b).rest]
<1> DEFINE first == Decoded(a)
           second == Feed(first.rest, b)
<1>1. << >> \in Seq(STRING)
  OBVIOUS
<1>2. first = Feed(<< >>, a)
  BY DEF Decoded
<1> HIDE DEF first
<1>3. FedApart(<< >>, a, b, first, second)
  BY <1>1, <1>2, FeedInTwo, Zenon
<1>4. second = Decoded(b)
  BY DEF Decoded, first
<1> QED
  BY <1>3, <1>4, Zenon DEF FedApart, Decoded, first

-----------------------------------------------------------------------------
(* A stream of commands.                                                   *)

Encodings(cmds) == [j \in 1 .. Len(cmds) |-> Encode(cmds[j])]

LEMMA EncodingsType ==
    ASSUME NEW cmds \in Seq(Spoken)
    PROVE  /\ Encodings(cmds) \in Seq(Seq(STRING)) /\ Len(Encodings(cmds)) = Len(cmds)
           /\ Len(cmds) \in Nat
           /\ \A j \in 1 .. Len(cmds) : /\ Encodings(cmds)[j] = Encode(cmds[j]) /\ cmds[j] \in Spoken
                                        /\ Len(Encodings(cmds)[j]) \in Nat \ {0}
<1>1. ASSUME NEW j \in 1 .. Len(cmds)
      PROVE  cmds[j] \in Spoken /\ Encode(cmds[j]) \in Seq(STRING) /\ Len(Encode(cmds[j])) \in Nat \ {0}
  <2>1. cmds[j] \in Spoken
    OBVIOUS
  <2> QED
    BY <2>1, SpokenIs
<1>2. Len(cmds) \in Nat
  OBVIOUS
<1> QED
  BY <1>1, <1>2 DEF Encodings

\* g[i] is the encoding of the first i commands.
Streams(g, cmds) == cmds \in Seq(Spoken) /\ Flattens(g, Encodings(cmds))

Streamed(g, cmds, i) ==
    /\ g[i - 1] \in Seq(STRING) /\ g[i] \in Seq(STRING) /\ g[i] = g[i - 1] \o Encode(cmds[i])
    /\ Encode(cmds[i]) \in Seq(STRING) /\ cmds[i] \in Spoken
    /\ Len(g[i - 1]) \in Nat /\ Len(g[i]) \in Nat /\ Len(g[i - 1]) < Len(g[i])
    /\ Len(g[i]) = Len(g[i - 1]) + Len(Encode(cmds[i]))

LEMMA StreamStep ==
    ASSUME NEW g, NEW cmds, Streams(g, cmds), NEW i \in 1 .. Len(cmds)
    PROVE  Streamed(g, cmds, i)
<1> DEFINE seqs == Encodings(cmds)
<1>1. /\ seqs \in Seq(Seq(STRING)) /\ Len(seqs) = Len(cmds) /\ Len(cmds) \in Nat
      /\ seqs[i] = Encode(cmds[i]) /\ cmds[i] \in Spoken /\ Len(seqs[i]) \in Nat \ {0}
  BY EncodingsType DEF Streams
<1>2. Flattens(g, seqs)
  BY DEF Streams
<1> HIDE DEF seqs
<1>3. /\ g[i] \in Seq(STRING) /\ g[i - 1] \in Seq(STRING) /\ seqs[i] \in Seq(STRING)
  BY <1>1, <1>2, FlattenStep
<1>4. Len(g[i - 1]) \in Nat /\ Len(g[i]) = Len(g[i - 1]) + Len(seqs[i])
  BY <1>1, <1>2, FlattenWithin
<1>5. g[i] = g[i - 1] \o seqs[i]
  BY <1>1, <1>2 DEF Flattens
<1>6. Len(g[i]) \in Nat /\ Len(g[i - 1]) < Len(g[i])
  <2>1. \A a \in Nat, b \in Nat \ {0} : a + b \in Nat /\ a < a + b
    OBVIOUS
  <2> QED
    BY <1>1, <1>4, <2>1
<1> QED
  BY <1>1, <1>3, <1>4, <1>5, <1>6 DEF Streamed

LEMMA OneBehind ==
    ASSUME NEW S, NEW a \in Seq(S), NEW b \in S
    PROVE  a \o <<b>> = Append(a, b)
OBVIOUS

LEMMA OneMore ==
    ASSUME NEW S, NEW s \in Seq(S), NEW k \in 0 .. Len(s) - 1
    PROVE  SubSeq(s, 1, k) \o <<s[k + 1]>> = SubSeq(s, 1, k + 1)
<1> DEFINE a == SubSeq(s, 1, k)
           b == s[k + 1]
<1>1. Append(a, b) = SubSeq(s, 1, k + 1)
  OBVIOUS
<1>2. a \in Seq(S) /\ b \in S
  OBVIOUS
<1> HIDE DEF a, b
<1>3. a \o <<b>> = Append(a, b)
  BY <1>2, OneBehind
<1> QED
  BY <1>1, <1>3, Zenon DEF a, b

\* All commands are decoded from it, and nothing is left over.
LEMMA StreamDecoded ==
    ASSUME NEW g, NEW cmds, Streams(g, cmds), NEW i \in 0 .. Len(cmds)
    PROVE  /\ g[i] \in Seq(STRING)
           /\ Decoded(g[i]).cmds = SubSeq(cmds, 1, i) /\ Decoded(g[i]).rest = << >>
<1> DEFINE n == Len(cmds)
           Good(k) == /\ g[k] \in Seq(STRING)
                      /\ Decoded(g[k]).cmds = SubSeq(cmds, 1, k) /\ Decoded(g[k]).rest = << >>
           T == {k \in Nat : k <= n => Good(k)}
<1>1. n \in Nat /\ cmds \in Seq(Spoken)
  BY EncodingsType DEF Streams
<1>2. 0 \in T
  <2>1. g[0] = << >> /\ << >> \in Seq(STRING)
    BY DEF Streams, Flattens
  <2>2. SubSeq(cmds, 1, 0) = << >>
    BY <1>1
  <2>3. Good(0)
    BY <2>1, <2>2, FeedNothing DEF Decoded
  <2> QED
    BY <2>3
<1>3. ASSUME NEW k \in T PROVE k + 1 \in T
  <2> SUFFICES ASSUME k + 1 <= n PROVE Good(k + 1)
    OBVIOUS
  <2>0. k \in Nat /\ k + 1 \in 1 .. n /\ (k + 1) - 1 = k /\ k <= n
    BY <1>1
  <2>1. g[k] \in Seq(STRING) /\ Decoded(g[k]).cmds = SubSeq(cmds, 1, k) /\ Decoded(g[k]).rest = << >>
    BY <2>0
  <2> DEFINE cmd == cmds[k + 1]
  <2>2. /\ g[k + 1] \in Seq(STRING) /\ g[k + 1] = g[k] \o Encode(cmd)
        /\ Encode(cmd) \in Seq(STRING) /\ cmd \in Spoken
    <3> DEFINE i1 == k + 1
    <3>1. i1 \in 1 .. Len(cmds) /\ i1 - 1 = k
      BY <2>0
    <3> HIDE DEF i1
    <3>2. /\ g[i1] \in Seq(STRING) /\ g[i1] = g[i1 - 1] \o Encode(cmds[i1])
          /\ Encode(cmds[i1]) \in Seq(STRING) /\ cmds[i1] \in Spoken
      BY <3>1, StreamStep DEF Streamed
    <3> QED
      BY <3>1, <3>2 DEF i1
  <2>3. SubSeq(cmds, 1, k) \o <<cmd>> = SubSeq(cmds, 1, k + 1)
    BY <1>1, <2>0, OneMore
  <2> HIDE DEF cmd
  <2>4. Decoded(Encode(cmd)) = [cmds |-> <<cmd>>, rest |-> << >>]
    BY <2>2, WholeDecoded
  <2>5. Decoded(g[k] \o Encode(cmd)) =
           [cmds |-> Decoded(g[k]).cmds \o Decoded(Encode(cmd)).cmds, rest |-> Decoded(Encode(cmd)).rest]
    BY <2>1, <2>2, DecodedBehind
  <2>6. Decoded(g[k + 1]) = [cmds |-> SubSeq(cmds, 1, k) \o <<cmd>>, rest |-> << >>]
    BY <2>1, <2>2, <2>4, <2>5
  <2> QED
    BY <2>2, <2>3, <2>6
<1>4. T = Nat
  <2>1. T \subseteq Nat
    OBVIOUS
  <2> HIDE DEF T
  <2> QED
    BY <1>2, <1>3, <2>1, Inductive
<1>5. i \in T
  <2>1. i \in Nat
    BY <1>1
  <2> HIDE DEF T
  <2> QED
    BY <1>4, <2>1
<1> QED
  BY <1>1, <1>5

\* The first m of n numbers, which grow, are those up to t.
Reaches(l, n, t, m) ==
    /\ m \in 0 .. n
    /\ {j \in 1 .. n : l[j] <= t} = 1 .. m
    /\ l[m] <= t
    /\ m < n => t < l[m + 1]

LEMMA Reached ==
    ASSUME NEW n \in Nat, NEW t \in Nat, NEW l, l[0] = 0,
           \A j \in 1 .. n : l[j - 1] \in Nat /\ l[j] \in Nat /\ l[j - 1] < l[j]
    PROVE  \E m \in Nat : Reaches(l, n, t, m)
<1> DEFINE T == {k \in Nat : k <= n => \E m \in Nat : Reaches(l, k, t, m)}
<1>1. 0 \in T
  <2>0. {j \in 1 .. 0 : l[j] <= t} = 1 .. 0
    OBVIOUS
  <2>1. Reaches(l, 0, t, 0)
    BY <2>0 DEF Reaches
  <2> QED
    BY <2>1
<1>2. ASSUME NEW k \in T PROVE k + 1 \in T
  <2> SUFFICES ASSUME k + 1 <= n PROVE \E m \in Nat : Reaches(l, k + 1, t, m)
    OBVIOUS
  <2>0. k \in Nat /\ k <= n /\ k + 1 \in 1 .. n /\ (k + 1) - 1 = k
    OBVIOUS
  <2>1. PICK m \in Nat : Reaches(l, k, t, m)
    BY <2>0
  <2>2. l[k] \in Nat /\ l[k + 1] \in Nat /\ l[k] < l[k + 1]
    BY <2>0
  <2>3. /\ m \in 0 .. k /\ l[m] <= t /\ (m < k => t < l[m + 1])
        /\ \A j \in 1 .. k : l[j] <= t <=> j <= m
    BY <2>1 DEF Reaches
  <2>4. CASE l[k + 1] <= t
    <3>1. m = k
      <4> SUFFICES ASSUME m < k PROVE FALSE
        BY <2>0, <2>3
      <4>1. k \in 1 .. k /\ ~ (k <= m)
        BY <2>0
      <4>2. ~ (l[k] <= t)
        BY <2>3, <4>1
      <4> QED
        BY <2>2, <2>4, <4>2
    <3>2. \A j \in 1 .. k + 1 : l[j] <= t
      BY <2>0, <2>3, <2>4, <3>1
    <3>3. Reaches(l, k + 1, t, k + 1)
      BY <2>0, <2>4, <3>2 DEF Reaches
    <3> QED
      BY <2>0, <3>3
  <2>5. CASE ~ (l[k + 1] <= t)
    <3>1. t < l[k + 1]
      BY <2>2, <2>5
    <3>2. \A j \in 1 .. k + 1 : l[j] <= t <=> j <= m
      BY <2>0, <2>3, <2>5
    <3>3. m < k + 1 => t < l[m + 1]
      BY <2>0, <2>3, <3>1
    <3>4. Reaches(l, k + 1, t, m)
      BY <2>0, <2>3, <3>2, <3>3 DEF Reaches
    <3> QED
      BY <3>4
  <2> QED
    BY <2>4, <2>5
<1>3. T = Nat
  <2>1. T \subseteq Nat
    OBVIOUS
  <2> HIDE DEF T
  <2> QED
    BY <1>1, <1>2, <2>1, Inductive
<1> QED
  BY <1>3

\* The encoding of commands, one behind the other.
Text(cmds) == FlattenSeq(Encodings(cmds))

LEMMA StreamsOf ==
    ASSUME NEW cmds \in Seq(Spoken)
    PROVE  \E g : Streams(g, cmds) /\ Text(cmds) = g[Len(cmds)]
<1> DEFINE seqs == Encodings(cmds)
<1>1. seqs \in Seq(Seq(STRING)) /\ Len(seqs) = Len(cmds)
  BY EncodingsType
<1> HIDE DEF seqs
<1>2. PICK g : Flattens(g, seqs) /\ FlattenSeq(seqs) = g[Len(seqs)]
  BY <1>1, Flattening
<1> QED
  BY <1>1, <1>2 DEF Text, Streams, seqs

\* The first of these commands are encoded as they are alone.
LEMMA StreamsAlike ==
    ASSUME NEW g, NEW cmds, Streams(g, cmds), NEW i \in 0 .. Len(cmds)
    PROVE  SubSeq(cmds, 1, i) \in Seq(Spoken) /\ Len(SubSeq(cmds, 1, i)) = i
           /\ Text(SubSeq(cmds, 1, i)) = g[i]
<1> DEFINE front == SubSeq(cmds, 1, i)
<1>1. /\ cmds \in Seq(Spoken) /\ Len(cmds) \in Nat /\ i \in Nat /\ i <= Len(cmds)
  BY EncodingsType DEF Streams
<1>2. front \in Seq(Spoken) /\ Len(front) = i /\ \A j \in 1 .. i : front[j] = cmds[j]
  BY <1>1
<1> HIDE DEF front
<1>3. PICK h : Streams(h, front) /\ Text(front) = h[i]
  BY <1>2, StreamsOf
<1> DEFINE T == {k \in Nat : k <= i => h[k] = g[k]}
<1>4. 0 \in T
  BY <1>3 DEF Streams, Flattens
<1>5. ASSUME NEW k \in T PROVE k + 1 \in T
  <2> SUFFICES ASSUME k + 1 <= i PROVE h[k + 1] = g[k + 1]
    OBVIOUS
  <2> DEFINE l == k + 1
  <2>1. l \in 1 .. i /\ l - 1 = k /\ k <= i /\ l \in 1 .. Len(cmds) /\ l \in 1 .. Len(front)
    BY <1>1, <1>2
  <2>2. h[k] = g[k]
    BY <2>1
  <2> HIDE DEF l
  <2>3. h[l] = h[l - 1] \o Encode(front[l])
    BY <1>3, <2>1, StreamStep DEF Streamed
  <2>4. g[l] = g[l - 1] \o Encode(cmds[l])
    BY <2>1, StreamStep DEF Streamed
  <2>5. front[l] = cmds[l]
    BY <1>2, <2>1
  <2>6. h[l] = g[l]
    BY <2>1, <2>2, <2>3, <2>4, <2>5, Zenon
  <2> QED
    BY <2>6 DEF l
<1>6. T = Nat
  <2>1. T \subseteq Nat
    OBVIOUS
  <2> HIDE DEF T
  <2> QED
    BY <1>4, <1>5, <2>1, Inductive
<1>7. i \in T
  <2> HIDE DEF T
  <2> QED
    BY <1>1, <1>6
<1>8. h[i] = g[i]
  BY <1>1, <1>7
<1> QED
  BY <1>2, <1>3, <1>8 DEF front

\* Encoded commands are decoded to themselves, and nothing is left over: whoever
\* encodes as AppendToAof and the clients do is understood by Feed (resp_codec.cpp).
THEOREM RoundTrip ==
    ASSUME NEW cmds \in Seq(Spoken)
    PROVE  Text(cmds) \in Seq(STRING) /\ Feed(<< >>, Text(cmds)) = [cmds |-> cmds, rest |-> << >>]
<1>1. PICK g : Streams(g, cmds) /\ Text(cmds) = g[Len(cmds)]
  BY StreamsOf
<1> DEFINE text == Text(cmds)
<1>2. text \in Seq(STRING) /\ Decoded(text).cmds = cmds /\ Decoded(text).rest = << >>
  <2>1. Len(cmds) \in 0 .. Len(cmds) /\ SubSeq(cmds, 1, Len(cmds)) = cmds
    OBVIOUS
  <2> QED
    BY <1>1, <2>1, StreamDecoded
<1> HIDE DEF text
<1>3. Decoded(text) = [cmds |-> Parse(text).cmds, rest |-> SubSeq(text, Parse(text).pos, Len(text))]
  BY <1>2, DecodedIs
<1>4. Decoded(text) = [cmds |-> Decoded(text).cmds, rest |-> Decoded(text).rest]
  BY <1>3
<1> QED
  BY <1>2, <1>4 DEF text, Decoded

LEMMA TextMore ==
    ASSUME NEW cmds \in Seq(Spoken), NEW cmd \in Spoken
    PROVE  Text(Append(cmds, cmd)) = Text(cmds) \o Encode(cmd)
<1> DEFINE more == Append(cmds, cmd)
           n == Len(cmds)
           l == n + 1
<1>1. /\ more \in Seq(Spoken) /\ Len(more) = l /\ more[l] = cmd /\ SubSeq(more, 1, n) = cmds
      /\ l - 1 = n /\ l \in 1 .. Len(more) /\ n \in 0 .. Len(more)
  OBVIOUS
<1> HIDE DEF more, n, l
<1>2. PICK g : Streams(g, more) /\ Text(more) = g[Len(more)]
  BY <1>1, StreamsOf
<1>3. Text(SubSeq(more, 1, n)) = g[n]
  BY <1>1, <1>2, StreamsAlike
<1>4. g[l] = g[l - 1] \o Encode(more[l])
  <2>1. Streams(g, more) /\ l \in 1 .. Len(more)
    BY <1>1, <1>2
  <2>2. Streamed(g, more, l)
    BY <2>1, StreamStep, Zenon
  <2> QED
    BY <2>2, Zenon DEF Streamed
<1>5. Text(more) = Text(cmds) \o Encode(cmd)
  BY <1>1, <1>2, <1>3, <1>4
<1> QED
  BY <1>5 DEF more

\* Of t bytes of that text, m commands are complete, and of the next one there is
\* a piece.
Complete(cmds, t) == {j \in 1 .. Len(cmds) : Len(Text(SubSeq(cmds, 1, j))) <= t}

CutOff(cmds, t, m, piece) ==
    /\ Complete(cmds, t) = 1 .. m /\ Cardinality(Complete(cmds, t)) = m
    /\ SubSeq(Text(cmds), 1, t) = Text(SubSeq(cmds, 1, m)) \o piece
    /\ t = Len(Text(SubSeq(cmds, 1, m))) + Len(piece)
    /\ \/ piece = << >>
       \/ m < Len(cmds) /\ \E l \in 1 .. Len(Encode(cmds[m + 1])) - 1 :
                              piece = SubSeq(Encode(cmds[m + 1]), 1, l)

LEMMA Glue ==
    ASSUME NEW S, NEW a \in Seq(S), NEW b \in Seq(S)
    PROVE  a \o b \in Seq(S) /\ Len(a \o b) = Len(a) + Len(b)
OBVIOUS

\* c begins with a, and with s behind it.
Heads(a, s, c) ==
    /\ Len(a) + Len(s) <= Len(c)
    /\ \A i \in 1 .. Len(a) : c[i] = a[i]
    /\ \A i \in 1 .. Len(s) : c[Len(a) + i] = s[i]

CutIn(a, s, c, k) ==
    /\ SubSeq(c, 1, Len(a) + k) = a \o SubSeq(s, 1, k)
    /\ SubSeq(s, 1, k) \in Seq(STRING) /\ Len(SubSeq(s, 1, k)) = k

LEMMA CutJoins ==
    ASSUME NEW a \in Seq(STRING), NEW s \in Seq(STRING), NEW c \in Seq(STRING), Heads(a, s, c),
           NEW k \in 0 .. Len(s)
    PROVE  CutIn(a, s, c, k)
<1> DEFINE b == SubSeq(s, 1, k)
           d == SubSeq(c, 1, Len(a) + k)
           e == a \o b
           m == Len(a)
<1>0. /\ m + Len(s) <= Len(c) /\ \A i \in 1 .. m : c[i] = a[i]
      /\ \A i \in 1 .. Len(s) : c[m + i] = s[i]
  BY DEF Heads
<1>1. m \in Nat /\ Len(s) \in Nat /\ Len(c) \in Nat /\ k \in Nat /\ k <= Len(s) /\ m + k <= Len(c)
  <2>1. m \in Nat /\ Len(s) \in Nat /\ Len(c) \in Nat /\ k \in Nat /\ k <= Len(s)
    OBVIOUS
  <2> QED
    BY <1>0, <2>1
<1>2. b \in Seq(STRING) /\ Len(b) = k /\ \A i \in 1 .. k : b[i] = s[i]
  BY <1>1
<1>3. d \in Seq(STRING) /\ Len(d) = m + k /\ \A i \in 1 .. m + k : d[i] = c[i]
  BY <1>1
<1> HIDE DEF b, d
<1>4. e \in Seq(STRING) /\ Len(e) = m + k
  <2>1. e \in Seq(STRING) /\ Len(e) = Len(a) + Len(b)
    BY <1>2, Glue, Zenon
  <2> QED
    BY <1>2, <2>1
<1>5. ASSUME NEW i \in 1 .. m + k PROVE d[i] = e[i]
  <2>1. CASE i <= m
    <3>1. i \in 1 .. m
      BY <1>1, <2>1
    <3>2. e[i] = a[i]
      BY <1>2, <3>1
    <3> QED
      BY <1>0, <1>1, <1>3, <3>1, <3>2
  <2>2. CASE ~ (i <= m)
    <3>1. PICK j \in 1 .. k : i = m + j
      <4>1. i - m \in 1 .. k /\ i = m + (i - m)
        BY <1>1, <2>2
      <4> QED
        BY <4>1
    <3>2. e[i] = b[j]
      BY <1>1, <1>2, <3>1
    <3>3. j \in 1 .. Len(s)
      BY <1>1, <3>1
    <3> QED
      BY <1>0, <1>1, <1>2, <1>3, <3>1, <3>2, <3>3
  <2> QED
    BY <2>1, <2>2
<1> HIDE DEF e
<1>6. d = e
  BY <1>1, <1>3, <1>4, <1>5
<1> QED
  BY <1>2, <1>6 DEF b, d, e, m, CutIn

LEMMA TextCut ==
    ASSUME NEW cmds \in Seq(Spoken), NEW t \in 0 .. Len(Text(cmds))
    PROVE  \E m \in 0 .. Len(cmds), piece \in Seq(STRING) : CutOff(cmds, t, m, piece)
<1> DEFINE n == Len(cmds)
<1>1. PICK g : Streams(g, cmds) /\ Text(cmds) = g[n]
  BY StreamsOf
<1>2. n \in Nat
  OBVIOUS
<1> HIDE DEF n
<1>3. \A j \in 0 .. n : Text(SubSeq(cmds, 1, j)) = g[j]
  BY <1>1, StreamsAlike DEF n
<1> DEFINE l == [i \in 0 .. n |-> Len(g[i])]
<1>4. \A j \in 1 .. n : l[j - 1] \in Nat /\ l[j] \in Nat /\ l[j - 1] < l[j]
  <2> SUFFICES ASSUME NEW j \in 1 .. n PROVE l[j - 1] \in Nat /\ l[j] \in Nat /\ l[j - 1] < l[j]
    OBVIOUS
  <2>1. Len(g[j - 1]) \in Nat /\ Len(g[j]) \in Nat /\ Len(g[j - 1]) < Len(g[j])
    BY <1>1, StreamStep DEF n, Streamed
  <2>2. j \in 0 .. n /\ j - 1 \in 0 .. n
    BY <1>2
  <2> QED
    BY <2>1, <2>2
<1>5. l[0] = 0
  BY <1>1, <1>2 DEF Streams, Flattens
<1>6. t \in Nat
  <2>1. Text(cmds) \in Seq(STRING)
    BY RoundTrip
  <2> QED
    BY <2>1
<1>7. \A j \in 0 .. n : l[j] = Len(g[j])
  OBVIOUS
<1> HIDE DEF l
<1>8. PICK m \in Nat : Reaches(l, n, t, m)
  BY <1>2, <1>4, <1>5, <1>6, Reached
<1>9. m \in 0 .. n /\ m <= n
  BY <1>2, <1>8 DEF Reaches
<1>10. Complete(cmds, t) = 1 .. m
  <2>1. \A j \in 1 .. n : j \in 0 .. n
    BY <1>2
  <2>2. Complete(cmds, t) = {j \in 1 .. n : l[j] <= t}
    BY <1>3, <1>7, <2>1 DEF Complete, n
  <2> QED
    BY <1>8, <2>2 DEF Reaches
<1>11. Cardinality(Complete(cmds, t)) = m
  <2>1. Cardinality(1 .. m) = IF 1 > m THEN 0 ELSE m - 1 + 1
    BY FS_Interval
  <2> QED
    BY <1>10, <2>1
<1>12. Text(SubSeq(cmds, 1, m)) = g[m] /\ l[m] = Len(g[m])
  BY <1>3, <1>7, <1>9
<1>13. CASE m = n
  <2>1. g[n] \in Seq(STRING) /\ Len(g[n]) \in Nat
    <3>1. n \in 0 .. Len(cmds) /\ Streams(g, cmds)
      BY <1>1, <1>2 DEF n
    <3>2. g[n] \in Seq(STRING)
      BY <3>1, StreamDecoded, Zenon
    <3> QED
      BY <3>2
  <2>2. t = Len(g[n])
    BY <1>1, <1>8, <1>12, <1>13, <2>1 DEF Reaches
  <2>3. SubSeq(g[n], 1, t) = g[n] \o << >> /\ t = Len(g[n]) + Len(<< >>) /\ << >> \in Seq(STRING)
    BY <2>1, <2>2
  <2> QED
    BY <1>1, <1>9, <1>10, <1>11, <1>12, <1>13, <2>3 DEF CutOff, n
<1>14. CASE m # n
  <2> DEFINE i == m + 1
             s == Encode(cmds[i])
             a == g[m]
             c == g[n]
             k == t - Len(a)
             piece == SubSeq(s, 1, k)
  <2>1. i \in 1 .. n /\ i - 1 = m /\ m < n
    BY <1>2, <1>9, <1>14
  <2>2. /\ a \in Seq(STRING) /\ s \in Seq(STRING) /\ Len(a) \in Nat /\ Len(s) \in Nat
        /\ Len(g[i]) = Len(a) + Len(s)
    <3>1. /\ g[i - 1] \in Seq(STRING) /\ s \in Seq(STRING) /\ Len(g[i - 1]) \in Nat
          /\ Len(g[i]) = Len(g[i - 1]) + Len(s)
      <4>1. Streams(g, cmds) /\ i \in 1 .. Len(cmds)
        BY <1>1, <2>1 DEF n
      <4> HIDE DEF i
      <4>2. Streamed(g, cmds, i)
        BY <4>1, StreamStep, Zenon
      <4> QED
        BY <4>2, Zenon DEF Streamed
    <3>2. Len(s) \in Nat
      BY <3>1
    <3> QED
      BY <2>1, <3>1, <3>2
  <2>3. c \in Seq(STRING)
    BY <1>1, RoundTrip
  <2>4. Within(s, Len(a), c)
    <3> HIDE DEF i
    <3>1. /\ Encodings(cmds) \in Seq(Seq(STRING)) /\ Len(Encodings(cmds)) = n
          /\ Encodings(cmds)[i] = s
      BY <2>1, EncodingsType DEF n
    <3>2. Within(Encodings(cmds)[i], Len(g[i - 1]), g[Len(Encodings(cmds))])
      BY <1>1, <2>1, <3>1, FlattenWithin DEF Streams
    <3> QED
      BY <2>1, <3>1, <3>2
  <2>5. Begins(a, c)
    <3>1. /\ Encodings(cmds) \in Seq(Seq(STRING)) /\ Len(Encodings(cmds)) = n
      BY EncodingsType DEF n
    <3>2. m \in 0 .. Len(Encodings(cmds))
      BY <1>9, <3>1
    <3>3. Begins(a, g[Len(Encodings(cmds))])
      BY <1>1, <3>1, <3>2, FlattenFront DEF Streams
    <3> QED
      BY <3>1, <3>3
  <2>6. k \in Nat /\ k < Len(s) /\ t = Len(a) + k
    <3>1. Len(a) <= t /\ t < l[i]
      BY <1>8, <1>12, <2>1 DEF Reaches
    <3>2. l[i] = Len(g[i])
      BY <1>2, <1>7, <2>1
    <3>3. \A u, v, w \in Nat : u <= w /\ w < u + v => w - u \in Nat /\ w - u < v /\ w = u + (w - u)
      OBVIOUS
    <3>4. Len(a) <= t /\ t < Len(a) + Len(s)
      BY <2>2, <3>1, <3>2
    <3> HIDE DEF a, s
    <3> QED
      BY <1>6, <2>2, <3>3, <3>4
  <2> HIDE DEF s, a, c, k, i
  <2>7. /\ SubSeq(c, 1, Len(a) + k) = a \o piece
        /\ piece \in Seq(STRING) /\ Len(piece) = k
    <3>1. Heads(a, s, c)
      BY <2>2, <2>4, <2>5 DEF Within, Begins, Heads
    <3>2. k \in 0 .. Len(s)
      BY <2>2, <2>6
    <3>3. CutIn(a, s, c, k)
      BY <2>2, <2>3, <3>1, <3>2, CutJoins, Zenon
    <3> QED
      BY <3>3, <2>6 DEF CutIn
  <2>8. piece = << >> \/ k \in 1 .. Len(s) - 1
    <3>1. CASE k = 0
      BY <2>7, <3>1
    <3>2. CASE k # 0
      BY <2>2, <2>6, <3>2
    <3> QED
      BY <3>1, <3>2
  <2>9. /\ SubSeq(Text(cmds), 1, t) = Text(SubSeq(cmds, 1, m)) \o piece
        /\ t = Len(Text(SubSeq(cmds, 1, m))) + Len(piece)
    BY <1>1, <1>12, <2>6, <2>7 DEF a, c
  <2>10. \/ piece = << >>
         \/ m < Len(cmds) /\ \E j \in 1 .. Len(Encode(cmds[m + 1])) - 1 :
                                piece = SubSeq(Encode(cmds[m + 1]), 1, j)
    BY <2>1, <2>8 DEF s, i, n
  <2> HIDE DEF piece
  <2>11. CutOff(cmds, t, m, piece)
    BY <1>10, <1>11, <2>9, <2>10 DEF CutOff
  <2> QED
    BY <1>9, <2>7, <2>11 DEF n
<1> QED
  BY <1>13, <1>14

\* All commands but those that are complete are kept as bytes.
LEMMA CutDecoded ==
    ASSUME NEW cmds \in Seq(Spoken), NEW t \in 0 .. Len(Text(cmds)), NEW m \in 0 .. Len(cmds),
           NEW piece \in Seq(STRING), CutOff(cmds, t, m, piece)
    PROVE  Decoded(SubSeq(Text(cmds), 1, t)).cmds = SubSeq(cmds, 1, m)
<1> DEFINE front == SubSeq(cmds, 1, m)
<1>1. front \in Seq(Spoken)
  OBVIOUS
<1> DEFINE a == Text(front)
<1>2. a \in Seq(STRING) /\ Decoded(a).cmds = front /\ Decoded(a).rest = << >>
  <2> HIDE DEF front
  <2>1. a \in Seq(STRING) /\ Feed(<< >>, a) = [cmds |-> front, rest |-> << >>]
    BY <1>1, RoundTrip
  <2> QED
    BY <2>1 DEF Decoded
<1> HIDE DEF a
<1>3. SubSeq(Text(cmds), 1, t) = a \o piece
  BY DEF CutOff, a
<1>4. Decoded(piece).cmds = << >>
  <2>1. CASE piece = << >>
    BY <2>1, FeedNothing DEF Decoded
  <2>2. CASE piece # << >>
    <3>1. m < Len(cmds)
      BY <2>2 DEF CutOff
    <3>2. PICK l \in 1 .. Len(Encode(cmds[m + 1])) - 1 : piece = SubSeq(Encode(cmds[m + 1]), 1, l)
      BY <2>2 DEF CutOff
    <3> DEFINE cmd == cmds[m + 1]
    <3>3. cmd \in Spoken
      BY <3>1
    <3> HIDE DEF cmd
    <3>4. Len(Encode(cmd)) \in Nat
      BY <3>3, SpokenIs
    <3>5. l \in 0 .. Len(Encode(cmd)) - 1
      BY <3>2, <3>4 DEF cmd
    <3>6. Decoded(SubSeq(Encode(cmd), 1, l)) = [cmds |-> << >>, rest |-> SubSeq(Encode(cmd), 1, l)]
      BY <3>3, <3>5, PieceDecoded
    <3> QED
      BY <3>2, <3>6 DEF cmd
  <2> QED
    BY <2>1, <2>2
<1>5. Decoded(a \o piece) = [cmds |-> Decoded(a).cmds \o Decoded(piece).cmds, rest |-> Decoded(piece).rest]
  BY <1>2, DecodedBehind
<1> HIDE DEF front
<1>6. front \o << >> = front
  BY <1>1
<1> DEFINE both == Decoded(a \o piece)
           end == Decoded(piece)
<1>7. both = [cmds |-> Decoded(a).cmds \o end.cmds, rest |-> end.rest]
  BY <1>5, Zenon
<1>8. both = Decoded(SubSeq(Text(cmds), 1, t)) /\ end.cmds = << >>
  BY <1>3, <1>4
<1> HIDE DEF both, end
<1>9. both.cmds = Decoded(a).cmds \o end.cmds
  BY <1>7
<1>10. both.cmds = front
  BY <1>2, <1>6, <1>8, <1>9, Zenon
<1> QED
  BY <1>8, <1>10, Zenon DEF front

LEMMA TextFront ==
    ASSUME NEW cmds \in Seq(Spoken), NEW j \in 0 .. Len(cmds)
    PROVE  /\ Text(SubSeq(cmds, 1, j)) \in Seq(STRING)
           /\ Len(Text(SubSeq(cmds, 1, j))) <= Len(Text(cmds))
<1>1. PICK g : Streams(g, cmds) /\ Text(cmds) = g[Len(cmds)]
  BY StreamsOf
<1>2. Text(SubSeq(cmds, 1, j)) = g[j]
  BY <1>1, StreamsAlike
<1>3. g[j] \in Seq(STRING)
  BY <1>1, StreamDecoded
<1>4. Encodings(cmds) \in Seq(Seq(STRING)) /\ Len(Encodings(cmds)) = Len(cmds)
  BY EncodingsType
<1> DEFINE seqs == Encodings(cmds)
<1>5. Flattens(g, seqs)
  BY <1>1 DEF Streams
<1>6. j \in 0 .. Len(seqs)
  BY <1>4
<1> HIDE DEF seqs
<1>7. Begins(g[j], g[Len(seqs)])
  BY <1>4, <1>5, <1>6, FlattenFront DEF seqs
<1>8. Len(g[j]) <= Len(g[Len(cmds)])
  BY <1>4, <1>7 DEF Begins, seqs
<1> QED
  BY <1>1, <1>2, <1>3, <1>8
=============================================================================
