--------------------------- MODULE SnapshotProofs ---------------------------
(***************************************************************************)
(* What is loaded of any file is a keyspace; a snapshot is read back as it *)
(* was written; and of one that was cut off anywhere, what had been        *)
(* written is read back, and one damaged key at most: for all keyspaces,   *)
(* of any number and kind of objects.                                      *)
(***************************************************************************)
EXTENDS Snapshot, Induction, FiniteSetTheorems

LEMMA ZeroByte == 0 \in Byte /\ Base \in Nat /\ Base # 0 /\ 0 \in Wide
<1>1. Base * Base \in Nat /\ Base * Base >= 1
  BY BaseAssumption
<1> QED
  BY <1>1, BaseAssumption DEF Byte, Wide

-----------------------------------------------------------------------------
(* What the readers return, whatever is in the file.                       *)

\* s is a place in the file, and good or failed.
Stream(bytes, s) == s.at \in 0 .. Len(bytes) /\ s.ok \in BOOLEAN

\* r is where s is or behind it, and failed if s is.
Onward(bytes, s, r) == Stream(bytes, r) /\ s.at <= r.at /\ (r.ok => s.ok)

LEMMA OnwardAgain ==
    ASSUME NEW bytes \in Seq(Byte), NEW s, NEW q, NEW r, Stream(bytes, s), Onward(bytes, s, q),
           Onward(bytes, q, r)
    PROVE  Onward(bytes, s, r)
BY DEF Onward, Stream

\* r is what comes of reading n bytes.
BytesRead(bytes, s, n, r) ==
    /\ r = [at |-> r.at, ok |-> r.ok, v |-> r.v]
    /\ Onward(bytes, s, r)
    /\ r.v \in Seq(Byte) /\ Len(r.v) = n
    /\ r.ok <=> s.ok /\ s.at + n <= Len(bytes)
    /\ r.ok => r.at = s.at + n /\ \A i \in 1 .. n : r.v[i] = bytes[s.at + i]
    /\ ~ r.ok /\ n # 0 => r.v[n] = 0

LEMMA ReadBytesType ==
    ASSUME NEW bytes \in Seq(Byte), NEW s, Stream(bytes, s), NEW n \in Nat
    PROVE  BytesRead(bytes, s, n, ReadBytes(bytes, s, n))
<1> DEFINE m == Min({n, Len(bytes) - s.at})
           there == IF s.ok THEN m ELSE 0
           r == ReadBytes(bytes, s, n)
           v == [i \in 1 .. n |-> IF i <= there THEN bytes[s.at + i] ELSE 0]
<1>1. Len(bytes) \in Nat /\ s.at \in Nat /\ s.at <= Len(bytes) /\ Len(bytes) - s.at \in Nat /\ s.ok \in BOOLEAN
  BY DEF Stream
<1>2. m = IF n <= Len(bytes) - s.at THEN n ELSE Len(bytes) - s.at
  <2> DEFINE k == Len(bytes) - s.at
             l == IF n <= k THEN n ELSE k
  <2>1. k \in Nat
    BY <1>1
  <2> HIDE DEF k
  <2>2. l \in {n, k} /\ \A y \in {n, k} : l <= y
    BY <2>1
  <2>3. \A x \in {n, k} : (\A y \in {n, k} : x <= y) => x = l
    BY <2>1
  <2>4. Min({n, k}) = l
    BY <2>2, <2>3 DEF Min
  <2> QED
    BY <2>4 DEF k
<1>3. there \in Nat /\ there <= n /\ s.at + there <= Len(bytes)
  BY <1>1, <1>2
<1>4. r = [at |-> s.at + there, ok |-> s.ok /\ there = n, v |-> v]
  BY DEF ReadBytes
<1>5. s.ok /\ there = n <=> s.ok /\ s.at + n <= Len(bytes)
  BY <1>1, <1>2
<1> HIDE DEF there, m
<1>6. v \in Seq(Byte) /\ Len(v) = n
  <2>1. ASSUME NEW i \in 1 .. n PROVE v[i] \in Byte
    <3>1. CASE i <= there
      <4>1. s.at + i \in 1 .. Len(bytes)
        BY <1>1, <1>3, <3>1
      <4>2. bytes[s.at + i] \in Byte
        BY <4>1
      <4> QED
        BY <3>1, <4>2
    <3>2. CASE ~ (i <= there)
      BY <3>2, ZeroByte
    <3> QED
      BY <3>1, <3>2
  <2> QED
    BY <2>1
<1>7. there = n => \A i \in 1 .. n : v[i] = bytes[s.at + i]
  BY <1>3
<1>8. there # n /\ n # 0 => v[n] = 0
  BY <1>3
<1>9. ~ s.ok => there = 0
  BY DEF there
<1> HIDE DEF v, r
<1>10. r = [at |-> r.at, ok |-> r.ok, v |-> r.v] /\ r.v = v /\ r.at = s.at + there
       /\ r.ok = (s.ok /\ there = n)
  BY <1>4
<1>11. Onward(bytes, s, r)
  <2>1. r.ok \in BOOLEAN
    BY <1>4
  <2>2. r.at \in 0 .. Len(bytes) /\ s.at <= r.at
    BY <1>1, <1>3, <1>10
  <2> QED
    BY <1>10, <2>1, <2>2 DEF Onward, Stream
<1>12. r.ok => r.at = s.at + n /\ \A i \in 1 .. n : r.v[i] = bytes[s.at + i]
  BY <1>7, <1>10
<1>13. ~ r.ok /\ n # 0 => r.v[n] = 0
  <2> SUFFICES ASSUME ~ r.ok, n # 0 PROVE r.v[n] = 0
    OBVIOUS
  <2>1. ~ (s.ok /\ there = n)
    BY <1>10
  <2>2. there # n
    BY <1>1, <1>9, <2>1
  <2> QED
    BY <1>8, <1>10, <2>2
<1>14. r.ok <=> s.ok /\ s.at + n <= Len(bytes)
  BY <1>5, <1>10
<1>15. r.v \in Seq(Byte) /\ Len(r.v) = n
  BY <1>6, <1>10
<1>16. r = [at |-> r.at, ok |-> r.ok, v |-> r.v]
  BY <1>10
<1> QED
  BY <1>11, <1>12, <1>13, <1>14, <1>15, <1>16 DEF r, BytesRead

LEMMA DigitsOf ==
    ASSUME NEW v \in Wide
    PROVE  v % Base \in Byte /\ v \div Base \in Byte /\ (v \div Base) % Base = v \div Base
           /\ v = Base * (v \div Base) + (v % Base)
<1> DEFINE q == v \div Base
           r == v % Base
<1>1. v \in Nat /\ v <= Base * Base - 1
  BY BaseAssumption DEF Wide
<1>2. v = Base * q + r /\ r \in 0 .. Base - 1 /\ q \in Nat
  BY <1>1, BaseAssumption
<1> HIDE DEF q, r
<1>3. ~ (q >= Base)
  <2> SUFFICES ASSUME q >= Base PROVE FALSE
    OBVIOUS
  <2>1. Base * q >= Base * Base
    BY <1>2, BaseAssumption
  <2>2. Base * q \in Int /\ Base * Base \in Int
    BY <1>2, BaseAssumption
  <2> QED
    BY <1>1, <1>2, <2>1, <2>2
<1>4. q \in 0 .. Base - 1
  BY <1>2, <1>3, BaseAssumption
<1>5. q % Base = q
  BY <1>4, BaseAssumption
<1> QED
  BY <1>2, <1>4, <1>5 DEF Byte, q, r

LEMMA TwoDigits ==
    ASSUME NEW a \in Byte, NEW b \in Byte
    PROVE  a + Base * b \in Wide
<1>1. a \in 0 .. Base - 1 /\ b \in 0 .. Base - 1
  BY DEF Byte
<1>2. Base * b <= Base * (Base - 1)
  BY <1>1, BaseAssumption
<1>3. Base * (Base - 1) = Base * Base - Base
  BY BaseAssumption
<1>4. Base * b \in Nat /\ Base * Base \in Nat
  BY <1>1, BaseAssumption
<1> QED
  BY <1>1, <1>2, <1>3, <1>4, BaseAssumption DEF Wide

LEMMA WideType == Wide \subseteq Nat
BY BaseAssumption DEF Wide

LEMMA ReadU8Type ==
    ASSUME NEW bytes \in Seq(Byte), NEW s, Stream(bytes, s)
    PROVE  LET r == ReadU8(bytes, s)
           IN  /\ r = [at |-> r.at, ok |-> r.ok, v |-> r.v]
               /\ Onward(bytes, s, r) /\ r.v \in Byte
               /\ r.ok <=> s.ok /\ s.at + 1 <= Len(bytes)
               /\ r.ok => r.at = s.at + 1 /\ r.v = bytes[s.at + 1]
<1> DEFINE q == ReadBytes(bytes, s, 1)
           r == ReadU8(bytes, s)
<1>1. /\ q = [at |-> q.at, ok |-> q.ok, v |-> q.v]
      /\ Onward(bytes, s, q) /\ q.v \in Seq(Byte) /\ Len(q.v) = 1
      /\ q.ok <=> s.ok /\ s.at + 1 <= Len(bytes)
      /\ q.ok => q.at = s.at + 1 /\ \A i \in 1 .. 1 : q.v[i] = bytes[s.at + i]
  <2>1. BytesRead(bytes, s, 1, q)
    BY ReadBytesType
  <2> HIDE DEF q
  <2> QED
    BY <2>1 DEF BytesRead
<1>2. r = [q EXCEPT !.v = @[1]]
  BY DEF ReadU8
<1> HIDE DEF q, r
<1>3. r = [at |-> q.at, ok |-> q.ok, v |-> q.v[1]]
  BY <1>1, <1>2
<1>4. r = [at |-> r.at, ok |-> r.ok, v |-> r.v] /\ r.at = q.at /\ r.ok = q.ok /\ r.v = q.v[1]
  BY <1>3
<1>5. 1 \in 1 .. 1 /\ q.v[1] \in Byte
  BY <1>1
<1>6. Onward(bytes, s, r)
  BY <1>1, <1>4 DEF Onward, Stream
<1>7. r.ok <=> s.ok /\ s.at + 1 <= Len(bytes)
  BY <1>1, <1>4
<1>8. r.ok => r.at = s.at + 1 /\ r.v = bytes[s.at + 1]
  BY <1>1, <1>4, <1>5
<1> QED
  BY <1>4, <1>5, <1>6, <1>7, <1>8 DEF r

LEMMA ReadWideType ==
    ASSUME NEW bytes \in Seq(Byte), NEW s, Stream(bytes, s)
    PROVE  LET r == ReadWide(bytes, s)
           IN  /\ r = [at |-> r.at, ok |-> r.ok, v |-> r.v]
               /\ Onward(bytes, s, r) /\ r.v \in Wide
               /\ r.ok <=> s.ok /\ s.at + 2 <= Len(bytes)
               /\ r.ok => r.at = s.at + 2 /\ r.v = bytes[s.at + 1] + Base * bytes[s.at + 2]
<1> DEFINE q == ReadBytes(bytes, s, 2)
           r == ReadWide(bytes, s)
<1>1. /\ q = [at |-> q.at, ok |-> q.ok, v |-> q.v]
      /\ Onward(bytes, s, q) /\ q.v \in Seq(Byte) /\ Len(q.v) = 2
      /\ q.ok <=> s.ok /\ s.at + 2 <= Len(bytes)
      /\ q.ok => q.at = s.at + 2 /\ \A i \in 1 .. 2 : q.v[i] = bytes[s.at + i]
  <2>1. BytesRead(bytes, s, 2, q)
    BY ReadBytesType
  <2> HIDE DEF q
  <2> QED
    BY <2>1 DEF BytesRead
<1>2. r = [q EXCEPT !.v = @[1] + Base * @[2]]
  BY DEF ReadWide
<1> HIDE DEF q, r
<1>3. r = [at |-> q.at, ok |-> q.ok, v |-> q.v[1] + Base * q.v[2]]
  BY <1>1, <1>2
<1>4. /\ r = [at |-> r.at, ok |-> r.ok, v |-> r.v] /\ r.at = q.at /\ r.ok = q.ok
      /\ r.v = q.v[1] + Base * q.v[2]
  BY <1>3
<1>5. 1 \in 1 .. 2 /\ 2 \in 1 .. 2 /\ q.v[1] \in Byte /\ q.v[2] \in Byte
  BY <1>1
<1>6. Onward(bytes, s, r)
  BY <1>1, <1>4 DEF Onward, Stream
<1>7. r.v \in Wide
  BY <1>4, <1>5, TwoDigits
<1>8. r.ok <=> s.ok /\ s.at + 2 <= Len(bytes)
  BY <1>1, <1>4
<1>9. r.ok => q.v[1] = bytes[s.at + 1] /\ q.v[2] = bytes[s.at + 2]
  BY <1>1, <1>4, <1>5
<1>10. r.ok => r.at = s.at + 2 /\ r.v = bytes[s.at + 1] + Base * bytes[s.at + 2]
  BY <1>1, <1>4, <1>9
<1> QED
  BY <1>4, <1>6, <1>7, <1>8, <1>10 DEF r

\* A string that could not be read to its end has a zero in it, or nothing at all.
LEMMA ReadStringType ==
    ASSUME NEW bytes \in Seq(Byte), NEW s, Stream(bytes, s)
    PROVE  LET r == ReadString(bytes, s)
           IN  /\ r = [at |-> r.at, ok |-> r.ok, v |-> r.v]
               /\ Onward(bytes, s, r) /\ IsWord(r.v)
               /\ ~ r.ok => ~ Plain(r.v)
               /\ r.ok => LET n == bytes[s.at + 1] + Base * bytes[s.at + 2]
                          IN  /\ s.at + 2 + n <= Len(bytes) /\ r.at = s.at + 2 + n
                              /\ n = Len(r.v) /\ \A i \in 1 .. n : r.v[i] = bytes[s.at + 2 + i]
<1> DEFINE len == ReadWide(bytes, s)
           n == len.v
           r == ReadBytes(bytes, len, n)
<1>1. /\ Onward(bytes, s, len) /\ n \in Wide
      /\ len.ok => len.at = s.at + 2 /\ n = bytes[s.at + 1] + Base * bytes[s.at + 2]
  BY ReadWideType
<1>2. n \in Nat /\ Stream(bytes, len)
  BY <1>1, WideType DEF Onward
<1> HIDE DEF len, n
<1>3. /\ r = [at |-> r.at, ok |-> r.ok, v |-> r.v]
      /\ Onward(bytes, len, r)
      /\ r.v \in Seq(Byte) /\ Len(r.v) = n
      /\ r.ok <=> len.ok /\ len.at + n <= Len(bytes)
      /\ r.ok => r.at = len.at + n /\ \A i \in 1 .. n : r.v[i] = bytes[len.at + i]
      /\ ~ r.ok /\ n # 0 => r.v[n] = 0
  BY <1>2, ReadBytesType DEF BytesRead
<1>4. r = ReadString(bytes, s)
  BY DEF ReadString, len, n
<1> HIDE DEF r
<1>5. Onward(bytes, s, r)
  BY <1>1, <1>3, OnwardAgain
<1>6. IsWord(r.v)
  BY <1>1, <1>3 DEF IsWord
<1>7. ASSUME ~ r.ok, Plain(r.v) PROVE FALSE
  <2>1. n # 0
    BY <1>3, <1>7 DEF Plain
  <2>2. n \in 1 .. Len(r.v)
    BY <1>2, <1>3, <2>1
  <2>3. 0 \in ToSet(r.v)
    BY <1>3, <1>7, <2>1, <2>2 DEF ToSet
  <2> QED
    BY <1>7, <2>3 DEF Plain
<1>8. r.ok => len.ok
  BY <1>3
<1> QED
  BY <1>1, <1>3, <1>4, <1>5, <1>6, <1>7, <1>8

LEMMA ReadExpireType ==
    ASSUME NEW bytes \in Seq(Byte), NEW s, Stream(bytes, s)
    PROVE  LET r == ReadExpire(bytes, s)
           IN  r = [at |-> r.at, ok |-> r.ok, v |-> r.v] /\ Onward(bytes, s, r) /\ IsDeadline(r.v)
<1> DEFINE marker == ReadU8(bytes, s)
           ms == ReadWide(bytes, marker)
           r == ReadExpire(bytes, s)
<1>1. Onward(bytes, s, marker) /\ marker.v \in Byte
  BY ReadU8Type
<1>2. Stream(bytes, marker)
  BY <1>1 DEF Onward
<1>3. /\ ms = [at |-> ms.at, ok |-> ms.ok, v |-> ms.v]
      /\ Onward(bytes, marker, ms) /\ ms.v \in Wide
  BY <1>2, ReadWideType
<1>4. r = IF marker.v = ExpireMs THEN [ms EXCEPT !.v = @ * TicksPerMs]
          ELSE [at |-> s.at, ok |-> marker.ok, v |-> NoExpiry]
  BY DEF ReadExpire
<1> HIDE DEF marker, ms, r
<1>5. CASE marker.v = ExpireMs
  <2>1. r = [at |-> ms.at, ok |-> ms.ok, v |-> ms.v * TicksPerMs]
    BY <1>3, <1>4, <1>5
  <2>2. r = [at |-> r.at, ok |-> r.ok, v |-> r.v] /\ r.at = ms.at /\ r.ok = ms.ok /\ r.v = ms.v * TicksPerMs
    BY <2>1
  <2>3. Onward(bytes, s, ms)
    BY <1>1, <1>3, OnwardAgain
  <2>4. Onward(bytes, s, r)
    BY <2>2, <2>3 DEF Onward, Stream
  <2>5. r.v \in Nat /\ r.v \div TicksPerMs = ms.v
    BY <1>3, <2>2, WideType, ClockAssumption
  <2> QED
    BY <1>3, <2>2, <2>4, <2>5 DEF IsDeadline, r
<1>6. CASE marker.v # ExpireMs
  <2>1. r = [at |-> s.at, ok |-> marker.ok, v |-> NoExpiry]
    BY <1>4, <1>6
  <2>2. r = [at |-> r.at, ok |-> r.ok, v |-> r.v] /\ r.at = s.at /\ r.ok = marker.ok /\ r.v = NoExpiry
    BY <2>1
  <2>3. Onward(bytes, s, r)
    BY <1>1, <2>2 DEF Onward, Stream
  <2> QED
    BY <2>2, <2>3 DEF IsDeadline, r
<1> QED
  BY <1>5, <1>6

Words == {w \in Seq(Byte) : Len(w) \in Wide}

ItemTypes == {"list", "set", "hash", "zset"}

\* What an object of this type consists of.
ItemsOf(type) ==
    CASE type \in {"list", "set"} -> Words
      [] type = "hash" -> Words \X Words
      [] type = "zset" -> Words \X Wide

LEMMA ReadItemType ==
    ASSUME NEW bytes \in Seq(Byte), NEW s, Stream(bytes, s), NEW type \in ItemTypes
    PROVE  LET r == ReadItem(bytes, s, type)
           IN  r = [at |-> r.at, ok |-> r.ok, v |-> r.v] /\ Onward(bytes, s, r) /\ r.v \in ItemsOf(type)
<1> DEFINE first == ReadString(bytes, s)
           second == IF type = "hash" THEN ReadString(bytes, first) ELSE ReadWide(bytes, first)
           r == ReadItem(bytes, s, type)
<1>1. first = [at |-> first.at, ok |-> first.ok, v |-> first.v] /\ Onward(bytes, s, first) /\ IsWord(first.v)
  BY ReadStringType
<1>2. Stream(bytes, first)
  BY <1>1 DEF Onward
<1>3. second = [at |-> second.at, ok |-> second.ok, v |-> second.v] /\ Onward(bytes, first, second)
      /\ IF type = "hash" THEN IsWord(second.v) ELSE second.v \in Wide
  BY <1>2, ReadStringType, ReadWideType
<1>4. r = IF type \in {"list", "set"} THEN first ELSE [second EXCEPT !.v = <<first.v, @>>]
  BY DEF ReadItem
<1> HIDE DEF first, second, r
<1>5. CASE type \in {"list", "set"}
  <2>1. r = first
    BY <1>4, <1>5
  <2> QED
    BY <1>1, <1>5, <2>1 DEF ItemsOf, Words, IsWord, r
<1>6. CASE type \notin {"list", "set"}
  <2>1. r = [at |-> second.at, ok |-> second.ok, v |-> <<first.v, second.v>>]
    BY <1>3, <1>4, <1>6
  <2>2. r = [at |-> r.at, ok |-> r.ok, v |-> r.v] /\ r.at = second.at /\ r.ok = second.ok /\ r.v = <<first.v, second.v>>
    BY <2>1
  <2>3. Onward(bytes, s, second)
    BY <1>1, <1>3, OnwardAgain
  <2>4. Onward(bytes, s, r)
    BY <2>2, <2>3 DEF Onward, Stream
  <2>5. r.v \in ItemsOf(type)
    <3>1. first.v \in Words
      BY <1>1 DEF IsWord, Words
    <3>2. CASE type = "hash"
      BY <1>3, <2>2, <3>1, <3>2 DEF ItemsOf, IsWord, Words
    <3>3. CASE type = "zset"
      BY <1>3, <2>2, <3>1, <3>3 DEF ItemsOf
    <3> QED
      BY <1>6, <3>2, <3>3 DEF ItemTypes
  <2> QED
    BY <2>2, <2>4, <2>5 DEF r
<1> QED
  BY <1>5, <1>6

\* A stream with the items that have been read.
Reading(bytes, type) == [at : 0 .. Len(bytes), ok : BOOLEAN, v : Seq(ItemsOf(type))]

LEMMA NextItemType ==
    ASSUME NEW bytes \in Seq(Byte), NEW type \in ItemTypes, NEW before \in Reading(bytes, type)
    PROVE  LET r == ReadItem(bytes, before, type)
               next == NextItem(bytes, before, type)
           IN  /\ next = [at |-> r.at, ok |-> r.ok, v |-> Append(before.v, r.v)]
               /\ next \in Reading(bytes, type) /\ Onward(bytes, before, next)
               /\ Len(next.v) = Len(before.v) + 1
<1> DEFINE r == ReadItem(bytes, before, type)
           next == NextItem(bytes, before, type)
<1>1. Stream(bytes, before) /\ before.v \in Seq(ItemsOf(type))
  BY DEF Reading, Stream
<1>2. r = [at |-> r.at, ok |-> r.ok, v |-> r.v] /\ Onward(bytes, before, r) /\ r.v \in ItemsOf(type)
  BY <1>1, ReadItemType
<1>3. next = [r EXCEPT !.v = Append(before.v, @)]
  BY DEF NextItem
<1> HIDE DEF r, next
<1>4. next = [at |-> r.at, ok |-> r.ok, v |-> Append(before.v, r.v)]
  BY <1>2, <1>3
<1>5. next.at = r.at /\ next.ok = r.ok /\ next.v = Append(before.v, r.v)
  BY <1>4
<1>6. next.v \in Seq(ItemsOf(type)) /\ Len(next.v) = Len(before.v) + 1
  BY <1>1, <1>2, <1>5
<1>7. Onward(bytes, before, next)
  BY <1>2, <1>5 DEF Onward, Stream
<1>8. next \in Reading(bytes, type)
  BY <1>4, <1>5, <1>6, <1>7 DEF Reading, Onward, Stream
<1> QED
  BY <1>4, <1>6, <1>7, <1>8 DEF next, r

LEMMA ItemsReadIs ==
    ASSUME NEW bytes \in Seq(Byte), NEW from, Stream(bytes, from), NEW n \in Nat, NEW type \in ItemTypes,
           from = [at |-> from.at, ok |-> from.ok, v |-> from.v]
    PROVE  LET read == ItemsRead(bytes, from, n, type)
           IN  /\ read \in [0 .. n -> Reading(bytes, type)]
               /\ read[0] = [at |-> from.at, ok |-> from.ok, v |-> << >>]
               /\ \A i \in 1 .. n : read[i] = NextItem(bytes, read[i - 1], type)
<1> DEFINE S == Reading(bytes, type)
           c == [from EXCEPT !.v = << >>]
           step == [i \in 1 .. n |-> [s \in S |-> NextItem(bytes, s, type)]]
           F(f) == [i \in 0 .. n |-> IF i = 0 THEN c ELSE NextItem(bytes, f[i - 1], type)]
           v == ItemsRead(bytes, from, n, type)
<1>1. c = [at |-> from.at, ok |-> from.ok, v |-> << >>]
  OBVIOUS
<1>2. c \in S
  <2>1. << >> \in Seq(ItemsOf(type)) /\ from.at \in 0 .. Len(bytes) /\ from.ok \in BOOLEAN
    BY DEF Stream
  <2> HIDE DEF c
  <2> QED
    BY <1>1, <2>1 DEF Reading
<1>3. \A i \in 1 .. n, s \in S : step[i][s] = NextItem(bytes, s, type)
  OBVIOUS
<1>4. ASSUME NEW s \in S PROVE NextItem(bytes, s, type) \in S
  BY NextItemType
<1>5. v = CHOOSE f : f = F(f)
  BY DEF ItemsRead
<1> HIDE DEF c, v, S
<1>6. Steps(step, S, n)
  BY <1>4 DEF Steps
<1> HIDE DEF step
<1>7. PICK g \in [0 .. n -> S] : Iterates(g, c, n, step)
  BY <1>2, <1>6, Iteration
<1>8. g[0] = c /\ \A i \in 1 .. n : g[i] = NextItem(bytes, g[i - 1], type)
  BY <1>3, <1>7 DEF Iterates
<1>9. g = F(g)
  <2>1. \A i \in 0 .. n : g[i] = IF i = 0 THEN c ELSE NextItem(bytes, g[i - 1], type)
    BY <1>8
  <2>2. [i \in 0 .. n |-> g[i]] = F(g)
    BY <2>1
  <2>3. g = [i \in 0 .. n |-> g[i]]
    OBVIOUS
  <2> QED
    BY <2>2, <2>3, Zenon
<1>10. v = F(v)
  BY <1>5, <1>9
<1>11. v[0] = c /\ \A i \in 1 .. n : v[i] = NextItem(bytes, v[i - 1], type)
  <2>1. \A i \in 0 .. n : v[i] = IF i = 0 THEN c ELSE NextItem(bytes, v[i - 1], type)
    BY <1>10
  <2> QED
    BY <2>1
<1>12. ASSUME NEW i \in 0 .. n PROVE v[i] \in S
  <2>1. v[0] \in S /\ \A j \in 1 .. n : v[j - 1] \in S => v[j] \in S
    BY <1>2, <1>4, <1>11
  <2> QED
    BY <2>1, Along
<1>13. v \in [0 .. n -> S]
  BY <1>10, <1>12
<1>14. v[0] = [at |-> from.at, ok |-> from.ok, v |-> << >>]
  BY <1>1, <1>11
<1>15. v \in [0 .. n -> Reading(bytes, type)]
  BY <1>13 DEF S
<1> QED
  BY <1>11, <1>14, <1>15 DEF v

LEMMA ReadAllType ==
    ASSUME NEW bytes \in Seq(Byte), NEW s, Stream(bytes, s), NEW type \in ItemTypes
    PROVE  LET r == ReadAll(bytes, s, type)
           IN  /\ r = [at |-> r.at, ok |-> r.ok, v |-> r.v]
               /\ Onward(bytes, s, r) /\ r.v \in Seq(ItemsOf(type)) /\ Len(r.v) \in Wide
<1> DEFINE count == ReadWide(bytes, s)
           n == count.v
           read == ItemsRead(bytes, count, n, type)
<1>1. count = [at |-> count.at, ok |-> count.ok, v |-> count.v] /\ Onward(bytes, s, count) /\ n \in Wide
  BY ReadWideType
<1>2. Stream(bytes, count) /\ n \in Nat
  BY <1>1, WideType DEF Onward
<1> HIDE DEF n
<1>3. /\ read \in [0 .. n -> Reading(bytes, type)]
      /\ read[0] = [at |-> count.at, ok |-> count.ok, v |-> << >>]
      /\ \A i \in 1 .. n : read[i] = NextItem(bytes, read[i - 1], type)
  <2> HIDE DEF count
  <2> QED
    BY <1>1, <1>2, ItemsReadIs
<1>4. ReadAll(bytes, s, type) = read[n]
  BY DEF ReadAll, n
<1> HIDE DEF read, count
<1> DEFINE P(i) == Onward(bytes, s, read[i]) /\ Len(read[i].v) = i
           T == {i \in 0 .. n : P(i)}
<1>5. P(0)
  <2>1. read[0].at = count.at /\ read[0].ok = count.ok /\ read[0].v = << >>
    BY <1>3
  <2> QED
    BY <1>1, <2>1 DEF Onward, Stream
<1>6. ASSUME NEW j \in 1 .. n, P(j - 1) PROVE P(j)
  <2>1. read[j - 1] \in Reading(bytes, type) /\ j - 1 \in 0 .. n
    BY <1>2, <1>3
  <2>2. Onward(bytes, read[j - 1], read[j]) /\ Len(read[j].v) = Len(read[j - 1].v) + 1
    BY <1>3, <2>1, NextItemType
  <2>3. Onward(bytes, s, read[j])
    BY <1>6, <2>2, OnwardAgain
  <2>4. Len(read[j].v) = j
    BY <1>6, <2>2
  <2> QED
    BY <2>3, <2>4
<1>7. P(n)
  <2>1. 0 \in T /\ n \in 0 .. n
    BY <1>2, <1>5
  <2>2. \A j \in 1 .. n : j - 1 \in T => j \in T
    BY <1>6
  <2> HIDE DEF T
  <2>3. n \in T
    BY <1>2, <2>1, <2>2, Climb
  <2> QED
    BY <2>3 DEF T
<1>8. read[n] \in Reading(bytes, type)
  BY <1>2, <1>3
<1> DEFINE r == read[n]
<1>9. r = [at |-> r.at, ok |-> r.ok, v |-> r.v] /\ r.v \in Seq(ItemsOf(type))
  BY <1>8 DEF Reading
<1> QED
  BY <1>1, <1>4, <1>7, <1>9

-----------------------------------------------------------------------------
(* What is made of the items.                                              *)

LEMMA MaxOf ==
    ASSUME NEW n \in Nat, NEW S \in SUBSET (0 .. n), S # {}
    PROVE  Max(S) \in S /\ \A y \in S : y <= Max(S)
<1> DEFINE T == {m \in Nat : n - m \in S}
<1>1. T # {}
  <2>1. PICK x \in S : TRUE
    OBVIOUS
  <2>2. n - x \in Nat /\ n - (n - x) = x
    BY <2>1
  <2> QED
    BY <2>1, <2>2
<1>2. PICK m \in T : \A k \in T : m <= k
  <2>1. T \in SUBSET Nat
    OBVIOUS
  <2> HIDE DEF T
  <2> QED
    BY <1>1, <2>1, Least
<1>3. n - m \in S /\ m \in Nat
  OBVIOUS
<1>4. ASSUME NEW y \in S PROVE y <= n - m
  <2>1. n - y \in Nat /\ n - (n - y) = y
    OBVIOUS
  <2>2. n - y \in T
    BY <2>1
  <2>3. m <= n - y
    BY <1>2, <2>2
  <2> QED
    BY <1>3, <2>1, <2>3
<1>5. n - m \in S /\ \A y \in S : n - m >= y
  BY <1>3, <1>4
<1>6. Max(S) \in S /\ \A y \in S : Max(S) >= y
  BY <1>5, Zenon DEF Max
<1> QED
  BY <1>6

LEMMA ToSetFinite ==
    ASSUME NEW S, NEW seq \in Seq(S)
    PROVE  IsFiniteSet(ToSet(seq)) /\ Cardinality(ToSet(seq)) \in Nat /\ Cardinality(ToSet(seq)) <= Len(seq)
<1>1. Len(seq) \in Nat /\ IsFiniteSet(1 .. Len(seq)) /\ Cardinality(1 .. Len(seq)) = Len(seq)
  <2>1. Len(seq) \in Nat /\ Len(seq) \in Int /\ 1 \in Int
    OBVIOUS
  <2>2. IsFiniteSet(1 .. Len(seq))
        /\ Cardinality(1 .. Len(seq)) = IF 1 > Len(seq) THEN 0 ELSE Len(seq) - 1 + 1
    BY <2>1, FS_Interval
  <2> QED
    BY <2>1, <2>2
<1>2. seq \in Surjection(1 .. Len(seq), ToSet(seq))
  BY DEF Surjection, ToSet
<1>3. IsFiniteSet(ToSet(seq)) /\ Cardinality(ToSet(seq)) <= Cardinality(1 .. Len(seq))
  BY <1>1, <1>2, FS_Surjection
<1>4. Cardinality(ToSet(seq)) \in Nat
  BY <1>3, FS_CardinalityType
<1> QED
  BY <1>1, <1>3, <1>4

LEMMA WordsSet ==
    ASSUME NEW seq \in Seq(Words), Len(seq) \in Wide
    PROVE  AreWords(ToSet(seq))
<1>1. IsFiniteSet(ToSet(seq)) /\ Cardinality(ToSet(seq)) \in Nat /\ Cardinality(ToSet(seq)) <= Len(seq)
  BY ToSetFinite
<1>2. Cardinality(ToSet(seq)) \in Wide
  BY <1>1, BaseAssumption DEF Wide
<1>3. \A w \in ToSet(seq) : IsWord(w)
  BY DEF ToSet, Words, IsWord
<1> QED
  BY <1>1, <1>2, <1>3 DEF AreWords

LEMMA LastOfIs ==
    ASSUME NEW V, NEW pairs \in Seq(Words \X V)
    PROVE  LET firsts == [i \in 1 .. Len(pairs) |-> pairs[i][1]]
               map    == LastOf(pairs)
           IN  /\ firsts \in Seq(Words) /\ Len(firsts) = Len(pairs)
               /\ map = [f \in DOMAIN map |-> map[f]] /\ DOMAIN map = ToSet(firsts)
               /\ \A f \in DOMAIN map :
                     \E i \in 1 .. Len(pairs) : pairs[i][1] = f /\ map[f] = pairs[i][2] /\ map[f] \in V
<1> DEFINE n == Len(pairs)
           firsts == [i \in 1 .. n |-> pairs[i][1]]
           D == {p[1] : p \in ToSet(pairs)}
           where(f) == {i \in DOMAIN pairs : pairs[i][1] = f}
           map == LastOf(pairs)
<1>1. n \in Nat /\ DOMAIN pairs = 1 .. n /\ \A i \in 1 .. n : pairs[i] \in Words \X V
  OBVIOUS
<1>2. \A i \in 1 .. n : pairs[i][1] \in Words /\ pairs[i][2] \in V
  BY <1>1
<1>3. firsts \in Seq(Words) /\ Len(firsts) = n
  <2> HIDE DEF n
  <2> QED
    BY <1>1, <1>2
<1>4. D = ToSet(firsts)
  <2>1. DOMAIN firsts = 1 .. n /\ \A i \in 1 .. n : firsts[i] = pairs[i][1]
    OBVIOUS
  <2> HIDE DEF firsts, n
  <2> QED
    BY <1>1, <2>1 DEF ToSet
<1>5. map = [f \in D |-> pairs[Max(where(f))][2]]
  BY DEF LastOf
<1>6. map = [f \in DOMAIN map |-> map[f]] /\ DOMAIN map = D
  BY <1>5
<1>7. ASSUME NEW f \in D
      PROVE  \E i \in 1 .. n : pairs[i][1] = f /\ map[f] = pairs[i][2] /\ map[f] \in V
  <2>1. where(f) \in SUBSET (0 .. n) /\ where(f) # {}
    BY <1>1 DEF ToSet
  <2> DEFINE i == Max(where(f))
  <2>2. i \in where(f)
    <3> HIDE DEF where, n
    <3> QED
      BY <1>1, <2>1, MaxOf
  <2>3. i \in 1 .. n /\ pairs[i][1] = f
    BY <1>1, <2>2
  <2>4. map[f] = pairs[i][2]
    BY <1>5, <1>7
  <2> QED
    BY <1>2, <2>3, <2>4
<1> HIDE DEF firsts, map, D
<1> QED
  BY <1>3, <1>4, <1>6, <1>7 DEF firsts, map

LEMMA CollectedType ==
    ASSUME NEW type \in ItemTypes, NEW items \in Seq(ItemsOf(type)), Len(items) \in Wide
    PROVE  IsValue(type, Collected(type, items))
<1>1. CASE type = "list"
  <2>1. items \in Seq(Words)
    BY <1>1 DEF ItemsOf
  <2>2. items \in Seq(Seq(Byte)) /\ \A i \in DOMAIN items : IsWord(items[i])
    BY <2>1 DEF Words, IsWord
  <2> QED
    BY <1>1, <2>2 DEF IsValue, Collected
<1>2. CASE type = "set"
  <2>1. items \in Seq(Words)
    BY <1>2 DEF ItemsOf
  <2>2. AreWords(ToSet(items))
    BY <2>1, WordsSet
  <2> QED
    BY <1>2, <2>2 DEF IsValue, Collected
<1>3. CASE type \in {"hash", "zset"}
  <2> DEFINE V == IF type = "hash" THEN Words ELSE Wide
             firsts == [i \in 1 .. Len(items) |-> items[i][1]]
             map == LastOf(items)
  <2>1. items \in Seq(Words \X V)
    BY <1>3 DEF ItemsOf
  <2> HIDE DEF V
  <2>2. /\ firsts \in Seq(Words) /\ Len(firsts) = Len(items)
        /\ map = [f \in DOMAIN map |-> map[f]] /\ DOMAIN map = ToSet(firsts)
        /\ \A f \in DOMAIN map :
              \E i \in 1 .. Len(items) : items[i][1] = f /\ map[f] = items[i][2] /\ map[f] \in V
    BY <2>1, LastOfIs
  <2>3. AreWords(DOMAIN map)
    <3> HIDE DEF firsts, map
    <3> QED
      BY <2>2, WordsSet
  <2>4. \A f \in DOMAIN map : map[f] \in V
    BY <2>2
  <2>5. \A f \in DOMAIN map : IF type = "hash" THEN IsWord(map[f]) ELSE map[f] \in Wide
    BY <2>4 DEF V, Words, IsWord
  <2>6. Collected(type, items) = map
    BY <1>3 DEF Collected
  <2> HIDE DEF map
  <2> QED
    BY <1>3, <2>2, <2>3, <2>5, <2>6 DEF IsValue
<1> QED
  BY <1>1, <1>2, <1>3 DEF ItemTypes

LEMMA LoadObjectType ==
    ASSUME NEW bytes \in Seq(Byte), NEW s, Stream(bytes, s), NEW type \in ItemTypes \cup {"string"}
    PROVE  LET r == LoadObject(bytes, s, type)
           IN  r = [at |-> r.at, ok |-> r.ok, v |-> r.v] /\ Onward(bytes, s, r) /\ IsValue(type, r.v)
<1> DEFINE r == LoadObject(bytes, s, type)
<1>1. CASE type = "string"
  <2>1. r = ReadString(bytes, s)
    BY <1>1 DEF LoadObject
  <2>2. r = [at |-> r.at, ok |-> r.ok, v |-> r.v] /\ Onward(bytes, s, r) /\ IsWord(r.v)
    BY <2>1, ReadStringType
  <2> QED
    BY <1>1, <2>2 DEF IsValue
<1>2. CASE type # "string"
  <2> DEFINE all == ReadAll(bytes, s, type)
  <2>1. type \in ItemTypes
    BY <1>2
  <2>2. /\ all = [at |-> all.at, ok |-> all.ok, v |-> all.v]
        /\ Onward(bytes, s, all) /\ all.v \in Seq(ItemsOf(type)) /\ Len(all.v) \in Wide
    BY <2>1, ReadAllType
  <2>3. r = [all EXCEPT !.v = Collected(type, @)]
    BY <1>2 DEF LoadObject
  <2>4. IsValue(type, Collected(type, all.v))
    BY <2>1, <2>2, CollectedType
  <2> HIDE DEF all, r
  <2>5. r = [at |-> all.at, ok |-> all.ok, v |-> Collected(type, all.v)]
    BY <2>2, <2>3
  <2>6. r = [at |-> r.at, ok |-> r.ok, v |-> r.v] /\ r.at = all.at /\ r.ok = all.ok /\ r.v = Collected(type, all.v)
    BY <2>5
  <2>7. Onward(bytes, s, r)
    BY <2>2, <2>6 DEF Onward, Stream
  <2> QED
    BY <2>4, <2>6, <2>7 DEF r
<1> QED
  BY <1>1, <1>2

-----------------------------------------------------------------------------
(* A keyspace is loaded, whatever is in the file.                          *)

LEMMA TypesAre ==
    /\ DOMAIN Types = 1 .. 5
    /\ \A i \in 1 .. 5 : Types[i] \in ItemTypes \cup {"string"}
    /\ \A i, j \in 1 .. 5 : Types[i] = Types[j] => i = j
BY DEF Types, ItemTypes

NoKeys == << >>

LEMMA NoKeysType == DOMAIN NoKeys = {} /\ IsKeyspace(NoKeys)
<1>1. NoKeys = [k \in {} |-> NoKeys[k]]
  BY DEF NoKeys
<1>2. DOMAIN NoKeys = {}
  BY DEF NoKeys
<1>3. NoKeys = [k \in DOMAIN NoKeys |-> NoKeys[k]]
  BY <1>1, <1>2
<1>4. IsFiniteSet(DOMAIN NoKeys)
  BY <1>2, FS_EmptySet
<1> QED
  BY <1>2, <1>3, <1>4 DEF IsKeyspace

LEMMA PutType ==
    ASSUME NEW d, IsKeyspace(d), NEW k, IsWord(k), NEW o, IsObject(o)
    PROVE  IsKeyspace(Put(d, k, o))
<1> DEFINE j == Put(d, k, o)
<1>1. j = [x \in DOMAIN d \cup {k} |-> IF x = k THEN o ELSE d[x]]
  BY DEF Put
<1> HIDE DEF j
<1>2. j = [x \in DOMAIN j |-> j[x]] /\ DOMAIN j = DOMAIN d \cup {k}
      /\ \A x \in DOMAIN d \cup {k} : j[x] = IF x = k THEN o ELSE d[x]
  BY <1>1
<1>3. IsFiniteSet(DOMAIN d \cup {k})
  BY FS_AddElement DEF IsKeyspace
<1>4. \A x \in DOMAIN j : IsWord(x) /\ IsObject(j[x])
  BY <1>2 DEF IsKeyspace
<1>5. IsKeyspace(j)
  BY <1>2, <1>3, <1>4 DEF IsKeyspace
<1> QED
  BY <1>5 DEF j

\* A stream with the keys that have been loaded.
Loading(bytes, s) ==
    s = [at |-> s.at, ok |-> s.ok, v |-> s.v] /\ Stream(bytes, s) /\ IsKeyspace(s.v)

\* What d becomes if nothing is put into it, or something under the key k.
Remains(d, k, e) == e = d \/ \E o : e = Put(d, k, o)

\* A key with its object is added, or nothing if the type is unknown; never more.
LEMMA LoadEntryType ==
    ASSUME NEW bytes \in Seq(Byte), NEW s, Loading(bytes, s)
    PROVE  LET r == LoadEntry(bytes, s)
           IN  Loading(bytes, r) /\ Onward(bytes, s, r) /\ Remains(s.v, ReadString(bytes, s).v, r.v)
<1> DEFINE key  == ReadString(bytes, s)
           exp  == ReadExpire(bytes, key)
           type == ReadU8(bytes, exp)
           name == Types[type.v + 1]
           obj  == LoadObject(bytes, type, name)
           o == [type |-> name, value |-> obj.v, expire_at |-> exp.v]
           r == LoadEntry(bytes, s)
<1>0. Stream(bytes, s) /\ IsKeyspace(s.v)
  BY DEF Loading
<1>1. Onward(bytes, s, key) /\ IsWord(key.v)
  BY <1>0, ReadStringType
<1>2. Stream(bytes, key)
  BY <1>1 DEF Onward
<1> HIDE DEF key
<1>3. Onward(bytes, key, exp) /\ IsDeadline(exp.v)
  BY <1>2, ReadExpireType
<1>4. Stream(bytes, exp)
  BY <1>3 DEF Onward
<1> HIDE DEF exp
<1>5. type = [at |-> type.at, ok |-> type.ok, v |-> type.v] /\ Onward(bytes, exp, type) /\ type.v \in Byte
  BY <1>4, ReadU8Type
<1>6. Stream(bytes, type) /\ Onward(bytes, s, type)
  <2>1. Onward(bytes, s, exp)
    BY <1>0, <1>1, <1>3, OnwardAgain
  <2>2. Onward(bytes, s, type)
    BY <1>0, <1>5, <2>1, OnwardAgain
  <2> QED
    BY <2>2 DEF Onward
<1>7. r = IF type.v + 1 \notin DOMAIN Types THEN [type EXCEPT !.v = s.v]
          ELSE [obj EXCEPT !.v = Put(s.v, key.v, [type |-> name, value |-> @, expire_at |-> exp.v])]
  BY DEF LoadEntry, key, exp
<1> HIDE DEF type
<1>8. CASE type.v + 1 \notin DOMAIN Types
  <2>1. r = [at |-> type.at, ok |-> type.ok, v |-> s.v]
    BY <1>5, <1>7, <1>8
  <2> HIDE DEF r
  <2>2. r = [at |-> r.at, ok |-> r.ok, v |-> r.v] /\ r.at = type.at /\ r.ok = type.ok /\ r.v = s.v
    BY <2>1
  <2>3. Onward(bytes, s, r)
    BY <1>6, <2>2 DEF Onward, Stream
  <2>4. Loading(bytes, r)
    BY <1>0, <2>2, <2>3 DEF Loading, Onward
  <2> QED
    BY <2>2, <2>3, <2>4 DEF r, Remains
<1>9. CASE type.v + 1 \in DOMAIN Types
  <2>1. name \in ItemTypes \cup {"string"}
    BY <1>9, TypesAre
  <2> HIDE DEF name
  <2>2. obj = [at |-> obj.at, ok |-> obj.ok, v |-> obj.v] /\ Onward(bytes, type, obj) /\ IsValue(name, obj.v)
    BY <1>6, <2>1, LoadObjectType
  <2>3. r = [obj EXCEPT !.v = Put(s.v, key.v, [type |-> name, value |-> @, expire_at |-> exp.v])]
    BY <1>7, <1>9
  <2> HIDE DEF obj, r
  <2>4. r = [at |-> obj.at, ok |-> obj.ok, v |-> Put(s.v, key.v, o)]
    BY <2>2, <2>3
  <2>5. o = [type |-> o.type, value |-> o.value, expire_at |-> o.expire_at]
        /\ o.type = name /\ o.value = obj.v /\ o.expire_at = exp.v
    OBVIOUS
  <2> HIDE DEF o
  <2>6. IsObject(o)
    BY <1>3, <2>2, <2>5 DEF IsObject
  <2>7. IsKeyspace(Put(s.v, key.v, o))
    BY <1>0, <1>1, <2>6, PutType
  <2>8. r = [at |-> r.at, ok |-> r.ok, v |-> r.v] /\ r.at = obj.at /\ r.ok = obj.ok /\ r.v = Put(s.v, key.v, o)
    BY <2>4
  <2>9. Onward(bytes, s, obj)
    BY <1>0, <1>6, <2>2, OnwardAgain
  <2>10. Onward(bytes, s, r)
    BY <2>8, <2>9 DEF Onward, Stream
  <2>11. Loading(bytes, r)
    BY <2>7, <2>8, <2>10 DEF Loading, Onward
  <2> QED
    BY <2>8, <2>10, <2>11 DEF r, key, Remains
<1> QED
  BY <1>8, <1>9

Stopped(bytes, s) == ~ s.ok \/ s.at = Len(bytes) \/ bytes[s.at + 1] = Eof

LEMMA NextKeyType ==
    ASSUME NEW bytes \in Seq(Byte), NEW s, Loading(bytes, s)
    PROVE  /\ Loading(bytes, NextKey(bytes, s)) /\ Onward(bytes, s, NextKey(bytes, s))
           /\ NextKey(bytes, s) = IF Stopped(bytes, s) THEN s ELSE LoadEntry(bytes, s)
<1>1. NextKey(bytes, s) = IF Stopped(bytes, s) THEN s ELSE LoadEntry(bytes, s)
  BY DEF NextKey, Stopped
<1>2. Onward(bytes, s, s)
  BY DEF Onward, Stream, Loading
<1>3. Loading(bytes, LoadEntry(bytes, s)) /\ Onward(bytes, s, LoadEntry(bytes, s))
  BY LoadEntryType
<1> QED
  BY <1>1, <1>2, <1>3

LEMMA KeysReadIs ==
    ASSUME NEW bytes \in Seq(Byte), NEW from, Loading(bytes, from)
    PROVE  LET read == KeysRead(bytes, from)
           IN  /\ read[0] = from
               /\ \A i \in 1 .. Len(bytes) : read[i] = NextKey(bytes, read[i - 1])
               /\ \A i \in 0 .. Len(bytes) : Loading(bytes, read[i])
<1> DEFINE n == Len(bytes)
           F(f) == [i \in 0 .. n |-> IF i = 0 THEN from ELSE NextKey(bytes, f[i - 1])]
           v == KeysRead(bytes, from)
           R(g, m) == DOMAIN g = 0 .. m /\ g[0] = from /\ \A i \in 1 .. m : g[i] = NextKey(bytes, g[i - 1])
           T == {m \in Nat : \E g : R(g, m)}
<1>1. n \in Nat
  OBVIOUS
<1>2. v = CHOOSE f : f = F(f)
  BY DEF KeysRead
<1> HIDE DEF n, v
<1>3. 0 \in T
  <2>1. R([i \in 0 .. 0 |-> from], 0)
    OBVIOUS
  <2> QED
    BY <2>1
<1>4. ASSUME NEW m \in T PROVE m + 1 \in T
  <2>1. m \in Nat
    OBVIOUS
  <2>2. PICK g : R(g, m)
    OBVIOUS
  <2> DEFINE h == [i \in 0 .. m + 1 |-> IF i = m + 1 THEN NextKey(bytes, g[m]) ELSE g[i]]
  <2>3. \A i \in 0 .. m : h[i] = g[i]
    BY <2>1
  <2>4. h[m + 1] = NextKey(bytes, g[m]) /\ DOMAIN h = 0 .. m + 1
    BY <2>1
  <2> HIDE DEF h
  <2>5. h[0] = from
    BY <2>1, <2>2, <2>3
  <2>6. ASSUME NEW i \in 1 .. m + 1 PROVE h[i] = NextKey(bytes, h[i - 1])
    <3>1. CASE i = m + 1
      <4>1. i - 1 = m /\ m \in 0 .. m
        BY <2>1, <3>1
      <4>2. h[i - 1] = g[m]
        BY <2>3, <4>1
      <4> QED
        BY <2>4, <3>1, <4>2
    <3>2. CASE i # m + 1
      <4>1. i \in 1 .. m /\ i - 1 \in 0 .. m /\ i \in 0 .. m
        BY <2>1, <3>2
      <4>2. h[i] = g[i] /\ h[i - 1] = g[i - 1]
        BY <2>3, <4>1
      <4> QED
        BY <2>2, <4>1, <4>2
    <3> QED
      BY <3>1, <3>2
  <2>7. R(h, m + 1)
    BY <2>4, <2>5, <2>6
  <2>8. m + 1 \in Nat
    BY <2>1
  <2> HIDE DEF R
  <2> QED
    BY <2>7, <2>8
<1>5. n \in T
  <2>1. T \in SUBSET Nat /\ \A m \in T : m + 1 \in T
    BY <1>4
  <2> HIDE DEF T
  <2> QED
    BY <1>1, <1>3, <2>1, Inductive
<1>6. PICK h : R(h, n)
  BY <1>5
<1>7. \E g : g = F(g)
  <2> DEFINE g == [i \in 0 .. n |-> h[i]]
  <2>1. \A i \in 0 .. n : g[i] = h[i]
    OBVIOUS
  <2>2. g = [i \in 0 .. n |-> g[i]]
    OBVIOUS
  <2> HIDE DEF g
  <2>3. \A i \in 0 .. n : g[i] = IF i = 0 THEN from ELSE NextKey(bytes, g[i - 1])
    <3> SUFFICES ASSUME NEW i \in 0 .. n PROVE g[i] = IF i = 0 THEN from ELSE NextKey(bytes, g[i - 1])
      OBVIOUS
    <3>1. CASE i = 0
      BY <1>6, <2>1, <3>1
    <3>2. CASE i # 0
      <4>1. i \in 1 .. n /\ i - 1 \in 0 .. n
        BY <1>1, <3>2
      <4> QED
        BY <1>6, <2>1, <3>2, <4>1
    <3> QED
      BY <3>1, <3>2
  <2>4. [i \in 0 .. n |-> g[i]] = F(g)
    BY <2>3
  <2> QED
    BY <2>2, <2>4, Zenon
<1>8. v = F(v)
  BY <1>2, <1>7
<1>9. v[0] = from /\ \A i \in 1 .. n : v[i] = NextKey(bytes, v[i - 1])
  <2>1. \A i \in 0 .. n : v[i] = IF i = 0 THEN from ELSE NextKey(bytes, v[i - 1])
    BY <1>8
  <2> QED
    BY <1>1, <2>1
<1>10. ASSUME NEW i \in 0 .. n PROVE Loading(bytes, v[i])
  <2> DEFINE U == {j \in 0 .. n : Loading(bytes, v[j])}
  <2>1. 0 \in U
    BY <1>1, <1>9
  <2>2. \A j \in 1 .. n : j - 1 \in U => j \in U
    <3> SUFFICES ASSUME NEW j \in 1 .. n, j - 1 \in U PROVE j \in U
      OBVIOUS
    <3>1. j \in 0 .. n /\ Loading(bytes, v[j - 1])
      BY <1>1
    <3>2. Loading(bytes, NextKey(bytes, v[j - 1]))
      BY <3>1, NextKeyType
    <3>3. Loading(bytes, v[j])
      BY <1>9, <3>2
    <3> QED
      BY <3>1, <3>3
  <2> HIDE DEF U
  <2>3. i \in U
    BY <1>1, <2>1, <2>2, Climb
  <2> QED
    BY <2>3 DEF U
<1> QED
  BY <1>9, <1>10 DEF v, n

-----------------------------------------------------------------------------
(* The parts of a file.                                                    *)

\* w stands in the file behind the first p bytes.
Part(bytes, p, w) == p + Len(w) <= Len(bytes) /\ \A i \in 1 .. Len(w) : bytes[p + i] = w[i]

LEMMA Behind ==
    ASSUME NEW a \in Seq(Byte), NEW b \in Seq(Byte)
    PROVE  a \o b \in Seq(Byte) /\ Len(a \o b) = Len(a) + Len(b) /\ Len(a) \in Nat /\ Len(b) \in Nat
OBVIOUS

LEMMA PartFront ==
    ASSUME NEW bytes \in Seq(Byte), NEW p \in Nat, NEW a \in Seq(Byte), NEW b \in Seq(Byte), Begins(a, b),
           Part(bytes, p, b)
    PROVE  Part(bytes, p, a)
<1>1. Len(a) \in Nat /\ Len(b) \in Nat /\ Len(bytes) \in Nat /\ Len(a) <= Len(b) /\ p + Len(b) <= Len(bytes)
  BY DEF Begins, Part
<1>2. ASSUME NEW i \in 1 .. Len(a) PROVE bytes[p + i] = a[i]
  <2>1. i \in 1 .. Len(b)
    BY <1>1
  <2> QED
    BY <2>1 DEF Begins, Part
<1> QED
  BY <1>1, <1>2 DEF Part

\* c is a and then b.
Joins(a, b, c) == a \in Seq(Byte) /\ b \in Seq(Byte) /\ c = a \o b

LEMMA PartSplit ==
    ASSUME NEW bytes \in Seq(Byte), NEW p \in Nat, NEW a, NEW b, NEW c, Joins(a, b, c), Part(bytes, p, c)
    PROVE  Part(bytes, p, a) /\ Part(bytes, p + Len(a), b) /\ Len(c) = Len(a) + Len(b)
<1>1. Len(a) \in Nat /\ Len(b) \in Nat /\ Len(bytes) \in Nat /\ Len(c) = Len(a) + Len(b)
      /\ (\A i \in 1 .. Len(a) : c[i] = a[i]) /\ \A i \in 1 .. Len(b) : c[Len(a) + i] = b[i]
  BY DEF Joins
<1>2. p + Len(c) <= Len(bytes) /\ \A i \in 1 .. Len(c) : bytes[p + i] = c[i]
  BY DEF Part
<1>3. ASSUME NEW i \in 1 .. Len(a) PROVE bytes[p + i] = a[i]
  BY <1>1, <1>2, i \in 1 .. Len(c)
<1>4. ASSUME NEW i \in 1 .. Len(b) PROVE bytes[p + Len(a) + i] = b[i]
  <2>1. Len(a) + i \in 1 .. Len(c) /\ p + (Len(a) + i) = p + Len(a) + i
    BY <1>1
  <2> QED
    BY <1>1, <1>2, <2>1
<1>5. p + Len(a) <= Len(bytes) /\ p + Len(a) + Len(b) <= Len(bytes)
  BY <1>1, <1>2
<1> QED
  BY <1>1, <1>3, <1>4, <1>5 DEF Part

\* g[i] is the first i of these sequences, one behind the other.
Flat(g, seqs) ==
    /\ g \in [0 .. Len(seqs) -> Seq(Byte)] /\ g[0] = << >>
    /\ Grows(g, seqs, Len(seqs))
    /\ FlattenSeq(seqs) = g[Len(seqs)]

LEMMA FlatExists ==
    ASSUME NEW seqs \in Seq(Seq(Byte))
    PROVE  \E g : Flat(g, seqs)
<1>1. PICK g \in [0 .. Len(seqs) -> Seq(Byte)] :
        /\ g[0] = << >>
        /\ \A i \in 1 .. Len(seqs) : g[i] = g[i - 1] \o seqs[i]
        /\ FlattenSeq(seqs) = g[Len(seqs)]
  BY FlattenIs
<1>2. Flat(g, seqs)
  BY <1>1 DEF Flat, Grows
<1> QED
  BY <1>2

\* Each of them stands behind the ones before it.
LEMMA PartFlat ==
    ASSUME NEW bytes \in Seq(Byte), NEW p \in Nat, NEW seqs \in Seq(Seq(Byte)), NEW g, Flat(g, seqs),
           NEW m \in 0 .. Len(seqs), Part(bytes, p, g[m]), NEW i \in 1 .. m
    PROVE  /\ g[i] \in Seq(Byte) /\ g[i - 1] \in Seq(Byte) /\ Len(g[i]) = Len(g[i - 1]) + Len(seqs[i])
           /\ Part(bytes, p + Len(g[i - 1]), seqs[i])
<1> DEFINE n == Len(seqs)
           h == [j \in 0 .. m |-> g[j]]
           q == [j \in 1 .. m |-> seqs[j]]
<1>1. n \in Nat /\ m \in 0 .. n /\ i \in 0 .. n /\ i - 1 \in 0 .. n /\ i \in 1 .. n /\ i \in 0 .. m /\ i - 1 \in 0 .. m
  OBVIOUS
<1>2. g \in [0 .. n -> Seq(Byte)] /\ \A j \in 1 .. n : g[j] = g[j - 1] \o seqs[j]
  BY DEF Flat, Grows
<1>3. \A j \in 1 .. n : seqs[j] \in Seq(Byte)
  OBVIOUS
<1>4. g[i] \in Seq(Byte) /\ g[i - 1] \in Seq(Byte) /\ seqs[i] \in Seq(Byte) /\ g[m] \in Seq(Byte)
      /\ g[i] = g[i - 1] \o seqs[i]
  BY <1>1, <1>2, <1>3
<1>5. m \in Nat /\ h \in [0 .. m -> Seq(Byte)] /\ q \in [1 .. m -> Seq(Byte)]
  <2> HIDE DEF n
  <2> QED
    BY <1>1, <1>2, <1>3
<1>6. Grows(h, q, m)
  <2> SUFFICES ASSUME NEW j \in 1 .. m PROVE h[j] = h[j - 1] \o q[j]
    BY DEF Grows
  <2>1. j \in 0 .. m /\ j - 1 \in 0 .. m /\ j \in 1 .. n
    BY <1>1
  <2>2. h[j] = g[j] /\ h[j - 1] = g[j - 1] /\ q[j] = seqs[j]
    BY <2>1
  <2> HIDE DEF h, q
  <2> QED
    BY <1>2, <2>1, <2>2
<1>7. h[i] = g[i] /\ h[m] = g[m]
  BY <1>1
<1> HIDE DEF h, q
<1>8. Begins(g[i], g[m])
  BY <1>1, <1>5, <1>6, <1>7, Fronts
<1>9. Part(bytes, p, g[i])
  BY <1>4, <1>8, PartFront
<1>10. Part(bytes, p + Len(g[i - 1]), seqs[i]) /\ Len(g[i]) = Len(g[i - 1]) + Len(seqs[i])
  <2>1. Joins(g[i - 1], seqs[i], g[i])
    BY <1>4 DEF Joins
  <2>2. \A a, b, c : Joins(a, b, c) /\ Part(bytes, p, c) =>
           Part(bytes, p + Len(a), b) /\ Len(c) = Len(a) + Len(b)
    BY PartSplit
  <2> QED
    BY <1>9, <2>1, <2>2, Zenon
<1> QED
  BY <1>4, <1>10

-----------------------------------------------------------------------------
(* What is written is read back.                                           *)

\* x was read, and the stream is good and at p.
Got(r, p, x) == r = [at |-> p, ok |-> TRUE, v |-> x]

LEMMA GotIs ==
    ASSUME NEW bytes, NEW r, NEW p \in 0 .. Len(bytes), NEW x, Got(r, p, x)
    PROVE  r.at = p /\ r.ok = TRUE /\ r.v = x /\ Stream(bytes, r)
BY DEF Got, Stream

LEMMA WriteWideType ==
    ASSUME NEW v \in Wide
    PROVE  WriteWide(v) \in Seq(Byte) /\ Len(WriteWide(v)) = 2
BY DigitsOf DEF WriteWide

LEMMA ReadWideBack ==
    ASSUME NEW bytes \in Seq(Byte), NEW s, Stream(bytes, s), s.ok, NEW v \in Wide,
           Part(bytes, s.at, WriteWide(v))
    PROVE  Got(ReadWide(bytes, s), s.at + 2, v) /\ s.at + 2 \in 0 .. Len(bytes)
<1> DEFINE r == ReadWide(bytes, s)
           w == WriteWide(v)
<1>1. /\ r = [at |-> r.at, ok |-> r.ok, v |-> r.v]
      /\ Onward(bytes, s, r) /\ r.ok <=> s.ok /\ s.at + 2 <= Len(bytes)
      /\ r.ok => r.at = s.at + 2 /\ r.v = bytes[s.at + 1] + Base * bytes[s.at + 2]
  BY ReadWideType
<1>2. Len(w) = 2 /\ w[1] = v % Base /\ w[2] = v \div Base
  BY DigitsOf DEF WriteWide
<1> HIDE DEF r, w
<1>3. s.at + 2 <= Len(bytes) /\ bytes[s.at + 1] = v % Base /\ bytes[s.at + 2] = v \div Base
  <2>1. 1 \in 1 .. 2 /\ 2 \in 1 .. 2
    OBVIOUS
  <2> QED
    BY <1>2, <2>1 DEF Part, w
<1>4. r.v = v
  <2>1. v = Base * (v \div Base) + (v % Base) /\ v % Base \in Byte /\ v \div Base \in Byte
    BY DigitsOf
  <2>2. Base * (v \div Base) \in Int /\ v % Base \in Int
    BY <2>1, BaseAssumption DEF Byte
  <2> QED
    BY <1>1, <1>3, <2>1, <2>2
<1>5. r.ok \in BOOLEAN /\ r.ok
  BY <1>1, <1>3 DEF Onward, Stream
<1>6. s.at \in Nat /\ Len(bytes) \in Nat
  BY DEF Stream
<1> QED
  BY <1>1, <1>3, <1>4, <1>5, <1>6 DEF Got, r

LEMMA WriteStringType ==
    ASSUME NEW w, IsWord(w)
    PROVE  WriteString(w) \in Seq(Byte) /\ Len(WriteString(w)) = 2 + Len(w) /\ Len(w) \in Nat /\ Len(w) \in Wide
<1>1. w \in Seq(Byte) /\ Len(w) \in Wide
  BY DEF IsWord
<1>2. WriteWide(Len(w)) \in Seq(Byte) /\ Len(WriteWide(Len(w))) = 2
  BY <1>1, WriteWideType
<1>3. WriteString(w) = WriteWide(Len(w)) \o w
  BY DEF WriteString
<1> QED
  BY <1>1, <1>2, <1>3, Behind

LEMMA ReadStringBack ==
    ASSUME NEW bytes \in Seq(Byte), NEW s, Stream(bytes, s), s.ok, NEW w, IsWord(w),
           Part(bytes, s.at, WriteString(w))
    PROVE  /\ Got(ReadString(bytes, s), s.at + Len(WriteString(w)), w)
           /\ s.at + Len(WriteString(w)) \in 0 .. Len(bytes)
<1> DEFINE len == ReadWide(bytes, s)
           n == Len(w)
           r == ReadBytes(bytes, len, n)
<1>1. w \in Seq(Byte) /\ n \in Wide /\ n \in Nat /\ Len(WriteString(w)) = 2 + n
  BY WriteStringType DEF IsWord
<1>2. WriteWide(n) \in Seq(Byte) /\ Len(WriteWide(n)) = 2
  BY <1>1, WriteWideType
<1>3. s.at \in Nat /\ Len(bytes) \in Nat
  BY DEF Stream
<1>4. Part(bytes, s.at, WriteWide(n)) /\ Part(bytes, s.at + 2, w)
  <2>1. Joins(WriteWide(n), w, WriteString(w))
    BY <1>1, <1>2 DEF WriteString, Joins
  <2> HIDE DEF n
  <2>2. Part(bytes, s.at, WriteWide(n)) /\ Part(bytes, s.at + Len(WriteWide(n)), w)
    BY <1>3, <2>1, PartSplit
  <2> QED
    BY <1>2, <2>2
<1>5. Got(len, s.at + 2, n) /\ s.at + 2 \in 0 .. Len(bytes)
  BY <1>1, <1>4, ReadWideBack
<1> HIDE DEF len
<1>6. len.at = s.at + 2 /\ len.ok = TRUE /\ len.v = n /\ Stream(bytes, len)
  BY <1>5, GotIs
<1>7. ReadString(bytes, s) = r
  BY <1>6 DEF ReadString, len
<1>8. BytesRead(bytes, len, n, r)
  BY <1>1, <1>6, ReadBytesType
<1> HIDE DEF r
<1>9. s.at + 2 + n <= Len(bytes) /\ \A i \in 1 .. n : bytes[s.at + 2 + i] = w[i]
  BY <1>4 DEF Part
<1>10. r.ok /\ r.ok \in BOOLEAN /\ r.at = s.at + 2 + n
  BY <1>6, <1>8, <1>9 DEF BytesRead, Onward, Stream
<1>11. r.v = w
  <2>1. r.v \in Seq(Byte) /\ Len(r.v) = n /\ \A i \in 1 .. n : r.v[i] = bytes[s.at + 2 + i]
    BY <1>6, <1>8, <1>10 DEF BytesRead
  <2>2. \A i \in 1 .. n : r.v[i] = w[i]
    BY <1>9, <2>1
  <2> DEFINE x == r.v
  <2>3. x \in Seq(Byte) /\ Len(x) = Len(w) /\ \A i \in 1 .. Len(w) : x[i] = w[i]
    BY <2>1, <2>2
  <2> HIDE DEF x, n
  <2>4. x = w
    BY <1>1, <2>3
  <2> QED
    BY <2>4 DEF x
<1>12. r = [at |-> r.at, ok |-> r.ok, v |-> r.v]
  BY <1>8 DEF BytesRead
<1>13. r = [at |-> s.at + (2 + n), ok |-> TRUE, v |-> w]
  <2>1. r.at = s.at + (2 + n)
    BY <1>1, <1>3, <1>10
  <2>2. r.ok = TRUE
    BY <1>10
  <2> QED
    BY <1>11, <1>12, <2>1, <2>2, Zenon
<1> QED
  BY <1>1, <1>3, <1>7, <1>9, <1>13 DEF Got

\* What is read of an item.
ItemRead(o, x) == IF o.type \in {"list", "set"} THEN x ELSE <<x, o.value[x]>>

\* x is an item of o.
IsItem(o, x) ==
    /\ o.type \in ItemTypes /\ IsWord(x)
    /\ o.type = "hash" => IsWord(o.value[x])
    /\ o.type = "zset" => o.value[x] \in Wide

LEMMA WriteItemType ==
    ASSUME NEW o, NEW x, IsItem(o, x)
    PROVE  /\ WriteItem(o, x) \in Seq(Byte) /\ Len(WriteItem(o, x)) \in Nat
           /\ o.type \in {"list", "set"} => WriteItem(o, x) = WriteString(x)
           /\ o.type = "hash" => Joins(WriteString(x), WriteString(o.value[x]), WriteItem(o, x))
           /\ o.type = "zset" => Joins(WriteString(x), WriteWide(o.value[x]), WriteItem(o, x))
<1>1. IsWord(x) /\ o.type \in ItemTypes
  BY DEF IsItem
<1>2. WriteString(x) \in Seq(Byte)
  BY <1>1, WriteStringType
<1>3. CASE o.type \in {"list", "set"}
  BY <1>2, <1>3 DEF WriteItem
<1>4. CASE o.type = "hash"
  <2>1. WriteString(o.value[x]) \in Seq(Byte)
    BY <1>4, WriteStringType DEF IsItem
  <2>2. WriteItem(o, x) = WriteString(x) \o WriteString(o.value[x])
    BY <1>4 DEF WriteItem
  <2>3. Joins(WriteString(x), WriteString(o.value[x]), WriteItem(o, x))
    BY <1>2, <2>1, <2>2 DEF Joins
  <2>4. WriteItem(o, x) \in Seq(Byte) /\ Len(WriteItem(o, x)) \in Nat
    BY <1>2, <2>1, <2>2, Behind
  <2> QED
    BY <1>4, <2>3, <2>4
<1>5. CASE o.type = "zset"
  <2>1. WriteWide(o.value[x]) \in Seq(Byte)
    BY <1>5, WriteWideType DEF IsItem
  <2>2. WriteItem(o, x) = WriteString(x) \o WriteWide(o.value[x])
    BY <1>5 DEF WriteItem
  <2>3. Joins(WriteString(x), WriteWide(o.value[x]), WriteItem(o, x))
    BY <1>2, <2>1, <2>2 DEF Joins
  <2>4. WriteItem(o, x) \in Seq(Byte) /\ Len(WriteItem(o, x)) \in Nat
    BY <1>2, <2>1, <2>2, Behind
  <2> QED
    BY <1>5, <2>3, <2>4
<1> QED
  BY <1>1, <1>3, <1>4, <1>5 DEF ItemTypes

LEMMA ReadItemBack ==
    ASSUME NEW bytes \in Seq(Byte), NEW s, Stream(bytes, s), s.ok, NEW o, NEW x, IsItem(o, x),
           Part(bytes, s.at, WriteItem(o, x))
    PROVE  /\ Got(ReadItem(bytes, s, o.type), s.at + Len(WriteItem(o, x)), ItemRead(o, x))
           /\ s.at + Len(WriteItem(o, x)) \in 0 .. Len(bytes)
<1> DEFINE type == o.type
           first == ReadString(bytes, s)
           second == IF type = "hash" THEN ReadString(bytes, first) ELSE ReadWide(bytes, first)
           r == ReadItem(bytes, s, type)
           w == WriteString(x)
           y == o.value[x]
           p == s.at + Len(w)
           item == WriteItem(o, x)
<1>1. IsWord(x) /\ type \in ItemTypes /\ s.at \in Nat
  BY DEF IsItem, Stream
<1>2. r = IF type \in {"list", "set"} THEN first ELSE [second EXCEPT !.v = <<first.v, @>>]
  BY DEF ReadItem
<1>3. w \in Seq(Byte) /\ Len(w) \in Nat
  BY <1>1, WriteStringType
<1>4. Part(bytes, s.at, w) => Got(first, p, x) /\ p \in 0 .. Len(bytes)
  BY <1>1, ReadStringBack
<1> HIDE DEF r, first
<1>5. CASE type \in {"list", "set"}
  <2>1. item = w
    BY <1>5, WriteItemType
  <2>2. Got(r, p, x)
    BY <1>2, <1>4, <1>5, <2>1
  <2> QED
    BY <1>4, <1>5, <2>1, <2>2 DEF ItemRead, r
<1>6. CASE type \in {"hash", "zset"}
  <2> DEFINE u == IF type = "hash" THEN WriteString(y) ELSE WriteWide(y)
  <2>1. Joins(w, u, item)
    BY <1>6, WriteItemType
  <2>2. Part(bytes, s.at, w) /\ Part(bytes, p, u) /\ Len(item) = Len(w) + Len(u)
    BY <1>1, <2>1, PartSplit
  <2>3. Got(first, p, x) /\ p \in 0 .. Len(bytes)
    BY <1>4, <2>2
  <2>4. first.at = p /\ first.ok = TRUE /\ first.v = x /\ Stream(bytes, first)
    BY <2>3, GotIs
  <2>5. Len(u) \in Nat
    BY <2>1, Behind DEF Joins
  <2> HIDE DEF p
  <2>6. Got(second, p + Len(u), y) /\ p + Len(u) \in 0 .. Len(bytes)
    <3>1. CASE type = "hash"
      <4>1. IsWord(y)
        BY <3>1 DEF IsItem
      <4> QED
        BY <2>2, <2>4, <3>1, <4>1, ReadStringBack
    <3>2. CASE type = "zset"
      <4>1. y \in Wide
        BY <3>2 DEF IsItem
      <4>2. Len(u) = 2
        BY <3>2, <4>1, WriteWideType
      <4>3. second = ReadWide(bytes, first) /\ u = WriteWide(y)
        BY <3>2
      <4> HIDE DEF u, second
      <4> QED
        BY <2>2, <2>4, <4>1, <4>2, <4>3, ReadWideBack
    <3> QED
      BY <1>6, <3>1, <3>2
  <2> HIDE DEF second, u
  <2>7. r = [second EXCEPT !.v = <<x, @>>]
    BY <1>2, <1>6, <2>4
  <2>8. r = [at |-> p + Len(u), ok |-> TRUE, v |-> <<x, y>>]
    BY <2>6, <2>7 DEF Got
  <2>9. p + Len(u) = s.at + Len(item)
    BY <1>1, <1>3, <2>2, <2>5 DEF p
  <2>10. ItemRead(o, x) = <<x, y>>
    BY <1>6 DEF ItemRead
  <2> QED
    BY <2>6, <2>8, <2>9, <2>10 DEF Got, r
<1> QED
  BY <1>1, <1>5, <1>6 DEF ItemTypes

\* What is written of the items.
WrittenItems(o, items) == [i \in 1 .. Len(items) |-> WriteItem(o, items[i])]

AreItems(o, items) ==
    /\ o.type \in ItemTypes
    /\ items \in Seq(Words) /\ Len(items) \in Wide
    /\ \A i \in 1 .. Len(items) : IsItem(o, items[i])

LEMMA WrittenItemsType ==
    ASSUME NEW o, NEW items, AreItems(o, items)
    PROVE  /\ WrittenItems(o, items) \in Seq(Seq(Byte)) /\ Len(WrittenItems(o, items)) = Len(items)
           /\ Len(items) \in Nat
           /\ \A i \in 1 .. Len(items) : WrittenItems(o, items)[i] = WriteItem(o, items[i])
<1>1. Len(items) \in Nat
  BY DEF AreItems
<1>2. \A i \in 1 .. Len(items) : WriteItem(o, items[i]) \in Seq(Byte)
  BY WriteItemType DEF AreItems
<1> QED
  BY <1>1, <1>2 DEF WrittenItems

LEMMA SaveItemsType ==
    ASSUME NEW o, NEW items, AreItems(o, items)
    PROVE  Joins(WriteWide(Len(items)), FlattenSeq(WrittenItems(o, items)), SaveItems(o, items))
<1>1. WriteWide(Len(items)) \in Seq(Byte)
  BY WriteWideType DEF AreItems
<1>2. FlattenSeq(WrittenItems(o, items)) \in Seq(Byte)
  <2>1. WrittenItems(o, items) \in Seq(Seq(Byte))
    BY WrittenItemsType
  <2>2. PICK g : Flat(g, WrittenItems(o, items))
    BY <2>1, FlatExists
  <2>3. Len(WrittenItems(o, items)) \in 0 .. Len(WrittenItems(o, items))
    BY <2>1
  <2> QED
    BY <2>2, <2>3 DEF Flat
<1> QED
  BY <1>1, <1>2 DEF SaveItems, WrittenItems, Joins

LEMMA ReadAllBack ==
    ASSUME NEW bytes \in Seq(Byte), NEW s, Stream(bytes, s), s.ok, NEW o, NEW items, AreItems(o, items),
           Part(bytes, s.at, SaveItems(o, items))
    PROVE  /\ Got(ReadAll(bytes, s, o.type), s.at + Len(SaveItems(o, items)),
                  [i \in 1 .. Len(items) |-> ItemRead(o, items[i])])
           /\ s.at + Len(SaveItems(o, items)) \in 0 .. Len(bytes)
<1> DEFINE n == Len(items)
           type == o.type
           count == ReadWide(bytes, s)
           seqs == WrittenItems(o, items)
           read == ItemsRead(bytes, count, n, type)
           p == s.at + 2
           done(i) == [j \in 1 .. i |-> ItemRead(o, items[j])]
<1>1. n \in Wide /\ type \in ItemTypes /\ s.at \in Nat /\ \A i \in 1 .. n : IsItem(o, items[i])
  BY DEF AreItems, Stream
<1>2. /\ seqs \in Seq(Seq(Byte)) /\ Len(seqs) = n /\ n \in Nat
      /\ \A i \in 1 .. n : seqs[i] = WriteItem(o, items[i])
  BY WrittenItemsType
<1>3. PICK g : Flat(g, seqs)
  BY <1>2, FlatExists
<1>4. Len(WriteWide(n)) = 2
  BY <1>1, WriteWideType
<1>5. Part(bytes, s.at, WriteWide(n)) /\ Part(bytes, p, g[n]) /\ Len(SaveItems(o, items)) = 2 + Len(g[n])
  <2>1. FlattenSeq(seqs) = g[n]
    BY <1>2, <1>3 DEF Flat
  <2>2. Joins(WriteWide(n), g[n], SaveItems(o, items))
    BY <2>1, SaveItemsType
  <2>3. \A a, b, c : Joins(a, b, c) /\ Part(bytes, s.at, c) =>
          Part(bytes, s.at, a) /\ Part(bytes, s.at + Len(a), b) /\ Len(c) = Len(a) + Len(b)
    BY <1>1, PartSplit
  <2> HIDE DEF n
  <2>4. /\ Part(bytes, s.at, WriteWide(n)) /\ Part(bytes, s.at + Len(WriteWide(n)), g[n])
        /\ Len(SaveItems(o, items)) = Len(WriteWide(n)) + Len(g[n])
    BY <2>2, <2>3, Zenon
  <2> QED
    BY <1>4, <2>4
<1>6. Got(count, p, n) /\ p \in 0 .. Len(bytes)
  BY <1>1, <1>5, ReadWideBack
<1>7. count.at = p /\ count.ok = TRUE /\ count.v = n /\ Stream(bytes, count)
      /\ count = [at |-> count.at, ok |-> count.ok, v |-> count.v]
  <2> HIDE DEF count, p, n
  <2>1. count.at = p /\ count.ok = TRUE /\ count.v = n /\ Stream(bytes, count)
    BY <1>6, GotIs
  <2>2. count = [at |-> count.at, ok |-> count.ok, v |-> count.v]
    BY <1>6 DEF Got
  <2> QED
    BY <2>1, <2>2
<1>8. ReadAll(bytes, s, type) = read[n]
  BY <1>7 DEF ReadAll
<1> HIDE DEF count, n, seqs
<1>9. /\ read \in [0 .. n -> Reading(bytes, type)]
      /\ read[0] = [at |-> p, ok |-> TRUE, v |-> << >>]
      /\ \A i \in 1 .. n : read[i] = NextItem(bytes, read[i - 1], type)
  <2>1. /\ n \in Nat /\ type \in ItemTypes /\ Stream(bytes, count)
        /\ count = [at |-> count.at, ok |-> count.ok, v |-> count.v]
    BY <1>1, <1>2, <1>7
  <2> HIDE DEF type
  <2>2. /\ read \in [0 .. n -> Reading(bytes, type)]
        /\ read[0] = [at |-> count.at, ok |-> count.ok, v |-> << >>]
        /\ \A i \in 1 .. n : read[i] = NextItem(bytes, read[i - 1], type)
    BY <2>1, ItemsReadIs
  <2> HIDE DEF read
  <2> QED
    BY <1>7, <2>2
<1> HIDE DEF read
<1>10. g[0] = << >> /\ p \in Nat
  BY <1>1, <1>3 DEF Flat
<1> DEFINE T == {i \in 0 .. n : read[i] = [at |-> p + Len(g[i]), ok |-> TRUE, v |-> done(i)]}
<1>11. 0 \in T
  <2>1. done(0) = << >> /\ Len(g[0]) = 0 /\ 0 \in 0 .. n
    BY <1>2, <1>10
  <2>2. p + 0 = p
    BY <1>10
  <2> HIDE DEF p, done
  <2> QED
    BY <1>9, <2>1, <2>2
<1>12. ASSUME NEW j \in 1 .. n, j - 1 \in T PROVE j \in T
  <2> DEFINE b == read[j - 1]
             x == items[j]
             w == WriteItem(o, x)
  <2>1. j \in 0 .. n /\ j - 1 \in 0 .. n
    BY <1>2
  <2>2. b = [at |-> p + Len(g[j - 1]), ok |-> TRUE, v |-> done(j - 1)]
    BY <1>12
  <2>3. b \in Reading(bytes, type)
    BY <1>9, <2>1
  <2>4. n \in 0 .. Len(seqs) /\ Part(bytes, p, g[n])
    BY <1>2, <1>5
  <2>5. /\ g[j] \in Seq(Byte) /\ g[j - 1] \in Seq(Byte) /\ Len(g[j]) = Len(g[j - 1]) + Len(seqs[j])
        /\ Part(bytes, p + Len(g[j - 1]), seqs[j])
    <3> HIDE DEF p
    <3> QED
      BY <1>2, <1>3, <1>10, <2>4, PartFlat
  <2>6. seqs[j] = w /\ IsItem(o, x)
    BY <1>1, <1>2
  <2>7. b.at = p + Len(g[j - 1]) /\ b.ok = TRUE /\ b.v = done(j - 1)
    BY <2>2
  <2>8. Stream(bytes, b)
    BY <2>3 DEF Stream, Reading
  <2> HIDE DEF b, w, x, done, p
  <2>9. Got(ReadItem(bytes, b, type), b.at + Len(w), ItemRead(o, x))
    BY <2>5, <2>6, <2>7, <2>8, ReadItemBack DEF w
  <2>10. /\ read[j] = NextItem(bytes, b, type)
         /\ NextItem(bytes, b, type) = [at |-> ReadItem(bytes, b, type).at, ok |-> ReadItem(bytes, b, type).ok,
                                        v |-> Append(b.v, ReadItem(bytes, b, type).v)]
    BY <1>1, <1>9, <2>3, NextItemType DEF b
  <2>11. read[j] = [at |-> b.at + Len(w), ok |-> TRUE, v |-> Append(done(j - 1), ItemRead(o, x))]
    BY <2>7, <2>9, <2>10 DEF Got
  <2>12. b.at + Len(w) = p + Len(g[j])
    <3>1. Len(g[j - 1]) \in Nat /\ Len(w) \in Nat
      BY <2>5, <2>6, WriteItemType DEF w
    <3> QED
      BY <1>10, <2>5, <2>6, <2>7, <3>1
  <2>13. Append(done(j - 1), ItemRead(o, x)) = done(j)
    BY <1>2 DEF done, x
  <2> QED
    BY <2>1, <2>11, <2>12, <2>13
<1>13. n \in T
  <2>1. n \in 0 .. n
    BY <1>2
  <2> HIDE DEF T
  <2> QED
    BY <1>2, <1>11, <1>12, <2>1, Climb
<1>14. read[n] = [at |-> p + Len(g[n]), ok |-> TRUE, v |-> done(n)]
  BY <1>13
<1>15. Len(g[n]) \in Nat /\ Len(bytes) \in Nat
  <2>1. g[n] \in Seq(Byte)
    BY <1>2, <1>3 DEF Flat
  <2> QED
    BY <2>1
<1>16. p + Len(g[n]) = s.at + Len(SaveItems(o, items)) /\ p + Len(g[n]) \in 0 .. Len(bytes)
  <2>1. p + Len(g[n]) <= Len(bytes) /\ Len(SaveItems(o, items)) = 2 + Len(g[n])
    BY <1>5 DEF Part
  <2> DEFINE a == Len(g[n])
             b == Len(SaveItems(o, items))
             c == Len(bytes)
             e == s.at
  <2>2. e \in Nat /\ a \in Nat /\ c \in Nat /\ e + 2 + a <= c /\ b = 2 + a
    BY <1>1, <1>15, <2>1
  <2> HIDE DEF a, b, c, e
  <2>3. e + 2 + a = e + b /\ e + 2 + a \in 0 .. c
    BY <2>2
  <2> QED
    BY <2>3 DEF a, b, c, e
<1> HIDE DEF p
<1> QED
  BY <1>8, <1>14, <1>16 DEF Got, n

-----------------------------------------------------------------------------
(* The order of writing.                                                   *)

\* s has each element of S once.
Enumerates(s, S) ==
    /\ IsFiniteSet(S) /\ s \in Seq(S) /\ Len(s) = Cardinality(S) /\ ToSet(s) = S
    /\ \A i, j \in 1 .. Len(s) : i # j => s[i] # s[j]

LEMMA Orders ==
    ASSUME NEW S, IsFiniteSet(S), NEW s
    PROVE  s \in SetToSeqs(S) <=> Enumerates(s, S)
<1> DEFINE n == Cardinality(S)
<1>1. n \in Nat
  BY FS_CardinalityType
<1>2. ASSUME s \in SetToSeqs(S) PROVE Enumerates(s, S)
  <2>1. s \in [1 .. n -> S] /\ \A i, j \in 1 .. n : i # j => s[i] # s[j]
    BY <1>2 DEF SetToSeqs
  <2> HIDE DEF n
  <2>2. s \in Injection(1 .. n, S)
    BY <2>1 DEF Injection, IsInjective
  <2>3. Cardinality(1 .. n) = n
    <3>1. n \in Int /\ 1 \in Int
      BY <1>1
    <3>2. Cardinality(1 .. n) = IF 1 > n THEN 0 ELSE n - 1 + 1
      BY <3>1, FS_Interval
    <3> QED
      BY <1>1, <3>2
  <2>4. s \in Surjection(1 .. n, S)
    BY <2>2, <2>3, FS_Injection DEF n
  <2>5. s \in Seq(S) /\ Len(s) = n
    BY <1>1, <2>1
  <2>6. ToSet(s) = S
    BY <1>1, <2>1, <2>4 DEF ToSet, Surjection
  <2> QED
    BY <2>1, <2>5, <2>6 DEF Enumerates, n
<1>3. ASSUME Enumerates(s, S) PROVE s \in SetToSeqs(S)
  <2>1. s \in Seq(S) /\ Len(s) = n /\ \A i, j \in 1 .. Len(s) : i # j => s[i] # s[j]
    BY <1>3 DEF Enumerates
  <2> HIDE DEF n
  <2>2. s \in [1 .. n -> S] /\ \A i, j \in 1 .. n : i # j => s[i] # s[j]
    BY <1>1, <2>1
  <2> QED
    BY <2>2 DEF SetToSeqs, n
<1> QED
  BY <1>2, <1>3

LEMMA SetToSeqIs ==
    ASSUME NEW S, IsFiniteSet(S)
    PROVE  Enumerates(SetToSeq(S), S)
<1> DEFINE n == Cardinality(S)
           s == SetToSeq(S)
<1>1. PICK f : f \in Bijection(1 .. n, S)
  BY FS_CardinalityType DEF ExistsBijection
<1>2. f \in [1 .. n -> S] /\ IsInjective(f)
  BY <1>1 DEF Bijection, Injection
<1>3. s = CHOOSE e \in [1 .. n -> S] : IsInjective(e)
  BY DEF SetToSeq
<1>4. s \in [1 .. n -> S] /\ IsInjective(s)
  <2> HIDE DEF s
  <2> QED
    BY <1>2, <1>3
<1>5. s \in SetToSeqs(S)
  <2> HIDE DEF s
  <2> QED
    BY <1>4 DEF SetToSeqs, IsInjective
<1> QED
  BY <1>5, Orders

\* The elements are ordered by their scores.
Sorted(s, scores) == \A i, j \in DOMAIN s : i < j => scores[s[i]] <= scores[s[j]]

LEMMA SortedExists ==
    ASSUME NEW D, IsFiniteSet(D), NEW scores \in [D -> Wide]
    PROVE  \E s : Enumerates(s, D) /\ Sorted(s, scores)
<1> DEFINE T == {n \in Nat : \A S \in SUBSET D : Cardinality(S) = n => \E s : Enumerates(s, S) /\ Sorted(s, scores)}
<1>1. \A S \in SUBSET D : IsFiniteSet(S) /\ Cardinality(S) \in Nat
  BY FS_Subset, FS_CardinalityType
<1>2. 0 \in T
  <2> SUFFICES ASSUME NEW S \in SUBSET D, Cardinality(S) = 0
               PROVE  \E s : Enumerates(s, S) /\ Sorted(s, scores)
    OBVIOUS
  <2>1. S = {}
    BY <1>1, FS_EmptySet
  <2> DEFINE s == << >>
  <2>2. s \in Seq(S) /\ Len(s) = 0 /\ ToSet(s) = {}
    BY DEF ToSet
  <2>3. Enumerates(s, S)
    BY <1>1, <2>1, <2>2 DEF Enumerates
  <2>4. Sorted(s, scores)
    BY DEF Sorted
  <2> QED
    BY <2>3, <2>4
<1>3. ASSUME NEW n \in T PROVE n + 1 \in T
  <2>0. n \in Nat
    OBVIOUS
  <2> SUFFICES ASSUME NEW S \in SUBSET D, Cardinality(S) = n + 1
               PROVE  \E s : Enumerates(s, S) /\ Sorted(s, scores)
    BY <2>0
  <2> DEFINE V == {scores[y] : y \in S}
  <2>1. PICK x \in S : \A y \in S : scores[y] <= scores[x]
    <3>1. S # {}
      BY <2>0, <1>1, FS_EmptySet
    <3>2. Base * Base - 1 \in Nat /\ V \in SUBSET (0 .. Base * Base - 1) /\ V # {}
      BY <3>1, BaseAssumption DEF Wide
    <3>3. Max(V) \in V /\ \A z \in V : z <= Max(V)
      <4> HIDE DEF V
      <4> QED
        BY <3>2, MaxOf
    <3> QED
      BY <3>3
  <2>2. S \ {x} \in SUBSET D /\ Cardinality(S \ {x}) = n
    <3>1. Cardinality(S \ {x}) = Cardinality(S) - 1
      BY <1>1, FS_RemoveElement
    <3> QED
      BY <2>0, <3>1
  <2>3. PICK s : Enumerates(s, S \ {x}) /\ Sorted(s, scores)
    BY <2>2
  <2> DEFINE t == Append(s, x)
  <2>4. /\ s \in Seq(S \ {x}) /\ Len(s) = n /\ ToSet(s) = S \ {x}
        /\ \A i, j \in 1 .. n : i # j => s[i] # s[j]
        /\ \A i, j \in 1 .. n : i < j => scores[s[i]] <= scores[s[j]]
    <3>1. /\ s \in Seq(S \ {x}) /\ Len(s) = n /\ ToSet(s) = S \ {x}
          /\ \A i, j \in 1 .. n : i # j => s[i] # s[j]
      BY <2>2, <2>3 DEF Enumerates
    <3>2. DOMAIN s = 1 .. n
      BY <3>1
    <3> QED
      BY <2>3, <3>1, <3>2 DEF Sorted
  <2>5. s \in Seq(S) /\ \A i \in 1 .. n : s[i] \in S /\ s[i] # x
    BY <2>4
  <2>6. t \in Seq(S) /\ Len(t) = n + 1 /\ t[n + 1] = x /\ \A i \in 1 .. n : t[i] = s[i]
    BY <2>0, <2>4, <2>5
  <2> HIDE DEF t
  <2>7. ToSet(t) = S
    <3>1. ASSUME NEW y \in S PROVE y \in ToSet(t)
      <4>1. CASE y = x
        BY <2>0, <2>6, <4>1 DEF ToSet
      <4>2. CASE y # x
        <5>1. PICK i \in 1 .. n : s[i] = y
          BY <2>4, <4>2 DEF ToSet
        <5>2. i \in DOMAIN t /\ t[i] = y
          BY <2>0, <2>6, <5>1
        <5> QED
          BY <5>2 DEF ToSet
      <4> QED
        BY <4>1, <4>2
    <3>2. ToSet(t) \subseteq S
      BY <2>6 DEF ToSet
    <3> QED
      BY <3>1, <3>2
  <2>8. \A i \in 1 .. n + 1 : i = n + 1 \/ i \in 1 .. n
    BY <2>0
  <2>9. ASSUME NEW i \in 1 .. n + 1, NEW j \in 1 .. n + 1, i # j PROVE t[i] # t[j]
    BY <2>4, <2>5, <2>6, <2>8, <2>9
  <2>10. ASSUME NEW i \in 1 .. n + 1, NEW j \in 1 .. n + 1, i < j PROVE scores[t[i]] <= scores[t[j]]
    <3>1. i \in 1 .. n
      BY <2>0, <2>10
    <3>2. CASE j = n + 1
      BY <2>1, <2>5, <2>6, <3>1, <3>2
    <3>3. CASE j \in 1 .. n
      BY <2>4, <2>6, <2>10, <3>1, <3>3
    <3> QED
      BY <2>8, <3>2, <3>3
  <2>11. Enumerates(t, S)
    BY <1>1, <2>6, <2>7, <2>9 DEF Enumerates
  <2>12. Sorted(t, scores)
    BY <2>6, <2>10 DEF Sorted
  <2> QED
    BY <2>11, <2>12
<1>4. Cardinality(D) \in T
  <2>1. T \in SUBSET Nat /\ \A n \in T : n + 1 \in T
    BY <1>3
  <2> HIDE DEF T
  <2>2. T = Nat
    BY <1>2, <2>1, Inductive
  <2> QED
    BY <1>1, <2>2
<1> QED
  BY <1>4

LEMMA ByScoreIs ==
    ASSUME NEW scores, IsFiniteSet(DOMAIN scores), scores \in [DOMAIN scores -> Wide]
    PROVE  Enumerates(ByScore(scores), DOMAIN scores)
<1>1. PICK s : Enumerates(s, DOMAIN scores) /\ Sorted(s, scores)
  BY SortedExists
<1>2. s \in SetToSeqs(DOMAIN scores)
  BY <1>1, Orders
<1>3. ByScore(scores) = CHOOSE e \in SetToSeqs(DOMAIN scores) : Sorted(e, scores)
  BY DEF ByScore, Sorted
<1>4. ByScore(scores) \in SetToSeqs(DOMAIN scores)
  BY <1>1, <1>2, <1>3, Zenon
<1> QED
  BY <1>4, Orders

\* What an object that is no string consists of is written, and makes its value.
LEMMA ItemsAre ==
    ASSUME NEW o, IsObject(o), o.type \in ItemTypes
    PROVE  LET items == Items(o)
           IN  /\ AreItems(o, items)
               /\ Collected(o.type, [i \in 1 .. Len(items) |-> ItemRead(o, items[i])]) = o.value
<1> DEFINE type == o.type
           value == o.value
           items == Items(o)
           n == Len(items)
           read == [i \in 1 .. n |-> ItemRead(o, items[i])]
<1>1. IsValue(type, value)
  BY DEF IsObject
<1>2. CASE type = "list"
  <2>1. items = value /\ value \in Seq(Seq(Byte)) /\ n \in Wide /\ \A i \in DOMAIN value : IsWord(value[i])
    BY <1>1, <1>2 DEF Items, IsValue
  <2>2. \A i \in 1 .. n : items[i] \in Words /\ IsItem(o, items[i])
    BY <1>2, <2>1 DEF Words, IsWord, IsItem, ItemTypes
  <2>3. items \in Seq(Words)
    BY <2>1, <2>2
  <2>4. AreItems(o, items)
    BY <1>2, <2>1, <2>2, <2>3 DEF AreItems, ItemTypes
  <2>5. read = items
    <3>1. read = [i \in 1 .. n |-> items[i]]
      BY <1>2 DEF ItemRead
    <3> HIDE DEF read, items
    <3> QED
      BY <2>3, <3>1
  <2>6. Collected(type, read) = read
    <3> HIDE DEF read
    <3> QED
      BY <1>2 DEF Collected
  <2> QED
    BY <2>1, <2>4, <2>5, <2>6
<1>3. CASE type = "set"
  <2>1. AreWords(value) /\ items = SetToSeq(value)
    BY <1>1, <1>3 DEF Items, IsValue
  <2>2. Enumerates(items, value)
    BY <2>1, SetToSeqIs DEF AreWords
  <2> HIDE DEF items
  <2>3. items \in Seq(value) /\ n \in Wide /\ ToSet(items) = value
    BY <2>1, <2>2 DEF Enumerates, AreWords
  <2>4. \A i \in 1 .. n : items[i] \in Words /\ IsItem(o, items[i])
    BY <1>3, <2>1, <2>3 DEF AreWords, Words, IsWord, IsItem, ItemTypes
  <2>5. items \in Seq(Words)
    BY <2>3, <2>4
  <2>6. AreItems(o, items)
    BY <1>3, <2>3, <2>4, <2>5 DEF AreItems, ItemTypes
  <2>7. read = items
    <3>1. read = [i \in 1 .. n |-> items[i]]
      BY <1>3 DEF ItemRead
    <3> HIDE DEF read
    <3> QED
      BY <2>3, <3>1
  <2>8. Collected(type, read) = ToSet(read)
    <3> HIDE DEF read
    <3> QED
      BY <1>3 DEF Collected
  <2> QED
    BY <2>3, <2>6, <2>7, <2>8 DEF items
<1>4. CASE type \in {"hash", "zset"}
  <2> DEFINE D == DOMAIN value
             V == IF type = "hash" THEN Words ELSE Wide
  <2>1. /\ AreWords(D) /\ value = [f \in D |-> value[f]]
        /\ \A f \in D : IF type = "hash" THEN IsWord(value[f]) ELSE value[f] \in Wide
    BY <1>1, <1>4 DEF IsValue
  <2>2. IsFiniteSet(D) /\ Cardinality(D) \in Wide /\ \A f \in D : IsWord(f)
    BY <2>1 DEF AreWords
  <2>3. Enumerates(items, D)
    <3>1. CASE type = "hash"
      <4>1. items = SetToSeq(D)
        BY <3>1 DEF Items
      <4> QED
        BY <2>2, <4>1, SetToSeqIs
    <3>2. CASE type = "zset"
      <4>1. items = ByScore(value)
        BY <3>2 DEF Items
      <4>2. value \in [D -> Wide]
        BY <2>1, <3>2
      <4> QED
        BY <2>2, <4>1, <4>2, ByScoreIs
    <3> QED
      BY <1>4, <3>1, <3>2
  <2> HIDE DEF items
  <2>4. items \in Seq(D) /\ n \in Wide /\ ToSet(items) = D /\ n \in Nat
    BY <2>2, <2>3 DEF Enumerates
  <2>5. \A i \in 1 .. n : items[i] \in D
    BY <2>4
  <2>6. \A i \in 1 .. n : items[i] \in Words /\ IsItem(o, items[i])
    BY <1>4, <2>1, <2>2, <2>5 DEF Words, IsWord, IsItem, ItemTypes
  <2>7. items \in Seq(Words)
    BY <2>4, <2>6
  <2>8. AreItems(o, items)
    BY <1>4, <2>4, <2>6, <2>7 DEF AreItems, ItemTypes
  <2>9. read = [i \in 1 .. n |-> <<items[i], value[items[i]]>>]
    BY <1>4 DEF ItemRead
  <2>10. Len(read) = n /\ \A i \in 1 .. n : read[i] = <<items[i], value[items[i]]>>
    BY <2>4, <2>9
  <2>11. \A i \in 1 .. n : items[i] \in Words /\ value[items[i]] \in V
    BY <2>1, <2>5, <2>6 DEF Words, IsWord
  <2> HIDE DEF V, D, read, n
  <2>12. read \in Seq(Words \X V)
    BY <2>4, <2>9, <2>11
  <2>13. Collected(type, read) = LastOf(read)
    BY <1>4 DEF Collected
  <2> DEFINE firsts == [i \in 1 .. Len(read) |-> read[i][1]]
             map == LastOf(read)
  <2>14. /\ firsts \in Seq(Words) /\ Len(firsts) = Len(read)
         /\ map = [f \in DOMAIN map |-> map[f]] /\ DOMAIN map = ToSet(firsts)
         /\ \A f \in DOMAIN map :
               \E i \in 1 .. Len(read) : read[i][1] = f /\ map[f] = read[i][2] /\ map[f] \in V
    BY <2>12, LastOfIs
  <2>15. firsts = items
    <3>1. firsts = [i \in 1 .. n |-> items[i]]
      BY <2>10
    <3> HIDE DEF firsts
    <3> QED
      BY <2>4, <3>1 DEF n
  <2> HIDE DEF map, firsts
  <2>16. DOMAIN map = D
    BY <2>4, <2>14, <2>15
  <2>17. ASSUME NEW f \in D PROVE map[f] = value[f]
    <3>1. PICK i \in 1 .. n : read[i][1] = f /\ map[f] = read[i][2]
      BY <2>10, <2>14, <2>16
    <3> QED
      BY <2>10, <3>1
  <2>18. map = value
    <3>1. map = [f \in D |-> map[f]]
      BY <2>14, <2>16
    <3>2. [f \in D |-> map[f]] = [f \in D |-> value[f]]
      BY <2>17
    <3> QED
      BY <2>1, <3>1, <3>2 DEF D
  <2> QED
    BY <2>8, <2>13, <2>18 DEF map, read, n, items
<1> QED
  BY <1>2, <1>3, <1>4 DEF ItemTypes

\* What comes behind the type of an object.
LEMMA SaveValueIs ==
    ASSUME NEW o, IsObject(o)
    PROVE  /\ SaveValue(o) \in Seq(Byte) /\ Len(SaveValue(o)) \in Nat
           /\ o.type = "string" => IsWord(o.value) /\ SaveValue(o) = WriteString(o.value)
           /\ o.type # "string" => o.type \in ItemTypes /\ SaveValue(o) = SaveItems(o, Items(o))
<1>1. IsValue(o.type, o.value)
  BY DEF IsObject
<1>2. CASE o.type = "string"
  <2>1. IsWord(o.value) /\ SaveValue(o) = WriteString(o.value)
    BY <1>1, <1>2 DEF IsValue, SaveValue
  <2>2. WriteString(o.value) \in Seq(Byte)
    BY <2>1, WriteStringType
  <2> QED
    BY <1>2, <2>1, <2>2
<1>3. CASE o.type # "string"
  <2>1. o.type \in ItemTypes /\ SaveValue(o) = SaveItems(o, Items(o))
    BY <1>1, <1>3 DEF IsValue, SaveValue, ItemTypes
  <2>2. AreItems(o, Items(o))
    BY <2>1, ItemsAre
  <2>3. SaveItems(o, Items(o)) \in Seq(Byte)
    BY <2>2, SaveItemsType, Behind DEF Joins
  <2> QED
    BY <1>3, <2>1, <2>3
<1> QED
  BY <1>2, <1>3

LEMMA LoadObjectBack ==
    ASSUME NEW bytes \in Seq(Byte), NEW s, Stream(bytes, s), s.ok, NEW o, IsObject(o),
           Part(bytes, s.at, SaveValue(o))
    PROVE  /\ Got(LoadObject(bytes, s, o.type), s.at + Len(SaveValue(o)), o.value)
           /\ s.at + Len(SaveValue(o)) \in 0 .. Len(bytes)
<1>1. CASE o.type = "string"
  <2>1. IsWord(o.value) /\ SaveValue(o) = WriteString(o.value)
    BY <1>1, SaveValueIs
  <2>2. LoadObject(bytes, s, o.type) = ReadString(bytes, s)
    BY <1>1 DEF LoadObject
  <2> QED
    BY <2>1, <2>2, ReadStringBack
<1>2. CASE o.type # "string"
  <2> DEFINE items == Items(o)
             read == [i \in 1 .. Len(items) |-> ItemRead(o, items[i])]
             all == ReadAll(bytes, s, o.type)
             q == s.at + Len(SaveValue(o))
  <2>1. o.type \in ItemTypes /\ SaveValue(o) = SaveItems(o, items)
    BY <1>2, SaveValueIs
  <2>2. AreItems(o, items) /\ Collected(o.type, read) = o.value
    BY <2>1, ItemsAre
  <2>3. LoadObject(bytes, s, o.type) = [all EXCEPT !.v = Collected(o.type, @)]
    BY <1>2 DEF LoadObject
  <2> HIDE DEF items
  <2>4. Got(all, q, read) /\ q \in 0 .. Len(bytes)
    BY <2>1, <2>2, ReadAllBack
  <2> HIDE DEF all, q, read
  <2>5. LoadObject(bytes, s, o.type) = [at |-> q, ok |-> TRUE, v |-> o.value]
    BY <2>2, <2>3, <2>4 DEF Got
  <2> QED
    BY <2>4, <2>5 DEF Got, q
<1> QED
  BY <1>1, <1>2

LEMMA TypeByteIs ==
    ASSUME NEW o, IsObject(o)
    PROVE  /\ TypeByte(o) \in 0 .. 4 /\ TypeByte(o) \in Byte /\ TypeByte(o) # ExpireMs /\ TypeByte(o) + 1 \in DOMAIN Types
           /\ Types[TypeByte(o) + 1] = o.type
<1> DEFINE t == CHOOSE t \in DOMAIN Types : Types[t] = o.type
<1>1. DOMAIN Types = 1 .. 5
  BY TypesAre
<1>2. \E i \in 1 .. 5 : Types[i] = o.type
  <2>1. o.type \in {"string", "list", "set", "hash", "zset"}
    BY DEF IsObject, IsValue
  <2>2. Types[1] = "string" /\ Types[2] = "hash" /\ Types[3] = "list" /\ Types[4] = "set" /\ Types[5] = "zset"
    BY DEF Types
  <2> QED
    BY <2>1, <2>2
<1>3. t \in 1 .. 5 /\ Types[t] = o.type
  BY <1>1, <1>2
<1>4. TypeByte(o) = t - 1
  BY DEF TypeByte
<1> HIDE DEF t
<1>5. TypeByte(o) \in 0 .. 4 /\ TypeByte(o) + 1 = t
  BY <1>3, <1>4
<1> QED
  BY <1>1, <1>3, <1>5, BaseAssumption DEF Byte, ExpireMs

LEMMA ReadU8Back ==
    ASSUME NEW bytes \in Seq(Byte), NEW s, Stream(bytes, s), s.ok, NEW b, Part(bytes, s.at, <<b>>)
    PROVE  Got(ReadU8(bytes, s), s.at + 1, b) /\ s.at + 1 \in 0 .. Len(bytes)
<1> DEFINE r == ReadU8(bytes, s)
<1>1. /\ r = [at |-> r.at, ok |-> r.ok, v |-> r.v]
      /\ Onward(bytes, s, r)
      /\ r.ok <=> s.ok /\ s.at + 1 <= Len(bytes)
      /\ r.ok => r.at = s.at + 1 /\ r.v = bytes[s.at + 1]
  BY ReadU8Type
<1> HIDE DEF r
<1>2. s.at + 1 <= Len(bytes) /\ bytes[s.at + 1] = b
  <2>1. Len(<<b>>) = 1 /\ <<b>>[1] = b
    OBVIOUS
  <2> QED
    BY <2>1 DEF Part
<1>3. r.ok = TRUE /\ r.at = s.at + 1 /\ r.v = b
  BY <1>1, <1>2 DEF Onward, Stream
<1>4. s.at \in Nat /\ Len(bytes) \in Nat
  BY DEF Stream
<1> QED
  BY <1>1, <1>2, <1>3, <1>4 DEF Got, r

LEMMA WriteExpireType ==
    ASSUME NEW t, IsDeadline(t)
    PROVE  /\ WriteExpire(t) \in Seq(Byte)
           /\ t = NoExpiry => WriteExpire(t) = << >>
           /\ t # NoExpiry => /\ t \in Nat /\ t \div TicksPerMs \in Wide
                              /\ Joins(<<ExpireMs>>, WriteWide(t \div TicksPerMs), WriteExpire(t))
<1>1. CASE t = NoExpiry
  BY <1>1 DEF WriteExpire
<1>2. CASE t # NoExpiry
  <2> DEFINE ms == t \div TicksPerMs
  <2>1. t \in Nat /\ ms \in Wide
    BY <1>2 DEF IsDeadline
  <2>2. WriteWide(ms) \in Seq(Byte)
    BY <2>1, WriteWideType
  <2>3. <<ExpireMs>> \in Seq(Byte)
    BY BaseAssumption DEF ExpireMs, Byte
  <2>4. WriteExpire(t) = <<ExpireMs>> \o WriteWide(ms)
    BY <1>2 DEF WriteExpire
  <2> HIDE DEF ms
  <2>5. WriteExpire(t) \in Seq(Byte) /\ Joins(<<ExpireMs>>, WriteWide(ms), WriteExpire(t))
    BY <2>2, <2>3, <2>4, Behind DEF Joins
  <2> QED
    BY <1>2, <2>1, <2>5 DEF ms
<1> QED
  BY <1>1, <1>2

\* An object stands in the file as its deadline, its type and its value.
LEMMA SaveObjectIs ==
    ASSUME NEW o, IsObject(o)
    PROVE  /\ SaveObject(o) \in Seq(Byte)
           /\ Joins(WriteExpire(o.expire_at) \o <<TypeByte(o)>>, SaveValue(o), SaveObject(o))
           /\ Joins(WriteExpire(o.expire_at), <<TypeByte(o)>>, WriteExpire(o.expire_at) \o <<TypeByte(o)>>)
<1>1. WriteExpire(o.expire_at) \in Seq(Byte)
  BY WriteExpireType DEF IsObject
<1>2. <<TypeByte(o)>> \in Seq(Byte)
  BY TypeByteIs
<1>3. SaveValue(o) \in Seq(Byte)
  BY SaveValueIs
<1> QED
  BY <1>1, <1>2, <1>3, Behind DEF SaveObject, Joins

LEMMA ReadExpireBack ==
    ASSUME NEW bytes \in Seq(Byte), NEW s, Stream(bytes, s), s.ok, NEW o, IsObject(o),
           Part(bytes, s.at, SaveObject(o))
    PROVE  /\ Got(ReadExpire(bytes, s), s.at + Len(WriteExpire(o.expire_at)), Rounded(o).expire_at)
           /\ s.at + Len(WriteExpire(o.expire_at)) \in 0 .. Len(bytes)
           /\ Part(bytes, s.at + Len(WriteExpire(o.expire_at)), <<TypeByte(o)>>)
           /\ Part(bytes, s.at + Len(WriteExpire(o.expire_at)) + 1, SaveValue(o))
           /\ Len(SaveObject(o)) = Len(WriteExpire(o.expire_at)) + 1 + Len(SaveValue(o))
<1> DEFINE t == o.expire_at
           e == WriteExpire(t)
           b == TypeByte(o)
           v == SaveValue(o)
           front == e \o <<b>>
           marker == ReadU8(bytes, s)
           ms == ReadWide(bytes, marker)
           r == ReadExpire(bytes, s)
<1>1. s.at \in Nat /\ Len(bytes) \in Nat /\ s.at <= Len(bytes) /\ IsDeadline(t)
  BY DEF Stream, IsObject
<1>2. /\ e \in Seq(Byte)
      /\ t = NoExpiry => e = << >>
      /\ t # NoExpiry => t \in Nat /\ t \div TicksPerMs \in Wide
                         /\ Joins(<<ExpireMs>>, WriteWide(t \div TicksPerMs), e)
  BY <1>1, WriteExpireType
<1>3. Joins(front, v, SaveObject(o)) /\ Joins(e, <<b>>, front)
  BY SaveObjectIs
<1>4. r = IF marker.v = ExpireMs THEN [ms EXCEPT !.v = @ * TicksPerMs]
          ELSE [at |-> s.at, ok |-> marker.ok, v |-> NoExpiry]
  BY DEF ReadExpire
<1>5. Rounded(o).expire_at = IF t = NoExpiry THEN t ELSE (t \div TicksPerMs) * TicksPerMs
  BY DEF Rounded, IsObject
<1>6. b \in Byte /\ b # ExpireMs
  BY TypeByteIs
<1> HIDE DEF e, b, v, front, r, marker
<1>7. \A x, y, z : Joins(x, y, z) /\ Part(bytes, s.at, z) =>
         Part(bytes, s.at, x) /\ Part(bytes, s.at + Len(x), y) /\ Len(z) = Len(x) + Len(y)
  BY <1>1, PartSplit
<1>8. /\ Part(bytes, s.at, front) /\ Part(bytes, s.at + Len(front), v)
      /\ Len(SaveObject(o)) = Len(front) + Len(v)
  BY <1>3, <1>7, Zenon
<1>9. Part(bytes, s.at, e) /\ Part(bytes, s.at + Len(e), <<b>>) /\ Len(front) = Len(e) + Len(<<b>>)
  BY <1>3, <1>7, <1>8, Zenon
<1>10. Len(e) \in Nat /\ Len(front) = Len(e) + 1 /\ s.at + Len(front) = s.at + Len(e) + 1
  <2>1. Len(e) \in Nat /\ Len(<<b>>) = 1
    BY <1>2
  <2> QED
    BY <1>1, <1>9, <2>1
<1>11. Part(bytes, s.at + Len(e) + 1, v) /\ Len(SaveObject(o)) = Len(e) + 1 + Len(v)
  BY <1>8, <1>10
<1>12. Got(r, s.at + Len(e), Rounded(o).expire_at) /\ s.at + Len(e) \in 0 .. Len(bytes)
  <2>1. CASE t = NoExpiry
    <3>1. Len(e) = 0 /\ s.at + Len(e) = s.at
      BY <1>1, <1>2, <2>1
    <3>2. Got(marker, s.at + 1, b)
      <4>1. Part(bytes, s.at, <<b>>)
        BY <1>9, <3>1
      <4> QED
        BY <4>1, ReadU8Back DEF marker
    <3>3. marker.v = b /\ marker.ok = TRUE
      BY <3>2 DEF Got
    <3>4. r = [at |-> s.at, ok |-> TRUE, v |-> NoExpiry]
      BY <1>4, <1>6, <3>3
    <3>5. Rounded(o).expire_at = NoExpiry
      BY <1>5, <2>1
    <3> DEFINE q == s.at + Len(e)
    <3>6. q = s.at /\ s.at \in 0 .. Len(bytes)
      BY <1>1, <3>1
    <3> HIDE DEF q
    <3>7. Got(r, q, Rounded(o).expire_at) /\ q \in 0 .. Len(bytes)
      BY <3>4, <3>5, <3>6 DEF Got
    <3> QED
      BY <3>7 DEF q
  <2>2. CASE t # NoExpiry
    <3> DEFINE w == t \div TicksPerMs
    <3>1. t \in Nat /\ w \in Wide /\ Joins(<<ExpireMs>>, WriteWide(w), e)
      BY <1>2, <2>2
    <3> HIDE DEF w
    <3>2. /\ Part(bytes, s.at, <<ExpireMs>>) /\ Part(bytes, s.at + Len(<<ExpireMs>>), WriteWide(w))
          /\ Len(e) = Len(<<ExpireMs>>) + Len(WriteWide(w))
      BY <1>7, <1>9, <3>1, Zenon
    <3>3. Len(<<ExpireMs>>) = 1 /\ Len(WriteWide(w)) = 2
      BY <3>1, WriteWideType
    <3>4. Got(marker, s.at + 1, ExpireMs) /\ s.at + 1 \in 0 .. Len(bytes)
      BY <3>2, ReadU8Back DEF marker
    <3>5. marker.at = s.at + 1 /\ marker.ok = TRUE /\ marker.v = ExpireMs /\ Stream(bytes, marker)
      BY <3>4, GotIs
    <3>6. Got(ms, marker.at + 2, w) /\ marker.at + 2 \in 0 .. Len(bytes)
      BY <3>1, <3>2, <3>3, <3>5, ReadWideBack
    <3>7. marker.at + 2 = s.at + Len(e)
      BY <1>1, <3>2, <3>3, <3>5
    <3> HIDE DEF ms
    <3>8. r = [at |-> s.at + Len(e), ok |-> TRUE, v |-> w * TicksPerMs]
      BY <1>4, <3>5, <3>6, <3>7 DEF Got
    <3>9. Rounded(o).expire_at = w * TicksPerMs
      BY <1>5, <2>2 DEF w
    <3> QED
      BY <3>6, <3>7, <3>8, <3>9 DEF Got
  <2> QED
    BY <2>1, <2>2
<1> QED
  BY <1>9, <1>11, <1>12 DEF e, b, v, r

\* The bytes of a key with its object; the first is the low byte of the length.
LEMMA SaveEntryIs ==
    ASSUME NEW d, IsKeyspace(d), NEW k \in DOMAIN d
    PROVE  /\ Joins(WriteString(k), SaveObject(d[k]), SaveEntry(d, k))
           /\ SaveEntry(d, k) \in Seq(Byte) /\ Len(SaveEntry(d, k)) \in Nat /\ Len(SaveEntry(d, k)) > 0
           /\ SaveEntry(d, k)[1] = Len(k) % Base
<1> DEFINE a == WriteString(k)
           b == SaveObject(d[k])
           c == SaveEntry(d, k)
<1>1. IsWord(k) /\ IsObject(d[k])
  BY DEF IsKeyspace
<1>2. a \in Seq(Byte) /\ Len(a) = 2 + Len(k) /\ Len(k) \in Nat /\ Len(k) \in Wide
  BY <1>1, WriteStringType
<1>3. b \in Seq(Byte)
  BY <1>1, SaveObjectIs
<1>4. c = a \o b
  BY DEF SaveEntry
<1>5. a[1] = Len(k) % Base
  <2>1. WriteWide(Len(k)) \in Seq(Byte) /\ Len(WriteWide(Len(k))) = 2
    BY <1>2, WriteWideType
  <2>2. WriteWide(Len(k))[1] = Len(k) % Base
    BY DEF WriteWide
  <2>3. a = WriteWide(Len(k)) \o k /\ k \in Seq(Byte)
    BY <1>1 DEF WriteString, IsWord
  <2>4. ASSUME NEW x \in Seq(Byte), NEW y \in Seq(Byte), Len(x) = 2 PROVE (x \o y)[1] = x[1]
    <3>1. \A i \in 1 .. Len(x) : (x \o y)[i] = x[i]
      OBVIOUS
    <3> QED
      BY <2>4, <3>1
  <2> HIDE DEF a
  <2> QED
    BY <2>1, <2>2, <2>3, <2>4, Zenon
<1> HIDE DEF a, b, c
<1>6. c \in Seq(Byte) /\ Len(c) \in Nat /\ Len(c) > 0 /\ c[1] = a[1]
  BY <1>2, <1>3, <1>4
<1> QED
  BY <1>2, <1>3, <1>4, <1>5, <1>6 DEF a, b, c, Joins

\* A key with its object is read back, and put to what the stream holds.
LEMMA LoadEntryBack ==
    ASSUME NEW bytes \in Seq(Byte), NEW s, Loading(bytes, s), s.ok, NEW d, IsKeyspace(d), NEW k \in DOMAIN d,
           Part(bytes, s.at, SaveEntry(d, k))
    PROVE  /\ Got(LoadEntry(bytes, s), s.at + Len(SaveEntry(d, k)), Put(s.v, k, Rounded(d[k])))
           /\ ReadString(bytes, s).v = k
<1> DEFINE o    == d[k]
           key  == ReadString(bytes, s)
           exp  == ReadExpire(bytes, key)
           type == ReadU8(bytes, exp)
           name == Types[type.v + 1]
           obj  == LoadObject(bytes, type, name)
           w == WriteString(k)
           b == SaveObject(o)
           x == WriteExpire(o.expire_at)
           v == SaveValue(o)
           p == s.at + Len(w)
           q == p + Len(x)
           e == SaveEntry(d, k)
           r == LoadEntry(bytes, s)
<1>1. Stream(bytes, s) /\ s.at \in Nat /\ IsWord(k) /\ IsObject(o)
  BY DEF Loading, Stream, IsKeyspace
<1>2. Joins(w, b, e)
  BY SaveEntryIs
<1>3. Part(bytes, s.at, w) /\ Part(bytes, p, b) /\ Len(e) = Len(w) + Len(b)
  BY <1>1, <1>2, PartSplit
<1>4. Got(key, p, k) /\ p \in 0 .. Len(bytes)
  BY <1>1, <1>3, ReadStringBack
<1> HIDE DEF key, p
<1>5. key.at = p /\ key.ok = TRUE /\ key.v = k /\ Stream(bytes, key)
  BY <1>4, GotIs
<1>6. /\ Got(exp, q, Rounded(o).expire_at) /\ q \in 0 .. Len(bytes)
      /\ Part(bytes, q, <<TypeByte(o)>>) /\ Part(bytes, q + 1, v)
      /\ Len(b) = Len(x) + 1 + Len(v)
  <2> HIDE DEF o
  <2>1. Part(bytes, key.at, b)
    BY <1>3, <1>5
  <2>2. key.ok
    BY <1>5
  <2>3. /\ Got(exp, key.at + Len(x), Rounded(o).expire_at)
        /\ key.at + Len(x) \in 0 .. Len(bytes)
        /\ Part(bytes, key.at + Len(x), <<TypeByte(o)>>)
        /\ Part(bytes, key.at + Len(x) + 1, v)
        /\ Len(b) = Len(x) + 1 + Len(v)
    BY <1>1, <1>5, <2>1, <2>2, ReadExpireBack
  <2> QED
    BY <1>5, <2>3
<1> HIDE DEF exp, q
<1>7. exp.at = q /\ exp.ok = TRUE /\ exp.v = Rounded(o).expire_at /\ Stream(bytes, exp)
  BY <1>6, GotIs
<1>8. Got(type, q + 1, TypeByte(o)) /\ q + 1 \in 0 .. Len(bytes)
  BY <1>6, <1>7, ReadU8Back
<1>9. r = IF type.v + 1 \notin DOMAIN Types THEN [type EXCEPT !.v = s.v]
          ELSE [obj EXCEPT !.v = Put(s.v, key.v, [type |-> name, value |-> @, expire_at |-> exp.v])]
  BY DEF LoadEntry, key, exp
<1> HIDE DEF type
<1>10. type.at = q + 1 /\ type.ok = TRUE /\ type.v = TypeByte(o) /\ Stream(bytes, type)
  BY <1>8, GotIs
<1>11. TypeByte(o) + 1 \in DOMAIN Types /\ name = o.type
  BY <1>1, <1>10, TypeByteIs
<1> HIDE DEF name
<1>12. Got(obj, q + 1 + Len(v), o.value)
  <2> HIDE DEF o
  <2>1. Part(bytes, type.at, v) /\ type.ok
    BY <1>6, <1>10
  <2>2. Got(LoadObject(bytes, type, o.type), type.at + Len(v), o.value)
    BY <1>1, <1>10, <2>1, LoadObjectBack
  <2> QED
    BY <1>10, <1>11, <2>2
<1>13. Rounded(o) = [type |-> o.type, value |-> o.value, expire_at |-> Rounded(o).expire_at]
  <2>1. o = [type |-> o.type, value |-> o.value, expire_at |-> o.expire_at]
    BY <1>1 DEF IsObject
  <2> HIDE DEF o
  <2> QED
    BY <2>1 DEF Rounded
<1> HIDE DEF obj
<1>14. r = [at |-> q + 1 + Len(v), ok |-> TRUE, v |-> Put(s.v, k, Rounded(o))]
  <2> DEFINE t == Rounded(o).expire_at
             z == Rounded(o)
  <2>1. r = [obj EXCEPT !.v = Put(s.v, key.v, [type |-> name, value |-> @, expire_at |-> exp.v])]
    BY <1>9, <1>10, <1>11
  <2>2. obj = [at |-> q + 1 + Len(v), ok |-> TRUE, v |-> o.value]
    BY <1>12 DEF Got
  <2>3. z = [type |-> o.type, value |-> o.value, expire_at |-> t]
    BY <1>13
  <2> HIDE DEF t, z, r, v
  <2>4. key.v = k /\ name = o.type /\ exp.v = t
    BY <1>5, <1>7, <1>11 DEF t
  <2> HIDE DEF o
  <2>5. r = [at |-> q + 1 + Len(v), ok |-> TRUE, v |-> Put(s.v, k, z)]
    BY <2>1, <2>2, <2>3, <2>4
  <2> QED
    BY <2>5 DEF r, z, v, o
<1>15. q + 1 + Len(v) = s.at + Len(e)
  <2> DEFINE n1 == Len(w)
             n2 == Len(x)
             n3 == Len(v)
  <2>1. n1 \in Nat /\ n2 \in Nat /\ n3 \in Nat
    <3>1. w \in Seq(Byte)
      BY <1>1, WriteStringType
    <3>2. x \in Seq(Byte)
      BY <1>1, WriteExpireType DEF IsObject
    <3>3. v \in Seq(Byte)
      BY <1>1, SaveValueIs
    <3> HIDE DEF w, x, v
    <3> QED
      BY <3>1, <3>2, <3>3
  <2>2. Len(e) = n1 + (n2 + 1 + n3)
    BY <1>3, <1>6
  <2>3. q = s.at + n1 + n2
    BY DEF q, p
  <2> HIDE DEF n1, n2, n3, w, x, v, e, b
  <2>4. q + 1 + n3 = s.at + (n1 + (n2 + 1 + n3))
    BY <1>1, <2>1, <2>3
  <2> QED
    BY <2>2, <2>4 DEF n3
<1> QED
  BY <1>5, <1>14, <1>15 DEF Got, key

-----------------------------------------------------------------------------
(* The file of a keyspace.                                                 *)

\* The entries that are written.
Written(d, keys, n) == [i \in 1 .. n |-> SaveEntry(d, keys[i])]

\* The keys of d are written in this order to the file F, the first i of them in
\* e[i] bytes.
SavedAs(F, d, keys, e) ==
    /\ F \in Seq(Byte) /\ IsKeyspace(d) /\ Enumerates(keys, DOMAIN d)
    /\ Part(F, 0, Header)
    /\ e \in [0 .. Len(keys) -> Nat] /\ e[0] = Len(Header)
    /\ \A i \in 1 .. Len(keys) : /\ Part(F, e[i - 1], SaveEntry(d, keys[i]))
                                 /\ e[i] = e[i - 1] + Len(SaveEntry(d, keys[i]))
    /\ e[Len(keys)] + 1 <= Len(F) /\ F[e[Len(keys)] + 1] = Eof

\* Where the bytes of the two are.
LEMMA BothIn ==
    ASSUME NEW a \in Seq(Byte), NEW b \in Seq(Byte)
    PROVE  /\ a \o b \in Seq(Byte) /\ Len(a \o b) = Len(a) + Len(b)
           /\ \A i \in 1 .. Len(a) : (a \o b)[i] = a[i]
           /\ \A i \in 1 .. Len(b) : (a \o b)[Len(a) + i] = b[i]
OBVIOUS

LEMMA HeaderIs ==
    /\ Header \in Seq(Byte) /\ Len(Header) = 6
    /\ Header[1] = 1 /\ Header[2] = 2 /\ Header[4] = SelectDb /\ Header[5] = 0 /\ Header[6] = 0
<1>1. WriteWide(0) = <<0, 0>>
  <2>1. 0 \in Wide
    BY ZeroByte
  <2>2. /\ WriteWide(0) = <<0 % Base, (0 \div Base) % Base>>
        /\ 0 = Base * (0 \div Base) + (0 % Base) /\ 0 % Base \in Byte /\ 0 \div Base \in Byte
    BY <2>1, DigitsOf DEF WriteWide
  <2>3. 0 % Base = 0 /\ 0 \div Base = 0 /\ (0 \div Base) % Base = 0
    BY BaseAssumption
  <2> QED
    BY <2>2, <2>3
<1>2. 1 \in Byte /\ 2 \in Byte /\ 0 \in Byte /\ SelectDb \in Byte
  BY BaseAssumption DEF Byte, SelectDb
<1> DEFINE a == Magic
           b == <<1, SelectDb>>
           c == a \o b
           z == WriteWide(0)
<1>3. a \in Seq(Byte) /\ Len(a) = 2 /\ a[1] = 1 /\ a[2] = 2
  BY <1>2 DEF Magic
<1>4. b \in Seq(Byte) /\ Len(b) = 2 /\ b[2] = SelectDb
  BY <1>2
<1>5. z \in Seq(Byte) /\ Len(z) = 2 /\ z[1] = 0 /\ z[2] = 0
  <2> DEFINE y == <<0, 0>>
  <2>1. y \in Seq(Byte) /\ Len(y) = 2 /\ y[1] = 0 /\ y[2] = 0
    BY <1>2
  <2> HIDE DEF y
  <2>2. z = y
    BY <1>1 DEF y
  <2> HIDE DEF z
  <2> QED
    BY <2>1, <2>2
<1>6. Header = c \o z
  BY DEF Header
<1> HIDE DEF a, b, z
<1>7. c \in Seq(Byte) /\ Len(c) = 4 /\ c[1] = 1 /\ c[2] = 2 /\ c[4] = SelectDb
  <2>1. /\ c \in Seq(Byte) /\ Len(c) = Len(a) + Len(b)
        /\ \A i \in 1 .. Len(a) : c[i] = a[i]
        /\ \A i \in 1 .. Len(b) : c[Len(a) + i] = b[i]
    BY <1>3, <1>4, BothIn
  <2>2. 1 \in 1 .. 2 /\ 2 \in 1 .. 2 /\ 2 + 2 = 4
    OBVIOUS
  <2> HIDE DEF c
  <2>3. Len(c) = 4
    BY <1>3, <1>4, <2>1, <2>2
  <2>4. c[1] = a[1] /\ c[2] = a[2]
    BY <1>3, <2>1, <2>2
  <2>5. c[4] = b[2]
    BY <1>3, <1>4, <2>1, <2>2
  <2> QED
    BY <1>3, <1>4, <2>1, <2>3, <2>4, <2>5
<1> HIDE DEF c
<1>8. /\ c \o z \in Seq(Byte) /\ Len(c \o z) = Len(c) + Len(z)
      /\ \A i \in 1 .. Len(c) : (c \o z)[i] = c[i]
      /\ \A i \in 1 .. Len(z) : (c \o z)[Len(c) + i] = z[i]
  BY <1>5, <1>7, BothIn
<1>9. 1 \in 1 .. 4 /\ 2 \in 1 .. 4 /\ 4 \in 1 .. 4 /\ 1 \in 1 .. 2 /\ 2 \in 1 .. 2 /\ 4 + 1 = 5 /\ 4 + 2 = 6
  OBVIOUS
<1> DEFINE h == c \o z
<1> HIDE DEF h
<1>10. h \in Seq(Byte) /\ Len(h) = 6
  BY <1>5, <1>7, <1>8, <1>9 DEF h
<1>11. h[1] = c[1] /\ h[2] = c[2] /\ h[4] = c[4]
  BY <1>7, <1>8, <1>9 DEF h
<1>12. h[5] = z[1] /\ h[6] = z[2]
  BY <1>5, <1>7, <1>8, <1>9 DEF h
<1>13. Header = h
  BY <1>6 DEF h
<1> QED
  BY <1>5, <1>7, <1>10, <1>11, <1>12, <1>13

\* The first m sequences, one behind the other.
LEMMA FlatFront ==
    ASSUME NEW seqs \in Seq(Seq(Byte)), NEW g, Flat(g, seqs), NEW m \in 0 .. Len(seqs)
    PROVE  FlattenSeq([i \in 1 .. m |-> seqs[i]]) = g[m]
<1> DEFINE n == Len(seqs)
           front == [i \in 1 .. m |-> seqs[i]]
<1>1. n \in Nat /\ m \in Nat /\ \A i \in 1 .. n : seqs[i] \in Seq(Byte)
  OBVIOUS
<1>2. front \in Seq(Seq(Byte)) /\ Len(front) = m /\ \A i \in 1 .. m : front[i] = seqs[i]
  BY <1>1
<1> HIDE DEF front, n
<1>3. PICK h : Flat(h, front)
  BY <1>2, FlatExists
<1>4. /\ h[0] = << >> /\ \A i \in 1 .. m : h[i] = h[i - 1] \o front[i]
      /\ FlattenSeq(front) = h[m]
  BY <1>2, <1>3 DEF Flat, Grows
<1>5. g[0] = << >> /\ \A i \in 1 .. m : g[i] = g[i - 1] \o seqs[i]
  <2>1. \A i \in 1 .. m : i \in 1 .. Len(seqs)
    BY <1>1 DEF n
  <2> QED
    BY <2>1, Zenon DEF Flat, Grows
<1> DEFINE T == {i \in 0 .. m : h[i] = g[i]}
<1>6. 0 \in T
  BY <1>1, <1>4, <1>5
<1>7. ASSUME NEW j \in 1 .. m, j - 1 \in T PROVE j \in T
  <2>1. h[j - 1] = g[j - 1] /\ j \in 0 .. m
    BY <1>1, <1>7
  <2>2. h[j] = h[j - 1] \o seqs[j] /\ g[j] = g[j - 1] \o seqs[j]
    BY <1>2, <1>4, <1>5
  <2> QED
    BY <2>1, <2>2
<1>8. m \in 0 .. m
  BY <1>1
<1> HIDE DEF T
<1>9. m \in T
  BY <1>1, <1>6, <1>7, <1>8, Climb
<1> QED
  BY <1>4, <1>9 DEF T, front

LEMMA SaveIs ==
    ASSUME NEW d, IsKeyspace(d), NEW keys, Enumerates(keys, DOMAIN d)
    PROVE  SavedAs(Save(d, keys), d, keys, [i \in 0 .. Len(keys) |-> Len(Entries(d, keys, i))])
<1> DEFINE n == Len(keys)
           F == Save(d, keys)
           seqs == Written(d, keys, n)
           E(i) == Entries(d, keys, i)
           e == [i \in 0 .. n |-> Len(E(i))]
           x == E(n) \o <<Eof>>
           h == Len(Header)
<1>1. n \in Nat /\ n \in 0 .. n /\ 0 \in 0 .. n /\ \A i \in 1 .. n : keys[i] \in DOMAIN d
  <2>1. keys \in Seq(DOMAIN d)
    BY DEF Enumerates
  <2> QED
    BY <2>1
<1>2. \A i \in 1 .. n : SaveEntry(d, keys[i]) \in Seq(Byte)
  BY <1>1, SaveEntryIs
<1>3. seqs \in Seq(Seq(Byte)) /\ Len(seqs) = n /\ \A i \in 1 .. n : seqs[i] = SaveEntry(d, keys[i])
  <2> HIDE DEF n
  <2> QED
    BY <1>1, <1>2 DEF Written
<1>4. PICK g : Flat(g, seqs)
  BY <1>3, FlatExists
<1>5. Header \in Seq(Byte) /\ h \in Nat
  BY HeaderIs
<1> HIDE DEF n, seqs
<1>6. \A i \in 0 .. n : g[i] \in Seq(Byte) /\ Joins(Header, g[i], E(i))
  <2> SUFFICES ASSUME NEW i \in 0 .. n PROVE g[i] \in Seq(Byte) /\ Joins(Header, g[i], E(i))
    OBVIOUS
  <2>1. g[i] \in Seq(Byte)
    BY <1>3, <1>4 DEF Flat
  <2>2. [j \in 1 .. i |-> seqs[j]] = [j \in 1 .. i |-> SaveEntry(d, keys[j])]
    <3>1. \A j \in 1 .. i : j \in 1 .. n
      BY <1>1
    <3> QED
      BY <1>3, <3>1
  <2>3. FlattenSeq([j \in 1 .. i |-> seqs[j]]) = g[i]
    BY <1>3, <1>4, FlatFront
  <2>4. E(i) = Header \o FlattenSeq([j \in 1 .. i |-> SaveEntry(d, keys[j])])
    BY DEF Entries
  <2>5. E(i) = Header \o g[i]
    BY <2>2, <2>3, <2>4
  <2> QED
    BY <1>5, <2>1, <2>5 DEF Joins
<1>7. \A i \in 0 .. n : E(i) \in Seq(Byte) /\ Len(E(i)) = h + Len(g[i]) /\ Len(g[i]) \in Nat
  BY <1>5, <1>6, Behind DEF Joins
<1>8. Joins(E(n), <<Eof>>, x) /\ Joins(x, WriteWide(0), F) /\ F \in Seq(Byte) /\ Len(F) \in Nat
  <2>1. E(n) \in Seq(Byte)
    BY <1>1, <1>7
  <2>2. <<Eof>> \in Seq(Byte)
    BY BaseAssumption DEF Byte, Eof
  <2>3. WriteWide(0) \in Seq(Byte)
    BY ZeroByte, WriteWideType
  <2>4. F = x \o WriteWide(0)
    BY DEF Save, n
  <2>5. x \in Seq(Byte)
    BY <2>1, <2>2, Behind
  <2>6. Joins(E(n), <<Eof>>, x)
    BY <2>1, <2>2 DEF Joins
  <2> HIDE DEF x, F
  <2>7. F \in Seq(Byte) /\ Joins(x, WriteWide(0), F)
    BY <2>3, <2>4, <2>5, Behind DEF Joins
  <2> QED
    BY <2>6, <2>7
<1> HIDE DEF F, x, E, h
<1>9. Part(F, 0, F)
  BY <1>8 DEF Part
<1>10. \A a, b, c : Joins(a, b, c) /\ Part(F, 0, c) => Part(F, 0, a) /\ Part(F, 0 + Len(a), b)
  BY <1>8, PartSplit
<1>11. Part(F, 0, E(n)) /\ Part(F, 0 + Len(E(n)), <<Eof>>)
  BY <1>8, <1>9, <1>10, Zenon
<1>12. Part(F, 0, Header) /\ Part(F, 0 + h, g[n])
  <2>1. Joins(Header, g[n], E(n))
    BY <1>1, <1>6
  <2> QED
    BY <1>10, <1>11, <2>1, Zenon DEF h
<1>13. Part(F, h, g[n])
  BY <1>5, <1>12
<1>14. \A i \in 1 .. n : Part(F, h + Len(g[i - 1]), seqs[i]) /\ Len(g[i]) = Len(g[i - 1]) + Len(seqs[i])
  <2>1. Len(seqs) \in 0 .. Len(seqs) /\ Part(F, h, g[Len(seqs)]) /\ F \in Seq(Byte)
    BY <1>1, <1>3, <1>8, <1>13
  <2>2. ASSUME NEW i \in 1 .. Len(seqs)
        PROVE  Part(F, h + Len(g[i - 1]), seqs[i]) /\ Len(g[i]) = Len(g[i - 1]) + Len(seqs[i])
    <3> DEFINE m == Len(seqs)
    <3>1. m \in 0 .. Len(seqs) /\ Part(F, h, g[m]) /\ i \in 1 .. m
      BY <2>1
    <3>2. seqs \in Seq(Seq(Byte)) /\ h \in Nat /\ F \in Seq(Byte)
      BY <1>3, <1>5, <2>1
    <3> HIDE DEF m
    <3>3. /\ g[i] \in Seq(Byte) /\ g[i - 1] \in Seq(Byte) /\ Len(g[i]) = Len(g[i - 1]) + Len(seqs[i])
          /\ Part(F, h + Len(g[i - 1]), seqs[i])
      BY <1>4, <3>1, <3>2, PartFlat
    <3> QED
      BY <3>3
  <2> QED
    BY <1>3, <2>2
<1>15. \A i \in 0 .. n : e[i] = h + Len(g[i])
  BY <1>7
<1>16. e \in [0 .. n -> Nat] /\ e[0] = h
  <2>1. \A i \in 0 .. n : Len(E(i)) \in Nat
    BY <1>5, <1>7
  <2>2. g[0] = << >> /\ Len(g[0]) = 0
    BY <1>4 DEF Flat
  <2> QED
    BY <1>1, <1>5, <1>15, <2>1, <2>2
<1> HIDE DEF e
<1>17. ASSUME NEW i \in 1 .. n
       PROVE  Part(F, e[i - 1], SaveEntry(d, keys[i])) /\ e[i] = e[i - 1] + Len(SaveEntry(d, keys[i]))
  <2>1. i \in 0 .. n /\ i - 1 \in 0 .. n
    BY <1>1
  <2>2. e[i] = h + Len(g[i]) /\ e[i - 1] = h + Len(g[i - 1])
    BY <1>15, <2>1
  <2>3. Part(F, h + Len(g[i - 1]), SaveEntry(d, keys[i])) /\ Len(g[i]) = Len(g[i - 1]) + Len(SaveEntry(d, keys[i]))
    BY <1>3, <1>14
  <2>4. Part(F, e[i - 1], SaveEntry(d, keys[i]))
    BY <2>2, <2>3
  <2>5. Len(SaveEntry(d, keys[i])) \in Nat /\ Len(g[i - 1]) \in Nat
    BY <1>1, <1>7, <2>1, SaveEntryIs
  <2> DEFINE m == Len(SaveEntry(d, keys[i]))
             l == Len(g[i - 1])
  <2>6. e[i] = h + (l + m) /\ e[i - 1] = h + l /\ m \in Nat /\ l \in Nat
    BY <2>2, <2>3, <2>5
  <2> HIDE DEF m, l
  <2>7. e[i] = e[i - 1] + m
    BY <1>5, <2>6
  <2> QED
    BY <2>4, <2>7 DEF m
<1>18. e[n] + 1 <= Len(F) /\ F[e[n] + 1] = Eof
  <2>1. e[n] = Len(E(n))
    BY <1>1, <1>7, <1>15
  <2>2. Len(<<Eof>>) = 1 /\ <<Eof>>[1] = Eof
    OBVIOUS
  <2>3. e[n] \in Nat
    BY <1>1, <1>16
  <2>4. Part(F, e[n], <<Eof>>)
    BY <1>11, <2>1, <2>3
  <2> QED
    BY <2>2, <2>3, <2>4 DEF Part
<1>19. SavedAs(F, d, keys, e)
  BY <1>8, <1>12, <1>16, <1>17, <1>18 DEF SavedAs, n, h
<1> QED
  BY <1>19 DEF e, n, F, E

\* The keys up to the first that looks like the end.
SeenOf(keys, n) ==
    /\ n \in 0 .. Len(keys)
    /\ \A i \in 1 .. n : ~ LooksLikeEof(keys[i])
    /\ n < Len(keys) => LooksLikeEof(keys[n + 1])

\* The first n keys, as they are loaded.
First(d, keys, n) == [k \in {keys[i] : i \in 1 .. n} |-> Rounded(d[k])]

LEMMA FirstGrows ==
    ASSUME NEW d, NEW keys, NEW n \in Nat
    PROVE  First(d, keys, n + 1) = Put(First(d, keys, n), keys[n + 1], Rounded(d[keys[n + 1]]))
<1> DEFINE a == {keys[i] : i \in 1 .. n}
           b == {keys[i] : i \in 1 .. n + 1}
           k == keys[n + 1]
           x == First(d, keys, n)
           y == Put(x, k, Rounded(d[k]))
<1>1. b = a \cup {k}
  <2>1. 1 .. n + 1 = 1 .. n \cup {n + 1}
    OBVIOUS
  <2> QED
    BY <2>1
<1>2. x = [f \in a |-> Rounded(d[f])]
  BY DEF First
<1>3. y = [f \in DOMAIN x \cup {k} |-> IF f = k THEN Rounded(d[k]) ELSE x[f]]
  BY DEF Put
<1> HIDE DEF a, b, k, x, y
<1>4. DOMAIN x = a /\ \A f \in a : x[f] = Rounded(d[f])
  BY <1>2
<1>5. y = [f \in a \cup {k} |-> Rounded(d[f])]
  <2>1. y = [f \in a \cup {k} |-> IF f = k THEN Rounded(d[k]) ELSE x[f]]
    BY <1>3, <1>4
  <2>2. \A f \in a \cup {k} : (IF f = k THEN Rounded(d[k]) ELSE x[f]) = Rounded(d[f])
    BY <1>4
  <2> QED
    BY <2>1, <2>2
<1>6. First(d, keys, n + 1) = [f \in b |-> Rounded(d[f])]
  BY DEF First, b
<1> QED
  BY <1>1, <1>5, <1>6 DEF y, k, x

-----------------------------------------------------------------------------
(* Of a file that was cut off, what is read with success is what is read of *)
(* the whole.                                                              *)

\* T is F cut off.
CutOff(T, F) == T \in Seq(Byte) /\ F \in Seq(Byte) /\ Begins(T, F)

LEMMA CutOffIs ==
    ASSUME NEW T, NEW F, CutOff(T, F)
    PROVE  /\ T \in Seq(Byte) /\ F \in Seq(Byte) /\ Len(T) \in Nat /\ Len(F) \in Nat /\ Len(T) <= Len(F)
           /\ \A i \in 1 .. Len(T) : F[i] = T[i]
           /\ \A s : Stream(T, s) => Stream(F, s)
BY DEF CutOff, Begins, Stream

LEMMA ReadBytesCut ==
    ASSUME NEW T, NEW F, CutOff(T, F), NEW s, Stream(T, s), NEW n \in Nat, ReadBytes(T, s, n).ok
    PROVE  ReadBytes(F, s, n) = ReadBytes(T, s, n)
<1> DEFINE q == ReadBytes(T, s, n)
           r == ReadBytes(F, s, n)
<1>1. /\ T \in Seq(Byte) /\ F \in Seq(Byte) /\ Len(T) \in Nat /\ Len(F) \in Nat /\ Len(T) <= Len(F)
      /\ (\A i \in 1 .. Len(T) : F[i] = T[i]) /\ Stream(F, s) /\ s.at \in Nat
  BY CutOffIs DEF Stream
<1>2. BytesRead(T, s, n, q) /\ BytesRead(F, s, n, r)
  BY <1>1, ReadBytesType
<1> HIDE DEF q, r
<1>3. q.ok
  BY DEF q
<1>4. s.ok /\ s.at + n <= Len(T) /\ q.at = s.at + n /\ \A i \in 1 .. n : q.v[i] = T[s.at + i]
  BY <1>2, <1>3 DEF BytesRead
<1>5. s.at + n <= Len(F)
  BY <1>1, <1>4
<1>6. r.ok
  BY <1>2, <1>4, <1>5 DEF BytesRead
<1>7. r.at = s.at + n /\ \A i \in 1 .. n : r.v[i] = F[s.at + i]
  BY <1>2, <1>6 DEF BytesRead
<1>8. \A i \in 1 .. n : r.v[i] = q.v[i]
  <2> SUFFICES ASSUME NEW i \in 1 .. n PROVE r.v[i] = q.v[i]
    OBVIOUS
  <2>1. s.at + i \in 1 .. Len(T)
    BY <1>1, <1>4
  <2> QED
    BY <1>1, <1>4, <1>7, <2>1
<1>9. q.v \in Seq(Byte) /\ Len(q.v) = n /\ r.v \in Seq(Byte) /\ Len(r.v) = n
  BY <1>2 DEF BytesRead
<1>10. r.v = q.v
  <2> DEFINE x == q.v
             y == r.v
  <2>1. x \in Seq(Byte) /\ Len(x) = n /\ y \in Seq(Byte) /\ Len(y) = n /\ \A i \in 1 .. n : y[i] = x[i]
    BY <1>8, <1>9
  <2> HIDE DEF x, y
  <2>2. y = x
    BY <2>1
  <2> QED
    BY <2>2 DEF x, y
<1>11. q.ok = TRUE /\ r.ok = TRUE
  BY <1>2, <1>3, <1>6 DEF BytesRead, Onward, Stream
<1>12. q = [at |-> q.at, ok |-> q.ok, v |-> q.v] /\ r = [at |-> r.at, ok |-> r.ok, v |-> r.v]
  BY <1>2 DEF BytesRead
<1> QED
  BY <1>4, <1>7, <1>10, <1>11, <1>12 DEF q, r

LEMMA ReadU8Cut ==
    ASSUME NEW T, NEW F, CutOff(T, F), NEW s, Stream(T, s), ReadU8(T, s).ok
    PROVE  ReadU8(F, s) = ReadU8(T, s)
<1> DEFINE q == ReadBytes(T, s, 1)
<1>1. ReadU8(T, s) = [q EXCEPT !.v = @[1]] /\ ReadU8(F, s) = [ReadBytes(F, s, 1) EXCEPT !.v = @[1]]
  BY DEF ReadU8
<1>2. q = [at |-> q.at, ok |-> q.ok, v |-> q.v]
  BY CutOffIs, ReadBytesType DEF BytesRead
<1> HIDE DEF q
<1>3. q.ok
  BY <1>1, <1>2
<1>4. ReadBytes(F, s, 1) = q
  BY <1>3, ReadBytesCut DEF q
<1> QED
  BY <1>1, <1>4

LEMMA ReadWideCut ==
    ASSUME NEW T, NEW F, CutOff(T, F), NEW s, Stream(T, s), ReadWide(T, s).ok
    PROVE  ReadWide(F, s) = ReadWide(T, s)
<1> DEFINE q == ReadBytes(T, s, 2)
<1>1. /\ ReadWide(T, s) = [q EXCEPT !.v = @[1] + Base * @[2]]
      /\ ReadWide(F, s) = [ReadBytes(F, s, 2) EXCEPT !.v = @[1] + Base * @[2]]
  BY DEF ReadWide
<1>2. q = [at |-> q.at, ok |-> q.ok, v |-> q.v]
  BY CutOffIs, ReadBytesType DEF BytesRead
<1> HIDE DEF q
<1>3. q.ok
  BY <1>1, <1>2
<1>4. ReadBytes(F, s, 2) = q
  BY <1>3, ReadBytesCut DEF q
<1> QED
  BY <1>1, <1>4

LEMMA ReadStringCut ==
    ASSUME NEW T, NEW F, CutOff(T, F), NEW s, Stream(T, s), ReadString(T, s).ok
    PROVE  ReadString(F, s) = ReadString(T, s)
<1> DEFINE len == ReadWide(T, s)
           n == len.v
           q == ReadBytes(T, len, n)
<1>1. T \in Seq(Byte)
  BY CutOffIs
<1>2. Onward(T, s, len) /\ n \in Nat
  BY <1>1, ReadWideType, WideType
<1>3. Stream(T, len)
  BY <1>2 DEF Onward
<1>4. ReadString(T, s) = q /\ ReadString(F, s) = ReadBytes(F, ReadWide(F, s), ReadWide(F, s).v)
  BY DEF ReadString
<1> HIDE DEF n
<1>5. BytesRead(T, len, n, q)
  BY <1>1, <1>2, <1>3, ReadBytesType
<1>6. q.ok /\ len.ok
  BY <1>4, <1>5 DEF BytesRead, Onward
<1>7. ReadWide(F, s) = len
  BY <1>6, ReadWideCut
<1>8. ReadBytes(F, len, n) = q
  BY <1>2, <1>3, <1>6, ReadBytesCut
<1> QED
  BY <1>4, <1>7, <1>8 DEF n

LEMMA ReadExpireCut ==
    ASSUME NEW T, NEW F, CutOff(T, F), NEW s, Stream(T, s), ReadExpire(T, s).ok
    PROVE  ReadExpire(F, s) = ReadExpire(T, s)
<1> DEFINE marker == ReadU8(T, s)
           ms == ReadWide(T, marker)
           other == ReadU8(F, s)
<1>1. T \in Seq(Byte)
  BY CutOffIs
<1>2. Onward(T, s, marker)
  BY <1>1, ReadU8Type
<1>3. Stream(T, marker)
  BY <1>2 DEF Onward
<1>4. ms = [at |-> ms.at, ok |-> ms.ok, v |-> ms.v] /\ Onward(T, marker, ms)
  BY <1>1, <1>3, ReadWideType
<1>5. /\ ReadExpire(T, s) = IF marker.v = ExpireMs THEN [ms EXCEPT !.v = @ * TicksPerMs]
                            ELSE [at |-> s.at, ok |-> marker.ok, v |-> NoExpiry]
      /\ ReadExpire(F, s) = IF other.v = ExpireMs THEN [ReadWide(F, other) EXCEPT !.v = @ * TicksPerMs]
                            ELSE [at |-> s.at, ok |-> other.ok, v |-> NoExpiry]
  BY DEF ReadExpire
<1> HIDE DEF ms
<1>6. marker.ok /\ (marker.v = ExpireMs => ms.ok)
  <2> HIDE DEF marker
  <2>1. CASE marker.v = ExpireMs
    <3>1. ms.ok
      BY <1>4, <1>5, <2>1
    <3> QED
      BY <1>4, <3>1 DEF Onward
  <2>2. CASE marker.v # ExpireMs
    BY <1>5, <2>2
  <2> QED
    BY <2>1, <2>2
<1>7. other = marker
  BY <1>6, ReadU8Cut
<1>8. marker.v = ExpireMs => ReadWide(F, marker) = ms
  BY <1>3, <1>6, ReadWideCut DEF ms
<1> HIDE DEF marker, other
<1> QED
  BY <1>5, <1>7, <1>8

LEMMA ReadItemCut ==
    ASSUME NEW T, NEW F, CutOff(T, F), NEW s, Stream(T, s), NEW type \in ItemTypes, ReadItem(T, s, type).ok
    PROVE  ReadItem(F, s, type) = ReadItem(T, s, type)
<1> DEFINE first == ReadString(T, s)
           second(bytes, f) == IF type = "hash" THEN ReadString(bytes, f) ELSE ReadWide(bytes, f)
           q == second(T, first)
           other == ReadString(F, s)
<1>1. T \in Seq(Byte)
  BY CutOffIs
<1>2. Onward(T, s, first)
  BY <1>1, ReadStringType
<1>3. Stream(T, first)
  BY <1>2 DEF Onward
<1>4. q = [at |-> q.at, ok |-> q.ok, v |-> q.v] /\ Onward(T, first, q)
  BY <1>1, <1>3, ReadStringType, ReadWideType
<1>5. /\ ReadItem(T, s, type) = IF type \in {"list", "set"} THEN first ELSE [q EXCEPT !.v = <<first.v, @>>]
      /\ ReadItem(F, s, type) = IF type \in {"list", "set"} THEN other
                                ELSE [second(F, other) EXCEPT !.v = <<other.v, @>>]
  BY DEF ReadItem
<1> HIDE DEF q
<1>6. first.ok /\ (type \notin {"list", "set"} => q.ok)
  <2> HIDE DEF first
  <2>1. CASE type \in {"list", "set"}
    BY <1>5, <2>1
  <2>2. CASE type \notin {"list", "set"}
    <3>1. q.ok
      BY <1>4, <1>5, <2>2
    <3> QED
      BY <1>4, <3>1 DEF Onward
  <2> QED
    BY <2>1, <2>2
<1>7. other = first
  BY <1>6, ReadStringCut
<1>8. type \notin {"list", "set"} => second(F, first) = q
  <2>1. CASE type = "hash"
    BY <1>3, <1>6, <2>1, ReadStringCut DEF q
  <2>2. CASE type # "hash"
    BY <1>3, <1>6, <2>2, ReadWideCut DEF q
  <2> QED
    BY <2>1, <2>2
<1> HIDE DEF first, other, second
<1> QED
  BY <1>5, <1>7, <1>8

LEMMA ReadAllCut ==
    ASSUME NEW T, NEW F, CutOff(T, F), NEW s, Stream(T, s), NEW type \in ItemTypes, ReadAll(T, s, type).ok
    PROVE  ReadAll(F, s, type) = ReadAll(T, s, type)
<1> DEFINE count == ReadWide(T, s)
           n == count.v
           q == ItemsRead(T, count, n, type)
           r == ItemsRead(F, count, n, type)
<1>1. T \in Seq(Byte) /\ F \in Seq(Byte)
  BY CutOffIs
<1>2. count = [at |-> count.at, ok |-> count.ok, v |-> count.v] /\ Onward(T, s, count) /\ n \in Nat
  BY <1>1, ReadWideType, WideType
<1>3. Stream(T, count) /\ Stream(F, count)
  BY <1>2, CutOffIs DEF Onward
<1>4. ReadAll(T, s, type) = q[n]
  BY DEF ReadAll
<1>5. ReadAll(F, s, type) = ItemsRead(F, ReadWide(F, s), ReadWide(F, s).v, type)[ReadWide(F, s).v]
  BY DEF ReadAll
<1> HIDE DEF n
<1>6. /\ q \in [0 .. n -> Reading(T, type)] /\ q[0] = [at |-> count.at, ok |-> count.ok, v |-> << >>]
      /\ \A i \in 1 .. n : q[i] = NextItem(T, q[i - 1], type)
  <2> HIDE DEF count
  <2> QED
    BY <1>1, <1>2, <1>3, ItemsReadIs
<1>7. /\ r \in [0 .. n -> Reading(F, type)] /\ r[0] = [at |-> count.at, ok |-> count.ok, v |-> << >>]
      /\ \A i \in 1 .. n : r[i] = NextItem(F, r[i - 1], type)
  <2> HIDE DEF count
  <2> QED
    BY <1>1, <1>2, <1>3, ItemsReadIs
<1> HIDE DEF q, r
<1> DEFINE U == {i \in 0 .. n : (q[i].ok => r[i] = q[i]) /\ (q[i].ok => count.ok)}
<1>8. 0 \in U
  <2> HIDE DEF count
  <2> QED
    BY <1>2, <1>6, <1>7
<1>9. ASSUME NEW j \in 1 .. n, j - 1 \in U PROVE j \in U
  <2> DEFINE b == q[j - 1]
             i == ReadItem(T, b, type)
  <2>1. j \in 0 .. n /\ j - 1 \in 0 .. n
    BY <1>2
  <2>2. b \in Reading(T, type)
    BY <1>6, <2>1
  <2>3. Stream(T, b)
    BY <2>2 DEF Reading, Stream
  <2> HIDE DEF b
  <2>4. q[j] = NextItem(T, b, type) /\ r[j] = NextItem(F, r[j - 1], type)
    BY <1>6, <1>7 DEF b
  <2>5. q[j] = [at |-> i.at, ok |-> i.ok, v |-> Append(b.v, i.v)] /\ Onward(T, b, q[j])
    BY <1>1, <2>2, <2>4, NextItemType
  <2> SUFFICES ASSUME q[j].ok PROVE r[j] = q[j] /\ count.ok
    BY <2>1
  <2>6. i.ok /\ b.ok
    BY <2>5 DEF Onward
  <2>7. r[j - 1] = b /\ count.ok
    BY <1>9, <2>6 DEF b
  <2>8. ReadItem(F, b, type) = i
    BY <2>3, <2>6, ReadItemCut
  <2>9. NextItem(F, b, type) = NextItem(T, b, type)
    BY <2>8 DEF NextItem
  <2> QED
    BY <2>4, <2>7, <2>9
<1>10. n \in U
  <2>1. n \in 0 .. n
    BY <1>2
  <2> HIDE DEF U
  <2> QED
    BY <1>2, <1>8, <1>9, <2>1, Climb
<1>11. r[n] = q[n] /\ count.ok
  BY <1>4, <1>10
<1>12. ReadWide(F, s) = count
  BY <1>11, ReadWideCut
<1> HIDE DEF count
<1> QED
  BY <1>4, <1>5, <1>11, <1>12 DEF n, r

LEMMA LoadObjectCut ==
    ASSUME NEW T, NEW F, CutOff(T, F), NEW s, Stream(T, s), NEW type \in ItemTypes \cup {"string"},
           LoadObject(T, s, type).ok
    PROVE  LoadObject(F, s, type) = LoadObject(T, s, type)
<1>1. CASE type = "string"
  <2>1. LoadObject(T, s, type) = ReadString(T, s) /\ LoadObject(F, s, type) = ReadString(F, s)
    BY <1>1 DEF LoadObject
  <2> QED
    BY <2>1, ReadStringCut
<1>2. CASE type # "string"
  <2> DEFINE all == ReadAll(T, s, type)
  <2>1. type \in ItemTypes
    BY <1>2
  <2>2. all = [at |-> all.at, ok |-> all.ok, v |-> all.v]
    BY <2>1, CutOffIs, ReadAllType
  <2>3. /\ LoadObject(T, s, type) = [all EXCEPT !.v = Collected(type, @)]
        /\ LoadObject(F, s, type) = [ReadAll(F, s, type) EXCEPT !.v = Collected(type, @)]
    BY <1>2 DEF LoadObject
  <2> HIDE DEF all
  <2>4. all.ok
    BY <2>2, <2>3
  <2>5. ReadAll(F, s, type) = all
    BY <2>1, <2>4, ReadAllCut DEF all
  <2> QED
    BY <2>3, <2>5
<1> QED
  BY <1>1, <1>2

LEMMA LoadEntryCut ==
    ASSUME NEW T, NEW F, CutOff(T, F), NEW s, Stream(T, s), LoadEntry(T, s).ok
    PROVE  LoadEntry(F, s) = LoadEntry(T, s)
<1> DEFINE key  == ReadString(T, s)
           exp  == ReadExpire(T, key)
           type == ReadU8(T, exp)
           name == Types[type.v + 1]
           obj  == LoadObject(T, type, name)
           known == type.v + 1 \in DOMAIN Types
           key2  == ReadString(F, s)
           exp2  == ReadExpire(F, key2)
           type2 == ReadU8(F, exp2)
           name2 == Types[type2.v + 1]
           obj2  == LoadObject(F, type2, name2)
<1>1. T \in Seq(Byte)
  BY CutOffIs
<1>2. Onward(T, s, key) /\ Stream(T, key)
  BY <1>1, ReadStringType DEF Onward
<1> HIDE DEF key
<1>3. Onward(T, key, exp) /\ Stream(T, exp)
  BY <1>1, <1>2, ReadExpireType DEF Onward
<1> HIDE DEF exp
<1>4. Onward(T, exp, type) /\ Stream(T, type) /\ type = [at |-> type.at, ok |-> type.ok, v |-> type.v]
  BY <1>1, <1>3, ReadU8Type DEF Onward
<1> HIDE DEF type
<1>5. known => name \in ItemTypes \cup {"string"}
  BY TypesAre
<1>6. known => obj = [at |-> obj.at, ok |-> obj.ok, v |-> obj.v] /\ Onward(T, type, obj)
  <2> HIDE DEF name, known
  <2> QED
    BY <1>1, <1>4, <1>5, LoadObjectType
<1>7. LoadEntry(T, s) = IF ~ known THEN [type EXCEPT !.v = s.v]
          ELSE [obj EXCEPT !.v = Put(s.v, key.v, [type |-> name, value |-> @, expire_at |-> exp.v])]
  BY DEF LoadEntry, key, exp, type
<1>8. LoadEntry(F, s) = IF type2.v + 1 \notin DOMAIN Types THEN [type2 EXCEPT !.v = s.v]
          ELSE [obj2 EXCEPT !.v = Put(s.v, key2.v, [type |-> name2, value |-> @, expire_at |-> exp2.v])]
  BY DEF LoadEntry
<1>9. type.ok /\ (known => obj.ok)
  <2> HIDE DEF obj, name, known
  <2>1. CASE known
    <3>1. obj.ok
      BY <1>6, <1>7, <2>1
    <3> QED
      BY <1>6, <2>1, <3>1 DEF Onward
  <2>2. CASE ~ known
    BY <1>4, <1>7, <2>2
  <2> QED
    BY <2>1, <2>2
<1>10. key.ok /\ exp.ok
  BY <1>3, <1>4, <1>9 DEF Onward
<1>11. key2 = key
  BY <1>10, ReadStringCut DEF key
<1>12. exp2 = exp
  BY <1>2, <1>10, <1>11, ReadExpireCut DEF exp
<1>13. type2 = type
  BY <1>3, <1>9, <1>12, ReadU8Cut DEF type
<1>14. known => LoadObject(F, type, name) = obj
  <2> HIDE DEF name, known
  <2> QED
    BY <1>4, <1>5, <1>9, LoadObjectCut
<1>15. name2 = name /\ (known => obj2 = obj)
  BY <1>13, <1>14
<1> HIDE DEF obj, name, obj2, name2, key2, exp2, type2
<1> QED
  BY <1>7, <1>8, <1>11, <1>12, <1>13, <1>15

-----------------------------------------------------------------------------
(* The beginning of a file.                                                *)

MagicOf(bytes) == ReadBytes(bytes, [at |-> 0, ok |-> TRUE, v |-> << >>], Len(Magic))

MarkerOf(bytes) == ReadU8(bytes, ReadU8(bytes, MagicOf(bytes)))

\* Where the loop of Load starts.
StartOf(bytes) ==
    LET marker == MarkerOf(bytes)
    IN  IF marker.v = SelectDb THEN ReadWide(bytes, marker)
        ELSE [marker EXCEPT !.at = IF marker.ok THEN @ - 1 ELSE @]

FromOf(bytes) == [StartOf(bytes) EXCEPT !.v = << >>]

LEMMA LoadIs ==
    ASSUME NEW bytes
    PROVE  Load(bytes) = IF MagicOf(bytes).v # Magic THEN << >> ELSE LoadKeys(bytes, FromOf(bytes)).v
BY DEF Load, MagicOf, MarkerOf, StartOf, FromOf

LEMMA MagicIs ==
    ASSUME NEW bytes \in Seq(Byte)
    PROVE  /\ Stream(bytes, MagicOf(bytes))
           /\ MagicOf(bytes).ok <=> 2 <= Len(bytes)
           /\ MagicOf(bytes).ok => /\ MagicOf(bytes).at = 2
                                   /\ bytes[1] = 1 /\ bytes[2] = 2 => MagicOf(bytes).v = Magic
<1> DEFINE s == [at |-> 0, ok |-> TRUE, v |-> << >>]
           r == MagicOf(bytes)
<1>1. Len(Magic) = 2 /\ Len(bytes) \in Nat
  BY DEF Magic
<1>2. s.at = 0 /\ s.ok = TRUE /\ Stream(bytes, s)
  BY <1>1 DEF Stream
<1>3. r = ReadBytes(bytes, s, 2)
  BY <1>1 DEF MagicOf
<1> HIDE DEF s, r
<1>4. BytesRead(bytes, s, 2, r)
  BY <1>2, <1>3, ReadBytesType
<1>5. /\ Stream(bytes, r) /\ (r.ok <=> 2 <= Len(bytes)) /\ r.v \in Seq(Byte) /\ Len(r.v) = 2
      /\ r.ok => r.at = 2 /\ \A i \in 1 .. 2 : r.v[i] = bytes[i]
  BY <1>1, <1>2, <1>4 DEF BytesRead, Onward
<1>6. ASSUME r.ok, bytes[1] = 1, bytes[2] = 2 PROVE r.v = Magic
  <2> DEFINE w == r.v
  <2>1. w \in Seq(Byte) /\ Len(w) = 2 /\ w[1] = 1 /\ w[2] = 2
    BY <1>5, <1>6
  <2> HIDE DEF w
  <2>2. w = <<1, 2>>
    BY <2>1
  <2> QED
    BY <2>2 DEF w, Magic
<1> QED
  BY <1>5, <1>6 DEF r

LEMMA MarkerIs ==
    ASSUME NEW bytes \in Seq(Byte)
    PROVE  LET marker == MarkerOf(bytes)
           IN  /\ marker = [at |-> marker.at, ok |-> marker.ok, v |-> marker.v] /\ Stream(bytes, marker)
               /\ marker.ok <=> 4 <= Len(bytes)
               /\ marker.ok => marker.at = 4 /\ marker.v = bytes[4]
<1> DEFINE magic == MagicOf(bytes)
           version == ReadU8(bytes, magic)
           marker == ReadU8(bytes, version)
<1>1. Stream(bytes, magic) /\ (magic.ok <=> 2 <= Len(bytes)) /\ (magic.ok => magic.at = 2) /\ Len(bytes) \in Nat
  BY MagicIs
<1> HIDE DEF magic
<1>2. /\ Onward(bytes, magic, version) /\ (version.ok <=> magic.ok /\ magic.at + 1 <= Len(bytes))
      /\ version.ok => version.at = magic.at + 1
  BY <1>1, ReadU8Type
<1>3. Stream(bytes, version) /\ (version.ok <=> 3 <= Len(bytes)) /\ (version.ok => version.at = 3)
  BY <1>1, <1>2 DEF Onward
<1> HIDE DEF version
<1>4. /\ marker = [at |-> marker.at, ok |-> marker.ok, v |-> marker.v]
      /\ Onward(bytes, version, marker) /\ (marker.ok <=> version.ok /\ version.at + 1 <= Len(bytes))
      /\ marker.ok => marker.at = version.at + 1 /\ marker.v = bytes[version.at + 1]
  BY <1>3, ReadU8Type
<1> HIDE DEF marker
<1>5. Stream(bytes, marker) /\ (marker.ok <=> 4 <= Len(bytes)) /\ (marker.ok => marker.at = 4 /\ marker.v = bytes[4])
  BY <1>1, <1>3, <1>4 DEF Onward
<1>6. MarkerOf(bytes) = marker
  BY DEF MarkerOf, magic, version, marker
<1> QED
  BY <1>4, <1>5, <1>6

LEMMA StartIs ==
    ASSUME NEW bytes \in Seq(Byte)
    PROVE  /\ Loading(bytes, FromOf(bytes)) /\ FromOf(bytes).v = NoKeys
           /\ Len(bytes) >= 6 /\ bytes[4] = SelectDb => FromOf(bytes).at = 6 /\ FromOf(bytes).ok
           /\ FromOf(bytes).ok => Len(bytes) >= 4 /\ (bytes[4] = SelectDb => Len(bytes) >= 6)
<1> DEFINE marker == MarkerOf(bytes)
           r == ReadWide(bytes, marker)
           s == StartOf(bytes)
           f == FromOf(bytes)
<1>1. /\ marker = [at |-> marker.at, ok |-> marker.ok, v |-> marker.v] /\ Stream(bytes, marker)
      /\ marker.ok <=> 4 <= Len(bytes)
      /\ marker.ok => marker.at = 4 /\ marker.v = bytes[4]
  BY MarkerIs
<1>2. s = IF marker.v = SelectDb THEN r ELSE [marker EXCEPT !.at = IF marker.ok THEN @ - 1 ELSE @]
  BY DEF StartOf
<1> HIDE DEF marker, s
<1>3. /\ r = [at |-> r.at, ok |-> r.ok, v |-> r.v]
      /\ Onward(bytes, marker, r) /\ (r.ok <=> marker.ok /\ marker.at + 2 <= Len(bytes))
      /\ r.ok => r.at = marker.at + 2
  BY <1>1, ReadWideType
<1> HIDE DEF r
<1>4. Len(bytes) \in Nat
  OBVIOUS
<1>5. /\ s = [at |-> s.at, ok |-> s.ok, v |-> s.v] /\ Stream(bytes, s)
      /\ Len(bytes) >= 6 /\ bytes[4] = SelectDb => s.at = 6 /\ s.ok
      /\ s.ok => Len(bytes) >= 4 /\ (bytes[4] = SelectDb => Len(bytes) >= 6)
  <2>1. CASE marker.v = SelectDb
    <3>1. s = r
      BY <1>2, <2>1
    <3>2. Len(bytes) >= 6 => marker.ok /\ marker.at + 2 <= Len(bytes) /\ r.ok /\ r.at = 6
      BY <1>1, <1>3, <1>4
    <3>3. r.ok => Len(bytes) >= 4 /\ Len(bytes) >= 6
      BY <1>1, <1>3, <1>4
    <3> QED
      BY <1>3, <3>1, <3>2, <3>3 DEF Onward
  <2>2. CASE marker.v # SelectDb
    <3>1. s = [at |-> IF marker.ok THEN marker.at - 1 ELSE marker.at, ok |-> marker.ok, v |-> marker.v]
      BY <1>1, <1>2, <2>2
    <3>2. Stream(bytes, s)
      BY <1>1, <1>4, <3>1 DEF Stream
    <3>3. s.ok => Len(bytes) >= 4 /\ bytes[4] # SelectDb
      BY <1>1, <1>4, <2>2, <3>1
    <3>4. Len(bytes) >= 6 => bytes[4] # SelectDb
      BY <1>1, <1>4, <2>2
    <3> QED
      BY <3>1, <3>2, <3>3, <3>4
  <2> QED
    BY <2>1, <2>2
<1>6. f = [at |-> s.at, ok |-> s.ok, v |-> NoKeys]
  BY <1>5 DEF FromOf, NoKeys, s
<1> HIDE DEF f
<1>7. f.at = s.at /\ f.ok = s.ok /\ f.v = NoKeys /\ f = [at |-> f.at, ok |-> f.ok, v |-> f.v]
  BY <1>6
<1>8. Loading(bytes, f)
  BY <1>5, <1>7, NoKeysType DEF Loading, Stream
<1> QED
  BY <1>5, <1>7, <1>8 DEF f

\* What is loaded of any file is a keyspace.
LEMMA LoadType ==
    ASSUME NEW bytes \in Seq(Byte)
    PROVE  IsKeyspace(Load(bytes))
<1> DEFINE read == KeysRead(bytes, FromOf(bytes))
<1>1. Loading(bytes, read[Len(bytes)])
  <2>1. Len(bytes) \in 0 .. Len(bytes)
    OBVIOUS
  <2>2. Loading(bytes, FromOf(bytes))
    BY StartIs
  <2> QED
    BY <2>1, <2>2, KeysReadIs
<1>2. IsKeyspace(read[Len(bytes)].v)
  BY <1>1 DEF Loading
<1>3. Load(bytes) = NoKeys \/ Load(bytes) = read[Len(bytes)].v
  BY LoadIs DEF LoadKeys, NoKeys
<1> QED
  BY <1>2, <1>3, NoKeysType

\* When the loop has stopped it stays where it is.
LEMMA Settled ==
    ASSUME NEW bytes \in Seq(Byte), NEW from, Loading(bytes, from), NEW i \in 0 .. Len(bytes),
           Stopped(bytes, KeysRead(bytes, from)[i])
    PROVE  LoadKeys(bytes, from) = KeysRead(bytes, from)[i]
<1> DEFINE n == Len(bytes)
           read == KeysRead(bytes, from)
<1>1. (\A j \in 1 .. n : read[j] = NextKey(bytes, read[j - 1])) /\ \A j \in 0 .. n : Loading(bytes, read[j])
  BY KeysReadIs
<1>2. n \in Nat /\ i \in Nat /\ i <= n
  OBVIOUS
<1>3. Stopped(bytes, read[i]) /\ LoadKeys(bytes, from) = read[n]
  BY DEF LoadKeys
<1> HIDE DEF read, n
<1> DEFINE U == {j \in 0 .. n - i : read[i + j] = read[i]}
<1>4. 0 \in U
  BY <1>2
<1>5. ASSUME NEW j \in 1 .. n - i, j - 1 \in U PROVE j \in U
  <2>1. i + j \in 1 .. n /\ (i + j) - 1 = i + (j - 1) /\ j \in 0 .. n - i /\ (i + j) - 1 \in 0 .. n
    BY <1>2
  <2>2. read[i + (j - 1)] = read[i]
    BY <1>5
  <2>3. read[i + j] = NextKey(bytes, read[i])
    BY <1>1, <2>1, <2>2
  <2>4. Loading(bytes, read[i])
    BY <1>1, <1>2
  <2>5. NextKey(bytes, read[i]) = read[i]
    BY <1>3, <2>4, NextKeyType
  <2> QED
    BY <2>1, <2>3, <2>5
<1>6. n - i \in U
  <2>1. n - i \in Nat /\ n - i \in 0 .. n - i
    BY <1>2
  <2> HIDE DEF U
  <2> QED
    BY <1>4, <1>5, <2>1, Climb
<1>7. i + (n - i) = n
  BY <1>2
<1> QED
  BY <1>3, <1>6, <1>7 DEF read, n

-----------------------------------------------------------------------------
(* What is loaded of a file that was written, and cut off.                 *)

LEMMA EndsGrow ==
    ASSUME NEW F, NEW d, NEW keys, NEW e, SavedAs(F, d, keys, e), NEW m \in 0 .. Len(keys)
    PROVE  /\ Len(keys) \in Nat /\ e[m] \in Nat /\ m + 6 <= e[m] /\ e[0] = 6
           /\ \A i \in 0 .. m : e[i] \in Nat /\ e[i] <= e[m]
<1> DEFINE n == Len(keys)
<1>1. n \in Nat /\ m \in Nat /\ \A i \in 1 .. n : keys[i] \in DOMAIN d
  <2>1. keys \in Seq(DOMAIN d)
    BY DEF SavedAs, Enumerates
  <2> QED
    BY <2>1
<1>2. \A i \in 0 .. n : e[i] \in Nat
  BY DEF SavedAs
<1>3. e[0] = 6
  BY HeaderIs DEF SavedAs
<1>4. ASSUME NEW i \in 1 .. n PROVE e[i - 1] + 1 <= e[i]
  <2> DEFINE l == Len(SaveEntry(d, keys[i]))
  <2>1. l \in Nat /\ l > 0 /\ e[i] = e[i - 1] + l
    BY <1>1, SaveEntryIs DEF SavedAs
  <2>2. i - 1 \in 0 .. n
    BY <1>1
  <2> HIDE DEF l
  <2> QED
    BY <1>2, <2>1, <2>2
<1> HIDE DEF n
<1> DEFINE U == {j \in 0 .. m : j + 6 <= e[j] /\ \A i \in 0 .. j : e[i] <= e[j]}
<1>5. 0 \in U
  BY <1>1, <1>3
<1>6. ASSUME NEW j \in 1 .. m, j - 1 \in U PROVE j \in U
  <2>1. j \in 1 .. n /\ j \in 0 .. m /\ j \in 0 .. n /\ j - 1 \in 0 .. n /\ \A i \in 0 .. j : i \in 0 .. n
    BY <1>1 DEF n
  <2>2. e[j - 1] + 1 <= e[j] /\ e[j] \in Nat /\ e[j - 1] \in Nat /\ (j - 1) + 6 <= e[j - 1]
    BY <1>2, <1>4, <1>6, <2>1
  <2>3. j + 6 <= e[j]
    BY <2>1, <2>2
  <2>4. ASSUME NEW i \in 0 .. j PROVE e[i] <= e[j]
    <3>1. e[i] \in Nat
      BY <1>2, <2>1
    <3>2. CASE i = j
      BY <2>2, <3>2
    <3>3. CASE i # j
      <4>1. i \in 0 .. j - 1
        BY <2>1, <3>3
      <4>2. e[i] <= e[j - 1]
        BY <1>6, <4>1
      <4> QED
        BY <2>2, <3>1, <4>2
    <3> QED
      BY <3>2, <3>3
  <2> QED
    BY <2>1, <2>3, <2>4
<1>7. m \in U
  <2>1. m \in 0 .. m
    BY <1>1
  <2> HIDE DEF U
  <2> QED
    BY <1>1, <1>5, <1>6, <2>1, Climb
<1>8. m \in 0 .. n /\ \A i \in 0 .. m : i \in 0 .. n
  BY <1>1 DEF n
<1> QED
  BY <1>1, <1>2, <1>3, <1>7, <1>8 DEF n

\* The part of F that is still there.
LEMMA PartCut ==
    ASSUME NEW T, NEW F, CutOff(T, F), NEW p \in Nat, NEW w \in Seq(Byte), Part(F, p, w), p + Len(w) <= Len(T)
    PROVE  Part(T, p, w)
<1>1. Len(T) \in Nat /\ \A i \in 1 .. Len(T) : F[i] = T[i]
  BY CutOffIs
<1>2. ASSUME NEW i \in 1 .. Len(w) PROVE T[p + i] = w[i]
  <2>1. p + i \in 1 .. Len(T)
    BY <1>1
  <2> QED
    BY <1>1, <2>1 DEF Part
<1> QED
  BY <1>2 DEF Part

\* The keys of which nothing is missing are loaded, one after the other.
LEMMA LoadedSoFar ==
    ASSUME NEW T, NEW F, CutOff(T, F), NEW d, NEW keys, NEW e, SavedAs(F, d, keys, e), NEW n, SeenOf(keys, n),
           NEW m \in 0 .. n, e[m] <= Len(T)
    PROVE  /\ m \in 0 .. Len(T)
           /\ Got(KeysRead(T, FromOf(T))[m], e[m], First(d, keys, m))
<1> DEFINE read == KeysRead(T, FromOf(T))
           l == Len(keys)
           K(i) == First(d, keys, i)
<1>1. T \in Seq(Byte) /\ F \in Seq(Byte) /\ Len(T) \in Nat /\ Len(F) \in Nat /\ Len(T) <= Len(F)
      /\ \A i \in 1 .. Len(T) : F[i] = T[i]
  BY CutOffIs
<1>2. l \in Nat /\ n \in 0 .. l /\ m \in 0 .. l /\ m \in Nat
  <2>1. n \in 0 .. l
    BY DEF SeenOf
  <2>2. 0 \in 0 .. l
    BY <2>1
  <2>3. l \in Nat
    BY <2>2, EndsGrow
  <2> QED
    BY <2>1, <2>3
<1>3. e[0] = 6 /\ m + 6 <= e[m] /\ e[m] \in Nat /\ \A i \in 0 .. m : e[i] \in Nat /\ e[i] <= e[m]
  BY <1>2, EndsGrow
<1>4. m \in 0 .. Len(T) /\ Len(T) >= 6
  BY <1>1, <1>2, <1>3
<1>5. T[4] = SelectDb
  <2>1. F[4] = SelectDb
    <3>1. Part(F, 0, Header)
      BY DEF SavedAs
    <3>2. F[0 + 4] = Header[4]
      <4>1. 4 \in 1 .. Len(Header)
        BY HeaderIs
      <4> QED
        BY <3>1, <4>1 DEF Part
    <3> QED
      BY <3>2, HeaderIs
  <2>2. 4 \in 1 .. Len(T)
    BY <1>1, <1>4
  <2> QED
    BY <1>1, <2>1, <2>2
<1>6. Loading(T, FromOf(T)) /\ FromOf(T).at = 6 /\ FromOf(T).ok /\ FromOf(T).v = NoKeys
  BY <1>1, <1>4, <1>5, StartIs
<1>7. /\ read[0] = FromOf(T)
      /\ \A i \in 1 .. Len(T) : read[i] = NextKey(T, read[i - 1])
      /\ \A i \in 0 .. Len(T) : Loading(T, read[i])
  BY <1>1, <1>6, KeysReadIs
<1> HIDE DEF read, l, K
<1> DEFINE U == {j \in 0 .. m : Got(read[j], e[j], K(j))}
<1>8. 0 \in U
  <2>1. K(0) = NoKeys
    <3>1. 1 .. 0 = {}
      OBVIOUS
    <3>2. {keys[i] : i \in 1 .. 0} = {}
      BY <3>1
    <3>3. K(0) = [k \in {} |-> Rounded(d[k])]
      BY <3>2 DEF K, First
    <3>4. NoKeys = [k \in {} |-> Rounded(d[k])]
      BY DEF NoKeys
    <3> QED
      BY <3>3, <3>4
  <2> DEFINE f == FromOf(T)
  <2>2. f = [at |-> f.at, ok |-> f.ok, v |-> f.v] /\ f.ok \in BOOLEAN
    BY <1>6 DEF Loading, Stream
  <2>3. f.at = 6 /\ f.ok /\ f.v = NoKeys /\ read[0] = f
    BY <1>6, <1>7
  <2> HIDE DEF f
  <2>4. read[0] = [at |-> 6, ok |-> TRUE, v |-> NoKeys]
    BY <2>2, <2>3
  <2>5. Got(read[0], e[0], K(0))
    BY <1>3, <2>1, <2>4 DEF Got
  <2>6. 0 \in 0 .. m
    BY <1>2
  <2> QED
    BY <2>5, <2>6
<1>9. ASSUME NEW j \in 1 .. m, j - 1 \in U PROVE j \in U
  <2> DEFINE b == read[j - 1]
             k == keys[j]
             w == SaveEntry(d, k)
  <2>1. /\ j \in 1 .. Len(T) /\ j \in 0 .. m /\ j - 1 \in 0 .. m /\ j - 1 \in 0 .. Len(T) /\ j \in 1 .. l /\ j \in 1 .. n
        /\ j - 1 \in Nat /\ (j - 1) + 1 = j
    BY <1>1, <1>2, <1>4
  <2>2. k \in DOMAIN d /\ IsKeyspace(d)
    <3>1. keys \in Seq(DOMAIN d) /\ IsKeyspace(d)
      BY DEF SavedAs, Enumerates
    <3> QED
      BY <2>1, <3>1 DEF l
  <2>3. Part(F, e[j - 1], w) /\ e[j] = e[j - 1] + Len(w) /\ e[j - 1] \in Nat /\ e[j] \in Nat /\ e[j] <= Len(T)
    <3>1. Part(F, e[j - 1], w) /\ e[j] = e[j - 1] + Len(w)
      BY <2>1 DEF SavedAs, l
    <3>2. e[j] <= e[m] /\ e[j] \in Nat /\ e[j - 1] \in Nat
      BY <1>3, <2>1
    <3> QED
      BY <1>1, <1>3, <3>1, <3>2
  <2>4. w \in Seq(Byte) /\ Len(w) \in Nat /\ Len(w) > 0 /\ w[1] = Len(k) % Base
    BY <2>2, SaveEntryIs
  <2>5. w[1] # Eof
    <3>1. ~ LooksLikeEof(k)
      BY <2>1 DEF SeenOf
    <3> QED
      BY <2>4, <3>1 DEF LooksLikeEof
  <2> HIDE DEF w, k
  <2>6. Part(T, e[j - 1], w)
    BY <2>3, <2>4, PartCut
  <2>7. b = [at |-> e[j - 1], ok |-> TRUE, v |-> K(j - 1)]
    BY <1>9 DEF Got
  <2>8. b.at = e[j - 1] /\ b.ok = TRUE /\ b.v = K(j - 1) /\ Loading(T, b)
    BY <1>7, <2>1, <2>7
  <2> HIDE DEF b
  <2>9. ~ Stopped(T, b)
    <3>1. 1 \in 1 .. Len(w)
      BY <2>4
    <3>2. T[e[j - 1] + 1] = w[1]
      BY <2>6, <3>1 DEF Part
    <3>3. e[j - 1] # Len(T)
      BY <1>1, <2>3, <2>4
    <3> QED
      BY <2>5, <2>8, <3>2, <3>3 DEF Stopped
  <2>10. read[j] = LoadEntry(T, b)
    <3>1. read[j] = NextKey(T, b)
      BY <1>7, <2>1 DEF b
    <3> QED
      BY <1>1, <2>8, <2>9, <3>1, NextKeyType
  <2>11. Got(LoadEntry(T, b), b.at + Len(w), Put(b.v, k, Rounded(d[k])))
    <3>1. Part(T, b.at, SaveEntry(d, k)) /\ b.ok
      BY <2>6, <2>8 DEF w
    <3> QED
      BY <1>1, <2>2, <2>8, <3>1, LoadEntryBack DEF w
  <2>12. K(j) = Put(K(j - 1), k, Rounded(d[k]))
    BY <2>1, FirstGrows DEF K, k
  <2>13. b.at + Len(w) = e[j]
    BY <2>3, <2>8
  <2>14. Got(read[j], e[j], K(j))
    BY <2>8, <2>10, <2>11, <2>12, <2>13
  <2> QED
    BY <2>1, <2>14
<1>10. m \in U
  <2>1. m \in 0 .. m
    BY <1>2
  <2> HIDE DEF U
  <2> QED
    BY <1>2, <1>8, <1>9, <2>1, Climb
<1> QED
  BY <1>4, <1>10 DEF read, K

\* What is loaded of a file: the first m keys, and perhaps something under one other
\* key, which is the next one or not plain.
LoadedAs(T, d, keys, e, n, m) ==
    /\ m \in 0 .. n /\ e[m] <= Len(T) /\ (m < n => Len(T) < e[m + 1])
    /\ \/ Load(T) = First(d, keys, m)
       \/ m < n /\ \E k : (k = keys[m + 1] \/ ~ Plain(k)) /\ Remains(First(d, keys, m), k, Load(T))

LEMMA LoadedIs ==
    ASSUME NEW T, NEW F, CutOff(T, F), NEW d, NEW keys, NEW e, SavedAs(F, d, keys, e), NEW n, SeenOf(keys, n),
           Len(T) >= 6
    PROVE  \E m : LoadedAs(T, d, keys, e, n, m)
<1> DEFINE from == FromOf(T)
           read == KeysRead(T, from)
           l == Len(keys)
           M == {i \in 0 .. n : e[i] <= Len(T)}
           m == Max(M)
           s == read[m]
           r == read[m + 1]
           K == First(d, keys, m)
<1>1. T \in Seq(Byte) /\ F \in Seq(Byte) /\ Len(T) \in Nat /\ Len(F) \in Nat /\ Len(T) <= Len(F)
      /\ \A i \in 1 .. Len(T) : F[i] = T[i]
  BY CutOffIs
<1>2. l \in Nat /\ n \in 0 .. l /\ n \in Nat /\ e[0] = 6
  <2>1. n \in 0 .. l
    BY DEF SeenOf
  <2>2. 0 \in 0 .. l
    BY <2>1
  <2>3. l \in Nat /\ e[0] = 6
    BY <2>2, EndsGrow
  <2> QED
    BY <2>1, <2>3
<1>3. m \in 0 .. n /\ e[m] <= Len(T) /\ \A i \in M : i <= m
  <2>1. M \in SUBSET (0 .. n)
    OBVIOUS
  <2>2. 0 \in M
    BY <1>1, <1>2
  <2>3. m \in M /\ \A i \in M : i <= m
    <3> HIDE DEF M
    <3> QED
      BY <1>2, <2>1, <2>2, MaxOf
  <2> QED
    BY <2>3
<1> HIDE DEF m
<1>4. m \in 0 .. l /\ m \in Nat
  BY <1>2, <1>3
<1>5. m + 6 <= e[m] /\ e[m] \in Nat
  BY <1>4, EndsGrow
<1>6. ASSUME m < n
      PROVE  /\ m + 1 \in 0 .. n /\ m + 1 \in 0 .. l /\ m + 1 \in 1 .. l /\ (m + 1) - 1 = m /\ e[m + 1] \in Nat
             /\ Len(T) < e[m + 1]
  <2>1. m + 1 \in 0 .. n /\ m + 1 \in 0 .. l /\ m + 1 \in 1 .. l /\ (m + 1) - 1 = m /\ ~ (m + 1 <= m)
    BY <1>2, <1>3, <1>6
  <2>2. e[m + 1] \in Nat
    BY <2>1, EndsGrow
  <2>3. ~ (e[m + 1] <= Len(T))
    BY <1>3, <2>1
  <2> QED
    BY <1>1, <2>1, <2>2, <2>3
<1> HIDE DEF M
<1>7. m \in 0 .. Len(T) /\ Got(s, e[m], K)
  BY <1>3, LoadedSoFar
<1>8. Part(F, 0, Header) /\ keys \in Seq(DOMAIN d) /\ IsKeyspace(d)
  BY DEF SavedAs, Enumerates
<1>9. \A i \in 1 .. 6 : T[i] = Header[i]
  <2> SUFFICES ASSUME NEW i \in 1 .. 6 PROVE T[i] = Header[i]
    OBVIOUS
  <2>1. F[0 + i] = Header[i]
    BY <1>8, HeaderIs DEF Part
  <2> QED
    BY <1>1, <2>1
<1>10. T[1] = 1 /\ T[2] = 2 /\ T[4] = SelectDb
  BY <1>9, HeaderIs
<1>11. Loading(T, from)
  BY <1>1, StartIs
<1>12. Load(T) = LoadKeys(T, from).v
  <2>1. MagicOf(T).v = Magic
    BY <1>1, <1>10, MagicIs
  <2> QED
    BY <2>1, LoadIs
<1> HIDE DEF from
<1>13. /\ \A i \in 1 .. Len(T) : read[i] = NextKey(T, read[i - 1])
       /\ \A i \in 0 .. Len(T) : Loading(T, read[i])
  BY <1>1, <1>11, KeysReadIs
<1>14. Loading(T, s) /\ s.at = e[m] /\ s.ok = TRUE /\ s.v = K
  BY <1>7, <1>13 DEF Got
<1>15. CASE Stopped(T, s)
  <2>1. LoadKeys(T, from) = s
    BY <1>1, <1>7, <1>11, <1>15, Settled
  <2>2. Load(T) = K
    BY <1>12, <1>14, <2>1
  <2> QED
    BY <1>3, <1>6, <2>2 DEF LoadedAs
<1>16. CASE ~ Stopped(T, s)
  <2>1. e[m] # Len(T) /\ T[e[m] + 1] # Eof
    BY <1>14, <1>16 DEF Stopped
  <2>2. e[m] + 1 \in 1 .. Len(T) /\ m + 1 \in 1 .. Len(T) /\ m + 1 \in 0 .. Len(T) /\ (m + 1) - 1 = m
    BY <1>1, <1>3, <1>4, <1>5, <2>1
  <2>3. F[e[m] + 1] # Eof
    BY <1>1, <2>1, <2>2
  <2>4. m < n
    <3> SUFFICES ASSUME m = n PROVE FALSE
      BY <1>2, <1>3
    <3>1. CASE n = l
      BY <2>3, <3>1 DEF SavedAs
    <3>2. CASE n < l
      <4> DEFINE k == keys[n + 1]
                 w == SaveEntry(d, k)
      <4>1. LooksLikeEof(k)
        BY <3>2 DEF SeenOf
      <4>2. n + 1 \in 1 .. l /\ (n + 1) - 1 = n
        BY <1>2, <3>2
      <4>3. k \in DOMAIN d
        BY <1>8, <4>2
      <4>4. Part(F, e[n], w)
        BY <4>2 DEF SavedAs
      <4>5. Len(w) \in Nat /\ Len(w) > 0 /\ w[1] = Len(k) % Base
        BY <1>8, <4>3, SaveEntryIs
      <4> HIDE DEF w, k
      <4>6. 1 \in 1 .. Len(w)
        BY <4>5
      <4>7. F[e[n] + 1] = w[1]
        BY <4>4, <4>6 DEF Part
      <4> QED
        BY <2>3, <4>1, <4>5, <4>7 DEF LooksLikeEof
    <3> QED
      BY <1>2, <3>1, <3>2
  <2> DEFINE k == ReadString(T, s).v
             x == keys[m + 1]
             w == SaveEntry(d, x)
  <2>5. Loading(T, r) /\ r = NextKey(T, s)
    BY <1>13, <2>2
  <2>6. r = LoadEntry(T, s)
    BY <1>1, <1>14, <1>16, <2>5, NextKeyType
  <2>7. Onward(T, s, r) /\ Remains(K, k, r.v)
    <3> HIDE DEF r, s
    <3> QED
      BY <1>1, <1>14, <2>6, LoadEntryType
  <2>8. Loading(F, s) /\ Stream(T, s) /\ s.ok
    <3>1. Stream(T, s) /\ IsKeyspace(s.v) /\ s = [at |-> s.at, ok |-> s.ok, v |-> s.v]
      BY <1>14 DEF Loading
    <3>2. Stream(F, s)
      BY <3>1, CutOffIs
    <3> QED
      BY <1>14, <3>1, <3>2 DEF Loading
  <2>9. x \in DOMAIN d /\ Part(F, s.at, w) /\ e[m + 1] = s.at + Len(w)
    <3>1. m + 1 \in 1 .. l /\ (m + 1) - 1 = m
      BY <1>6, <2>4
    <3>2. x \in DOMAIN d
      BY <1>8, <3>1
    <3>3. Part(F, e[m], w) /\ e[m + 1] = e[m] + Len(w)
      BY <3>1 DEF SavedAs
    <3> QED
      BY <1>14, <3>2, <3>3
  <2> HIDE DEF r, s
  <2>10. Got(LoadEntry(F, s), e[m + 1], Put(s.v, x, Rounded(d[x]))) /\ ReadString(F, s).v = x
    BY <1>1, <1>8, <2>8, <2>9, LoadEntryBack
  <2>11. ~ r.ok
    <3> SUFFICES ASSUME r.ok PROVE FALSE
      OBVIOUS
    <3>1. LoadEntry(F, s) = r
      BY <2>6, <2>8, LoadEntryCut
    <3>2. r.at = e[m + 1]
      BY <2>10, <3>1 DEF Got
    <3>3. r.at \in 0 .. Len(T)
      BY <2>7 DEF Onward, Stream
    <3> QED
      BY <1>1, <1>6, <2>4, <3>2, <3>3
  <2>12. k = x \/ ~ Plain(k)
    <3>1. CASE ReadString(T, s).ok
      BY <2>8, <2>10, <3>1, ReadStringCut
    <3>2. CASE ~ ReadString(T, s).ok
      BY <1>1, <2>8, <3>2, ReadStringType
    <3> QED
      BY <3>1, <3>2
  <2>13. LoadKeys(T, from) = r
    <3>1. Stopped(T, r)
      BY <2>11 DEF Stopped
    <3> QED
      BY <1>1, <1>11, <2>2, <3>1, Settled DEF r
  <2>14. Remains(K, k, Load(T))
    BY <1>12, <2>7, <2>13
  <2>15. Len(T) < e[m + 1]
    BY <1>6, <2>4
  <2> HIDE DEF k, K
  <2> QED
    BY <1>3, <2>4, <2>12, <2>14, <2>15 DEF LoadedAs, K
<1> QED
  BY <1>15, <1>16

\* Of less than the header nothing is loaded.
LEMMA NothingLoaded ==
    ASSUME NEW T, NEW F, CutOff(T, F), NEW d, NEW keys, NEW e, SavedAs(F, d, keys, e), Len(T) < 6
    PROVE  Load(T) = NoKeys
<1> DEFINE from == FromOf(T)
           read == KeysRead(T, from)
<1>1. T \in Seq(Byte) /\ Len(T) \in Nat /\ \A i \in 1 .. Len(T) : F[i] = T[i]
  BY CutOffIs
<1>2. Loading(T, from) /\ from.v = NoKeys /\ (from.ok => Len(T) >= 4 /\ (T[4] = SelectDb => Len(T) >= 6))
  BY <1>1, StartIs
<1>3. ~ from.ok
  <2> SUFFICES ASSUME from.ok PROVE FALSE
    OBVIOUS
  <2>1. 4 \in 1 .. Len(T) /\ T[4] # SelectDb
    BY <1>1, <1>2
  <2>2. F[0 + 4] = Header[4]
    <3>1. 4 \in 1 .. Len(Header)
      BY HeaderIs
    <3> QED
      BY <3>1 DEF SavedAs, Part
  <2> QED
    BY <1>1, <2>1, <2>2, HeaderIs
<1> HIDE DEF from
<1>4. read[0] = from
  BY <1>1, <1>2, KeysReadIs
<1>5. LoadKeys(T, from) = from
  <2>1. Stopped(T, read[0]) /\ 0 \in 0 .. Len(T)
    BY <1>1, <1>3, <1>4 DEF Stopped
  <2> QED
    BY <1>1, <1>2, <1>4, <2>1, Settled
<1> QED
  BY <1>2, <1>5, LoadIs DEF from, NoKeys

-----------------------------------------------------------------------------
(* The specification.                                                      *)

\* The file is what was written of the keyspace that was saved.
SnapshotInv ==
    /\ TypeOK
    /\ saved # << >> =>
         IsKeyspace(saved) /\ Enumerates(order, DOMAIN saved) /\ CutOff(file, Save(saved, order))

LEMMA SaveType ==
    ASSUME NEW d, IsKeyspace(d), NEW keys, keys \in SetToSeqs(DOMAIN d), NEW n \in 0 .. Len(Save(d, keys))
    PROVE  /\ Enumerates(keys, DOMAIN d)
           /\ CutOff(SubSeq(Save(d, keys), 1, n), Save(d, keys)) /\ CutOff(Save(d, keys), Save(d, keys))
<1> DEFINE F == Save(d, keys)
           T == SubSeq(F, 1, n)
<1>1. Enumerates(keys, DOMAIN d)
  BY Orders DEF IsKeyspace
<1>2. F \in Seq(Byte) /\ Len(F) \in Nat /\ n \in 0 .. Len(F)
  <2>1. PICK e : SavedAs(F, d, keys, e)
    BY <1>1, SaveIs
  <2>2. F \in Seq(Byte)
    BY <2>1 DEF SavedAs
  <2> QED
    BY <2>2
<1> HIDE DEF F
<1>3. T \in Seq(Byte) /\ Len(T) = n /\ \A i \in 1 .. n : T[i] = F[i]
  BY <1>2
<1> HIDE DEF T
<1>4. CutOff(T, F) /\ CutOff(F, F)
  BY <1>2, <1>3 DEF CutOff, Begins
<1> QED
  BY <1>1, <1>4 DEF T, F

LEMMA SnapshotInit == Init => SnapshotInv
BY DatabasesAssumption DEF Init, SnapshotInv, TypeOK

LEMMA SnapshotStep == SnapshotInv /\ [Next]_vars => SnapshotInv'
<1> SUFFICES ASSUME SnapshotInv, [Next]_vars PROVE SnapshotInv'
  OBVIOUS
<1>1. file \in Seq(Byte) /\ IsKeyspace(db)
  BY DEF SnapshotInv, TypeOK
<1>2. CASE Serve
  BY <1>1, <1>2, DatabasesAssumption DEF SnapshotInv, TypeOK, Serve
<1>3. CASE Stop
  <2>1. CASE DOMAIN db = {}
    BY <1>1, <1>3, <2>1 DEF SnapshotInv, TypeOK, Stop
  <2>2. CASE DOMAIN db # {}
    <3>1. order' \in SetToSeqs(DOMAIN db) /\ file' = Save(db, order') /\ saved' = db /\ db' = db
      BY <1>3, <2>2 DEF Stop
    <3>2. \A keys : keys \in SetToSeqs(DOMAIN db) => Enumerates(keys, DOMAIN db) /\ CutOff(Save(db, keys), Save(db, keys))
      <4> SUFFICES ASSUME NEW keys, keys \in SetToSeqs(DOMAIN db)
                   PROVE  Enumerates(keys, DOMAIN db) /\ CutOff(Save(db, keys), Save(db, keys))
        OBVIOUS
      <4>1. Enumerates(keys, DOMAIN db)
        BY <1>1, Orders DEF IsKeyspace
      <4>2. Save(db, keys) \in Seq(Byte)
        BY <1>1, <4>1, SaveIs DEF SavedAs
      <4>3. 0 \in 0 .. Len(Save(db, keys))
        BY <4>2
      <4> QED
        BY <1>1, <4>3, SaveType
    <3>3. Enumerates(order', DOMAIN db) /\ CutOff(file', Save(db, order'))
      BY <3>1, <3>2, Zenon
    <3>4. file' \in Seq(Byte)
      BY <3>3 DEF CutOff
    <3> QED
      BY <1>1, <3>1, <3>3, <3>4 DEF SnapshotInv, TypeOK
  <2> QED
    BY <2>1, <2>2
<1>4. CASE CrashInSave
  <2>1. /\ order' \in SetToSeqs(DOMAIN db) /\ saved' = db /\ db' = db
        /\ \E n \in 0 .. Len(Save(db, order')) - 1 : file' = SubSeq(Save(db, order'), 1, n)
    BY <1>4 DEF CrashInSave
  <2>2. \A keys : keys \in SetToSeqs(DOMAIN db) =>
           /\ Enumerates(keys, DOMAIN db)
           /\ \A n \in 0 .. Len(Save(db, keys)) - 1 : CutOff(SubSeq(Save(db, keys), 1, n), Save(db, keys))
    <3> SUFFICES ASSUME NEW keys, keys \in SetToSeqs(DOMAIN db)
                 PROVE  /\ Enumerates(keys, DOMAIN db)
                        /\ \A n \in 0 .. Len(Save(db, keys)) - 1 :
                              CutOff(SubSeq(Save(db, keys), 1, n), Save(db, keys))
      OBVIOUS
    <3>1. Enumerates(keys, DOMAIN db)
      BY <1>1, Orders DEF IsKeyspace
    <3>2. Save(db, keys) \in Seq(Byte)
      BY <1>1, <3>1, SaveIs DEF SavedAs
    <3>3. \A n \in 0 .. Len(Save(db, keys)) - 1 : n \in 0 .. Len(Save(db, keys))
      BY <3>2
    <3> QED
      BY <1>1, <3>1, <3>3, SaveType
  <2>3. Enumerates(order', DOMAIN db) /\ CutOff(file', Save(db, order'))
    BY <2>1, <2>2, Zenon
  <2>4. file' \in Seq(Byte)
    BY <2>3 DEF CutOff
  <2> QED
    BY <1>1, <2>1, <2>3, <2>4 DEF SnapshotInv, TypeOK
<1>5. CASE Start
  <2>1. db' = Load(file) /\ file' = file /\ saved' = saved /\ order' = order
    BY <1>5 DEF Start
  <2>2. IsKeyspace(Load(file))
    BY <1>1, LoadType
  <2> QED
    BY <1>1, <2>1, <2>2 DEF SnapshotInv, TypeOK
<1>6. CASE UNCHANGED vars
  BY <1>6 DEF SnapshotInv, TypeOK, vars
<1> QED
  BY <1>2, <1>3, <1>4, <1>5, <1>6 DEF Next

\* What Seen is.
LEMMA SeenIs ==
    ASSUME NEW S, order \in Seq(S)
    PROVE  SeenOf(order, Seen)
<1> DEFINE l == Len(order)
           N == {n \in 0 .. l : \A i \in 1 .. n : ~ LooksLikeEof(order[i])}
           m == Max(N)
<1>1. l \in Nat
  OBVIOUS
<1>2. m \in N /\ \A n \in N : n <= m
  <2>1. N \in SUBSET (0 .. l) /\ 0 \in N
    BY <1>1
  <2> HIDE DEF N, l
  <2> QED
    BY <1>1, <2>1, MaxOf
<1>3. Seen = m
  BY DEF Seen
<1> HIDE DEF m
<1>4. m \in 0 .. l /\ \A i \in 1 .. m : ~ LooksLikeEof(order[i])
  BY <1>2
<1>5. ASSUME m < l PROVE LooksLikeEof(order[m + 1])
  <2> SUFFICES ASSUME ~ LooksLikeEof(order[m + 1]) PROVE FALSE
    OBVIOUS
  <2>1. m + 1 \in 0 .. l /\ ~ (m + 1 <= m) /\ \A i \in 1 .. m + 1 : i \in 1 .. m \/ i = m + 1
    BY <1>1, <1>4, <1>5
  <2>2. m + 1 \in N
    BY <1>4, <2>1
  <2> QED
    BY <1>2, <2>1, <2>2
<1> QED
  BY <1>3, <1>4, <1>5 DEF SeenOf

\* The lengths of the file as far as each of its keys.
Ends == [i \in 0 .. Len(order) |-> Len(Entries(saved, order, i))]

LEMMA SavedSoFar ==
    ASSUME SnapshotInv, saved # << >>
    PROVE  /\ SavedAs(Save(saved, order), saved, order, Ends) /\ CutOff(file, Save(saved, order))
           /\ SeenOf(order, Seen)
           /\ Enumerates(order, DOMAIN saved) /\ Seen \in 0 .. Len(order) /\ Len(order) \in Nat
           /\ \A i \in 1 .. Seen : i \in 0 .. Len(order) /\ Ends[i] = Len(Entries(saved, order, i))
<1>1. IsKeyspace(saved) /\ Enumerates(order, DOMAIN saved) /\ CutOff(file, Save(saved, order))
  BY DEF SnapshotInv
<1>2. SavedAs(Save(saved, order), saved, order, Ends)
  BY <1>1, SaveIs DEF Ends
<1>3. order \in Seq(DOMAIN saved)
  BY <1>1 DEF Enumerates
<1>4. SeenOf(order, Seen)
  BY <1>3, SeenIs
<1>5. Seen \in 0 .. Len(order) /\ Len(order) \in Nat
  BY <1>3, <1>4 DEF SeenOf
<1>6. \A i \in 1 .. Seen : i \in 0 .. Len(order)
  BY <1>5
<1> QED
  BY <1>1, <1>2, <1>4, <1>5, <1>6 DEF Ends

\* A snapshot that was written to its end is read back as far as it can be seen.
LEMMA ReadsBack ==
    ASSUME SnapshotInv, Start, Whole
    PROVE  db' = [k \in {order[i] : i \in 1 .. Seen} |-> Rounded(saved[k])]
<1> DEFINE e == Ends
           n == Seen
           l == Len(order)
<1>1. file = Save(saved, order) /\ saved # << >> /\ db' = Load(file)
  BY DEF Whole, Start
<1>2. SavedAs(file, saved, order, e) /\ CutOff(file, file) /\ SeenOf(order, n) /\ n \in 0 .. l /\ l \in Nat
  BY <1>1, SavedSoFar
<1> HIDE DEF e, n, l
<1>3. /\ e[0] = 6 /\ e[l] \in Nat /\ (\A i \in 0 .. l : e[i] \in Nat /\ e[i] <= e[l])
      /\ e[l] + 1 <= Len(file) /\ Len(file) \in Nat
  <2>1. l \in 0 .. Len(order)
    BY <1>2 DEF l
  <2>2. e[l] \in Nat /\ e[0] = 6 /\ \A i \in 0 .. l : e[i] \in Nat /\ e[i] <= e[l]
    BY <1>2, <2>1, EndsGrow
  <2>3. e[l] + 1 <= Len(file)
    BY <1>2 DEF SavedAs, l
  <2> QED
    BY <1>2, <2>2, <2>3, CutOffIs
<1>4. Len(file) >= 6
  <2>1. 0 \in 0 .. l
    BY <1>2
  <2> QED
    BY <1>3, <2>1
<1>5. PICK m : LoadedAs(file, saved, order, e, n, m)
  BY <1>2, <1>4, LoadedIs
<1>6. ~ (m < n)
  <2> SUFFICES ASSUME m < n PROVE FALSE
    OBVIOUS
  <2>1. m + 1 \in 0 .. l
    BY <1>2, <1>5 DEF LoadedAs
  <2>2. Len(file) < e[m + 1]
    BY <1>5 DEF LoadedAs
  <2>3. e[m + 1] \in Nat /\ e[m + 1] <= e[l]
    BY <1>3, <2>1
  <2> QED
    BY <1>3, <2>2, <2>3
<1>7. m = n
  BY <1>2, <1>5, <1>6 DEF LoadedAs
<1>8. Load(file) = First(saved, order, n)
  BY <1>5, <1>6, <1>7 DEF LoadedAs
<1> QED
  BY <1>1, <1>8 DEF First, n

\* Of one that was cut off, what had been written is kept.
LEMMA Kept ==
    ASSUME SnapshotInv, Start, saved # << >>
    PROVE  LET kept == {i \in 1 .. Seen : Len(Entries(saved, order, i)) <= Len(file)}
           IN  /\ \A i \in kept : Plain(order[i]) =>
                      order[i] \in DOMAIN db' /\ db'[order[i]] = Rounded(saved[order[i]])
               /\ Cardinality(DOMAIN db') <= Cardinality(kept) + 1
<1> DEFINE F == Save(saved, order)
           e == Ends
           n == Seen
           l == Len(order)
           d == Load(file)
           kept == {i \in 1 .. Seen : Len(Entries(saved, order, i)) <= Len(file)}
<1>1. db' = d
  BY DEF Start
<1>2. /\ SavedAs(F, saved, order, e) /\ CutOff(file, F) /\ SeenOf(order, n)
      /\ Enumerates(order, DOMAIN saved) /\ n \in 0 .. l /\ l \in Nat
      /\ \A i \in 1 .. n : i \in 0 .. l /\ e[i] = Len(Entries(saved, order, i))
  BY SavedSoFar
<1>3. kept = {i \in 1 .. n : e[i] <= Len(file)}
  BY <1>2
<1> HIDE DEF F, e, d, kept, n, l
<1>4. Len(file) \in Nat /\ \A i \in 0 .. l : e[i] \in Nat /\ e[i] >= 6
  <2>1. Len(file) \in Nat
    BY <1>2, CutOffIs
  <2>2. ASSUME NEW i \in 0 .. l PROVE e[i] \in Nat /\ e[i] >= 6
    <3>1. e[i] \in Nat /\ i + 6 <= e[i]
      BY <1>2, <2>2, EndsGrow DEF l
    <3> QED
      BY <3>1
  <2> QED
    BY <2>1, <2>2
<1>5. CASE Len(file) < 6
  <2>1. kept = {}
    BY <1>2, <1>3, <1>4, <1>5
  <2>2. d = NoKeys
    BY <1>2, <1>5, NothingLoaded DEF d
  <2>3. DOMAIN d = {}
    BY <2>2, NoKeysType
  <2>4. Cardinality(kept) = 0 /\ Cardinality(DOMAIN d) = 0
    BY <2>1, <2>3, FS_EmptySet
  <2> QED
    BY <1>1, <2>1, <2>4 DEF kept
<1>6. CASE ~ (Len(file) < 6)
  <2>1. Len(file) >= 6
    BY <1>4, <1>6
  <2>2. PICK m : LoadedAs(file, saved, order, e, n, m)
    BY <1>2, <2>1, LoadedIs
  <2> DEFINE K == First(saved, order, m)
             D == {order[i] : i \in 1 .. m}
  <2>3. /\ m \in 0 .. n /\ e[m] <= Len(file) /\ (m < n => Len(file) < e[m + 1])
        /\ \/ d = K
           \/ m < n /\ \E k : (k = order[m + 1] \/ ~ Plain(k)) /\ Remains(K, k, d)
    BY <2>2 DEF LoadedAs, d
  <2>4. m \in Nat /\ n \in Nat /\ m \in 0 .. l
    BY <1>2, <2>3
  <2>5. kept = 1 .. m
    <3>1. ASSUME NEW i \in 1 .. m PROVE i \in kept
      <4>1. e[i] \in Nat /\ e[i] <= e[m] /\ e[m] \in Nat
        BY <1>2, <2>4, EndsGrow DEF l
      <4> QED
        BY <1>3, <1>4, <2>3, <2>4, <4>1
    <3>2. ASSUME NEW i \in kept PROVE i \in 1 .. m
      <4>1. i \in 1 .. n /\ e[i] <= Len(file)
        BY <1>3
      <4> SUFFICES ASSUME i > m PROVE FALSE
        BY <2>4, <4>1
      <4>2. m < n /\ m + 1 \in 0 .. i /\ i \in 0 .. l
        BY <1>2, <2>4, <4>1
      <4>3. e[m + 1] <= e[i] /\ e[m + 1] \in Nat /\ e[i] \in Nat
        BY <1>2, <4>2, EndsGrow DEF l
      <4> QED
        BY <1>4, <2>3, <4>1, <4>2, <4>3
    <3> QED
      BY <3>1, <3>2
  <2>6. Cardinality(kept) = m /\ IsFiniteSet(1 .. m)
    <3>1. m \in Int /\ 1 \in Int
      BY <2>4
    <3>2. IsFiniteSet(1 .. m) /\ Cardinality(1 .. m) = IF 1 > m THEN 0 ELSE m - 1 + 1
      BY <3>1, FS_Interval
    <3> QED
      BY <2>4, <2>5, <3>2
  <2>7. DOMAIN K = D /\ \A k \in D : K[k] = Rounded(saved[k])
    BY DEF First
  <2>8. IsFiniteSet(D) /\ Cardinality(D) <= m /\ Cardinality(D) \in Nat
    <3> DEFINE f == [i \in 1 .. m |-> order[i]]
    <3>1. f \in Surjection(1 .. m, D)
      BY DEF Surjection
    <3> HIDE DEF f, D
    <3>2. IsFiniteSet(D) /\ Cardinality(D) <= Cardinality(1 .. m)
      BY <2>6, <3>1, FS_Surjection
    <3> QED
      BY <2>5, <2>6, <3>2, FS_CardinalityType
  <2> HIDE DEF K
  <2>9. CASE d = K
    <3>1. \A i \in kept : order[i] \in DOMAIN d /\ d[order[i]] = Rounded(saved[order[i]])
      BY <2>5, <2>7, <2>9
    <3>2. Cardinality(DOMAIN d) <= Cardinality(kept) + 1
      BY <2>4, <2>6, <2>7, <2>8, <2>9
    <3> QED
      BY <1>1, <3>1, <3>2 DEF kept
  <2>10. CASE m < n /\ \E k : (k = order[m + 1] \/ ~ Plain(k)) /\ Remains(K, k, d)
    <3>1. PICK k : (k = order[m + 1] \/ ~ Plain(k)) /\ Remains(K, k, d)
      BY <2>10
    <3>2. /\ DOMAIN d = D \/ DOMAIN d = D \cup {k}
          /\ \A x \in D : x # k => d[x] = K[x]
      BY <2>7, <3>1 DEF Remains, Put
    <3>3. ASSUME NEW i \in kept, Plain(order[i])
          PROVE  order[i] \in DOMAIN d /\ d[order[i]] = Rounded(saved[order[i]])
      <4>1. i \in 1 .. m /\ order[i] \in D
        BY <2>5
      <4>2. order[i] # k
        <5>1. i \in 1 .. l /\ m + 1 \in 1 .. l /\ i # m + 1
          BY <1>2, <2>4, <2>10, <4>1
        <5>2. order[i] # order[m + 1]
          BY <1>2, <5>1 DEF Enumerates, l
        <5> QED
          BY <3>1, <3>3, <5>2
      <4> QED
        BY <2>7, <3>2, <4>1, <4>2
    <3>4. Cardinality(DOMAIN d) <= m + 1
      <4>1. Cardinality(D \cup {k}) = IF k \in D THEN Cardinality(D) ELSE Cardinality(D) + 1
        BY <2>8, FS_AddElement
      <4> QED
        BY <2>4, <2>8, <3>2, <4>1
    <3>5. Cardinality(DOMAIN d) <= Cardinality(kept) + 1
      BY <2>6, <3>4
    <3> QED
      BY <1>1, <3>3, <3>5 DEF kept
  <2> QED
    BY <2>3, <2>9, <2>10
<1> QED
  BY <1>5, <1>6

\* A file is made of bytes, and what is loaded of it, whole or cut off, is a keyspace.
THEOREM SnapshotTypes == Spec => []TypeOK
<1>1. SnapshotInv => TypeOK
  BY DEF SnapshotInv
<1> QED
  BY <1>1, SnapshotInit, SnapshotStep, PTL DEF Spec

\* A snapshot that was written to its end is read back, every key with its type, value
\* and deadline, up to the first key whose length looks like the end marker.
THEOREM SnapshotIsReadBack == Spec => SnapshotReadsBack
<1>1. SnapshotInv /\ [Next]_vars =>
        [Start /\ Whole => db' = [k \in {order[i] : i \in 1 .. Seen} |-> Rounded(saved[k])]]_vars
  BY ReadsBack
<1> QED
  BY <1>1, SnapshotInit, SnapshotStep, PTL DEF Spec, SnapshotReadsBack

\* Of one that was cut off anywhere, plain keys that had been written come back as they
\* were, and at most one key comes with them.
THEOREM TornSnapshotIsKept == Spec => TornSnapshotKept
<1>1. SnapshotInv /\ [Next]_vars =>
        [Start /\ saved # << >> =>
           LET kept == {i \in 1 .. Seen : Len(Entries(saved, order, i)) <= Len(file)}
           IN  /\ \A i \in kept : Plain(order[i]) =>
                      order[i] \in DOMAIN db' /\ db'[order[i]] = Rounded(saved[order[i]])
               /\ Cardinality(DOMAIN db') <= Cardinality(kept) + 1]_vars
  BY Kept
<1> QED
  BY <1>1, SnapshotInit, SnapshotStep, PTL DEF Spec, TornSnapshotKept
=============================================================================
