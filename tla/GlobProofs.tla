----------------------------- MODULE GlobProofs -----------------------------
(***************************************************************************)
(* The glob matcher agrees with what its patterns mean, for every key and  *)
(* every pattern: the loop, which keeps one star to go back to, and the    *)
(* table of places from which on the key matches the rest of the pattern.  *)
(***************************************************************************)
EXTENDS Glob, Induction

Args == str \in Seq(Int) /\ pattern \in Seq(Int)

-----------------------------------------------------------------------------
\* Classes.

\* The bracket that closes a class is the first one behind it.
LEMMA Closes ==
    ASSUME Args, NEW j \in 1 .. Len(pattern), FindClose(j) # 0
    PROVE  /\ FindClose(j) \in j .. Len(pattern)
           /\ pattern[FindClose(j)] = Close
<1> DEFINE closes == {i \in j .. Len(pattern) : pattern[i] = Close}
<1>1. closes \in SUBSET Nat
  BY DEF Args
<1>2. closes # {} /\ FindClose(j) = CHOOSE i \in closes : \A k \in closes : i <= k
  BY DEF FindClose
<1> HIDE DEF closes
<1>3. \E i \in closes : \A k \in closes : i <= k
  BY <1>1, <1>2, Least
<1>4. FindClose(j) \in closes
  BY <1>2, <1>3
<1> QED
  BY <1>4 DEF closes

\* Where the elements of a class begin, and its end.
First(j) == IF Negated(j) THEN j + 2 ELSE j + 1

LEMMA ClassBounds ==
    ASSUME Args, NEW j \in 1 .. Len(pattern), IsClass(j)
    PROVE  FindClose(j) \in 1 .. Len(pattern) /\ First(j) \in j + 1 .. FindClose(j)
<1>1. FindClose(j) \in j .. Len(pattern) /\ pattern[FindClose(j)] = Close
  BY Closes DEF IsClass
<1>2. pattern[j] = Open
  BY DEF IsClass
<1>3. FindClose(j) # j
  BY <1>1, <1>2 DEF Open, Close
<1>4. Negated(j) => FindClose(j) # j + 1
  BY <1>1 DEF Negated, Caret, Close
<1>5. j \in Int /\ FindClose(j) \in Int /\ Len(pattern) \in Int
  BY <1>1
<1>6. First(j) \in j + 1 .. FindClose(j)
  BY <1>1, <1>3, <1>4, <1>5 DEF First
<1> QED
  BY <1>1, <1>5, <1>6

\* A range begins at i.
RangeAt(i, close) == i + 2 < close /\ pattern[i + 1] = Dash

\* Where the next element begins.
NextElement(i, close) == IF RangeAt(i, close) THEN i + 3 ELSE i + 1

\* The characters of the element at i.
Element(i, close) == IF RangeAt(i, close) THEN pattern[i] .. pattern[i + 2] ELSE {pattern[i]}

LEMMA Elements ==
    ASSUME Args, NEW close \in 1 .. Len(pattern), NEW i \in 1 .. close - 1
    PROVE  NextElement(i, close) \in i + 1 .. close /\ Element(i, close) \subseteq Int
BY DEF Args, NextElement, Element, RangeAt

\* The members of a class, element by element.
LEMMA ClassIs ==
    ASSUME Args, NEW close \in 1 .. Len(pattern)
    PROVE  /\ Class(close, close) = {}
           /\ \A i \in 1 .. close - 1 :
                 Class(i, close) = Element(i, close) \cup Class(NextElement(i, close), close)
<1> DEFINE V == SUBSET Int
           next == [i \in 1 .. close - 1 |-> NextElement(i, close)]
           op == [i \in 1 .. close - 1 |-> [v \in V |-> Element(i, close) \cup v]]
           F(f) == [i \in 1 .. close |->
                      IF i = close THEN {}
                      ELSE IF i + 2 < close /\ pattern[i + 1] = Dash
                      THEN (pattern[i] .. pattern[i + 2]) \cup f[i + 3]
                      ELSE {pattern[i]} \cup f[i + 1]]
           m == CHOOSE f : f = F(f)
<1>1. close \in Nat \ {0} /\ {} \in V
  BY DEF Args
<1>2. LaterIndex(next, close)
  BY Elements DEF LaterIndex
<1>3. Maps(op, V, close)
  BY Elements DEF Maps
<1>4. /\ \A i \in 1 .. close - 1 : next[i] = NextElement(i, close)
      /\ \A i \in 1 .. close - 1 : \A v \in V : op[i][v] = Element(i, close) \cup v
  OBVIOUS
<1> HIDE DEF V, next, op
<1>5. PICK f \in [1 .. close -> V] : Descends(f, {}, close, next, op)
  BY <1>1, <1>2, <1>3, Descent
<1>6. \A i \in 1 .. close - 1 : f[i] = Element(i, close) \cup f[NextElement(i, close)]
  BY <1>2, <1>4, <1>5 DEF LaterIndex, Descends
<1>7. f = F(f)
  <2>1. ASSUME NEW i \in 1 .. close PROVE f[i] = F(f)[i]
    <3>1. CASE i = close
      BY <1>5, <3>1 DEF Descends
    <3>2. CASE i # close
      <4>1. i \in 1 .. close - 1
        BY <3>2
      <4> QED
        BY <1>6, <3>2, <4>1 DEF Element, NextElement, RangeAt
    <3> QED
      BY <3>1, <3>2
  <2> QED
    BY <2>1
<1>8. m = F(m)
  BY <1>7
<1>9. \A i \in 1 .. close : Class(i, close) = m[i]
  BY DEF Class
<1> HIDE DEF m
<1>10. m[close] = {}
  BY <1>1, <1>8
<1>11. ASSUME NEW i \in 1 .. close - 1
       PROVE  m[i] = Element(i, close) \cup m[NextElement(i, close)]
  BY <1>8 DEF Element, NextElement, RangeAt
<1>12. close \in 1 .. close /\ \A i \in 1 .. close - 1 : i \in 1 .. close /\ NextElement(i, close) \in 1 .. close
  BY <1>1, Elements
<1> QED
  BY <1>9, <1>10, <1>11, <1>12, Zenon

\* The same of the loop that looks for a character in it.
LEMMA InClassIs ==
    ASSUME Args, NEW close \in 1 .. Len(pattern), NEW c \in Int
    PROVE  /\ ~ InClass(c, close, close)
           /\ \A i \in 1 .. close - 1 :
                 InClass(c, i, close) <=> c \in Element(i, close) \/ InClass(c, NextElement(i, close), close)
           /\ \A i \in 1 .. close : InClass(c, i, close) \in BOOLEAN
<1> DEFINE V == BOOLEAN
           next == [i \in 1 .. close - 1 |-> NextElement(i, close)]
           op == [i \in 1 .. close - 1 |-> [v \in V |-> c \in Element(i, close) \/ v]]
           F(f) == [i \in 1 .. close |->
                      IF i = close THEN FALSE
                      ELSE IF i + 2 < close /\ pattern[i + 1] = Dash
                      THEN (pattern[i] <= c /\ c <= pattern[i + 2]) \/ f[i + 3]
                      ELSE pattern[i] = c \/ f[i + 1]]
           m == CHOOSE f : f = F(f)
<1>1. close \in Nat \ {0} /\ FALSE \in V
  BY DEF Args
<1>2. LaterIndex(next, close)
  BY Elements DEF LaterIndex
<1>3. Maps(op, V, close)
  BY DEF Maps
<1>4. /\ \A i \in 1 .. close - 1 : next[i] = NextElement(i, close)
      /\ \A i \in 1 .. close - 1 : \A v \in V : op[i][v] = (c \in Element(i, close) \/ v)
  OBVIOUS
<1>5. ASSUME NEW i \in 1 .. close - 1
      PROVE  c \in Element(i, close) <=>
                IF RangeAt(i, close) THEN pattern[i] <= c /\ c <= pattern[i + 2] ELSE pattern[i] = c
  <2>1. pattern[i] \in Int /\ (RangeAt(i, close) => pattern[i + 2] \in Int)
    BY DEF Args, RangeAt
  <2> QED
    BY <2>1 DEF Element
<1> HIDE DEF next, op
<1>6. PICK f \in [1 .. close -> V] : Descends(f, FALSE, close, next, op)
  BY <1>1, <1>2, <1>3, Descent
<1>7. \A i \in 1 .. close - 1 : f[i] = (c \in Element(i, close) \/ f[NextElement(i, close)])
  BY <1>2, <1>4, <1>6 DEF LaterIndex, Descends
<1>8. f = F(f)
  <2>1. ASSUME NEW i \in 1 .. close PROVE f[i] = F(f)[i]
    <3>1. CASE i = close
      BY <1>6, <3>1 DEF Descends
    <3>2. CASE i # close
      <4>1. i \in 1 .. close - 1
        BY <3>2
      <4>2. f[i] = (c \in Element(i, close) \/ f[NextElement(i, close)])
        BY <1>7, <4>1
      <4>3. CASE RangeAt(i, close)
        BY <1>5, <3>2, <4>1, <4>2, <4>3 DEF NextElement, RangeAt
      <4>4. CASE ~ RangeAt(i, close)
        BY <1>5, <3>2, <4>1, <4>2, <4>4 DEF NextElement, RangeAt
      <4> QED
        BY <4>3, <4>4
    <3> QED
      BY <3>1, <3>2
  <2> QED
    BY <2>1
<1>9. m = F(m)
  BY <1>8
<1>10. \A i \in 1 .. close : InClass(c, i, close) = m[i]
  BY DEF InClass
<1> HIDE DEF m
<1>11. ~ m[close]
  BY <1>1, <1>9
<1>12. ASSUME NEW i \in 1 .. close - 1
       PROVE  m[i] <=> c \in Element(i, close) \/ m[NextElement(i, close)]
  <2>1. i \in 1 .. close /\ i # close
    OBVIOUS
  <2>2. CASE RangeAt(i, close)
    <3>1. m[i] = ((pattern[i] <= c /\ c <= pattern[i + 2]) \/ m[i + 3])
      BY <1>9, <2>1, <2>2 DEF RangeAt
    <3> QED
      BY <1>5, <2>2, <3>1 DEF NextElement
  <2>3. CASE ~ RangeAt(i, close)
    <3>1. m[i] = (pattern[i] = c \/ m[i + 1])
      BY <1>9, <2>1, <2>3 DEF RangeAt
    <3> QED
      BY <1>5, <2>3, <3>1 DEF NextElement
  <2> QED
    BY <2>2, <2>3
<1>13. close \in 1 .. close /\ \A i \in 1 .. close - 1 : i \in 1 .. close /\ NextElement(i, close) \in 1 .. close
  BY <1>1, Elements
<1>14. ASSUME NEW i \in 1 .. close PROVE m[i] \in BOOLEAN
  <2>1. CASE i = close
    <3>1. m[i] = FALSE
      BY <1>9, <2>1
    <3> QED
      BY <3>1
  <2>2. CASE i # close /\ RangeAt(i, close)
    <3>1. m[i] = ((pattern[i] <= c /\ c <= pattern[i + 2]) \/ m[i + 3])
      BY <1>9, <2>2 DEF RangeAt
    <3> QED
      BY <3>1, Zenon
  <2>3. CASE i # close /\ ~ RangeAt(i, close)
    <3>1. m[i] = (pattern[i] = c \/ m[i + 1])
      BY <1>9, <2>3 DEF RangeAt
    <3> QED
      BY <3>1, Zenon
  <2> QED
    BY <2>1, <2>2, <2>3
<1> QED
  BY <1>10, <1>11, <1>12, <1>13, <1>14, Zenon

\* The loop finds the members of a class.
LEMMA ClassRead ==
    ASSUME Args, NEW close \in 1 .. Len(pattern), NEW c \in Int, NEW i \in 1 .. close
    PROVE  InClass(c, i, close) <=> c \in Class(i, close)
<1> DEFINE T == {k \in 1 .. close : InClass(c, k, close) <=> c \in Class(k, close)}
<1>1. close \in T
  BY ClassIs, InClassIs
<1>2. ASSUME NEW k \in 1 .. close - 1, \A j \in k + 1 .. close : j \in T PROVE k \in T
  <2>1. NextElement(k, close) \in T
    BY <1>2, Elements
  <2> QED
    BY <2>1, ClassIs, InClassIs
<1>3. close \in Nat
  OBVIOUS
<1> HIDE DEF T
<1>4. i \in T
  BY <1>1, <1>2, <1>3, Downward
<1> QED
  BY <1>4 DEF T
\* The class at the place of the pattern takes what it describes.
LEMMA ClassDescribes ==
    ASSUME Args, NEW j \in 1 .. Len(pattern), j = pi, NextIs(Open), NEW c \in Int, c = str[si]
    PROVE  /\ ClassTakes => IsClass(j)
           /\ IsClass(j) => (ClassTakes <=> Describes(j, c))
<1> DEFINE close == FindClose(j)
           neg    == pi + 1 <= Len(pattern) /\ pattern[pi + 1] = Caret
<1>1. pattern[j] = Open /\ (IsClass(j) <=> close # 0) /\ FindClose(pi) = close
  BY DEF NextIs, IsClass
<1>2. neg <=> Negated(j)
  BY DEF Negated, Args
<1>3. ClassTakes <=> close # 0 /\ (neg # InClass(c, IF neg THEN pi + 2 ELSE pi + 1, close))
  BY <1>1 DEF ClassTakes
<1>4. (IF neg THEN pi + 2 ELSE pi + 1) = First(j)
  BY <1>2 DEF First
<1> HIDE DEF close, neg
<1>5. ASSUME IsClass(j) PROVE ClassTakes <=> Describes(j, c)
  <2>1. close \in 1 .. Len(pattern) /\ First(j) \in 1 .. close
    BY <1>5, ClassBounds DEF close
  <2>2. InClass(c, First(j), close) <=> c \in Class(First(j), close)
    BY <2>1, ClassRead
  <2>3. Describes(j, c) <=> (Negated(j) # (c \in Class(First(j), close)))
    BY <1>5 DEF Describes, First, close
  <2>4. ClassTakes <=> (neg # InClass(c, First(j), close))
    BY <1>1, <1>3, <1>4, <1>5
  <2>5. InClass(c, First(j), close) \in BOOLEAN
    BY <2>1, InClassIs
  <2>6. neg \in BOOLEAN /\ Negated(j) \in BOOLEAN
    BY Zenon DEF neg, Negated
  <2> QED
    BY <1>2, <2>2, <2>3, <2>4, <2>5, <2>6
<1> QED
  BY <1>1, <1>3, <1>5

-----------------------------------------------------------------------------
\* Places.

LEMMA BehindIs ==
    ASSUME Args, NEW j \in 1 .. Len(pattern)
    PROVE  Behind(j) \in j + 1 .. Len(pattern) + 1
BY Closes DEF Behind, IsClass, Args

\* The positions in the key, and the places among them of what begins with a star, or
\* with something else.
Ends == 1 .. Len(str) + 1

StarPlaces(later) == {i \in Ends : \E k \in later : i <= k}

OtherPlaces(j, later) == {i \in 1 .. Len(str) : Describes(j, str[i]) /\ i + 1 \in later}

LEMMA PlacesAre ==
    ASSUME Args
    PROVE  /\ Places[Len(pattern) + 1] = {Len(str) + 1}
           /\ \A j \in 1 .. Len(pattern) : Places[j] =
                 IF pattern[j] = Star THEN StarPlaces(Places[j + 1]) ELSE OtherPlaces(j, Places[Behind(j)])
           /\ \A j \in 1 .. Len(pattern) + 1 : Places[j] \subseteq Ends
<1> DEFINE n == Len(pattern) + 1
           V == SUBSET Ends
           b == {Len(str) + 1}
           next == [j \in 1 .. n - 1 |-> IF pattern[j] = Star THEN j + 1 ELSE Behind(j)]
           op == [j \in 1 .. n - 1 |-> [v \in V |->
                    IF pattern[j] = Star THEN StarPlaces(v) ELSE OtherPlaces(j, v)]]
           F(f) == [j \in 1 .. Len(pattern) + 1 |->
                      IF j > Len(pattern) THEN {Len(str) + 1}
                      ELSE IF pattern[j] = Star
                      THEN {i \in 1 .. Len(str) + 1 : \E k \in f[j + 1] : i <= k}
                      ELSE {i \in 1 .. Len(str) : Describes(j, str[i]) /\ i + 1 \in f[Behind(j)]}]
           m == CHOOSE f : f = F(f)
<1>1. n \in Nat \ {0} /\ b \in V /\ n - 1 = Len(pattern)
  BY DEF Args, Ends
<1>2. LaterIndex(next, n)
  BY <1>1, BehindIs DEF LaterIndex
<1>3. Maps(op, V, n)
  BY DEF Maps, StarPlaces, OtherPlaces, Ends, Args
<1>4. /\ \A j \in 1 .. n - 1 : next[j] = IF pattern[j] = Star THEN j + 1 ELSE Behind(j)
      /\ \A j \in 1 .. n - 1 : \A v \in V :
            op[j][v] = IF pattern[j] = Star THEN StarPlaces(v) ELSE OtherPlaces(j, v)
  OBVIOUS
<1> HIDE DEF next, op
<1>5. PICK f \in [1 .. n -> V] : Descends(f, b, n, next, op)
  BY <1>1, <1>2, <1>3, Descent
<1>6. \A j \in 1 .. Len(pattern) :
         f[j] = IF pattern[j] = Star THEN StarPlaces(f[j + 1]) ELSE OtherPlaces(j, f[Behind(j)])
  <2>1. ASSUME NEW j \in 1 .. n - 1
        PROVE  f[j] = IF pattern[j] = Star THEN StarPlaces(f[j + 1]) ELSE OtherPlaces(j, f[Behind(j)])
    <3>1. next[j] \in 1 .. n /\ f[next[j]] \in V /\ f[j] = op[j][f[next[j]]]
      BY <1>2, <1>5 DEF LaterIndex, Descends
    <3> HIDE DEF V, n
    <3> QED
      BY <1>4, <3>1
  <2> QED
    BY <1>1, <2>1
<1>7. f = F(f)
  <2>1. ASSUME NEW j \in 1 .. n PROVE f[j] = F(f)[j]
    <3>1. CASE j = n
      <4>1. f[j] = b
        BY <1>5, <3>1 DEF Descends
      <4>2. j \in 1 .. Len(pattern) + 1 /\ j > Len(pattern)
        BY <1>1, <3>1
      <4> QED
        BY <4>1, <4>2
    <3>2. CASE j # n
      <4>1. j \in 1 .. Len(pattern) /\ ~ (j > Len(pattern))
        BY <1>1, <3>2
      <4> QED
        BY <1>6, <4>1 DEF StarPlaces, OtherPlaces, Ends
    <3> QED
      BY <3>1, <3>2
  <2> QED
    BY <2>1
<1>8. m = F(m)
  BY <1>7
<1>9. Places = m
  BY DEF Places
<1> HIDE DEF m
<1>10. m[n] = b
  BY <1>1, <1>8
<1>11. ASSUME NEW j \in 1 .. Len(pattern)
       PROVE  m[j] = IF pattern[j] = Star THEN StarPlaces(m[j + 1]) ELSE OtherPlaces(j, m[Behind(j)])
  <2>1. j \in 1 .. n /\ ~ (j > Len(pattern))
    BY <1>1
  <2> QED
    BY <1>8, <2>1 DEF StarPlaces, OtherPlaces, Ends
<1>12. ASSUME NEW j \in 1 .. n PROVE m[j] \subseteq Ends
  <2>1. CASE j = n
    BY <1>1, <1>10, <2>1
  <2>2. CASE j # n
    <3>1. j \in 1 .. Len(pattern)
      BY <1>1, <2>2
    <3>2. StarPlaces(m[j + 1]) \subseteq Ends /\ OtherPlaces(j, m[Behind(j)]) \subseteq Ends
      BY DEF StarPlaces, OtherPlaces, Ends, Args
    <3> QED
      BY <1>11, <3>1, <3>2
  <2> QED
    BY <2>1, <2>2
<1> QED
  BY <1>9, <1>10, <1>11, <1>12

\* The end of the key is a place of the rest of the pattern if that is stars.
LEMMA OnlyStars ==
    ASSUME Args, NEW j \in 1 .. Len(pattern) + 1
    PROVE  Len(str) + 1 \in Places[j] <=> \A i \in j .. Len(pattern) : pattern[i] = Star
<1> DEFINE n == Len(pattern) + 1
           Rest(k) == \A i \in k .. Len(pattern) : pattern[i] = Star
           T == {k \in 1 .. n : Len(str) + 1 \in Places[k] <=> Rest(k)}
<1>1. n \in Nat /\ n - 1 = Len(pattern) /\ n \in 1 .. n /\ Len(str) \in Nat
  BY DEF Args
<1>2. n \in T
  BY <1>1, PlacesAre
<1>3. ASSUME NEW k \in 1 .. n - 1, \A i \in k + 1 .. n : i \in T PROVE k \in T
  <2>1. k + 1 \in T /\ k \in 1 .. n
    BY <1>1, <1>3
  <2>2. CASE pattern[k] = Star
    <3>1. Places[k] = StarPlaces(Places[k + 1]) /\ Places[k + 1] \subseteq Ends
      BY <1>1, <2>2, PlacesAre
    <3>2. Len(str) + 1 \in Places[k] <=> Len(str) + 1 \in Places[k + 1]
      BY <1>1, <3>1 DEF StarPlaces, Ends
    <3>3. Rest(k) <=> Rest(k + 1)
      BY <1>1, <2>2
    <3> QED
      BY <2>1, <3>2, <3>3
  <2>3. CASE pattern[k] # Star
    <3>1. Places[k] = OtherPlaces(k, Places[Behind(k)])
      BY <1>1, <2>3, PlacesAre
    <3>2. Len(str) + 1 \notin Places[k]
      BY <1>1, <3>1 DEF OtherPlaces
    <3>3. ~ Rest(k)
      BY <1>1, <2>3
    <3> QED
      BY <2>1, <3>2, <3>3
  <2> QED
    BY <2>2, <2>3
<1> HIDE DEF T
<1>4. j \in T
  <2>1. j \in 1 .. n
    OBVIOUS
  <2> HIDE DEF n
  <2> QED
    BY <1>1, <1>2, <1>3, <2>1, Downward
<1> QED
  BY <1>4 DEF T

\* A part of the pattern without stars and brackets takes as many characters as it has.
LEMMA Segment ==
    ASSUME Args, NEW a \in 1 .. Len(pattern) + 1, NEW b \in a .. Len(pattern) + 1,
           \A j \in a .. b - 1 : pattern[j] # Star /\ pattern[j] # Open, NEW k \in Places[a]
    PROVE  k + (b - a) \in Places[b]
<1> DEFINE T == {d \in 0 .. b - a : k + d \in Places[a + d]}
<1>1. k \in Nat
  BY PlacesAre DEF Ends, Args
<1>2. 0 \in T
  BY <1>1
<1>3. ASSUME NEW d \in 1 .. b - a, d - 1 \in T PROVE d \in T
  <2> DEFINE j == a + (d - 1)
             i == k + (d - 1)
  <2>1. j \in 1 .. Len(pattern) /\ j \in a .. b - 1 /\ j + 1 = a + d /\ i + 1 = k + d
    BY <1>1 DEF Args
  <2>2. pattern[j] # Star /\ ~ IsClass(j) /\ Behind(j) = j + 1
    BY <2>1 DEF IsClass, Behind
  <2>3. i \in Places[j]
    BY <1>3
  <2> HIDE DEF i, j
  <2>4. i + 1 \in Places[j + 1]
    BY <2>1, <2>2, <2>3, PlacesAre DEF OtherPlaces
  <2> QED
    BY <2>1, <2>4
<1>4. b - a \in Nat /\ b - a \in 0 .. b - a /\ a + (b - a) = b
  OBVIOUS
<1> HIDE DEF T
<1>5. b - a \in T
  BY <1>2, <1>3, <1>4, Climb
<1> QED
  BY <1>4, <1>5 DEF T
-----------------------------------------------------------------------------
\* What the loop does to the places. First, what is always so of it.

Bounds ==
    /\ Args
    /\ si \in 1 .. Len(str) + 1
    /\ pi \in 1 .. Len(pattern) + 1
    /\ starIdx \in 0 .. Len(pattern)
    /\ matchIdx \in 1 .. si
    /\ result \in {"none", "match", "mismatch"}
    /\ starIdx # 0 => pattern[starIdx] = Star /\ starIdx < pi

\* One character for one of the pattern.
LEMMA OneTaken ==
    ASSUME Bounds, Running, Literal, str[si] # Open
    PROVE  /\ pi \in 1 .. Len(pattern)
           /\ pattern[pi] # Open
           /\ si + 1 \in Places[pi + 1] => si \in Places[pi]
           /\ str[si] # Star =>
                 pattern[pi] # Star /\ (si \in Places[pi] <=> si + 1 \in Places[pi + 1])
<1>1. pi \in 1 .. Len(pattern) /\ pattern[pi] \in {AnyOne, str[si]} /\ Args
  BY DEF Bounds, Literal, NextIs, Args
<1>2. si \in 1 .. Len(str) /\ si \in Ends
  BY DEF Bounds, Running, Args, Ends
<1>3. pattern[pi] # Open
  BY <1>1 DEF AnyOne, Open
<1>4. CASE pattern[pi] = Star
  <2>1. Places[pi] = StarPlaces(Places[pi + 1])
    BY <1>1, <1>4, PlacesAre
  <2>2. str[si] = Star
    BY <1>1, <1>4 DEF AnyOne, Star
  <2>3. si + 1 \in Places[pi + 1] => si \in Places[pi]
    BY <1>2, <2>1 DEF StarPlaces
  <2> QED
    BY <1>1, <1>3, <2>2, <2>3
<1>5. CASE pattern[pi] # Star
  <2>1. Describes(pi, str[si]) /\ Behind(pi) = pi + 1
    BY <1>1, <1>3 DEF Describes, Behind, IsClass
  <2>2. Places[pi] = OtherPlaces(pi, Places[pi + 1])
    BY <1>1, <1>5, <2>1, PlacesAre
  <2>3. si \in Places[pi] <=> si + 1 \in Places[pi + 1]
    BY <1>2, <2>1, <2>2 DEF OtherPlaces
  <2> QED
    BY <1>1, <1>3, <1>5, <2>3
<1> QED
  BY <1>4, <1>5

\* A star leaves the places behind it as they are, and those before them.
LEMMA StarTaken ==
    ASSUME Bounds, NextIs(Star), NEW i \in Ends
    PROVE  /\ pi \in 1 .. Len(pattern)
           /\ i \in Places[pi] <=> \E k \in Places[pi + 1] : i <= k
<1>1. pi \in 1 .. Len(pattern) /\ pattern[pi] = Star /\ Args
  BY DEF Bounds, NextIs, Args
<1>2. Places[pi] = StarPlaces(Places[pi + 1])
  BY <1>1, PlacesAre
<1> QED
  BY <1>1, <1>2 DEF StarPlaces

\* One character for a class.
LEMMA ClassTaken ==
    ASSUME Bounds, Running, NextIs(Open), ClassTakes
    PROVE  /\ FindClose(pi) \in pi .. Len(pattern)
           /\ si \in Places[pi] <=> si + 1 \in Places[FindClose(pi) + 1]
<1>1. pi \in 1 .. Len(pattern) /\ pattern[pi] = Open /\ Args
  BY DEF Bounds, NextIs, Args
<1>2. si \in 1 .. Len(str) /\ str[si] \in Int
  BY DEF Bounds, Running, Args
<1>3. IsClass(pi) /\ Describes(pi, str[si])
  BY <1>1, <1>2, ClassDescribes
<1>4. Behind(pi) = FindClose(pi) + 1 /\ FindClose(pi) # 0
  BY <1>3 DEF Behind, IsClass
<1>5. FindClose(pi) \in pi .. Len(pattern)
  BY <1>1, <1>4, Closes
<1>6. Places[pi] = OtherPlaces(pi, Places[FindClose(pi) + 1])
  BY <1>1, <1>4, PlacesAre DEF Open, Star
<1> QED
  BY <1>2, <1>3, <1>5, <1>6 DEF OtherPlaces

\* What takes the character in none of the branches has no place here.
LEMMA NotTaken ==
    ASSUME Bounds, Running, ~ Literal, ~ NextIs(Star), NextIs(Open) => ~ ClassTakes
    PROVE  si \notin Places[pi]
<1>1. si \in 1 .. Len(str) /\ str[si] \in Int /\ Args /\ pi \in 1 .. Len(pattern) + 1
  BY DEF Bounds, Running, Args
<1>2. CASE pi = Len(pattern) + 1
  <2>1. Places[pi] = {Len(str) + 1}
    BY <1>1, <1>2, PlacesAre
  <2> QED
    BY <1>1, <2>1 DEF Args
<1>3. CASE pi # Len(pattern) + 1
  <2>1. pi \in 1 .. Len(pattern) /\ pi <= Len(pattern)
    BY <1>1, <1>3 DEF Args
  <2>2. pattern[pi] # Star /\ pattern[pi] # AnyOne /\ pattern[pi] # str[si]
    BY <2>1 DEF NextIs, Literal
  <2>3. ~ Describes(pi, str[si])
    <3>1. CASE IsClass(pi)
      <4>1. NextIs(Open)
        BY <2>1, <3>1 DEF IsClass, NextIs
      <4> QED
        BY <1>1, <2>1, <3>1, <4>1, ClassDescribes
    <3>2. CASE ~ IsClass(pi)
      BY <2>2, <3>2 DEF Describes
    <3> QED
      BY <3>1, <3>2
  <2>4. Places[pi] = OtherPlaces(pi, Places[Behind(pi)])
    BY <1>1, <2>1, <2>2, PlacesAre
  <2> QED
    BY <2>3, <2>4 DEF OtherPlaces
<1> QED
  BY <1>2, <1>3
-----------------------------------------------------------------------------
\* The invariant. A place of the rest behind the star, from the place on that is left
\* to that star.
FromStar(first) == starIdx # 0 /\ \E k \in Places[starIdx + 1] : first <= k

\* While no bracket of the key can be taken for one of the pattern, the loop goes on only
\* where a match would be one of the whole.
Sound ==
    Open \notin ToSet(str) =>
        /\ result = "none" /\ si \in Places[pi] => Matches
        /\ FromStar(matchIdx) => Matches
        /\ result = "match" => Matches

\* While no star can be taken for one of the pattern either, and no class is behind a star.
Plain ==
    /\ {Star, Open} \cap ToSet(str) = {}
    /\ \A i, j \in DOMAIN pattern : i < j /\ pattern[i] = Star => pattern[j] # Open

\* What the last star is followed by has taken as many characters as it has, and a match
\* of the whole is one from here on, or one with more left to that star: giving up the
\* stars before it loses none.
Complete ==
    Plain =>
        /\ starIdx # 0 => /\ pi - (starIdx + 1) = si - matchIdx
                          /\ \A j \in starIdx + 1 .. pi - 1 : pattern[j] # Star
        /\ result = "none" /\ Matches => si \in Places[pi] \/ FromStar(matchIdx + 1)
        /\ result = "mismatch" => ~ Matches

IInv == Bounds /\ Sound /\ Complete

LEMMA Initially == Init => IInv
<1> SUFFICES ASSUME Init PROVE IInv
  OBVIOUS
<1>1. Args
  BY InputsAssumption DEF Init, Args
<1>2. Bounds
  BY <1>1 DEF Init, Bounds, Args
<1>3. Sound /\ Complete
  BY DEF Init, Sound, Complete, FromStar, Matches
<1> QED
  BY <1>2, <1>3 DEF IInv

\* The arguments do not change, and so what is said of them alone does not.
LEMMA Fixed ==
    ASSUME Bounds, str' = str, pattern' = pattern
    PROVE  /\ Places' = Places
           /\ Matches' <=> Matches
           /\ Plain' <=> Plain
           /\ Args'
           /\ (Open \notin ToSet(str))' <=> Open \notin ToSet(str)
<1>1. Places' = Places
  BY DEF Places, Class, FindClose, IsClass, Negated, Describes, Behind
<1> QED
  BY <1>1 DEF Matches, Plain, Args, Bounds

\* What takes a character has no star or bracket for it.
LEMMA PlainChar ==
    ASSUME Bounds, Running
    PROVE  /\ Open \notin ToSet(str) => str[si] # Open
           /\ Plain => str[si] # Open /\ str[si] # Star
<1>1. si \in DOMAIN str
  BY DEF Bounds, Running, Args
<1> QED
  BY <1>1 DEF Plain, ToSet

\* Behind the last star of a plain pattern there are characters, as far as it was read.
LEMMA BehindStar ==
    ASSUME Bounds, Plain, starIdx # 0,
           pi - (starIdx + 1) = si - matchIdx,
           \A j \in starIdx + 1 .. pi - 1 : pattern[j] # Star,
           FromStar(matchIdx + 1)
    PROVE  \E k \in Places[pi] : si + 1 <= k
<1>1. PICK k \in Places[starIdx + 1] : matchIdx + 1 <= k
  BY DEF FromStar
<1>2. /\ starIdx + 1 \in 1 .. Len(pattern) + 1
      /\ pi \in starIdx + 1 .. Len(pattern) + 1
      /\ pattern[starIdx] = Star /\ starIdx \in DOMAIN pattern
      /\ si \in Nat /\ matchIdx \in Nat /\ Args
      /\ Len(pattern) \in Nat /\ DOMAIN pattern = 1 .. Len(pattern)
  <2>1. /\ Args /\ si \in 1 .. Len(str) + 1 /\ matchIdx \in 1 .. si
        /\ starIdx \in 0 .. Len(pattern) /\ pi \in 1 .. Len(pattern) + 1
        /\ pattern[starIdx] = Star /\ starIdx < pi
    BY DEF Bounds
  <2>2. Len(pattern) \in Nat /\ DOMAIN pattern = 1 .. Len(pattern) /\ Len(str) \in Nat
    BY <2>1 DEF Args
  <2> QED
    BY <2>1, <2>2
<1>3. ASSUME NEW j \in starIdx + 1 .. pi - 1 PROVE pattern[j] # Star /\ pattern[j] # Open
  <2>1. j \in DOMAIN pattern /\ starIdx < j
    BY <1>2
  <2> QED
    BY <1>2, <2>1 DEF Plain
<1>4. k + (pi - (starIdx + 1)) \in Places[pi]
  BY <1>1, <1>2, <1>3, Segment
<1>5. k \in Nat
  <2>1. Places[starIdx + 1] \subseteq Ends
    BY <1>2, PlacesAre
  <2> QED
    BY <1>1, <2>1 DEF Ends
<1>6. si + 1 <= k + (si - matchIdx)
  BY <1>1, <1>2, <1>5
<1>7. k + (si - matchIdx) \in Places[pi]
  BY <1>4
<1> QED
  BY <1>6, <1>7

-----------------------------------------------------------------------------
\* One step of the loop.

LEMMA StepMatchOne ==
    ASSUME IInv, MatchOne
    PROVE  IInv'
<1>1. Bounds /\ Sound /\ Complete /\ Running /\ Literal
  BY DEF IInv, MatchOne
<1>2. /\ str' = str /\ pattern' = pattern /\ starIdx' = starIdx /\ matchIdx' = matchIdx
      /\ result' = result /\ si' = si + 1 /\ pi' = pi + 1
  BY DEF MatchOne
<1>3. Places' = Places /\ (Matches' <=> Matches) /\ (Plain' <=> Plain) /\ Args'
  BY <1>1, <1>2, Fixed
<1>4. pi \in 1 .. Len(pattern) /\ si \in 1 .. Len(str) /\ result = "none"
  BY <1>1 DEF Running, Literal, NextIs, Bounds, Args
<1>5. Bounds'
  BY <1>1, <1>2, <1>3, <1>4 DEF Bounds, Args
<1>6. \A i : FromStar(i)' <=> FromStar(i)
  BY <1>2, <1>3 DEF FromStar
<1>7. Sound'
  <2>1. CASE Open \in ToSet(str)
    BY <1>2, <2>1 DEF Sound
  <2>2. CASE Open \notin ToSet(str)
    <3>1. si + 1 \in Places[pi + 1] => si \in Places[pi]
      BY <1>1, <2>2, PlainChar, OneTaken
    <3> QED
      BY <1>1, <1>2, <1>3, <1>4, <1>6, <2>2, <3>1 DEF Sound
  <2> QED
    BY <2>1, <2>2
<1>8. Complete'
  <2>1. CASE ~ Plain
    BY <1>3, <2>1 DEF Complete
  <2>2. CASE Plain
    <3>1. pattern[pi] # Star /\ (si \in Places[pi] <=> si + 1 \in Places[pi + 1])
      BY <1>1, <2>2, PlainChar, OneTaken
    <3>2. starIdx # 0 => /\ pi' - (starIdx + 1) = si' - matchIdx
                        /\ \A j \in starIdx + 1 .. pi' - 1 : pattern[j] # Star
      <4>1. starIdx # 0 => /\ pi - (starIdx + 1) = si - matchIdx
                          /\ \A j \in starIdx + 1 .. pi - 1 : pattern[j] # Star
        BY <1>1, <2>2 DEF Complete
      <4>2. starIdx \in Nat /\ matchIdx \in Int /\ pi \in Int /\ si \in Int
        BY <1>1, <1>4 DEF Bounds, Args
      <4> QED
        BY <1>2, <3>1, <4>1, <4>2
    <3>3. Matches => si' \in Places[pi'] \/ FromStar(matchIdx + 1)
      BY <1>1, <1>2, <1>4, <2>2, <3>1 DEF Complete
    <3>4. FromStar(matchIdx + 1)' <=> FromStar(matchIdx + 1)
      BY <1>2, <1>3 DEF FromStar
    <3> QED
      BY <1>2, <1>3, <1>4, <3>2, <3>3, <3>4 DEF Complete
  <2> QED
    BY <2>1, <2>2
<1> QED
  BY <1>5, <1>7, <1>8 DEF IInv

LEMMA StepMeetStar ==
    ASSUME IInv, MeetStar
    PROVE  IInv'
<1>1. Bounds /\ Sound /\ Complete /\ Running /\ NextIs(Star)
  BY DEF IInv, MeetStar
<1>2. /\ str' = str /\ pattern' = pattern /\ starIdx' = pi /\ matchIdx' = si
      /\ result' = result /\ si' = si /\ pi' = pi + 1
  BY DEF MeetStar
<1>3. Places' = Places /\ (Matches' <=> Matches) /\ (Plain' <=> Plain) /\ Args'
  BY <1>1, <1>2, Fixed
<1>4. /\ pi \in 1 .. Len(pattern) /\ si \in 1 .. Len(str) /\ result = "none" /\ si \in Ends
      /\ pattern[pi] = Star
  BY <1>1 DEF Running, NextIs, Bounds, Args, Ends
<1>5. Bounds'
  BY <1>1, <1>2, <1>3, <1>4 DEF Bounds, Args
<1>6. si \in Places[pi] <=> \E k \in Places[pi + 1] : si <= k
  BY <1>1, <1>4, StarTaken
<1>7. Places[pi + 1] \subseteq Ends
  <2>1. pi + 1 \in 1 .. Len(pattern) + 1 /\ Args
    BY <1>1, <1>4 DEF Bounds, Args
  <2> QED
    BY <2>1, PlacesAre
<1>8. FromStar(matchIdx)' <=> si \in Places[pi]
  BY <1>2, <1>3, <1>4, <1>6 DEF FromStar
<1>9. Sound'
  <2>1. CASE Open \in ToSet(str)
    BY <1>2, <2>1 DEF Sound
  <2>2. CASE Open \notin ToSet(str)
    <3>1. si \in Places[pi] => Matches
      BY <1>1, <1>4, <2>2 DEF Sound
    <3>2. si \in Places[pi + 1] => si \in Places[pi]
      BY <1>4, <1>6
    <3> QED
      BY <1>2, <1>3, <1>4, <1>8, <2>2, <3>1, <3>2 DEF Sound
  <2> QED
    BY <2>1, <2>2
<1>10. Complete'
  <2>1. CASE ~ Plain
    BY <1>3, <2>1 DEF Complete
  <2>2. CASE Plain
    <3>1. starIdx' # 0 => /\ pi' - (starIdx' + 1) = si' - matchIdx'
                         /\ \A j \in starIdx' + 1 .. pi' - 1 : pattern[j] # Star
      BY <1>2, <1>4
    <3>2. ASSUME Matches PROVE \E k \in Places[pi + 1] : si <= k
      <4>1. CASE si \in Places[pi]
        BY <1>6, <4>1
      <4>2. CASE FromStar(matchIdx + 1)
        <5>1. /\ starIdx # 0
              /\ pi - (starIdx + 1) = si - matchIdx
              /\ \A j \in starIdx + 1 .. pi - 1 : pattern[j] # Star
          BY <1>1, <2>2, <4>2 DEF Complete, FromStar
        <5>2. PICK k \in Places[pi] : si + 1 <= k
          BY <1>1, <2>2, <4>2, <5>1, BehindStar
        <5>3. k \in Ends
          BY <1>1, <1>4, PlacesAre DEF Bounds, Args
        <5>4. \E q \in Places[pi + 1] : k <= q
          BY <1>1, <5>3, StarTaken
        <5> QED
          BY <1>4, <1>7, <5>2, <5>3, <5>4 DEF Ends, Bounds, Args
      <4> QED
        BY <1>1, <1>4, <2>2, <3>2, <4>1, <4>2 DEF Complete
    <3>3. ASSUME Matches PROVE si \in Places[pi + 1] \/ \E k \in Places[pi + 1] : si + 1 <= k
      <4>1. PICK k \in Places[pi + 1] : si <= k
        BY <3>2, <3>3
      <4>2. k \in Int /\ si \in Int
        BY <1>4, <1>7 DEF Ends
      <4> QED
        BY <4>1, <4>2
    <3>4. FromStar(matchIdx + 1)' <=> \E k \in Places[pi + 1] : si + 1 <= k
      BY <1>2, <1>3, <1>4 DEF FromStar
    <3> QED
      BY <1>2, <1>3, <1>4, <3>1, <3>3, <3>4 DEF Complete
  <2> QED
    BY <2>1, <2>2
<1> QED
  BY <1>5, <1>9, <1>10 DEF IInv

LEMMA StepBacktrack ==
    ASSUME IInv, Backtrack
    PROVE  IInv'
<1>1. Bounds /\ Sound /\ Complete /\ Running /\ ~ Literal /\ ~ NextIs(Star) /\ starIdx # 0
  BY DEF IInv, Backtrack
<1>2. /\ str' = str /\ pattern' = pattern /\ starIdx' = starIdx /\ matchIdx' = matchIdx + 1
      /\ result' = result /\ si' = matchIdx + 1 /\ pi' = starIdx + 1
  BY DEF Backtrack
<1>3. Places' = Places /\ (Matches' <=> Matches) /\ (Plain' <=> Plain) /\ Args'
  BY <1>1, <1>2, Fixed
<1>4. si \in 1 .. Len(str) /\ result = "none" /\ matchIdx \in 1 .. si /\ starIdx \in 1 .. Len(pattern)
  BY <1>1 DEF Running, Bounds, Args
<1>5. Bounds'
  BY <1>1, <1>2, <1>3, <1>4 DEF Bounds, Args
<1>6. Places[starIdx + 1] \subseteq Ends
  <2>1. starIdx + 1 \in 1 .. Len(pattern) + 1 /\ Args
    BY <1>1, <1>4 DEF Bounds, Args
  <2> QED
    BY <2>1, PlacesAre
<1>7. FromStar(matchIdx + 1) => FromStar(matchIdx)
  BY <1>4, <1>6 DEF FromStar, Ends
<1>8. FromStar(matchIdx)' <=> FromStar(matchIdx + 1)
  BY <1>2, <1>3 DEF FromStar
<1>9. Sound'
  <2>1. CASE Open \in ToSet(str)
    BY <1>2, <2>1 DEF Sound
  <2>2. CASE Open \notin ToSet(str)
    <3>1. FromStar(matchIdx + 1) => Matches
      BY <1>1, <1>7, <2>2 DEF Sound
    <3>2. si' \in Places[pi'] => FromStar(matchIdx + 1)
      BY <1>1, <1>2, <1>4 DEF FromStar
    <3> QED
      BY <1>2, <1>3, <1>4, <1>8, <2>2, <3>1, <3>2 DEF Sound
  <2> QED
    BY <2>1, <2>2
<1>10. Complete'
  <2>1. CASE ~ Plain
    BY <1>3, <2>1 DEF Complete
  <2>2. CASE Plain
    <3>1. ~ NextIs(Open)
      <4>1. starIdx \in DOMAIN pattern /\ pattern[starIdx] = Star /\ starIdx < pi
        BY <1>1, <1>4 DEF Bounds, Args
      <4>2. NextIs(Open) => pi \in DOMAIN pattern /\ pattern[pi] = Open
        BY <1>1 DEF NextIs, Bounds, Args
      <4> QED
        BY <2>2, <4>1, <4>2 DEF Plain
    <3>2. si \notin Places[pi]
      BY <1>1, <3>1, NotTaken
    <3>3. Matches => FromStar(matchIdx + 1)
      BY <1>1, <1>4, <2>2, <3>2 DEF Complete
    <3>4. FromStar(matchIdx + 1)' <=> \E k \in Places[starIdx + 1] : matchIdx + 2 <= k
      BY <1>2, <1>3, <1>4 DEF FromStar
    <3>5. ASSUME Matches
          PROVE  \/ matchIdx + 1 \in Places[starIdx + 1]
                 \/ \E k \in Places[starIdx + 1] : matchIdx + 2 <= k
      <4>1. PICK k \in Places[starIdx + 1] : matchIdx + 1 <= k
        BY <3>3, <3>5 DEF FromStar
      <4>2. k \in Int /\ matchIdx \in Int
        BY <1>4, <1>6 DEF Ends
      <4> QED
        BY <4>1, <4>2
    <3>6. /\ pi' - (starIdx' + 1) = si' - matchIdx'
          /\ \A j \in starIdx' + 1 .. pi' - 1 : pattern[j] # Star
      BY <1>2, <1>4
    <3> QED
      BY <1>2, <1>3, <1>4, <3>4, <3>5, <3>6 DEF Complete
  <2> QED
    BY <2>1, <2>2
<1> QED
  BY <1>5, <1>9, <1>10 DEF IInv

LEMMA StepMatchClass ==
    ASSUME IInv, MatchClass
    PROVE  IInv'
<1>1. Bounds /\ Sound /\ Complete /\ Running /\ NextIs(Open) /\ starIdx = 0 /\ ClassTakes
  BY DEF IInv, MatchClass, AtClass
<1>2. /\ str' = str /\ pattern' = pattern /\ starIdx' = starIdx /\ matchIdx' = matchIdx
      /\ result' = result /\ si' = si + 1 /\ pi' = FindClose(pi) + 1
  BY DEF MatchClass
<1>3. Places' = Places /\ (Matches' <=> Matches) /\ (Plain' <=> Plain) /\ Args'
  BY <1>1, <1>2, Fixed
<1>4. /\ FindClose(pi) \in pi .. Len(pattern)
      /\ si \in Places[pi] <=> si' \in Places[pi']
  BY <1>1, <1>2, ClassTaken
<1>5. result = "none" /\ si \in 1 .. Len(str)
  BY <1>1 DEF Running, Bounds, Args
<1>6. Bounds'
  <2>1. pi \in 1 .. Len(pattern) + 1 /\ Len(pattern) \in Nat /\ Len(str) \in Nat /\ matchIdx \in 1 .. si
    BY <1>1 DEF Bounds, Args
  <2>2. pi' \in 1 .. Len(pattern) + 1 /\ si' \in 1 .. Len(str) + 1 /\ matchIdx \in 1 .. si'
    BY <1>2, <1>4, <1>5, <2>1
  <2> QED
    BY <1>1, <1>2, <1>3, <2>2 DEF Bounds
<1>7. ~ FromStar(matchIdx)' /\ ~ FromStar(matchIdx + 1) /\ ~ FromStar(matchIdx + 1)'
  BY <1>1, <1>2 DEF FromStar
<1>8. Sound'
  BY <1>1, <1>2, <1>3, <1>4, <1>5, <1>7 DEF Sound
<1>9. Complete'
  BY <1>1, <1>2, <1>3, <1>4, <1>5, <1>7 DEF Complete
<1> QED
  BY <1>6, <1>8, <1>9 DEF IInv

LEMMA StepMismatch ==
    ASSUME IInv, Mismatch
    PROVE  IInv'
<1>1. /\ Bounds /\ Sound /\ Complete /\ Running /\ ~ Literal /\ ~ NextIs(Star) /\ starIdx = 0
      /\ NextIs(Open) => ~ ClassTakes
  BY DEF IInv, Mismatch
<1>2. /\ str' = str /\ pattern' = pattern /\ starIdx' = starIdx /\ matchIdx' = matchIdx
      /\ result' = "mismatch" /\ si' = si /\ pi' = pi
  BY DEF Mismatch
<1>3. Places' = Places /\ (Matches' <=> Matches) /\ (Plain' <=> Plain) /\ Args'
  BY <1>1, <1>2, Fixed
<1>4. si \notin Places[pi] /\ result = "none"
  BY <1>1, NotTaken DEF Running
<1>5. Bounds'
  BY <1>1, <1>2, <1>3 DEF Bounds, Args
<1>6. ~ FromStar(matchIdx)' /\ ~ FromStar(matchIdx + 1)
  BY <1>1, <1>2 DEF FromStar
<1>7. Sound'
  BY <1>2, <1>6 DEF Sound
<1>8. Complete'
  BY <1>1, <1>2, <1>3, <1>4, <1>6 DEF Complete
<1> QED
  BY <1>5, <1>7, <1>8 DEF IInv

LEMMA StepFinish ==
    ASSUME IInv, Finish
    PROVE  IInv'
<1>1. Bounds /\ Sound /\ Complete /\ result = "none" /\ si > Len(str)
  BY DEF IInv, Finish
<1>2. /\ str' = str /\ pattern' = pattern /\ starIdx' = starIdx /\ matchIdx' = matchIdx
      /\ si' = si /\ pi' = pi
      /\ result' = IF \A i \in pi .. Len(pattern) : pattern[i] = Star THEN "match" ELSE "mismatch"
  BY DEF Finish
<1>3. Places' = Places /\ (Matches' <=> Matches) /\ (Plain' <=> Plain) /\ Args'
  BY <1>1, <1>2, Fixed
<1>4. si = Len(str) + 1 /\ pi \in 1 .. Len(pattern) + 1 /\ Args
  BY <1>1 DEF Bounds, Args
<1>5. result' = IF si \in Places[pi] THEN "match" ELSE "mismatch"
  BY <1>2, <1>4, OnlyStars
<1>6. Bounds'
  <2>1. result' \in {"none", "match", "mismatch"}
    BY <1>5
  <2> QED
    BY <1>1, <1>2, <1>3, <2>1 DEF Bounds
<1>7. FromStar(matchIdx)' <=> FromStar(matchIdx)
  BY <1>2, <1>3 DEF FromStar
<1>8. Sound'
  BY <1>1, <1>2, <1>3, <1>5, <1>7 DEF Sound
<1>9. Complete'
  <2>1. CASE ~ Plain
    BY <1>3, <2>1 DEF Complete
  <2>2. CASE Plain
    <3>1. ~ FromStar(matchIdx + 1)
      <4> SUFFICES ASSUME FromStar(matchIdx + 1) PROVE FALSE
        OBVIOUS
      <4>1. /\ starIdx # 0
            /\ pi - (starIdx + 1) = si - matchIdx
            /\ \A j \in starIdx + 1 .. pi - 1 : pattern[j] # Star
        BY <1>1, <2>2 DEF Complete, FromStar
      <4>2. PICK k \in Places[pi] : si + 1 <= k
        BY <1>1, <2>2, <4>1, BehindStar
      <4>3. k \in Ends
        BY <1>4, PlacesAre
      <4> QED
        BY <1>4, <4>2, <4>3 DEF Ends, Args
    <3>2. Matches => si \in Places[pi]
      BY <1>1, <2>2, <3>1 DEF Complete
    <3>3. starIdx' # 0 => /\ pi' - (starIdx' + 1) = si' - matchIdx'
                         /\ \A j \in starIdx' + 1 .. pi' - 1 : pattern[j] # Star
      BY <1>1, <1>2, <2>2 DEF Complete
    <3> QED
      BY <1>2, <1>3, <1>5, <3>2, <3>3 DEF Complete
  <2> QED
    BY <2>1, <2>2
<1> QED
  BY <1>6, <1>8, <1>9 DEF IInv

LEMMA StepNext ==
    ASSUME IInv, [Next]_vars
    PROVE  IInv'
<1>1. CASE UNCHANGED vars
  <2>1. /\ str' = str /\ pattern' = pattern /\ starIdx' = starIdx /\ matchIdx' = matchIdx
        /\ si' = si /\ pi' = pi /\ result' = result
    BY <1>1 DEF vars
  <2>2. Places' = Places /\ (Matches' <=> Matches) /\ (Plain' <=> Plain)
    BY <2>1, Fixed DEF IInv
  <2>3. Bounds' /\ Sound' /\ Complete'
    BY <2>1, <2>2 DEF IInv, Bounds, Args, Sound, Complete, FromStar
  <2> QED
    BY <2>3 DEF IInv
<1>2. CASE MatchOne
  BY <1>2, StepMatchOne
<1>3. CASE MeetStar
  BY <1>3, StepMeetStar
<1>4. CASE Backtrack
  BY <1>4, StepBacktrack
<1>5. CASE MatchClass
  BY <1>5, StepMatchClass
<1>6. CASE Mismatch
  BY <1>6, StepMismatch
<1>7. CASE Finish
  BY <1>7, StepFinish
<1> QED
  BY <1>1, <1>2, <1>3, <1>4, <1>5, <1>6, <1>7 DEF Next

LEMMA Always == Spec => []IInv
BY Initially, StepNext, PTL DEF Spec

-----------------------------------------------------------------------------
\* Whatever the key and the pattern: MatchGlob says "match" of a key that has no opening
\* bracket only if the pattern describes it, however often it went back to a star and
\* although it compares stars, brackets and carets with the key before it reads them.
THEOREM MatchIsDescribed == Spec => []NoFalseMatch
<1>1. IInv => NoFalseMatch
  BY DEF IInv, Sound, NoFalseMatch
<1> QED
  BY <1>1, Always, PTL

\* Whatever the key and the pattern: going back to the last star alone loses no match. Of a
\* key without stars and opening brackets, and a pattern with no class behind a star,
\* MatchGlob says exactly what the pattern describes.
THEOREM MatchIsDecided == Spec => []MatchExact
<1>1. IInv => MatchExact
  <2> SUFFICES ASSUME IInv, result # "none", Plain PROVE result = "match" <=> Matches
    BY DEF MatchExact, Plain
  <2>1. Open \notin ToSet(str)
    BY DEF Plain
  <2>2. result \in {"match", "mismatch"}
    BY DEF IInv, Bounds
  <2> QED
    BY <2>1, <2>2 DEF IInv, Sound, Complete
<1> QED
  BY <1>1, Always, PTL
=============================================================================
