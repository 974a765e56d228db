------------------------- MODULE CheckStonesProofs -------------------------
(* What the judge finds and what it misses, for boards and lines of any    *)
(* size.                                                                   *)
EXTENDS MCCheckStones, WellFoundedInduction, TLAPS

(* Division by the length of a line.                                       *)
LEMMA Monotone ==
  ASSUME NEW a \in Int, NEW c \in Int, a < c
  PROVE  K * a + K <= K * c
  <1>1. K \in Nat \ {0} /\ c - a - 1 \in Nat
    BY SizeAssumption
  <1>2. K * (c - a - 1) >= 0
    BY <1>1
  <1>3. K * (c - a - 1) = K * c - K * a - K
    BY <1>1
  <1>4. K * a \in Int /\ K * c \in Int
    BY <1>1
  <1> QED
    BY <1>1, <1>2, <1>3, <1>4

LEMMA Divided ==
  ASSUME NEW q \in Nat, NEW r \in 0..(K - 1)
  PROVE  (K * q + r) % K = r /\ (K * q + r) \div K = q
  <1> DEFINE a == K * q + r
             d == a \div K
             m == a % K
  <1>1. K \in Nat \ {0} /\ a \in Nat /\ K * q \in Nat
    BY SizeAssumption
  <1>2. d \in Int /\ m \in 0..(K - 1) /\ a = K * d + m /\ K * d \in Int
    <2> HIDE DEF a
    <2> QED
      BY <1>1
  <1> HIDE DEF d, m
  <1>3. ~(q < d)
    BY <1>1, <1>2, Monotone
  <1>4. ~(d < q)
    BY <1>1, <1>2, Monotone
  <1> QED
    BY <1>1, <1>2, <1>3, <1>4 DEF d, m
-----------------------------------------------------------------------------
(* Every set of numbers has a least one.                                   *)
LEMMA Least ==
  ASSUME NEW T \in SUBSET Nat, T # {}
  PROVE  \E n \in T : \A m \in T : n <= m
  <1> DEFINE R == OpToRel(<, Nat)
  <1>1. \A m, n \in Nat : m < n => <<m, n>> \in R
    BY DEF OpToRel
  <1>2. IsWellFoundedOn(R, Nat)
    BY NatLessThanWellFounded
  <1> HIDE DEF R
  <1>3. PICK n \in T : \A m \in T : ~(<<m, n>> \in R)
    BY <1>2, WFMin
  <1>4. ASSUME NEW m \in T
        PROVE  n <= m
    <2>1. m \in Nat /\ n \in Nat
      OBVIOUS
    <2>2. ~(m < n)
      BY <1>1, <1>3, <2>1
    <2> QED
      BY <2>1, <2>2
  <1> QED
    BY <1>4
-----------------------------------------------------------------------------
(* What the running count is: n is the count after the i-th cell of walk s *)
(* when the last n cells, and no more of the walk, have a stone of k.      *)
RunOf(b, k, s, i, n) ==
  /\ n \in 0..i
  /\ \A m \in 0..(n - 1) : b[s[i - m]] = k
  /\ n = i \/ b[s[i - n]] # k

LEMMA RunExists ==
  ASSUME NEW b, NEW k, NEW s, NEW i \in Nat
  PROVE  \E n : RunOf(b, k, s, i, n)
  <1> DEFINE T == {n \in 0..i : n = i \/ b[s[i - n]] # k}
  <1>1. T \in SUBSET Nat /\ T # {}
    <2>1. i \in T
      OBVIOUS
    <2> QED
      BY <2>1
  <1>2. PICK n \in T : \A m \in T : n <= m
    <2> HIDE DEF T
    <2> QED
      BY <1>1, Least
  <1>3. ASSUME NEW m \in 0..(n - 1)
        PROVE  b[s[i - m]] = k
    <2>1. n \in 0..i
      OBVIOUS
    <2>2. m \in 0..i /\ ~(n <= m) /\ m # i
      BY <2>1
    <2>3. m \notin T
      <3> HIDE DEF T
      <3> QED
        BY <1>2, <2>2
    <2> QED
      BY <2>2, <2>3
  <1> QED
    BY <1>3 DEF RunOf

LEMMA RunUnique ==
  ASSUME NEW b, NEW k, NEW s, NEW i \in Nat, NEW n, NEW l,
         RunOf(b, k, s, i, n), RunOf(b, k, s, i, l)
  PROVE  n = l
  <1>1. n \in 0..i /\ l \in 0..i
    BY DEF RunOf
  <1>2. ~(n < l)
    <2> SUFFICES ASSUME n < l
                 PROVE  FALSE
      OBVIOUS
    <2>1. n \in 0..(l - 1) /\ n # i
      BY <1>1
    <2> QED
      BY <2>1 DEF RunOf
  <1>3. ~(l < n)
    <2> SUFFICES ASSUME l < n
                 PROVE  FALSE
      OBVIOUS
    <2>1. l \in 0..(n - 1) /\ l # i
      BY <1>1
    <2> QED
      BY <2>1 DEF RunOf
  <1> QED
    BY <1>1, <1>2, <1>3

(* One cell further, the run grows by one or is over.                      *)
LEMMA RunStep ==
  ASSUME NEW b, NEW k, NEW s, NEW i \in Nat
  PROVE  /\ i = 0 => RunOf(b, k, s, i, 0)
         /\ i > 0 /\ b[s[i]] # k => RunOf(b, k, s, i, 0)
         /\ \A n : i > 0 /\ b[s[i]] = k /\ RunOf(b, k, s, i - 1, n)
                     => RunOf(b, k, s, i, n + 1)
  <1>1. i = 0 => RunOf(b, k, s, i, 0)
    BY DEF RunOf
  <1>2. i > 0 /\ b[s[i]] # k => RunOf(b, k, s, i, 0)
    <2>1. i - 0 = i /\ 0 \in 0..i /\ 0..(0 - 1) = {}
      OBVIOUS
    <2> QED
      BY <2>1 DEF RunOf
  <1>3. ASSUME NEW n, i > 0, b[s[i]] = k, RunOf(b, k, s, i - 1, n)
        PROVE  RunOf(b, k, s, i, n + 1)
    <2>1. /\ n \in 0..(i - 1)
          /\ \A m \in 0..(n - 1) : b[s[(i - 1) - m]] = k
          /\ n = i - 1 \/ b[s[(i - 1) - n]] # k
      BY <1>3 DEF RunOf
    <2>2. n + 1 \in 0..i /\ (i - 1) - n = i - (n + 1)
      BY <1>3, <2>1
    <2>3. ASSUME NEW m \in 0..((n + 1) - 1)
          PROVE  b[s[i - m]] = k
      <3>1. CASE m = 0
        BY <1>3, <3>1
      <3>2. CASE m > 0
        <4>1. m - 1 \in 0..(n - 1) /\ (i - 1) - (m - 1) = i - m
          BY <2>1, <3>2
        <4> QED
          BY <2>1, <4>1
      <3> QED
        BY <2>1, <3>1, <3>2
    <2>4. n + 1 = i \/ b[s[i - (n + 1)]] # k
      BY <2>1, <2>2
    <2> QED
      BY <2>2, <2>3, <2>4 DEF RunOf
  <1> QED
    BY <1>1, <1>2, <1>3

(* The count the code keeps is that run.                                   *)
LEMMA CountIsRun ==
  ASSUME NEW b, NEW k, NEW s, Len(s) \in Nat
  PROVE  \A i \in 0..Len(s) : RunOf(b, k, s, i, Count(b, k, s)[i])
  <1> DEFINE L == Len(s)
             Next1(f) == [i \in 0..L |->
                           IF i > 0 /\ b[s[i]] = k THEN f[i - 1] + 1 ELSE 0]
             g == Count(b, k, s)
             h == [i \in 0..L |-> CHOOSE n : RunOf(b, k, s, i, n)]
  <1>1. g = CHOOSE f : f = Next1(f)
    BY DEF Count
  <1>2. \A i \in 0..L : RunOf(b, k, s, i, h[i])
    BY RunExists
  <1>3. h = Next1(h)
    <2> SUFFICES ASSUME NEW i \in 0..L
                 PROVE  h[i] = Next1(h)[i]
      OBVIOUS
    <2>1. i \in Nat /\ RunOf(b, k, s, i, h[i])
      BY <1>2
    <2>2. RunOf(b, k, s, i, Next1(h)[i])
      <3>1. CASE i > 0 /\ b[s[i]] = k
        <4>1. i - 1 \in 0..L
          BY <3>1
        <4>2. RunOf(b, k, s, i - 1, h[i - 1])
          BY <1>2, <4>1
        <4>3. Next1(h)[i] = h[i - 1] + 1
          BY <3>1
        <4> HIDE DEF h, Next1
        <4> QED
          BY <2>1, <3>1, <4>2, <4>3, RunStep
      <3>2. CASE ~(i > 0 /\ b[s[i]] = k)
        <4>1. Next1(h)[i] = 0
          BY <3>2
        <4> HIDE DEF h, Next1
        <4> QED
          BY <2>1, <3>2, <4>1, RunStep
      <3> QED
        BY <3>1, <3>2
    <2> HIDE DEF h, Next1
    <2> QED
      BY <2>1, <2>2, RunUnique
  <1>4. g = Next1(g)
    <2> HIDE DEF h, Next1, g
    <2> QED
      BY <1>1, <1>3
  <1> HIDE DEF g
  <1> DEFINE T == {i \in 0..L : ~RunOf(b, k, s, i, g[i])}
  <1>5. T = {}
    <2> SUFFICES ASSUME T # {}
                 PROVE  FALSE
      OBVIOUS
    <2>1. T \in SUBSET Nat
      OBVIOUS
    <2>2. PICK i \in T : \A m \in T : i <= m
      <3> HIDE DEF T
      <3> QED
        BY <2>1, Least
    <2>3. i \in 0..L /\ i \in Nat /\ ~RunOf(b, k, s, i, g[i])
      OBVIOUS
    <2>4. g[i] = IF i > 0 /\ b[s[i]] = k THEN g[i - 1] + 1 ELSE 0
      BY <1>4, <2>3
    <2>5. CASE i > 0 /\ b[s[i]] = k
      <3>1. i - 1 \in 0..L /\ ~(i <= i - 1)
        BY <2>3, <2>5
      <3>2. RunOf(b, k, s, i - 1, g[i - 1])
        BY <2>2, <3>1
      <3> HIDE DEF T
      <3> QED
        BY <2>3, <2>4, <2>5, <3>2, RunStep
    <2>6. CASE ~(i > 0 /\ b[s[i]] = k)
      <3> HIDE DEF T
      <3> QED
        BY <2>3, <2>4, <2>6, RunStep
    <2> QED
      BY <2>5, <2>6
  <1> QED
    BY <1>5 DEF g
-----------------------------------------------------------------------------
(* K stones of k in the cells of walk s that end with the i-th.            *)
EndsLine(b, k, s, i) == K <= i /\ \A m \in 0..(K - 1) : b[s[i - m]] = k

(* What is counted as a line is one.                                       *)
LEMMA HitIsLine ==
  ASSUME NEW b, NEW k, NEW s, Len(s) \in Nat, NEW step, Hit(b, k, s, step)
  PROVE  \E i \in 1..Len(s) : i % step = 0 /\ EndsLine(b, k, s, i)
  <1>1. PICK i \in 1..Len(s) : i % step = 0 /\ Count(b, k, s)[i] = K
    BY DEF Hit
  <1>2. RunOf(b, k, s, i, K)
    BY <1>1, CountIsRun
  <1>3. EndsLine(b, k, s, i)
    BY <1>2, SizeAssumption DEF RunOf, EndsLine
  <1> QED
    BY <1>1, <1>3

(* A line is counted K at its end, or one stone more stands before it.     *)
LEMMA LineIsCounted ==
  ASSUME NEW b, NEW k, NEW s, Len(s) \in Nat,
         NEW i \in 1..Len(s), EndsLine(b, k, s, i)
  PROVE  /\ Count(b, k, s)[i] \in K..i
         /\ Count(b, k, s)[i] # K => K < i /\ b[s[i - K]] = k
  <1> DEFINE n == Count(b, k, s)[i]
  <1>1. RunOf(b, k, s, i, n)
    BY CountIsRun
  <1> HIDE DEF n
  <1>2. n \in 0..i /\ K \in Nat \ {0}
    BY <1>1, SizeAssumption DEF RunOf
  <1>3. K <= n
    <2> SUFFICES ASSUME n < K
                 PROVE  FALSE
      BY <1>2
    <2>1. n \in 0..(K - 1) /\ n # i
      BY <1>2 DEF EndsLine
    <2> QED
      BY <1>1, <2>1 DEF RunOf, EndsLine
  <1>4. ASSUME n # K
        PROVE  K < i /\ b[s[i - K]] = k
    <2>1. K \in 0..(n - 1) /\ K < i
      BY <1>2, <1>3, <1>4
    <2> QED
      BY <1>1, <2>1 DEF RunOf
  <1> QED
    BY <1>2, <1>3, <1>4 DEF n

(* A walk that is looked at after every cell misses no line.               *)
LEMMA EveryCellLookedAt ==
  ASSUME NEW b, NEW k, NEW s, Len(s) \in Nat,
         NEW i \in 1..Len(s), EndsLine(b, k, s, i)
  PROVE  Hit(b, k, s, 1)
  <1> DEFINE n == Count(b, k, s)[i]
             j == i - n + K
  <1>1. n \in K..i /\ RunOf(b, k, s, i, n)
    BY LineIsCounted, CountIsRun
  <1> HIDE DEF n
  <1>2. j \in 1..i /\ K \in Nat \ {0}
    BY <1>1, SizeAssumption
  <1>3. RunOf(b, k, s, j, K)
    <2>1. K \in 0..j
      BY <1>1, <1>2
    <2>2. ASSUME NEW m \in 0..(K - 1)
          PROVE  b[s[j - m]] = k
      <3>1. n - K + m \in 0..(n - 1) /\ j - m = i - (n - K + m)
        BY <1>1, <1>2
      <3> QED
        BY <1>1, <3>1 DEF RunOf
    <2>3. K = j \/ b[s[j - K]] # k
      <3>1. j - K = i - n
        BY <1>1, <1>2
      <3>2. n = i => K = j
        BY <1>1, <1>2
      <3> QED
        BY <1>1, <3>1, <3>2 DEF RunOf
    <2> QED
      BY <2>1, <2>2, <2>3 DEF RunOf
  <1>4. j \in 1..Len(s) /\ j \in Nat
    BY <1>2
  <1> HIDE DEF j
  <1>5. Count(b, k, s)[j] = K
    BY <1>3, <1>4, CountIsRun, RunUnique
  <1>6. j % 1 = 0
    BY <1>4
  <1> QED
    BY <1>4, <1>5, <1>6 DEF Hit
-----------------------------------------------------------------------------
(* The walks: their length, and the cells of a line in them.               *)
Row(x)    == [j \in 1..N |-> <<x, j - 1>>]
Column(y) == [j \in 1..N |-> <<j - 1, y>>]

(* The walk through the segments that start in row x, slanting as d does:  *)
(* segment q starts with its cell of row x.                                *)
Slant(x, d) ==
  [j \in 1..(Segments * K) |->
     IF d = <<1, 1>> THEN <<x + Place(j), Segment(j) + Place(j)>>
                     ELSE <<x + Place(j), (K - 1) + Segment(j) - Place(j)>>]

LEMMA Walks ==
  /\ Rows = {Row(x) : x \in Index}
  /\ Columns = {Column(y) : y \in Index}
  /\ Diagonals = {Slant(x, <<1, 1>>) : x \in 0..(N - K)}
  /\ Antidiagonals = {Slant(x, <<1, -1>>) : x \in 0..(N - K)}
  <1>1. Rows = {Row(x) : x \in Index}
    BY DEF Rows, Row
  <1>2. Columns = {Column(y) : y \in Index}
    BY DEF Columns, Column
  <1>3. Diagonals = {Slant(x, <<1, 1>>) : x \in 0..(N - K)}
    BY DEF Diagonals, Slant
  <1>4. \A x : Slant(x, <<1, -1>>) =
                 [j \in 1..(Segments * K) |->
                    <<x + Place(j), (K - 1) + Segment(j) - Place(j)>>]
    <2>1. <<1, -1>> # <<1, 1>>
      OBVIOUS
    <2> QED
      BY <2>1 DEF Slant
  <1>5. Antidiagonals = {Slant(x, <<1, -1>>) : x \in 0..(N - K)}
    BY <1>4 DEF Antidiagonals
  <1> QED
    BY <1>1, <1>2, <1>3, <1>5

LEMMA WalkLengths ==
  /\ \A x : Len(Row(x)) = N /\ Len(Column(x)) = N
  /\ \A d : \A x \in 0..(N - K) :
       Segments * K \in Nat \ {0} /\ Len(Slant(x, d)) = Segments * K
  <1>1. N \in Nat /\ K \in Nat \ {0}
    BY SizeAssumption
  <1>2. \A x : Len(Row(x)) = N /\ Len(Column(x)) = N
    BY <1>1 DEF Row, Column
  <1>3. ASSUME NEW d, NEW x \in 0..(N - K)
        PROVE  Segments * K \in Nat \ {0} /\ Len(Slant(x, d)) = Segments * K
    <2>1. Segments \in Nat \ {0}
      BY <1>1 DEF Segments
    <2>2. Segments * K \in Nat \ {0}
      BY <1>1, <2>1
    <2> QED
      BY <2>2 DEF Slant
  <1> QED
    BY <1>2, <1>3

(* The r-th cell of the line from p in direction d.                        *)
Along(p, d, r) == <<p[1] + r * d[1], p[2] + r * d[2]>>

LEMMA LineCells ==
  ASSUME NEW b, NEW k, NEW p, NEW d
  PROVE  Line(b, k, p, d) <=>
           \A r \in 0..(K - 1) : Along(p, d, r) \in Cells /\ b[Along(p, d, r)] = k
  BY DEF Line, Along

LEMMA Directions ==
  ASSUME NEW x \in Int, NEW y \in Int, NEW r \in Int
  PROVE  /\ Along(<<x, y>>, <<0, 1>>, r) = <<x, y + r>>
         /\ Along(<<x, y>>, <<1, 0>>, r) = <<x + r, y>>
         /\ Along(<<x, y>>, <<1, 1>>, r) = <<x + r, y + r>>
         /\ Along(<<x, y>>, <<1, -1>>, r) = <<x + r, y - r>>
  BY DEF Along

(* Segment q that starts in row x starts in column q, or in the column     *)
(* K - 1 further when it slants to the left.                               *)
First(q, d) == IF d = <<1, 1>> THEN q ELSE K - 1 + q

LEMMA SlantCell ==
  ASSUME NEW x \in 0..(N - K), NEW d \in Slanted,
         NEW q \in 0..(N - K), NEW r \in 0..(K - 1)
  PROVE  /\ K * q + r + 1 \in 1..(Segments * K)
         /\ Slant(x, d)[K * q + r + 1] = Along(<<x, First(q, d)>>, d, r)
         /\ Along(<<x, First(q, d)>>, d, r) \in Cells
  <1> DEFINE j == K * q + r + 1
  <1>1. N \in Nat /\ K \in Nat \ {0} /\ Segments \in Nat \ {0} /\ q < Segments
    BY SizeAssumption DEF Segments
  <1>2. K * q \in Nat /\ Segments * K \in Nat
    BY <1>1
  <1>3. K * q + K <= Segments * K
    <2>1. K * q + K <= K * Segments
      BY <1>1, Monotone
    <2> QED
      BY <1>1, <2>1
  <1>4. j \in 1..(Segments * K)
    <2> HIDE DEF Segments
    <2> QED
      BY <1>1, <1>2, <1>3
  <1>5. Place(j) = r /\ Segment(j) = q
    <2>1. j - 1 = K * q + r
      BY <1>1, <1>2
    <2> QED
      BY <2>1, Divided DEF Place, Segment
  <1>6. d = <<1, 1>> \/ d = <<1, -1>>
    BY DEF Slanted
  <1>7. <<1, -1>> # <<1, 1>>
    OBVIOUS
  <1>8. x \in Int /\ q \in Int /\ r \in Int /\ First(q, d) \in Int
    BY <1>1 DEF First
  <1> HIDE DEF j
  <1>9. CASE d = <<1, 1>>
    <2>1. Slant(x, d)[j] = <<x + r, q + r>>
      BY <1>4, <1>5, <1>9 DEF Slant
    <2>2. Along(<<x, First(q, d)>>, d, r) = <<x + r, q + r>>
      BY <1>8, <1>9, Directions DEF First
    <2>3. x + r \in Index /\ q + r \in Index
      BY <1>1 DEF Index
    <2> QED
      BY <1>4, <2>1, <2>2, <2>3 DEF Cells, j
  <1>10. CASE d = <<1, -1>>
    <2>1. Slant(x, d)[j] = <<x + r, (K - 1) + q - r>>
      BY <1>4, <1>5, <1>7, <1>10 DEF Slant
    <2>2. Along(<<x, First(q, d)>>, d, r) = <<x + r, (K - 1) + q - r>>
      <3>1. First(q, d) = K - 1 + q
        BY <1>7, <1>10 DEF First
      <3>2. Along(<<x, First(q, d)>>, d, r) = <<x + r, First(q, d) - r>>
        BY <1>8, <1>10, Directions
      <3>3. First(q, d) - r = (K - 1) + q - r
        BY <1>1, <1>8, <3>1
      <3> QED
        BY <3>2, <3>3
    <2>3. x + r \in Index /\ (K - 1) + q - r \in Index
      BY <1>1 DEF Index
    <2> QED
      BY <1>4, <2>1, <2>2, <2>3 DEF Cells, j
  <1> QED
    BY <1>6, <1>9, <1>10

(* The cells looked at in such a walk are the ends of its segments.        *)
LEMMA SegmentEnd ==
  ASSUME NEW i \in 1..(Segments * K), i % K = 0, K <= N
  PROVE  \E q \in 0..(N - K) : i = K * q + K
  <1> DEFINE e == i \div K
  <1>1. N \in Nat /\ K \in Nat \ {0} /\ Segments \in Int /\ i \in Nat \ {0}
    BY SizeAssumption DEF Segments
  <1>2. e \in Int /\ i = K * e
    BY <1>1
  <1> HIDE DEF e
  <1>3. e > 0
    <2> SUFFICES ASSUME e <= 0
                 PROVE  FALSE
      BY <1>2
    <2>1. e < 1 /\ K * 1 = K
      BY <1>1, <1>2
    <2>2. K * e + K <= K
      BY <1>2, <2>1, Monotone
    <2> QED
      BY <1>1, <1>2, <2>2
  <1>4. ~(Segments < e)
    <2> SUFFICES ASSUME Segments < e
                 PROVE  FALSE
      OBVIOUS
    <2>1. K * Segments + K <= K * e
      BY <1>1, <1>2, Monotone
    <2>2. K * Segments = Segments * K /\ K * Segments \in Int
      BY <1>1
    <2> QED
      BY <1>1, <1>2, <2>1, <2>2
  <1>5. e - 1 \in 0..(N - K)
    BY <1>1, <1>2, <1>3, <1>4 DEF Segments
  <1>6. K * (e - 1) + K = K * e
    BY <1>1, <1>2
  <1> QED
    BY <1>2, <1>5, <1>6
-----------------------------------------------------------------------------
(* Whatever the board, a line that is found is there.                      *)
LEMMA FoundIsThere ==
  ASSUME NEW b, NEW k, HasLine(b, k)
  PROVE  FiveInRow(b, k)
  <1>1. N \in Nat /\ K \in Nat \ {0}
    BY SizeAssumption
  <1>2. CASE \E s \in Rows : Hit(b, k, s, 1)
    <2>1. PICK x \in Index : Hit(b, k, Row(x), 1)
      BY <1>2, Walks
    <2>2. Len(Row(x)) = N
      BY WalkLengths
    <2>3. PICK i \in 1..N : EndsLine(b, k, Row(x), i)
      BY <1>1, <2>1, <2>2, HitIsLine
    <2> DEFINE p == <<x, i - K>>
    <2>4. K <= i /\ x \in Index /\ i \in 1..N /\ x \in Int /\ i - K \in Index
      BY <1>1, <2>3 DEF EndsLine, Index
    <2>5. ASSUME NEW r \in 0..(K - 1)
          PROVE  Along(p, <<0, 1>>, r) \in Cells /\ b[Along(p, <<0, 1>>, r)] = k
      <3>1. /\ i - K + r + 1 \in 1..N /\ i - K + r \in Index
            /\ K - 1 - r \in 0..(K - 1) /\ i - (K - 1 - r) = i - K + r + 1
            /\ (i - K + r + 1) - 1 = i - K + r /\ r \in Int
        BY <1>1, <2>4 DEF Index
      <3>2. Row(x)[i - K + r + 1] = <<x, i - K + r>>
        BY <3>1 DEF Row
      <3>3. Along(p, <<0, 1>>, r) = <<x, i - K + r>>
        <4>1. i - K \in Int /\ x \in Int /\ r \in Int
          BY <2>4, <3>1 DEF Index
        <4> HIDE DEF p
        <4>2. Along(<<x, i - K>>, <<0, 1>>, r) = <<x, i - K + r>>
          BY <4>1, Directions
        <4> QED
          BY <4>2 DEF p
      <3>4. b[Row(x)[i - K + r + 1]] = k
        BY <2>3, <3>1 DEF EndsLine
      <3> QED
        BY <2>4, <3>1, <3>2, <3>3, <3>4 DEF Cells
    <2>6. p \in Cells /\ <<0, 1>> \in Straight
      BY <2>4 DEF Cells, Straight
    <2> HIDE DEF p
    <2>7. Line(b, k, p, <<0, 1>>)
      BY <2>5, LineCells
    <2> QED
      BY <2>6, <2>7 DEF FiveInRow
  <1>3. CASE \E s \in Columns : Hit(b, k, s, 1)
    <2>1. PICK y \in Index : Hit(b, k, Column(y), 1)
      BY <1>3, Walks
    <2>2. Len(Column(y)) = N
      BY WalkLengths
    <2>3. PICK i \in 1..N : EndsLine(b, k, Column(y), i)
      BY <1>1, <2>1, <2>2, HitIsLine
    <2> DEFINE p == <<i - K, y>>
    <2>4. K <= i /\ y \in Index /\ i \in 1..N /\ y \in Int /\ i - K \in Index
      BY <1>1, <2>3 DEF EndsLine, Index
    <2>5. ASSUME NEW r \in 0..(K - 1)
          PROVE  Along(p, <<1, 0>>, r) \in Cells /\ b[Along(p, <<1, 0>>, r)] = k
      <3>1. /\ i - K + r + 1 \in 1..N /\ i - K + r \in Index
            /\ K - 1 - r \in 0..(K - 1) /\ i - (K - 1 - r) = i - K + r + 1
            /\ (i - K + r + 1) - 1 = i - K + r /\ r \in Int
        BY <1>1, <2>4 DEF Index
      <3>2. Column(y)[i - K + r + 1] = <<i - K + r, y>>
        BY <3>1 DEF Column
      <3>3. Along(p, <<1, 0>>, r) = <<i - K + r, y>>
        <4>1. i - K \in Int /\ y \in Int /\ r \in Int
          BY <2>4, <3>1 DEF Index
        <4> HIDE DEF p
        <4>2. Along(<<i - K, y>>, <<1, 0>>, r) = <<i - K + r, y>>
          BY <4>1, Directions
        <4> QED
          BY <4>2 DEF p
      <3>4. b[Column(y)[i - K + r + 1]] = k
        BY <2>3, <3>1 DEF EndsLine
      <3> QED
        BY <2>4, <3>1, <3>2, <3>3, <3>4 DEF Cells
    <2>6. p \in Cells /\ <<1, 0>> \in Straight
      BY <2>4 DEF Cells, Straight
    <2> HIDE DEF p
    <2>7. Line(b, k, p, <<1, 0>>)
      BY <2>5, LineCells
    <2> QED
      BY <2>6, <2>7 DEF FiveInRow
  <1>4. CASE \E s \in Diagonals \cup Antidiagonals : Hit(b, k, s, K)
    <2>1. PICK x \in 0..(N - K), d \in Slanted : Hit(b, k, Slant(x, d), K)
      BY <1>4, Walks DEF Slanted
    <2>2. Len(Slant(x, d)) = Segments * K /\ Segments * K \in Nat
      BY WalkLengths
    <2>3. PICK i \in 1..(Segments * K) :
            i % K = 0 /\ EndsLine(b, k, Slant(x, d), i)
      BY <2>1, <2>2, HitIsLine
    <2>4. K <= N
      BY <1>1
    <2>5. PICK q \in 0..(N - K) : i = K * q + K
      BY <2>3, <2>4, SegmentEnd
    <2> DEFINE p == <<x, First(q, d)>>
    <2>6. ASSUME NEW r \in 0..(K - 1)
          PROVE  Along(p, d, r) \in Cells /\ b[Along(p, d, r)] = k
      <3>1. K * q \in Int /\ r \in Int
        BY <1>1
      <3>2. K - 1 - r \in 0..(K - 1) /\ i - (K - 1 - r) = K * q + r + 1
        BY <1>1, <2>5, <3>1
      <3>3. b[Slant(x, d)[K * q + r + 1]] = k
        BY <2>3, <3>2 DEF EndsLine
      <3> QED
        BY <3>3, SlantCell
    <2>7. p \in Cells
      <3>1. 0 \in 0..(K - 1) /\ x \in Int /\ First(q, d) \in Int
        BY <1>1 DEF First
      <3>2. Along(p, d, 0) = p
        <4>1. /\ Along(p, <<1, 1>>, 0) = <<x + 0, First(q, d) + 0>>
              /\ Along(p, <<1, -1>>, 0) = <<x + 0, First(q, d) - 0>>
          BY <3>1, 0 \in Int, Directions
        <4>2. x + 0 = x /\ First(q, d) + 0 = First(q, d)
              /\ First(q, d) - 0 = First(q, d)
          BY <3>1
        <4> QED
          BY <4>1, <4>2 DEF Slanted
      <3> QED
        BY <3>1, <3>2, SlantCell
    <2> HIDE DEF p
    <2>8. Line(b, k, p, d)
      BY <2>6, LineCells
    <2> QED
      BY <2>7, <2>8 DEF FiveInRow
  <1> QED
    BY <1>2, <1>3, <1>4 DEF HasLine

(* Rows and columns: the K stones of a line end it in their walk.          *)
LEMMA StraightIsFound ==
  ASSUME NEW b, NEW k, NEW p \in Cells, NEW d \in Straight, Line(b, k, p, d)
  PROVE  HasLine(b, k)
  <1>1. N \in Nat /\ K \in Nat \ {0}
    BY SizeAssumption
  <1>2. PICK x \in Index, y \in Index : p = <<x, y>>
    BY DEF Cells
  <1>3. x \in Int /\ y \in Int
    BY DEF Index
  <1>4. \A r \in 0..(K - 1) : Along(p, d, r) \in Cells /\ b[Along(p, d, r)] = k
    BY LineCells
  <1>5. K - 1 \in 0..(K - 1) /\ K - 1 \in Int
    BY <1>1
  <1>6. CASE d = <<0, 1>>
    <2>1. \A r \in Int : Along(p, d, r) = <<x, y + r>>
      BY <1>2, <1>3, <1>6, Directions
    <2>2. y + (K - 1) \in Index
      <3>1. <<x, y + (K - 1)>> \in Cells
        BY <1>4, <1>5, <2>1
      <3> QED
        BY <3>1 DEF Cells
    <2>3. y + K \in 1..N /\ K <= y + K
      BY <1>1, <2>2 DEF Index
    <2>4. ASSUME NEW m \in 0..(K - 1)
          PROVE  b[Row(x)[(y + K) - m]] = k
      <3>1. K - 1 - m \in 0..(K - 1) /\ (y + K) - m \in 1..N
            /\ ((y + K) - m) - 1 = y + (K - 1 - m)
        BY <1>1, <2>3 DEF Index
      <3>2. Row(x)[(y + K) - m] = <<x, y + (K - 1 - m)>>
        BY <3>1 DEF Row
      <3>3. Along(p, d, K - 1 - m) = <<x, y + (K - 1 - m)>>
        BY <2>1, <3>1
      <3> QED
        BY <1>4, <3>1, <3>2, <3>3
    <2>5. EndsLine(b, k, Row(x), y + K)
      BY <2>3, <2>4 DEF EndsLine
    <2>6. Hit(b, k, Row(x), 1)
      BY <1>1, <2>3, <2>5, WalkLengths, EveryCellLookedAt
    <2> QED
      BY <2>6, Walks DEF HasLine
  <1>7. CASE d = <<1, 0>>
    <2>1. \A r \in Int : Along(p, d, r) = <<x + r, y>>
      BY <1>2, <1>3, <1>7, Directions
    <2>2. x + (K - 1) \in Index
      <3>1. <<x + (K - 1), y>> \in Cells
        BY <1>4, <1>5, <2>1
      <3> QED
        BY <3>1 DEF Cells
    <2>3. x + K \in 1..N /\ K <= x + K
      BY <1>1, <2>2 DEF Index
    <2>4. ASSUME NEW m \in 0..(K - 1)
          PROVE  b[Column(y)[(x + K) - m]] = k
      <3>1. K - 1 - m \in 0..(K - 1) /\ (x + K) - m \in 1..N
            /\ ((x + K) - m) - 1 = x + (K - 1 - m)
        BY <1>1, <2>3 DEF Index
      <3>2. Column(y)[(x + K) - m] = <<x + (K - 1 - m), y>>
        BY <3>1 DEF Column
      <3>3. Along(p, d, K - 1 - m) = <<x + (K - 1 - m), y>>
        BY <2>1, <3>1
      <3> QED
        BY <1>4, <3>1, <3>2, <3>3
    <2>5. EndsLine(b, k, Column(y), x + K)
      BY <2>3, <2>4 DEF EndsLine
    <2>6. Hit(b, k, Column(y), 1)
      BY <1>1, <2>3, <2>5, WalkLengths, EveryCellLookedAt
    <2> QED
      BY <2>6, Walks DEF HasLine
  <1> QED
    BY <1>6, <1>7 DEF Straight

(* A diagonal that is not found has the colour left of its last cell.      *)
LEMMA CarryHides ==
  ASSUME NEW b, NEW k, NEW p \in Cells, NEW d \in Slanted,
         Line(b, k, p, d), ~HasLine(b, k),
         NEW left, left = <<p[1] + K - 1, p[2] - 1 + (K - 1) * d[2]>>
  PROVE  left \in Cells /\ b[left] = k
  <1>1. N \in Nat /\ K \in Nat \ {0}
    BY SizeAssumption
  <1>2. PICK x \in Index, y \in Index : p = <<x, y>>
    BY DEF Cells
  <1>3. x \in 0..(N - 1) /\ y \in 0..(N - 1) /\ x \in Int /\ y \in Int
    BY DEF Index
  <1>4. \A r \in 0..(K - 1) : Along(p, d, r) \in Cells /\ b[Along(p, d, r)] = k
    BY LineCells
  <1>5. 0 \in Int /\ K - 1 \in 0..(K - 1) /\ K - 1 \in Int
    BY <1>1
  <1>6. d = <<1, 1>> \/ d = <<1, -1>>
    BY DEF Slanted
  <1>7. <<1, -1>> # <<1, 1>>
    OBVIOUS
  (* The segment of the line.                                              *)
  <1>8. PICK q \in 0..(N - K) : y = First(q, d)
    <2>1. CASE d = <<1, 1>>
      <3>1. Along(p, d, K - 1) = <<x + (K - 1), y + (K - 1)>>
        BY <1>2, <1>3, <1>5, <2>1, Directions
      <3>2. y + (K - 1) \in Index
        BY <1>4, <1>5, <3>1 DEF Cells
      <3>3. y \in 0..(N - K) /\ First(y, d) = y
        BY <1>1, <1>3, <2>1, <3>2 DEF Index, First
      <3> QED
        BY <3>3
    <2>2. CASE d = <<1, -1>>
      <3>1. Along(p, d, K - 1) = <<x + (K - 1), y - (K - 1)>>
        BY <1>2, <1>3, <1>5, <2>2, Directions
      <3>2. y - (K - 1) \in Index
        BY <1>4, <1>5, <3>1 DEF Cells
      <3>3. y - (K - 1) \in 0..(N - K) /\ K - 1 + (y - (K - 1)) = y
        BY <1>1, <1>3, <3>2 DEF Index
      <3>4. First(y - (K - 1), d) = y
        BY <1>7, <2>2, <3>3 DEF First
      <3> QED
        BY <3>3, <3>4
    <2> QED
      BY <1>6, <2>1, <2>2
  <1>9. x \in 0..(N - K)
    <2>1. \E c : Along(p, d, K - 1) = <<x + (K - 1), c>>
      <3>1. /\ Along(p, <<1, 1>>, K - 1) = <<x + (K - 1), y + (K - 1)>>
            /\ Along(p, <<1, -1>>, K - 1) = <<x + (K - 1), y - (K - 1)>>
        BY <1>2, <1>3, <1>5, Directions
      <3> QED
        BY <1>6, <3>1
    <2>2. x + (K - 1) \in Index
      BY <1>4, <1>5, <2>1 DEF Cells
    <2> QED
      BY <1>1, <1>3, <2>2 DEF Index
  <1> DEFINE s == Slant(x, d)
             i == K * q + K
  <1>10. K * q \in Nat /\ i \in Nat
    BY <1>1
  <1>11. Len(s) = Segments * K /\ Segments * K \in Nat
    BY <1>9, WalkLengths
  <1>12. i \in 1..(Segments * K)
    <2>1. K * q + (K - 1) + 1 \in 1..(Segments * K)
      BY <1>5, <1>9, SlantCell
    <2>2. K * q + (K - 1) + 1 = i
      BY <1>1, <1>10
    <2> QED
      BY <2>1, <2>2
  <1>13. i % K = 0
    <2>1. K * (q + 1) + 0 = i /\ q + 1 \in Nat /\ 0 \in 0..(K - 1)
      BY <1>1
    <2> QED
      BY <2>1, Divided
  <1>14. EndsLine(b, k, s, i)
    <2>1. ASSUME NEW m \in 0..(K - 1)
          PROVE  b[s[i - m]] = k
      <3>1. K - 1 - m \in 0..(K - 1) /\ i - m = K * q + (K - 1 - m) + 1
        BY <1>1, <1>10
      <3>2. s[i - m] = Along(p, d, K - 1 - m)
        <4> HIDE DEF i
        <4> QED
          BY <1>2, <1>8, <1>9, <3>1, SlantCell
      <3> QED
        BY <1>4, <3>1, <3>2
    <2>2. K <= i
      BY <1>1, <1>10
    <2> HIDE DEF i, s
    <2> QED
      BY <2>1, <2>2 DEF EndsLine
  (* The count there is K or more, and not K: the stone before is of k.    *)
  <1>15. K < i /\ b[s[i - K]] = k
    <2>1. ~Hit(b, k, s, K)
      BY <1>6, <1>9, Walks DEF HasLine
    <2> HIDE DEF i, s
    <2>2. Count(b, k, s)[i] # K
      BY <1>11, <1>12, <1>13, <2>1 DEF Hit
    <2> QED
      BY <1>11, <1>12, <1>14, <2>2, LineIsCounted
  <1>16. q - 1 \in 0..(N - K) /\ q # 0
    BY <1>1, <1>10, <1>15
  <1> DEFINE c == Along(<<x, First(q - 1, d)>>, d, K - 1)
  <1>17. s[i - K] = c /\ c \in Cells
    <2>1. i - K = K * (q - 1) + (K - 1) + 1
      BY <1>1, <1>16
    <2> HIDE DEF i
    <2> QED
      BY <1>5, <1>9, <1>16, <2>1, SlantCell
  <1>18. c = left
    <2>1. CASE d = <<1, 1>>
      <3>1. First(q - 1, d) = y - 1
        BY <1>8, <2>1 DEF First
      <3>2. c = <<x + (K - 1), (y - 1) + (K - 1)>>
        <4>1. y - 1 \in Int
          BY <1>3
        <4>2. Along(<<x, y - 1>>, <<1, 1>>, K - 1)
                = <<x + (K - 1), (y - 1) + (K - 1)>>
          BY <1>3, <1>5, <4>1, Directions
        <4> QED
          BY <2>1, <3>1, <4>2
      <3>3. left = <<x + K - 1, y - 1 + (K - 1) * 1>>
        BY <1>2, <2>1
      <3> QED
        BY <1>1, <1>3, <3>2, <3>3
    <2>2. CASE d = <<1, -1>>
      <3>1. First(q - 1, d) = y - 1
        BY <1>1, <1>7, <1>8, <2>2 DEF First
      <3>2. c = <<x + (K - 1), (y - 1) - (K - 1)>>
        <4>1. y - 1 \in Int
          BY <1>3
        <4>2. Along(<<x, y - 1>>, <<1, -1>>, K - 1)
                = <<x + (K - 1), (y - 1) - (K - 1)>>
          BY <1>3, <1>5, <4>1, Directions
        <4> QED
          BY <2>2, <3>1, <4>2
      <3>3. left = <<x + K - 1, y - 1 + (K - 1) * (-1)>>
        BY <1>2, <2>2
      <3> QED
        BY <1>1, <1>3, <3>2, <3>3
    <2> QED
      BY <1>6, <2>1, <2>2
  <1> HIDE DEF c, s, i
  <1> QED
    BY <1>15, <1>17, <1>18
-----------------------------------------------------------------------------
(* A verdict is backed by a line on the board, of any size: the count that *)
(* checkStones() carries from one diagonal segment to the next invents     *)
(* nothing.                                                                *)
THEOREM VerdictsAreBacked == Spec => []NoFalseVerdict
  <1>1. NoFalseVerdict
    BY FoundIsThere DEF NoFalseVerdict, Verdict, Colour
  <1> QED
    BY <1>1, PTL

(* checkStones() misses no row and no column, wherever on the board.       *)
THEOREM RowsAndColumnsFound == Spec => []StraightLinesFound
  <1>1. StraightLinesFound
    BY StraightIsFound DEF StraightLinesFound
  <1> QED
    BY <1>1, PTL

(* The only diagonals checkStones() misses are those next to a stone of    *)
(* the same colour, left of their last cell, that ends the segment walked  *)
(* before.                                                                 *)
THEOREM MissedDiagonals == Spec => []OnlyCarryHides
  <1>1. OnlyCarryHides
    BY CarryHides DEF OnlyCarryHides
  <1> QED
    BY <1>1, PTL
=============================================================================
