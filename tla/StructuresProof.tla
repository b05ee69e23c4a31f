--------------------------- MODULE StructuresProof ---------------------------
(***************************************************************************)
(* Theorems about Structures, for any finite number of objects tied into   *)
(* any shape, about Quasiquote, for templates of any depth, and about the  *)
(* tables of HashTable. What the walks over shapes compute is stated as a  *)
(* set or a relation that solves the equation of the walk; such a solution *)
(* exists, and no walk that ends can compute anything else. Templates and  *)
(* expansions are terms, of levels.                                        *)
(***************************************************************************)
EXTENDS Structures, Quasiquote, HashTable, Recursion, FiniteSetTheorems, SequenceTheorems

HeapOK == heap \in [Slots -> Datum]

LEMMA HeapKept == HeapSpec => []HeapOK
<1>1. HeapInit => HeapOK
  BY DEF HeapInit, HeapOK, Datum
<1>2. HeapOK /\ [HeapNext]_heapVars => HeapOK'
  <2> SUFFICES ASSUME HeapOK, [HeapNext]_heapVars PROVE HeapOK'
    OBVIOUS
  <2>1. ASSUME NEW s, NEW v \in Datum, store(s, v) PROVE HeapOK'
    BY <2>1 DEF store, HeapOK
  <2>2. CASE HeapNext
    BY <2>1, <2>2, Zenon DEF HeapNext, set_car, set_cdr, vector_set
  <2>3. CASE UNCHANGED heapVars
    BY <2>3 DEF HeapOK, heapVars
  <2> QED
    BY <2>2, <2>3
<1> QED
  BY <1>1, <1>2, PTL DEF HeapSpec

LEMMA Slot ==
    ASSUME HeapOK
    PROVE  /\ \A p \in Pairs : car(p) \in Datum /\ cdr(p) \in Datum
           /\ \A v \in Vectors : element(v) \in Datum
           /\ \A v \in Datum : into(v) \subseteq Datum /\ Parts(v) = into(v)
<1>1. \A p \in Pairs : car(p) \in Datum /\ cdr(p) \in Datum
  BY DEF HeapOK, Slots, car, cdr
<1>2. \A v \in Vectors : element(v) \in Datum
  BY DEF HeapOK, Slots, element
<1>3. ASSUME NEW v \in Datum PROVE into(v) \subseteq Datum
  BY <1>1, <1>2 DEF into
<1>4. ASSUME NEW v \in Datum PROVE Parts(v) = into(v)
  <2>1. CASE v \in Pairs
    <3>1. {x \in Slots : x[1] = v} = {<<v, "car">>, <<v, "cdr">>}
      BY <2>1, ObjectsAssumption DEF Slots
    <3> QED
      BY <2>1, <3>1 DEF Parts, into, car, cdr
  <2>2. CASE v \in Vectors
    <3>1. {x \in Slots : x[1] = v} = {<<v, "element">>}
      BY <2>2, ObjectsAssumption DEF Slots
    <3> QED
      BY <2>2, <3>1, ObjectsAssumption DEF Parts, into, element
  <2>3. CASE v \notin Pairs \cup Vectors
    <3>1. {x \in Slots : x[1] = v} = {}
      BY <2>3 DEF Slots
    <3> QED
      BY <2>3, <3>1 DEF Parts, into
  <2> QED
    BY <2>1, <2>2, <2>3
<1> QED
  BY <1>1, <1>2, <1>3, <1>4

-----------------------------------------------------------------------------
(* list?.                                                                  *)

Next1(x) == IF x \in Pairs THEN cdr(x) ELSE x

LEMMA SpineIs ==
    ASSUME HeapOK
    PROVE  /\ \A v \in Datum, n \in Nat : spine[v][n] \in Datum
           /\ \A v \in Datum : spine[v][0] = v
           /\ \A v \in Datum, n \in Nat : spine[v][n + 1] = Next1(spine[v][n])
<1> DEFINE Walks(v, g) == g[0] = v /\ \A n \in Nat : g[n + 1] = Next1(g[n])
           f == [v \in Datum |-> CHOOSE g \in [Nat -> Datum] : Walks(v, g)]
           Body(h) == [v \in Datum |-> [n \in Nat |-> IF n = 0 THEN v ELSE Next1(h[v][n - 1])]]
<1>1. ASSUME NEW v \in Datum PROVE f[v] \in [Nat -> Datum] /\ Walks(v, f[v])
  <2> DEFINE h == [x \in Datum |-> Next1(x)]
  <2>1. h \in [Datum -> Datum]
    BY Slot DEF Next1
  <2> HIDE DEF h
  <2>2. \E g \in [Nat -> Datum] : g[0] = v /\ \A n \in Nat : g[n + 1] = h[g[n]]
    BY <2>1, Iteration
  <2>3. PICK g \in [Nat -> Datum] : g[0] = v /\ \A n \in Nat : g[n + 1] = h[g[n]]
    BY <2>2
  <2>4. Walks(v, g)
    BY <2>3 DEF h
  <2> HIDE DEF Walks
  <2> QED
    BY <2>4
<1>2. f = Body(f)
  <2>1. ASSUME NEW v \in Datum PROVE f[v] = [n \in Nat |-> IF n = 0 THEN v ELSE Next1(f[v][n - 1])]
    <3> DEFINE g == f[v]
    <3>1. g \in [Nat -> Datum] /\ Walks(v, g)
      BY <1>1
    <3> HIDE DEF g
    <3>2. ASSUME NEW n \in Nat PROVE g[n] = IF n = 0 THEN v ELSE Next1(g[n - 1])
      <4>1. n # 0 => n - 1 \in Nat /\ (n - 1) + 1 = n
        OBVIOUS
      <4> QED
        BY <3>1, <4>1
    <3>3. g = [n \in Nat |-> IF n = 0 THEN v ELSE Next1(g[n - 1])]
      BY <3>1, <3>2
    <3> QED
      BY <3>3 DEF g
  <2>2. f = [v \in Datum |-> f[v]]
    OBVIOUS
  <2> HIDE DEF f
  <2> QED
    BY <2>1, <2>2
<1>3. ASSUME NEW g, NEW h, g = Body(h)
      PROVE  \A v \in Datum, n \in Nat : g[v][n] = IF n = 0 THEN v ELSE Next1(h[v][n - 1])
  BY <1>3
<1>4. spine = CHOOSE h : h = Body(h)
  BY DEF spine, Next1
<1> HIDE DEF f, Body
<1>5. spine = Body(spine)
  BY <1>2, <1>4
<1>6. \A v \in Datum, n \in Nat : spine[v][n] = IF n = 0 THEN v ELSE Next1(spine[v][n - 1])
  BY <1>3, <1>5
<1>7. ASSUME NEW v \in Datum, NEW n \in Nat PROVE spine[v][n + 1] = Next1(spine[v][n])
  <2>1. n + 1 \in Nat /\ n + 1 # 0 /\ (n + 1) - 1 = n
    OBVIOUS
  <2> QED
    BY <1>6, <2>1
<1>8. ASSUME NEW v \in Datum, NEW n \in Nat PROVE spine[v][n] \in Datum
  <2> DEFINE T == {m \in Nat : spine[v][m] \notin Datum}
  <2> SUFFICES ASSUME T # {} PROVE FALSE
    OBVIOUS
  <2>1. PICK m \in T : \A k \in T : m <= k
    BY LeastNumber
  <2>2. m # 0
    BY <1>6
  <2>3. m - 1 \in Nat /\ m - 1 \notin T
    BY <2>1, <2>2
  <2> QED
    BY <1>6, <2>2, <2>3, Slot DEF Next1
<1> QED
  BY <1>6, <1>7, <1>8

\* What a round of the loop answers, if W has what the next one answers true of.
Round(W, slow, fast) ==
    IF fast \notin Pairs THEN ends(fast)
    ELSE IF cdr(fast) \notin Pairs THEN ends(cdr(fast))
    ELSE Next1(slow) # cdr(cdr(fast)) /\ <<Next1(slow), cdr(cdr(fast))>> \in W

\* The least such set that each round agrees with.
Answered(S) == \A p \in Datum \X Datum : Round(S, p[1], p[2]) => p \in S
Proper == {p \in Datum \X Datum : \A S \in SUBSET (Datum \X Datum) : Answered(S) => p \in S}

LEMMA RoundGrows ==
    ASSUME NEW S, NEW U, S \subseteq U, NEW a, NEW b, Round(S, a, b)
    PROVE  Round(U, a, b)
BY DEF Round

LEMMA ProperIs ==
    \A a, b \in Datum : <<a, b>> \in Proper <=> Round(Proper, a, b)
<1>1. ASSUME NEW p \in Datum \X Datum, Round(Proper, p[1], p[2]) PROVE p \in Proper
  <2> SUFFICES ASSUME NEW S \in SUBSET (Datum \X Datum), Answered(S) PROVE p \in S
    BY DEF Proper
  <2>1. Proper \subseteq S
    BY DEF Proper
  <2>2. Round(S, p[1], p[2])
    BY <1>1, <2>1, RoundGrows
  <2> QED
    BY <2>2 DEF Answered
<1>2. ASSUME NEW p \in Proper PROVE Round(Proper, p[1], p[2])
  <2> DEFINE S == {q \in Datum \X Datum : Round(Proper, q[1], q[2])}
  <2>1. S \subseteq Proper
    BY <1>1
  <2>2. ASSUME NEW q \in Datum \X Datum, Round(S, q[1], q[2]) PROVE q \in S
    <3> HIDE DEF S
    <3>1. Round(Proper, q[1], q[2])
      BY <2>1, <2>2, RoundGrows
    <3> QED
      BY <3>1 DEF S
  <2>3. S \in SUBSET (Datum \X Datum) /\ Answered(S)
    BY <2>2 DEF Answered
  <2>4. p \in S
    BY <2>3 DEF Proper
  <2> QED
    BY <2>4
<1>3. ASSUME NEW a \in Datum, NEW b \in Datum PROVE <<a, b>> \in Proper <=> Round(Proper, a, b)
  <2>1. <<a, b>> \in Datum \X Datum /\ <<a, b>>[1] = a /\ <<a, b>>[2] = b
    OBVIOUS
  <2> QED
    BY <1>1, <1>2, <2>1
<1> QED
  BY <1>3

\* One round of is_proper_list.
LEMMA TortoiseIs ==
    ASSUME HeapOK, NEW slow \in Datum, NEW fast \in Datum
    PROVE  tortoise[slow][fast] =
              IF fast \notin Pairs THEN ends(fast)
              ELSE IF cdr(fast) \notin Pairs THEN ends(cdr(fast))
              ELSE Next1(slow) # cdr(cdr(fast)) /\ tortoise[Next1(slow)][cdr(cdr(fast))]
<1> DEFINE R(h, s, q) == IF q \notin Pairs THEN ends(q)
                         ELSE IF cdr(q) \notin Pairs THEN ends(cdr(q))
                         ELSE Next1(s) # cdr(cdr(q)) /\ h[Next1(s)][cdr(cdr(q))]
           Body(h) == [s \in Datum |-> [q \in Datum |-> R(h, s, q)]]
           f == [s \in Datum |-> [q \in Datum |-> <<s, q>> \in Proper]]
<1>1. ASSUME NEW s \in Datum, NEW q \in Datum PROVE (<<s, q>> \in Proper) = R(f, s, q)
  <2>1. Next1(s) \in Datum /\ (q \in Pairs => cdr(q) \in Datum /\ (cdr(q) \in Pairs => cdr(cdr(q)) \in Datum))
    BY Slot DEF Next1
  <2>2. ASSUME NEW x \in Datum, NEW y \in Datum PROVE f[x][y] = (<<x, y>> \in Proper)
    OBVIOUS
  <2>3. <<s, q>> \in Proper <=> Round(Proper, s, q)
    BY ProperIs
  <2> HIDE DEF f
  <2>4. CASE q \notin Pairs
    BY <2>3, <2>4 DEF Round, ends
  <2>5. CASE q \in Pairs /\ cdr(q) \notin Pairs
    BY <2>3, <2>5 DEF Round, ends
  <2>6. CASE q \in Pairs /\ cdr(q) \in Pairs
    <3> DEFINE x == Next1(s)
               y == cdr(cdr(q))
    <3>1. x \in Datum /\ y \in Datum
      BY <2>1, <2>6
    <3> HIDE DEF x, y
    <3>2. f[x][y] = (<<x, y>> \in Proper)
      BY <2>2, <3>1
    <3>3. (<<s, q>> \in Proper) <=> x # y /\ <<x, y>> \in Proper
      BY <2>3, <2>6 DEF Round, x, y
    <3>4. R(f, s, q) = (x # y /\ f[x][y])
      BY <2>6 DEF x, y
    <3>5. R(f, s, q) = (x # y /\ <<x, y>> \in Proper)
      BY <3>2, <3>4, Zenon
    <3>6. (<<s, q>> \in Proper) = (x # y /\ <<x, y>> \in Proper)
      BY <3>3, SMT
    <3> QED
      BY <3>5, <3>6, Zenon
  <2> QED
    BY <2>4, <2>5, <2>6
<1>2. f = Body(f)
  <2>1. ASSUME NEW s \in Datum
        PROVE [q \in Datum |-> <<s, q>> \in Proper] = [q \in Datum |-> R(f, s, q)]
    <3> HIDE DEF f, R
    <3> QED
      BY <1>1
  <2>2. f = [s \in Datum |-> [q \in Datum |-> <<s, q>> \in Proper]]
    OBVIOUS
  <2> HIDE DEF f, R
  <2> QED
    BY <2>1, <2>2
<1>3. ASSUME NEW g, NEW h, g = Body(h)
      PROVE  \A s, q \in Datum : g[s][q] = R(h, s, q)
  <2> HIDE DEF R
  <2> QED
    BY <1>3
<1>4. tortoise = CHOOSE h : h = Body(h)
  BY DEF tortoise, Next1
<1> HIDE DEF f, Body
<1>5. tortoise = Body(tortoise)
  BY <1>2, <1>4
<1>6. tortoise[slow][fast] = R(tortoise, slow, fast)
  <2> HIDE DEF R
  <2> QED
    BY <1>3, <1>5
<1> QED
  BY <1>6

LEMMA TortoiseType ==
    ASSUME HeapOK, NEW slow \in Datum, NEW fast \in Datum
    PROVE  tortoise[slow][fast] \in BOOLEAN
<1> DEFINE t == tortoise[slow][fast]
           u == tortoise[Next1(slow)][cdr(cdr(fast))]
<1>1. t = IF fast \notin Pairs THEN ends(fast)
          ELSE IF cdr(fast) \notin Pairs THEN ends(cdr(fast))
          ELSE Next1(slow) # cdr(cdr(fast)) /\ u
  BY TortoiseIs
<1> HIDE DEF t, u
<1>2. t \in BOOLEAN
  BY <1>1 DEF ends
<1> QED
  BY <1>2 DEF t

\* While both pointers find pairs and do not meet the loop goes on.
LEMMA LoopGoesOn ==
    ASSUME HeapOK, NEW v \in Datum, NEW k \in Nat,
           \A j \in Nat : j < k =>
              /\ spine[v][2 * j] \in Pairs /\ spine[v][2 * j + 1] \in Pairs
              /\ spine[v][j + 1] # spine[v][2 * (j + 1)]
    PROVE  is_proper_list(v) = tortoise[spine[v][k]][spine[v][2 * k]]
<1> DEFINE s(n) == spine[v][n]
           T == {m \in Nat : m <= k /\ is_proper_list(v) # tortoise[s(m)][s(2 * m)]}
<1> SUFFICES ASSUME T # {} PROVE FALSE
  OBVIOUS
<1>1. PICK m \in T : \A j \in T : m <= j
  BY LeastNumber
<1>2. m # 0
  <2>1. 2 * 0 = 0 /\ s(0) = v
    BY SpineIs
  <2> QED
    BY <2>1 DEF is_proper_list
<1> DEFINE j == m - 1
<1>3. /\ j \in Nat /\ j \notin T /\ j < k /\ j + 1 = m /\ 2 * j \in Nat /\ 2 * j + 1 \in Nat
      /\ (2 * j + 1) + 1 = 2 * m
  BY <1>1, <1>2
<1> HIDE DEF j
<1>4. is_proper_list(v) = tortoise[s(j)][s(2 * j)]
  BY <1>3
<1>5. /\ s(j) \in Datum /\ s(2 * j) \in Datum /\ Next1(s(j)) = s(m)
      /\ s(2 * j) \in Pairs /\ s(2 * j + 1) \in Pairs /\ s(m) # s(2 * m)
      /\ s(2 * j + 1) = cdr(s(2 * j)) /\ s(2 * m) = cdr(s(2 * j + 1))
  <2>1. s(2 * j) \in Pairs /\ s(2 * j + 1) \in Pairs /\ s(j + 1) # s(2 * (j + 1))
    BY <1>3
  <2>2. /\ s(j) \in Datum /\ s(2 * j) \in Datum /\ s(j + 1) = Next1(s(j))
        /\ s(2 * j + 1) = Next1(s(2 * j)) /\ s((2 * j + 1) + 1) = Next1(s(2 * j + 1))
    BY <1>3, SpineIs
  <2> HIDE DEF s
  <2> QED
    BY <1>3, <2>1, <2>2 DEF Next1
<1> HIDE DEF s
<1>6. tortoise[s(j)][s(2 * j)] = (s(m) # s(2 * m) /\ tortoise[s(m)][s(2 * m)])
  BY <1>5, TortoiseIs
<1>7. s(m) \in Datum /\ s(2 * m) \in Datum
  BY <1>3, SpineIs DEF s
<1>8. tortoise[s(m)][s(2 * m)] \in BOOLEAN
  BY <1>7, TortoiseIs, TortoiseType
<1> QED
  BY <1>4, <1>5, <1>6, <1>8

\* What repeats goes on repeating.
LEMMA SpineRepeats ==
    ASSUME HeapOK, NEW v \in Datum, NEW i \in Nat, NEW j \in Nat, spine[v][i] = spine[v][j], NEW n \in Nat
    PROVE  spine[v][i + n] = spine[v][j + n]
<1> DEFINE T == {m \in Nat : spine[v][i + m] # spine[v][j + m]}
<1> SUFFICES ASSUME T # {} PROVE FALSE
  OBVIOUS
<1>1. PICK m \in T : \A k \in T : m <= k
  BY LeastNumber
<1>2. m # 0
  <2>1. i + 0 = i /\ j + 0 = j
    OBVIOUS
  <2> QED
    BY <2>1
<1> DEFINE k == m - 1
<1>3. k \in Nat /\ k \notin T /\ i + k \in Nat /\ j + k \in Nat /\ (i + k) + 1 = i + m /\ (j + k) + 1 = j + m
  BY <1>1, <1>2
<1> HIDE DEF k
<1>4. spine[v][i + k] = spine[v][j + k]
  BY <1>3
<1>5. spine[v][(i + k) + 1] = Next1(spine[v][i + k]) /\ spine[v][(j + k) + 1] = Next1(spine[v][j + k])
  BY <1>3, SpineIs
<1> QED
  BY <1>3, <1>4, <1>5

\* The end is kept.
LEMMA SpineStays ==
    ASSUME HeapOK, NEW v \in Datum, NEW i \in Nat, spine[v][i] \notin Pairs, NEW n \in Nat
    PROVE  spine[v][i + n] = spine[v][i]
<1> DEFINE T == {m \in Nat : spine[v][i + m] # spine[v][i]}
<1> SUFFICES ASSUME T # {} PROVE FALSE
  OBVIOUS
<1>1. PICK m \in T : \A k \in T : m <= k
  BY LeastNumber
<1>2. m # 0
  <2>1. i + 0 = i
    OBVIOUS
  <2> QED
    BY <2>1
<1> DEFINE k == m - 1
<1>3. k \in Nat /\ k \notin T /\ i + k \in Nat /\ (i + k) + 1 = i + m
  BY <1>1, <1>2
<1> HIDE DEF k
<1>4. spine[v][i + k] = spine[v][i]
  BY <1>3
<1>5. spine[v][(i + k) + 1] = Next1(spine[v][i + k])
  BY <1>3, SpineIs
<1> QED
  BY <1>3, <1>4, <1>5 DEF Next1

\* More steps than pairs come twice to the same one.
LEMMA SpineMeets ==
    ASSUME HeapOK, NEW v \in Datum, NEW n \in Nat, n >= Cardinality(Pairs),
           \A k \in 0..n : spine[v][k] \in Pairs
    PROVE  \E i, j \in 0..n : i < j /\ spine[v][i] = spine[v][j]
<1> DEFINE f == [k \in 0..n |-> spine[v][k]]
<1>1. IsFiniteSet(Pairs) /\ Cardinality(Pairs) \in Nat
  BY ObjectsAssumption, FS_CardinalityType
<1>2. IsFiniteSet(0..n) /\ Cardinality(0..n) = n + 1
  <2>1. 0 \in Int /\ n \in Int /\ 0 <= n /\ (n - 0) + 1 = n + 1
    OBVIOUS
  <2> QED
    BY <2>1, FS_Interval
<1>3. f \in [0..n -> Pairs]
  OBVIOUS
<1> HIDE DEF f
<1>4. Cardinality(Pairs) < Cardinality(0..n)
  BY <1>1, <1>2
<1>5. \E i, j \in 0..n : i # j /\ f[i] = f[j]
  BY <1>1, <1>2, <1>3, <1>4, FS_PigeonHole
<1>6. PICK i \in 0..n, j \in 0..n : i # j /\ f[i] = f[j]
  BY <1>5
<1>7. spine[v][i] = spine[v][j] /\ (i < j \/ j < i)
  BY <1>6 DEF f
<1> QED
  BY <1>7

LEMMA Halves ==
    ASSUME NEW L \in Nat
    PROVE  \E k \in Nat : L = 2 * k \/ L = 2 * k + 1
<1>1. L \div 2 \in Nat /\ (L = 2 * (L \div 2) \/ L = 2 * (L \div 2) + 1)
  OBVIOUS
<1> QED
  BY <1>1

\* A list that ends.
LEMMA FiniteList ==
    ASSUME HeapOK, NEW v \in Datum, NEW L \in Nat, spine[v][L] \notin Pairs,
           \A n \in Nat : n < L => spine[v][n] \in Pairs
    PROVE  is_proper_list(v) = (spine[v][Cardinality(Pairs)] = "nil")
<1> DEFINE s(n) == spine[v][n]
           N == Cardinality(Pairs)
           x == s(L)
<1>1. N \in Nat
  BY ObjectsAssumption, FS_CardinalityType
<1>2. ASSUME NEW i \in Nat, NEW j \in Nat, i < j, j <= L PROVE s(i) # s(j)
  <2> SUFFICES ASSUME s(i) = s(j) PROVE FALSE
    OBVIOUS
  <2> DEFINE n == L - j
  <2>1. n \in Nat /\ j + n = L /\ i + n \in Nat /\ i + n < L
    BY <1>2
  <2> HIDE DEF n
  <2>2. s(i + n) = s(j + n)
    BY <2>1, SpineRepeats
  <2> QED
    BY <2>1, <2>2
<1>3. L <= N
  <2> SUFFICES ASSUME N < L PROVE FALSE
    BY <1>1
  <2>1. N >= Cardinality(Pairs) /\ \A n \in 0..N : spine[v][n] \in Pairs
    BY <1>1
  <2>2. \E i, j \in 0..N : i < j /\ s(i) = s(j)
    BY <1>1, <2>1, SpineMeets
  <2> HIDE DEF s, N
  <2> QED
    BY <1>1, <1>2, <2>2
<1>4. s(N) = x
  <2> DEFINE n == N - L
  <2>1. n \in Nat /\ L + n = N
    BY <1>1, <1>3
  <2> HIDE DEF n
  <2> QED
    BY <2>1, SpineStays
<1>5. PICK k \in Nat : L = 2 * k \/ L = 2 * k + 1
  BY Halves
<1>6. ASSUME NEW j \in Nat, j < k
      PROVE  /\ spine[v][2 * j] \in Pairs /\ spine[v][2 * j + 1] \in Pairs
             /\ spine[v][j + 1] # spine[v][2 * (j + 1)]
  <2>1. /\ 2 * j \in Nat /\ 2 * j < L /\ 2 * j + 1 \in Nat /\ 2 * j + 1 < L
        /\ j + 1 \in Nat /\ 2 * (j + 1) \in Nat /\ j + 1 < 2 * (j + 1) /\ 2 * (j + 1) <= L
    BY <1>5, <1>6
  <2> QED
    BY <1>2, <2>1
<1>7. is_proper_list(v) = tortoise[s(k)][s(2 * k)]
  BY <1>5, <1>6, LoopGoesOn
<1>8. s(k) \in Datum /\ s(2 * k) \in Datum /\ s(2 * k + 1) = Next1(s(2 * k))
  <2>1. 2 * k \in Nat
    BY <1>5
  <2> QED
    BY <1>5, <2>1, SpineIs
<1>9. tortoise[s(k)][s(2 * k)] = ends(x)
  <2>1. CASE L = 2 * k
    BY <1>8, <2>1, TortoiseIs
  <2>2. CASE L = 2 * k + 1
    <3>1. s(2 * k) \in Pairs
      BY <1>5, <2>2
    <3>2. x = cdr(s(2 * k)) /\ x \notin Pairs
      BY <1>8, <2>2, <3>1 DEF Next1
    <3> HIDE DEF s, x
    <3> QED
      BY <1>8, <3>1, <3>2, TortoiseIs
  <2> QED
    BY <1>5, <2>1, <2>2
<1> QED
  BY <1>4, <1>7, <1>9 DEF ends

\* Steps that repeat after p of them repeat after any multiple of p.
LEMMA SpineCycles ==
    ASSUME HeapOK, NEW v \in Datum, NEW i \in Nat, NEW p \in Nat, spine[v][i] = spine[v][i + p],
           NEW m \in Nat, i <= m, NEW q \in Nat
    PROVE  spine[v][m + q * p] = spine[v][m]
<1> DEFINE T == {c \in Nat : spine[v][m + c * p] # spine[v][m]}
<1> SUFFICES ASSUME T # {} PROVE FALSE
  OBVIOUS
<1>1. PICK c \in T : \A d \in T : c <= d
  BY LeastNumber
<1>2. c # 0
  <2>1. m + 0 * p = m
    OBVIOUS
  <2> QED
    BY <2>1
<1> DEFINE d == c - 1
           e == d * p
           n == (m - i) + e
           j == i + p
<1>3. d \in Nat /\ d \notin T /\ d + 1 = c
  BY <1>1, <1>2
<1> HIDE DEF d
<1>4. e \in Nat /\ c * p = e + p
  <2>1. d \in Nat /\ d + 1 = c
    BY <1>3
  <2> QED
    BY ONLY <2>1, p \in Nat
<1>5. spine[v][m + e] = spine[v][m]
  BY <1>3
<1> HIDE DEF e
<1>6. n \in Nat /\ i + n = m + e /\ j + n = m + (e + p) /\ j \in Nat /\ spine[v][i] = spine[v][j]
  BY <1>4
<1> HIDE DEF n, j
<1>7. spine[v][i + n] = spine[v][j + n]
  BY <1>6, SpineRepeats
<1> QED
  BY <1>4, <1>5, <1>6, <1>7

\* A list that does not end.
LEMMA InfiniteList ==
    ASSUME HeapOK, NEW v \in Datum, \A n \in Nat : spine[v][n] \in Pairs
    PROVE  is_proper_list(v) = FALSE /\ spine[v][Cardinality(Pairs)] # "nil"
<1> DEFINE s(n) == spine[v][n]
           N == Cardinality(Pairs)
           T == {m \in Nat : m # 0 /\ s(m) = s(2 * m)}
<1>1. N \in Nat
  BY ObjectsAssumption, FS_CardinalityType
<1>2. s(N) # "nil"
  BY <1>1, ObjectsAssumption
<1>3. T # {}
  <2>1. N >= Cardinality(Pairs) /\ \A n \in 0..N : spine[v][n] \in Pairs
    BY <1>1
  <2>2. \E i, j \in 0..N : i < j /\ spine[v][i] = spine[v][j]
    BY <1>1, <2>1, SpineMeets
  <2>3. PICK i \in 0..N, j \in 0..N : i < j /\ spine[v][i] = spine[v][j]
    BY <2>2
  <2> DEFINE p == j - i
             q == i + 1
             m == q * p
  <2>4. i \in Nat /\ p \in Nat \ {0} /\ i + p = j /\ q \in Nat
    BY <1>1, <2>3
  <2>5. m \in Nat /\ i <= m /\ m # 0
    <3> HIDE DEF p
    <3>1. (i + 1) * p = i * p + p /\ i * p \in Nat
      BY <2>4
    <3> DEFINE o == p - 1
    <3>2. o \in Nat /\ p = o + 1
      BY <2>4
    <3> HIDE DEF o
    <3>3. i * (o + 1) = i * o + i /\ i * o \in Nat
      BY <2>4, <3>2
    <3> QED
      BY <2>4, <3>1, <3>2, <3>3
  <2>6. spine[v][m + q * p] = spine[v][m]
    <3> HIDE DEF p, q, m
    <3> QED
      BY <2>3, <2>4, <2>5, SpineCycles
  <2>7. m + q * p = 2 * m
    <3> HIDE DEF p, q
    <3>1. m = q * p
      OBVIOUS
    <3> HIDE DEF m
    <3> QED
      BY <2>5, <3>1
  <2> HIDE DEF m, p, q
  <2> QED
    BY <2>5, <2>6, <2>7
<1>4. PICK m \in T : \A n \in T : m <= n
  BY <1>3, LeastNumber
<1> DEFINE k == m - 1
<1>5. k \in Nat /\ k + 1 = m /\ 2 * k \in Nat /\ 2 * k + 1 \in Nat /\ (2 * k + 1) + 1 = 2 * m
  BY <1>4
<1> HIDE DEF k
<1>6. ASSUME NEW j \in Nat, j < k
      PROVE  /\ spine[v][2 * j] \in Pairs /\ spine[v][2 * j + 1] \in Pairs
             /\ spine[v][j + 1] # spine[v][2 * (j + 1)]
  <2>1. j + 1 \in Nat /\ j + 1 # 0 /\ j + 1 < m /\ 2 * j \in Nat /\ 2 * j + 1 \in Nat
    BY <1>5, <1>6
  <2>2. j + 1 \notin T
    BY <1>4, <2>1
  <2> QED
    BY <2>1, <2>2
<1>7. is_proper_list(v) = tortoise[s(k)][s(2 * k)]
  BY <1>5, <1>6, LoopGoesOn
<1>8. /\ s(k) \in Datum /\ s(2 * k) \in Datum /\ s(k + 1) = Next1(s(k))
      /\ s(2 * k + 1) = Next1(s(2 * k)) /\ s((2 * k + 1) + 1) = Next1(s(2 * k + 1))
      /\ s(2 * k) \in Pairs /\ s(2 * k + 1) \in Pairs
  BY <1>5, SpineIs
<1>9. s(m) = s(2 * m)
  BY <1>4
<1> HIDE DEF s
<1>10. /\ Next1(s(k)) = s(m) /\ s(2 * k + 1) = cdr(s(2 * k)) /\ s(2 * m) = cdr(cdr(s(2 * k)))
  BY <1>5, <1>8 DEF Next1
<1>11. tortoise[s(k)][s(2 * k)] = FALSE
  BY <1>8, <1>9, <1>10, TortoiseIs
<1> QED
  BY <1>2, <1>7, <1>11 DEF s

LEMMA ListHolds == HeapOK => ListIsFinite
<1> SUFFICES ASSUME HeapOK, NEW v \in Datum
             PROVE  is_proper_list(v) = (spine[v][Cardinality(Pairs)] = "nil")
  BY Zenon DEF ListIsFinite
<1> DEFINE T == {n \in Nat : spine[v][n] \notin Pairs}
<1>1. CASE T = {}
  <2>1. \A n \in Nat : spine[v][n] \in Pairs
    BY <1>1
  <2> QED
    BY <2>1, InfiniteList
<1>2. CASE T # {}
  <2>1. PICK L \in T : \A n \in T : L <= n
    BY <1>2, LeastNumber
  <2>2. L \in Nat /\ spine[v][L] \notin Pairs /\ \A n \in Nat : n < L => spine[v][n] \in Pairs
    BY <2>1
  <2> QED
    BY <2>2, FiniteList
<1> QED
  BY <1>1, <1>2

-----------------------------------------------------------------------------
(* What a datum leads to.                                                  *)

LEMMA DatumFinite == IsFiniteSet(Datum)
<1>1. IsFiniteSet(Pairs \cup Vectors)
  BY ObjectsAssumption, FS_Union
<1>2. IsFiniteSet((Pairs \cup Vectors) \cup Atoms)
  BY <1>1, ObjectsAssumption, FS_Union
<1>3. IsFiniteSet({"nil"})
  BY FS_Singleton
<1>4. IsFiniteSet(((Pairs \cup Vectors) \cup Atoms) \cup {"nil"})
  BY <1>2, <1>3, FS_Union
<1>5. ((Pairs \cup Vectors) \cup Atoms) \cup {"nil"} = Datum
  BY DEF Datum
<1> QED
  BY <1>4, <1>5

\* What is left outside a set gets less when it grows.
Outside(S) == Cardinality(Datum \ S)

LEMMA OutsideFalls ==
    ASSUME NEW S \in SUBSET Datum, NEW T \in SUBSET Datum, S \subseteq T, S # T
    PROVE  Outside(S) \in Nat /\ Outside(T) \in Nat /\ Outside(T) < Outside(S)
<1> DEFINE A == Datum \ S
           B == Datum \ T
<1>1. A \subseteq Datum /\ B \subseteq A /\ B # A
  OBVIOUS
<1> HIDE DEF A, B
<1>2. IsFiniteSet(A)
  BY <1>1, DatumFinite, FS_Subset
<1>3. IsFiniteSet(B) /\ Cardinality(B) <= Cardinality(A) /\ Cardinality(B) # Cardinality(A)
  BY <1>1, <1>2, FS_Subset
<1>4. Cardinality(A) \in Nat /\ Cardinality(B) \in Nat
  BY <1>2, <1>3, FS_CardinalityType
<1>5. Cardinality(B) < Cardinality(A)
  BY <1>3, <1>4
<1> QED
  BY <1>4, <1>5 DEF Outside, A, B

Closed(U)  == \A x \in U : into(x) \subseteq U
Closure(S) == {x \in Datum : \A U \in SUBSET Datum : S \subseteq U /\ Closed(U) => x \in U}
Leads(v)   == Closure(into(v))

LEMMA ClosureFacts ==
    ASSUME HeapOK, NEW S \in SUBSET Datum
    PROVE  /\ S \subseteq Closure(S) /\ Closure(S) \in SUBSET Datum /\ Closed(Closure(S))
           /\ \A U \in SUBSET Datum : S \subseteq U /\ Closed(U) => Closure(S) \subseteq U
<1>1. S \subseteq Closure(S) /\ Closure(S) \in SUBSET Datum
  BY DEF Closure
<1>2. ASSUME NEW U \in SUBSET Datum, S \subseteq U, Closed(U) PROVE Closure(S) \subseteq U
  BY <1>2 DEF Closure
<1>3. ASSUME NEW x \in Closure(S) PROVE into(x) \subseteq Closure(S)
  <2>1. into(x) \subseteq Datum
    BY <1>1, Slot
  <2>2. ASSUME NEW U \in SUBSET Datum, S \subseteq U, Closed(U) PROVE into(x) \subseteq U
    BY <1>2, <2>2 DEF Closed
  <2> QED
    BY <2>1, <2>2 DEF Closure
<1> QED
  BY <1>1, <1>2, <1>3 DEF Closed

Wider(S) == S \cup UNION {Parts(v) : v \in S}

LEMMA ClosureStep ==
    ASSUME HeapOK, NEW S \in SUBSET Datum
    PROVE  /\ Wider(S) \in SUBSET Datum /\ S \subseteq Wider(S)
           /\ Wider(S) = S => Closure(S) = S
           /\ Closure(Wider(S)) = Closure(S)
<1>1. Wider(S) = S \cup UNION {into(v) : v \in S}
  <2>1. \A v \in S : Parts(v) = into(v)
    BY Slot
  <2>2. {Parts(v) : v \in S} = {into(v) : v \in S}
    BY <2>1
  <2> QED
    BY <2>2 DEF Wider
<1>2. Wider(S) \in SUBSET Datum /\ S \subseteq Wider(S)
  BY <1>1, Slot
<1>3. ASSUME Wider(S) = S PROVE Closure(S) = S
  <2>1. Closed(S)
    BY <1>1, <1>3 DEF Closed
  <2> QED
    BY <2>1, ClosureFacts
<1>4. ASSUME NEW U \in SUBSET Datum, Closed(U) PROVE S \subseteq U <=> Wider(S) \subseteq U
  BY <1>1, <1>4 DEF Closed
<1>5. Closure(Wider(S)) = Closure(S)
  BY <1>4 DEF Closure
<1> QED
  BY <1>2, <1>3, <1>5

LEMMA GrowIs ==
    ASSUME HeapOK
    PROVE  \A S \in SUBSET Datum : Grow[S] = IF Wider(S) = S THEN S ELSE Grow[Wider(S)]
<1> DEFINE f == [S \in SUBSET Datum |-> Closure(S)]
           Body(h) == [S \in SUBSET Datum |-> IF Wider(S) = S THEN S ELSE h[Wider(S)]]
<1>1. ASSUME NEW S \in SUBSET Datum PROVE Closure(S) = IF Wider(S) = S THEN S ELSE f[Wider(S)]
  <2>1. f[Wider(S)] = Closure(Wider(S))
    BY ClosureStep
  <2> QED
    BY <2>1, ClosureStep
<1>2. f = Body(f)
  BY <1>1
<1>3. ASSUME NEW g, NEW h, g = Body(h)
      PROVE  \A S \in SUBSET Datum : g[S] = IF Wider(S) = S THEN S ELSE h[Wider(S)]
  BY <1>3
<1>4. Grow = CHOOSE h : h = Body(h)
  BY DEF Grow, Wider
<1> HIDE DEF f, Body
<1>5. Grow = Body(Grow)
  BY <1>2, <1>4
<1> QED
  BY <1>3, <1>5

LEMMA GrowIsClosure ==
    ASSUME HeapOK, NEW S \in SUBSET Datum
    PROVE  Grow[S] = Closure(S)
<1> DEFINE T == {n \in Nat : \E U \in SUBSET Datum : Outside(U) = n /\ Grow[U] # Closure(U)}
<1>1. T = {}
  <2> SUFFICES ASSUME T # {} PROVE FALSE
    OBVIOUS
  <2>1. PICK n \in T : \A m \in T : n <= m
    BY LeastNumber
  <2>2. PICK U \in SUBSET Datum : Outside(U) = n /\ Grow[U] # Closure(U)
    OBVIOUS
  <2> DEFINE W == Wider(U)
  <2>3. W \in SUBSET Datum /\ U \subseteq W /\ (W = U => Closure(U) = U) /\ Closure(W) = Closure(U)
    BY ClosureStep
  <2>4. Grow[U] = IF W = U THEN U ELSE Grow[W]
    BY GrowIs
  <2> HIDE DEF W
  <2>5. W # U
    BY <2>2, <2>3, <2>4
  <2>6. Outside(W) \in Nat /\ Outside(W) < Outside(U) /\ Outside(U) \in Nat
    BY <2>3, <2>5, OutsideFalls
  <2>7. Outside(W) \notin T
    BY <2>1, <2>2, <2>6
  <2>8. Grow[W] = Closure(W)
    BY <2>3, <2>6, <2>7
  <2> QED
    BY <2>2, <2>3, <2>4, <2>5, <2>8
<1>2. Outside(S) \in Nat
  <2>1. IsFiniteSet(Datum \ S)
    BY DatumFinite, FS_Subset
  <2> QED
    BY <2>1, FS_CardinalityType DEF Outside
<1> QED
  BY <1>1, <1>2

LEMMA InsideIs ==
    ASSUME HeapOK, NEW v \in Datum
    PROVE  Inside(v) = Leads(v)
BY Slot, GrowIsClosure DEF Inside, Leads

\* One step, and what that leads to.
LEMMA LeadsStep ==
    ASSUME HeapOK, NEW v \in Datum
    PROVE  /\ Leads(v) \in SUBSET Datum
           /\ Leads(v) = into(v) \cup UNION {Leads(x) : x \in into(v)}
           /\ \A x \in Leads(v) : Leads(x) \subseteq Leads(v)
<1>1. into(v) \in SUBSET Datum
  BY Slot
<1>2. into(v) \subseteq Leads(v) /\ Leads(v) \in SUBSET Datum /\ Closed(Leads(v))
  BY <1>1, ClosureFacts DEF Leads
<1>3. ASSUME NEW x \in Leads(v) PROVE Leads(x) \subseteq Leads(v)
  <2>1. into(x) \in SUBSET Datum /\ into(x) \subseteq Leads(v)
    BY <1>2, Slot DEF Closed
  <2> QED
    BY <1>2, <2>1, ClosureFacts DEF Leads
<1> DEFINE U == into(v) \cup UNION {Leads(x) : x \in into(v)}
<1>4. ASSUME NEW x \in into(v) PROVE into(x) \subseteq Leads(x) /\ Leads(x) \in SUBSET Datum /\ Closed(Leads(x))
  <2>1. into(x) \in SUBSET Datum
    BY <1>1, Slot
  <2> QED
    BY <2>1, ClosureFacts DEF Leads
<1>5. U \in SUBSET Datum /\ into(v) \subseteq U
  BY <1>1, <1>4
<1>6. Closed(U)
  BY <1>4 DEF Closed
<1> HIDE DEF U
<1>7. Leads(v) \subseteq U
  BY <1>1, <1>5, <1>6, ClosureFacts DEF Leads
<1>8. U \subseteq Leads(v)
  BY <1>2, <1>3 DEF U
<1> QED
  BY <1>2, <1>3, <1>7, <1>8 DEF U

-----------------------------------------------------------------------------
(* The writer.                                                             *)

Circle(v) == \E x \in Leads(v) \cup {v} : x \in Leads(x)

\* What the writer marks when it is inside of path.
Marked(v, path) ==
    \/ Circle(v)
    \/ \E x \in Leads(v) \cup {v} : x \in path /\ x \in Pairs \cup Vectors

LEMMA CircleIs ==
    ASSUME HeapOK, NEW v \in Datum
    PROVE  Circular(v) <=> Circle(v)
<1>1. Inside(v) = Leads(v) /\ Leads(v) \in SUBSET Datum
  BY InsideIs, LeadsStep
<1>2. \A x \in Datum : Inside(x) = Leads(x)
  BY InsideIs
<1> QED
  BY <1>1, <1>2 DEF Circular, Circle

LEMMA MarkedStep ==
    ASSUME HeapOK, NEW v \in Datum, NEW path \in SUBSET Datum
    PROVE  Marked(v, path) <=>
              /\ v \in Pairs \cup Vectors
              /\ v \in path \/ \E x \in into(v) : Marked(x, path \cup {v})
<1>1. into(v) \in SUBSET Datum /\ Leads(v) \in SUBSET Datum
  BY Slot, LeadsStep
<1>2. Leads(v) = into(v) \cup UNION {Leads(x) : x \in into(v)}
  BY LeadsStep
<1>3. CASE v \notin Pairs \cup Vectors
  <2>1. into(v) = {}
    BY <1>3 DEF into
  <2>2. Leads(v) = {}
    BY <1>2, <2>1
  <2> QED
    BY <1>3, <2>2 DEF Marked, Circle
<1>4. CASE v \in Pairs \cup Vectors /\ v \in path
  BY <1>4 DEF Marked
<1>5. CASE v \in Pairs \cup Vectors /\ v \notin path
  <2>1. ASSUME NEW y \in Leads(v) PROVE \E x \in into(v) : y \in Leads(x) \cup {x}
    BY <1>2, <2>1
  <2>2. ASSUME NEW x \in into(v) PROVE Leads(x) \cup {x} \subseteq Leads(v)
    BY <1>2, <2>2
  <2>3. ASSUME Marked(v, path) PROVE \E x \in into(v) : Marked(x, path \cup {v})
    <3>1. CASE v \in Leads(v)
      <4>1. PICK x \in into(v) : v \in Leads(x) \cup {x}
        BY <2>1, <3>1
      <4> QED
        BY <1>5, <4>1 DEF Marked
    <3>2. CASE v \notin Leads(v)
      <4>1. PICK y \in Leads(v) : y \in Leads(y) \/ (y \in path /\ y \in Pairs \cup Vectors)
        BY <1>5, <2>3, <3>2 DEF Marked, Circle
      <4>2. PICK x \in into(v) : y \in Leads(x) \cup {x}
        BY <2>1
      <4> QED
        BY <4>1, <4>2 DEF Marked, Circle
    <3> QED
      BY <3>1, <3>2
  <2>4. ASSUME NEW x \in into(v), Marked(x, path \cup {v}) PROVE Marked(v, path)
    <3>1. PICK y \in Leads(x) \cup {x} : y \in Leads(y) \/ (y \in path \cup {v} /\ y \in Pairs \cup Vectors)
      BY <2>4 DEF Marked, Circle
    <3>2. y \in Leads(v)
      BY <2>2
    <3> QED
      BY <3>1, <3>2 DEF Marked, Circle
  <2> QED
    BY <1>5, <2>3, <2>4
<1> QED
  BY <1>3, <1>4, <1>5

LEMMA MarkIs ==
    ASSUME HeapOK
    PROVE  \A v \in Datum, path \in SUBSET Datum :
              writes_mark[v][path] =
                 (/\ v \in Pairs \cup Vectors
                  /\ v \in path \/ \E x \in into(v) : writes_mark[x][path \cup {v}])
<1> DEFINE f == [v \in Datum |-> [path \in SUBSET Datum |-> Marked(v, path)]]
           B(h, v, path) == /\ v \in Pairs \cup Vectors
                            /\ v \in path \/ \E x \in into(v) : h[x][path \cup {v}]
           Body(h) == [v \in Datum |-> [path \in SUBSET Datum |-> B(h, v, path)]]
<1>1. ASSUME NEW v \in Datum, NEW path \in SUBSET Datum PROVE Marked(v, path) = B(f, v, path)
  <2>1. into(v) \subseteq Datum /\ path \cup {v} \in SUBSET Datum
    BY Slot
  <2>2. ASSUME NEW x \in into(v) PROVE f[x][path \cup {v}] = Marked(x, path \cup {v})
    BY <2>1
  <2> HIDE DEF f
  <2>3. B(f, v, path) <=> /\ v \in Pairs \cup Vectors
                          /\ v \in path \/ \E x \in into(v) : Marked(x, path \cup {v})
    BY <2>2, Zenon
  <2> HIDE DEF B
  <2>4. Marked(v, path) <=> B(f, v, path)
    BY <2>3, MarkedStep
  <2> QED
    BY <2>4 DEF Marked, B
<1>2. f = Body(f)
  BY <1>1, Zenon
<1>3. ASSUME NEW g, NEW h, g = Body(h)
      PROVE  \A v \in Datum, path \in SUBSET Datum : g[v][path] = B(h, v, path)
  <2> HIDE DEF B
  <2> QED
    BY <1>3
<1>4. writes_mark = CHOOSE h : h = Body(h)
  BY DEF writes_mark
<1> HIDE DEF f, Body
<1>5. writes_mark = Body(writes_mark)
  BY <1>2, <1>4
<1>6. \A v \in Datum, path \in SUBSET Datum : writes_mark[v][path] = B(writes_mark, v, path)
  BY <1>3, <1>5
<1> QED
  BY <1>6, Zenon

LEMMA MarksOne ==
    ASSUME HeapOK, NEW path \in SUBSET Datum
    PROVE  \A v \in Datum : writes_mark[v][path] = Marked(v, path)
<1> DEFINE Wrong(p) == \E v \in Datum : writes_mark[v][p] # Marked(v, p)
           T == {n \in Nat : \E p \in SUBSET Datum : Outside(p) = n /\ Wrong(p)}
<1>1. T = {}
  <2> HIDE DEF Wrong
  <2> SUFFICES ASSUME T # {} PROVE FALSE
    OBVIOUS
  <2>1. PICK n \in T : \A m \in T : n <= m
    BY LeastNumber
  <2>2. PICK p \in SUBSET Datum : Outside(p) = n /\ Wrong(p)
    OBVIOUS
  <2>3. PICK v \in Datum : writes_mark[v][p] # Marked(v, p)
    BY <2>2, Zenon DEF Wrong
  <2>a. into(v) \subseteq Datum /\ p \cup {v} \in SUBSET Datum
    BY Slot
  <2>4. CASE v \in p
    <3>1. writes_mark[v][p] = (/\ v \in Pairs \cup Vectors
                               /\ v \in p \/ \E x \in into(v) : writes_mark[x][p \cup {v}])
      BY MarkIs
    <3>2. writes_mark[v][p] \in BOOLEAN /\ (writes_mark[v][p] <=> v \in Pairs \cup Vectors)
      BY <2>4, <3>1
    <3>3. Marked(v, p) <=> (v \in Pairs \cup Vectors)
      BY <2>4, MarkedStep
    <3> QED
      BY <2>3, <3>2, <3>3 DEF Marked
  <2>5. CASE v \notin p
    <3>1. Outside(p \cup {v}) \in Nat /\ Outside(p \cup {v}) < n
      BY <2>2, <2>5, <2>a, OutsideFalls
    <3>2. ~Wrong(p \cup {v})
      <4>1. Outside(p \cup {v}) \notin T
        BY <2>1, <3>1
      <4> QED
        BY <2>a, <3>1, <4>1
    <3>3. \A x \in into(v) : writes_mark[x][p \cup {v}] = Marked(x, p \cup {v})
      BY <2>a, <3>2 DEF Wrong
    <3>4. writes_mark[v][p] = (/\ v \in Pairs \cup Vectors
                               /\ v \in p \/ \E x \in into(v) : writes_mark[x][p \cup {v}])
      BY MarkIs
    <3>5. Marked(v, p) <=> /\ v \in Pairs \cup Vectors
                           /\ v \in p \/ \E x \in into(v) : Marked(x, p \cup {v})
      BY MarkedStep
    <3>6. (\E x \in into(v) : writes_mark[x][p \cup {v}]) <=> (\E x \in into(v) : Marked(x, p \cup {v}))
      BY <3>3, Zenon
    <3>7. writes_mark[v][p] \in BOOLEAN
      BY <3>4
    <3>8. writes_mark[v][p] <=> Marked(v, p)
      BY <3>4, <3>5, <3>6
    <3> QED
      BY <2>3, <3>7, <3>8 DEF Marked
  <2> QED
    BY <2>4, <2>5
<1>2. Outside(path) \in Nat
  <2>1. IsFiniteSet(Datum \ path)
    BY DatumFinite, FS_Subset
  <2> QED
    BY <2>1, FS_CardinalityType DEF Outside
<1>3. ~Wrong(path)
  <2> HIDE DEF Wrong
  <2> QED
    BY <1>1, <1>2
<1> QED
  BY <1>3

LEMMA MarksHold == HeapOK => MarksJustCycles
<1> SUFFICES ASSUME HeapOK, NEW v \in Pairs \cup Vectors
             PROVE  writes_mark[v][{}] = Circular(v)
  BY Zenon DEF MarksJustCycles
<1>1. v \in Datum /\ {} \in SUBSET Datum
  BY DEF Datum
<1>2. writes_mark[v][{}] = Marked(v, {})
  BY <1>1, MarksOne
<1>3. Marked(v, {}) <=> Circular(v)
  BY <1>1, CircleIs DEF Marked
<1>4. Circular(v) \in BOOLEAN /\ Marked(v, {}) \in BOOLEAN
  BY DEF Circular, Marked
<1> QED
  BY <1>2, <1>3, <1>4

-----------------------------------------------------------------------------
(* What no walk can tell apart.                                            *)

Couples == Datum \X Datum

\* What two values have to be, and what pairs of parts have to match then.
Alike(a, b) == (a \in Pairs /\ b \in Pairs) \/ (a \in Vectors /\ b \in Vectors)
Below(a, b) == IF a \in Pairs THEN {<<car(a), car(b)>>, <<cdr(a), cdr(b)>>} ELSE {<<element(a), element(b)>>}

LEMMA BelowIs ==
    ASSUME HeapOK, NEW a \in Datum, NEW b \in Datum, Alike(a, b)
    PROVE  Below(a, b) \in SUBSET Couples /\ \A p \in Below(a, b) : p[1] \in into(a)
<1>1. CASE a \in Pairs /\ b \in Pairs
  <2>1. Below(a, b) = {<<car(a), car(b)>>, <<cdr(a), cdr(b)>>} /\ into(a) = {car(a), cdr(a)}
    BY <1>1 DEF Below, into
  <2> QED
    BY <1>1, <2>1, Slot DEF Couples
<1>2. CASE a \in Vectors /\ b \in Vectors
  <2>1. Below(a, b) = {<<element(a), element(b)>>} /\ into(a) = {element(a)}
    BY <1>2, ObjectsAssumption DEF Below, into
  <2> QED
    BY <1>2, <2>1, Slot DEF Couples
<1> QED
  BY <1>1, <1>2 DEF Alike

LEMMA MatchesIs ==
    ASSUME NEW R, NEW a, NEW b
    PROVE  Matches(R, a, b) <=> a = b \/ (Alike(a, b) /\ Below(a, b) \subseteq R)
BY ObjectsAssumption DEF Matches, Alike, Below

Consistent(S) == \A p \in S : Matches(S, p[1], p[2])
Largest(R)    == {p \in R : \E S \in SUBSET R : p \in S /\ Consistent(S)}
Narrower(R)   == {p \in R : Matches(R, p[1], p[2])}

LEMMA MatchesMore ==
    ASSUME NEW R, NEW S, R \subseteq S, NEW a, NEW b, Matches(R, a, b)
    PROVE  Matches(S, a, b)
BY DEF Matches

LEMMA LargestFacts ==
    ASSUME NEW R
    PROVE  /\ Largest(R) \subseteq R /\ Consistent(Largest(R))
           /\ \A S \in SUBSET R : Consistent(S) => S \subseteq Largest(R)
<1>1. \A S \in SUBSET R : Consistent(S) => S \subseteq Largest(R)
  BY DEF Largest
<1>2. ASSUME NEW p \in Largest(R) PROVE Matches(Largest(R), p[1], p[2])
  <2>1. PICK S \in SUBSET R : p \in S /\ Consistent(S)
    BY DEF Largest
  <2>2. S \subseteq Largest(R)
    BY <1>1, <2>1
  <2>3. Matches(S, p[1], p[2])
    BY <2>1 DEF Consistent
  <2> QED
    BY <2>2, <2>3, MatchesMore
<1> QED
  BY <1>1, <1>2 DEF Largest, Consistent

LEMMA LargestStep ==
    ASSUME NEW R
    PROVE  /\ Narrower(R) \subseteq R
           /\ Narrower(R) = R => Largest(R) = R
           /\ Largest(Narrower(R)) = Largest(R)
<1>1. Narrower(R) \subseteq R
  BY DEF Narrower
<1>2. ASSUME Narrower(R) = R PROVE Largest(R) = R
  <2>1. Consistent(R)
    BY <1>2 DEF Consistent, Narrower
  <2> QED
    BY <2>1, LargestFacts
<1>3. Largest(R) \subseteq Narrower(R)
  <2> SUFFICES ASSUME NEW p \in Largest(R) PROVE p \in Narrower(R)
    OBVIOUS
  <2>1. p \in R /\ Largest(R) \subseteq R /\ Matches(Largest(R), p[1], p[2])
    BY LargestFacts DEF Consistent
  <2>2. Matches(R, p[1], p[2])
    BY <2>1, MatchesMore
  <2> QED
    BY <2>1, <2>2 DEF Narrower
<1>4. Largest(R) \subseteq Largest(Narrower(R))
  BY <1>3, LargestFacts
<1>5. Largest(Narrower(R)) \subseteq Largest(R)
  <2>1. Largest(Narrower(R)) \subseteq R /\ Consistent(Largest(Narrower(R)))
    BY <1>1, LargestFacts
  <2> QED
    BY <2>1, LargestFacts
<1> QED
  BY <1>1, <1>2, <1>4, <1>5

LEMMA ShrinkIs ==
    \A R \in SUBSET Couples : Shrink[R] = IF Narrower(R) = R THEN R ELSE Shrink[Narrower(R)]
<1> DEFINE f == [R \in SUBSET Couples |-> Largest(R)]
           Body(h) == [R \in SUBSET Couples |-> IF Narrower(R) = R THEN R ELSE h[Narrower(R)]]
<1>1. ASSUME NEW R \in SUBSET Couples PROVE Largest(R) = IF Narrower(R) = R THEN R ELSE f[Narrower(R)]
  <2>1. Narrower(R) \in SUBSET Couples
    BY LargestStep
  <2>2. f[Narrower(R)] = Largest(Narrower(R))
    BY <2>1
  <2> QED
    BY <2>2, LargestStep
<1>2. f = Body(f)
  BY <1>1
<1>3. ASSUME NEW g, NEW h, g = Body(h)
      PROVE  \A R \in SUBSET Couples : g[R] = IF Narrower(R) = R THEN R ELSE h[Narrower(R)]
  BY <1>3
<1>4. Shrink = CHOOSE h : h = Body(h)
  BY DEF Shrink, Narrower, Couples
<1> HIDE DEF f, Body
<1>5. Shrink = Body(Shrink)
  BY <1>2, <1>4
<1> QED
  BY <1>3, <1>5

LEMMA ShrinkIsLargest ==
    ASSUME NEW R0 \in SUBSET Couples
    PROVE  Shrink[R0] = Largest(R0)
<1> DEFINE T == {n \in Nat : \E R \in SUBSET Couples : Cardinality(R) = n /\ Shrink[R] # Largest(R)}
<1>0. ASSUME NEW R \in SUBSET Couples PROVE IsFiniteSet(R) /\ Cardinality(R) \in Nat
  <2>1. IsFiniteSet(Couples)
    BY DatumFinite, FS_Product DEF Couples
  <2> QED
    BY <2>1, FS_Subset, FS_CardinalityType
<1>1. T = {}
  <2> SUFFICES ASSUME T # {} PROVE FALSE
    OBVIOUS
  <2>1. PICK n \in T : \A m \in T : n <= m
    BY LeastNumber
  <2>2. PICK R \in SUBSET Couples : Cardinality(R) = n /\ Shrink[R] # Largest(R)
    OBVIOUS
  <2> DEFINE S == Narrower(R)
  <2>3. S \subseteq R /\ (S = R => Largest(R) = R) /\ Largest(S) = Largest(R)
    BY LargestStep
  <2>4. Shrink[R] = IF S = R THEN R ELSE Shrink[S]
    BY ShrinkIs
  <2> HIDE DEF S
  <2>5. S # R
    BY <2>2, <2>3, <2>4
  <2>6. S \in SUBSET Couples
    BY <2>3
  <2>7. Cardinality(S) \in Nat /\ Cardinality(S) < n
    <3>1. IsFiniteSet(R) /\ Cardinality(R) \in Nat /\ Cardinality(S) \in Nat
      BY <1>0, <2>6
    <3>2. Cardinality(S) <= Cardinality(R) /\ Cardinality(S) # Cardinality(R)
      BY <2>3, <2>5, <3>1, FS_Subset
    <3> QED
      BY <2>2, <3>1, <3>2
  <2>8. Cardinality(S) \notin T
    BY <2>1, <2>7
  <2>9. Shrink[S] = Largest(S)
    BY <2>6, <2>7, <2>8
  <2> QED
    BY <2>2, <2>3, <2>4, <2>5, <2>9
<1> QED
  BY <1>0, <1>1

LEMMA SameIs ==
    /\ Same \in SUBSET Couples /\ Consistent(Same)
    /\ \A S \in SUBSET Couples : Consistent(S) => S \subseteq Same
<1>1. Same = Largest(Couples)
  BY ShrinkIsLargest DEF Same, Couples
<1> QED
  BY <1>1, LargestFacts

-----------------------------------------------------------------------------
(* equal?.                                                                 *)

Lefts(seen) == {p[1] : p \in seen}

\* What equal? answers, if W has the calls that answer true.
Answer(W, a, b, seen) ==
    \/ a = b
    \/ /\ Alike(a, b)
       /\ IF a \in Lefts(seen) THEN <<a, b>> \in seen
          ELSE \A p \in Below(a, b) : <<p[1], p[2], seen \cup {<<a, b>>}>> \in W

LEMMA LeftsGrow ==
    ASSUME NEW seen \in SUBSET Couples, NEW a \in Datum, NEW b \in Datum
    PROVE  /\ Lefts(seen) \in SUBSET Datum /\ Lefts(seen \cup {<<a, b>>}) = Lefts(seen) \cup {a}
           /\ seen \cup {<<a, b>>} \in SUBSET Couples
           /\ Outside(Lefts(seen)) \in Nat
           /\ a \notin Lefts(seen) => Outside(Lefts(seen \cup {<<a, b>>})) < Outside(Lefts(seen))
<1>1. /\ Lefts(seen) \in SUBSET Datum /\ seen \cup {<<a, b>>} \in SUBSET Couples
      /\ Lefts(seen \cup {<<a, b>>}) = Lefts(seen) \cup {a}
  <2>1. <<a, b>> \in Couples /\ <<a, b>>[1] = a /\ \A p \in Couples : p[1] \in Datum
    BY DEF Couples
  <2> HIDE DEF Couples
  <2>2. Lefts(seen) \in SUBSET Datum /\ seen \cup {<<a, b>>} \in SUBSET Couples
    BY <2>1 DEF Lefts
  <2> DEFINE c == <<a, b>>
  <2> HIDE DEF c
  <2>3. Lefts(seen \cup {c}) = Lefts(seen) \cup {c[1]}
    BY DEF Lefts
  <2> QED
    BY <2>1, <2>2, <2>3 DEF c
<1>2. Outside(Lefts(seen)) \in Nat
  <2>1. IsFiniteSet(Datum \ Lefts(seen))
    BY DatumFinite, FS_Subset
  <2> QED
    BY <2>1, FS_CardinalityType DEF Outside
<1>3. ASSUME a \notin Lefts(seen)
      PROVE  Outside(Lefts(seen \cup {<<a, b>>})) < Outside(Lefts(seen))
  <2> DEFINE A == Lefts(seen)
             B == Lefts(seen \cup {<<a, b>>})
  <2>1. A \in SUBSET Datum /\ B \in SUBSET Datum /\ A \subseteq B /\ A # B
    BY <1>1, <1>3
  <2> HIDE DEF A, B
  <2>2. Outside(B) < Outside(A)
    BY <2>1, OutsideFalls
  <2> QED
    BY <2>2 DEF A, B
<1> QED
  BY <1>1, <1>2, <1>3

Calls == Datum \X Datum \X SUBSET Couples

\* The calls that answer true, as a set that agrees with what each goes on with.
LEMMA TrueCalls ==
    ASSUME HeapOK
    PROVE  \E W \in SUBSET Calls : \A a, b \in Datum, seen \in SUBSET Couples :
              <<a, b, seen>> \in W <=> Answer(W, a, b, seen)
<1> DEFINE S    == {"yes", "no"}
           Z    == Funs(Calls, S)
           Yes(f) == {c \in Calls : f[c] = "yes"}
           Val(f, c) == IF Answer(Yes(f), c[1], c[2], c[3]) THEN "yes" ELSE "no"
           H    == [f \in Z |-> [c \in Calls |-> Val(f, c)]]
           rank == [c \in Calls |-> Outside(Lefts(c[3]))]
<1>1. rank \in [Calls -> Nat]
  <2>1. ASSUME NEW c \in Calls PROVE Outside(Lefts(c[3])) \in Nat
    <3>1. c[3] \in SUBSET Couples /\ c[1] \in Datum
      BY DEF Calls
    <3> QED
      BY <3>1, LeftsGrow
  <2> QED
    BY <2>1
<1>2. H \in [Z -> Z]
  <2> HIDE DEF Yes
  <2> QED
    BY DEF Funs
<1>3. ASSUME NEW f \in Z, NEW g \in Z, NEW c \in Calls,
             \A e \in Calls : rank[e] < rank[c] => f[e] = g[e]
      PROVE  H[f][c] = H[g][c]
  <2> DEFINE a == c[1]
             b == c[2]
             seen == c[3]
             s == seen \cup {<<a, b>>}
  <2>1. a \in Datum /\ b \in Datum /\ seen \in SUBSET Couples
    BY DEF Calls
  <2>a. s \in SUBSET Couples
    BY <2>1 DEF s, Couples
  <2>b. rank[c] = Outside(Lefts(seen))
    OBVIOUS
  <2> HIDE DEF a, b, seen, s
  <2>2. ASSUME a \notin Lefts(seen), Alike(a, b), NEW p \in Below(a, b)
        PROVE  <<p[1], p[2], s>> \in Yes(f) <=> <<p[1], p[2], s>> \in Yes(g)
    <3>1. p[1] \in Datum /\ p[2] \in Datum
      BY <2>1, <2>2, BelowIs DEF Couples
    <3> DEFINE e == <<p[1], p[2], s>>
    <3>2. e \in Calls /\ e[3] = s
      BY <2>a, <3>1 DEF Calls
    <3>3. rank[e] = Outside(Lefts(s))
      BY <3>2
    <3>4. Outside(Lefts(s)) < Outside(Lefts(seen))
      BY <2>1, <2>2, LeftsGrow DEF s
    <3> HIDE DEF e, rank
    <3>5. f[e] = g[e]
      BY <1>3, <2>b, <3>2, <3>3, <3>4
    <3> QED
      BY <3>2, <3>5 DEF e
  <2>3. Answer(Yes(f), a, b, seen) <=> Answer(Yes(g), a, b, seen)
    <3> HIDE DEF Yes
    <3> QED
      BY <2>2 DEF Answer, s
  <2>4. Val(f, c) = Val(g, c)
    <3> HIDE DEF Yes
    <3> QED
      BY <2>3 DEF a, b, seen
  <2> HIDE DEF Val
  <2>5. H[f][c] = Val(f, c) /\ H[g][c] = Val(g, c)
    OBVIOUS
  <2> QED
    BY <2>4, <2>5
<1>4. "no" \in S
  OBVIOUS
<1>5. \E f \in Z : f = H[f]
  <2> HIDE DEF S, H, rank, Val, Yes
  <2>1. rank \in Funs(Calls, Nat) /\ H \in Funs(Funs(Calls, S), Funs(Calls, S))
    BY <1>1, <1>2 DEF Funs
  <2> QED
    BY ONLY <2>1, <1>3, <1>4, RecursionExists
<1> HIDE DEF S, H, rank
<1>6. PICK f \in Z : f = H[f]
  BY <1>5
<1>7. ASSUME NEW a \in Datum, NEW b \in Datum, NEW seen \in SUBSET Couples
      PROVE  <<a, b, seen>> \in Yes(f) <=> Answer(Yes(f), a, b, seen)
  <2> DEFINE c == <<a, b, seen>>
  <2>1. c \in Calls /\ c[1] = a /\ c[2] = b /\ c[3] = seen
    BY DEF Calls
  <2> HIDE DEF c
  <2>2. f[c] = Val(f, c)
    <3> HIDE DEF Val
    <3>1. H[f] = [x \in Calls |-> Val(f, x)]
      BY DEF H
    <3> QED
      BY <1>6, <2>1, <3>1
  <2>3. c \in Yes(f) <=> f[c] = "yes"
    BY <2>1
  <2> HIDE DEF Yes
  <2>4. c \in Yes(f) <=> Answer(Yes(f), a, b, seen)
    BY <2>1, <2>2, <2>3
  <2> QED
    BY <2>4 DEF c
<1> QED
  <2>1. Yes(f) \in SUBSET Calls
    OBVIOUS
  <2> HIDE DEF Yes
  <2> QED
    BY <1>7, <2>1

LEMMA EqualIs ==
    ASSUME HeapOK
    PROVE  \A a, b \in Datum, seen \in SUBSET Couples :
              /\ equal_values[a][b][seen] \in BOOLEAN
              /\ equal_values[a][b][seen] <=>
                    \/ a = b
                    \/ /\ Alike(a, b)
                       /\ IF a \in Lefts(seen) THEN <<a, b>> \in seen
                          ELSE \A p \in Below(a, b) : equal_values[p[1]][p[2]][seen \cup {<<a, b>>}]
<1>1. PICK W \in SUBSET Calls : \A a, b \in Datum, seen \in SUBSET Couples :
              <<a, b, seen>> \in W <=> Answer(W, a, b, seen)
  BY TrueCalls
<1> DEFINE f == [a \in Datum |-> [b \in Datum |-> [seen \in SUBSET Couples |-> <<a, b, seen>> \in W]]]
           E(h, a, b, seen) ==
              LET inside == \E p \in seen : p[1] = a
                  s      == seen \cup {<<a, b>>}
              IN \/ a = b
                 \/ /\ a \in Pairs /\ b \in Pairs
                    /\ IF inside THEN met(a, b, seen)
                       ELSE h[car(a)][car(b)][s] /\ h[cdr(a)][cdr(b)][s]
                 \/ /\ a \in Vectors /\ b \in Vectors
                    /\ IF inside THEN met(a, b, seen) ELSE h[element(a)][element(b)][s]
           A(h, a, b, seen) ==
              \/ a = b
              \/ /\ Alike(a, b)
                 /\ IF a \in Lefts(seen) THEN <<a, b>> \in seen
                    ELSE \A p \in Below(a, b) : h[p[1]][p[2]][seen \cup {<<a, b>>}]
           Body(h) == [a \in Datum |-> [b \in Datum |-> [seen \in SUBSET Couples |-> E(h, a, b, seen)]]]
<1>2. ASSUME NEW h, NEW a, NEW b, NEW seen PROVE E(h, a, b, seen) <=> A(h, a, b, seen)
  <2>1. (\E p \in seen : p[1] = a) <=> a \in Lefts(seen)
    BY DEF Lefts
  <2>2. CASE a = b
    BY <2>2
  <2>3. CASE a # b /\ a \in Pairs
    <3>1. a \notin Vectors /\ Below(a, b) = {<<car(a), car(b)>>, <<cdr(a), cdr(b)>>} /\ (Alike(a, b) <=> b \in Pairs)
      BY <2>3, ObjectsAssumption DEF Below, Alike
    <3> DEFINE s == seen \cup {<<a, b>>}
    <3> HIDE DEF s
    <3>2. (\A p \in Below(a, b) : h[p[1]][p[2]][s]) <=> h[car(a)][car(b)][s] /\ h[cdr(a)][cdr(b)][s]
      BY <3>1
    <3> QED
      BY <2>1, <2>3, <3>1, <3>2 DEF met, s
  <2>4. CASE a # b /\ a \in Vectors
    <3>1. a \notin Pairs /\ Below(a, b) = {<<element(a), element(b)>>} /\ (Alike(a, b) <=> b \in Vectors)
      BY <2>4, ObjectsAssumption DEF Below, Alike
    <3> DEFINE s == seen \cup {<<a, b>>}
    <3> HIDE DEF s
    <3>2. (\A p \in Below(a, b) : h[p[1]][p[2]][s]) <=> h[element(a)][element(b)][s]
      BY <3>1
    <3> QED
      BY <2>1, <2>4, <3>1, <3>2 DEF met, s
  <2>5. CASE a # b /\ a \notin Pairs /\ a \notin Vectors
    BY <2>5 DEF Alike
  <2> QED
    BY <2>2, <2>3, <2>4, <2>5
<1>3. ASSUME NEW a \in Datum, NEW b \in Datum, NEW seen \in SUBSET Couples
      PROVE  (<<a, b, seen>> \in W) = E(f, a, b, seen)
  <2>1. <<a, b, seen>> \in W <=> Answer(W, a, b, seen)
    BY <1>1
  <2> DEFINE s == seen \cup {<<a, b>>}
  <2>2. s \in SUBSET Couples
    BY DEF Couples
  <2>3. ASSUME NEW x \in Datum, NEW y \in Datum PROVE f[x][y][s] = (<<x, y, s>> \in W)
    BY <2>2
  <2> HIDE DEF f
  <2>4. ASSUME Alike(a, b), NEW p \in Below(a, b) PROVE f[p[1]][p[2]][s] = (<<p[1], p[2], s>> \in W)
    <3>1. p[1] \in Datum /\ p[2] \in Datum
      BY <2>4, BelowIs DEF Couples
    <3> HIDE DEF s
    <3> QED
      BY <2>3, <3>1
  <2>5. ASSUME Alike(a, b) PROVE (\A p \in Below(a, b) : f[p[1]][p[2]][s]) <=> (\A p \in Below(a, b) : <<p[1], p[2], s>> \in W)
    <3> HIDE DEF s
    <3> QED
      BY <2>4, <2>5
  <2>6. A(f, a, b, seen) <=> Answer(W, a, b, seen)
    BY <2>5 DEF Answer
  <2>7. E(f, a, b, seen) <=> A(f, a, b, seen)
    BY <1>2
  <2> HIDE DEF A, s
  <2>8. <<a, b, seen>> \in W <=> E(f, a, b, seen)
    <3> HIDE DEF E
    <3> QED
      BY <2>1, <2>6, <2>7, Zenon
  <2>9. E(f, a, b, seen) \in BOOLEAN
    OBVIOUS
  <2> HIDE DEF E
  <2> QED
    BY <2>8, <2>9, SMT
<1>4. f = Body(f)
  <2> DEFINE g(a, b, seen) == <<a, b, seen>> \in W
  <2>1. f = [a \in Datum |-> [b \in Datum |-> [seen \in SUBSET Couples |-> g(a, b, seen)]]]
    OBVIOUS
  <2>2. \A a, b \in Datum, seen \in SUBSET Couples : g(a, b, seen) = E(f, a, b, seen)
    BY <1>3
  <2> HIDE DEF f, g, E
  <2> QED
    BY <2>1, <2>2, Zenon
<1>5. ASSUME NEW g, NEW h, g = Body(h)
      PROVE  \A a, b \in Datum, seen \in SUBSET Couples : g[a][b][seen] = E(h, a, b, seen)
  <2> HIDE DEF E
  <2> QED
    BY <1>5
<1>6. equal_values = CHOOSE h : h = Body(h)
  BY DEF equal_values, Couples
<1> HIDE DEF f, Body
<1>7. equal_values = Body(equal_values)
  BY <1>4, <1>6
<1> SUFFICES ASSUME NEW a \in Datum, NEW b \in Datum, NEW seen \in SUBSET Couples
             PROVE  equal_values[a][b][seen] \in BOOLEAN /\ (equal_values[a][b][seen] <=> A(equal_values, a, b, seen))
  OBVIOUS
<1>8. equal_values[a][b][seen] = E(equal_values, a, b, seen)
  <2> HIDE DEF E
  <2> QED
    BY <1>5, <1>7
<1>9. E(equal_values, a, b, seen) \in BOOLEAN
  OBVIOUS
<1>10. E(equal_values, a, b, seen) <=> A(equal_values, a, b, seen)
  BY <1>2
<1> HIDE DEF A, E
<1> QED
  BY <1>8, <1>9, <1>10, Zenon

\* Whatever equal? answers true for is in a relation that respects slots,
\* apart from what it took for equal.
Excused(Q, seen) == \A p \in Q : Matches(Q \cup seen, p[1], p[2])

LEMMA EqualIsSound ==
    ASSUME HeapOK, NEW seen0 \in SUBSET Couples
    PROVE  \A a, b \in Datum :
              equal_values[a][b][seen0] => \E Q \in SUBSET Couples : <<a, b>> \in Q \cup seen0 /\ Excused(Q, seen0)
<1> DEFINE Right(seen) == \A a, b \in Datum :
              equal_values[a][b][seen] => \E Q \in SUBSET Couples : <<a, b>> \in Q \cup seen /\ Excused(Q, seen)
           T == {n \in Nat : \E seen \in SUBSET Couples : Outside(Lefts(seen)) = n /\ ~Right(seen)}
<1>1. ASSUME NEW seen \in SUBSET Couples, NEW a \in Datum, NEW b \in Datum,
             equal_values[a][b][seen],
             a \notin Lefts(seen) => Right(seen \cup {<<a, b>>})
      PROVE  \E Q \in SUBSET Couples : <<a, b>> \in Q \cup seen /\ Excused(Q, seen)
  <2>1. CASE a = b
    <3>1. {<<a, b>>} \in SUBSET Couples /\ Excused({<<a, b>>}, seen)
      BY <2>1 DEF Excused, Matches, Couples
    <3> QED
      BY <3>1
  <2>2. CASE a # b /\ a \in Lefts(seen)
    <3>1. <<a, b>> \in seen
      BY <1>1, <2>2, EqualIs
    <3>2. Excused({}, seen)
      BY DEF Excused
    <3> QED
      BY <3>1, <3>2
  <2>3. CASE a # b /\ a \notin Lefts(seen)
    <3> DEFINE s == seen \cup {<<a, b>>}
               R == {p \in Couples : p = <<a, b>> \/ \E Q \in SUBSET Couples : p \in Q /\ Excused(Q, s)}
    <3>1. Alike(a, b) /\ \A p \in Below(a, b) : equal_values[p[1]][p[2]][s]
      BY <1>1, <2>3, EqualIs
    <3>a. Right(s)
      <4> HIDE DEF Right
      <4> QED
        BY <1>1, <2>3
    <3>b. <<a, b>> \in R
      BY DEF Couples
    <3>c. s \subseteq R \cup seen
      BY <3>b
    <3> HIDE DEF s
    <3>2. ASSUME NEW Q \in SUBSET Couples, Excused(Q, s) PROVE Q \subseteq R
      BY <3>2
    <3>d. R \in SUBSET Couples
      OBVIOUS
    <3> HIDE DEF R
    <3>3. ASSUME NEW p \in Below(a, b) PROVE p \in R \cup seen
      <4>1. p \in Couples
        BY <3>1, BelowIs
      <4>2. p = <<p[1], p[2]>> /\ p[1] \in Datum /\ p[2] \in Datum
        BY <4>1 DEF Couples
      <4>3. PICK Q \in SUBSET Couples : <<p[1], p[2]>> \in Q \cup s /\ Excused(Q, s)
        BY <3>1, <3>a, <4>2
      <4> QED
        BY <3>2, <3>c, <4>2, <4>3
    <3>4. Matches(R \cup seen, a, b)
      BY <3>1, <3>3, MatchesIs
    <3>5. ASSUME NEW p \in R PROVE Matches(R \cup seen, p[1], p[2])
      <4>1. CASE p = <<a, b>>
        <5>1. p[1] = a /\ p[2] = b
          BY <4>1
        <5> QED
          BY <3>4, <5>1
      <4>2. CASE p # <<a, b>>
        <5>1. PICK Q \in SUBSET Couples : p \in Q /\ Excused(Q, s)
          BY <4>2 DEF R
        <5>2. Q \cup s \subseteq R \cup seen
          BY <3>2, <3>c, <5>1
        <5>3. Matches(Q \cup s, p[1], p[2])
          BY <5>1 DEF Excused
        <5> QED
          BY <5>2, <5>3, MatchesMore
      <4> QED
        BY <4>1, <4>2
    <3>6. Excused(R, seen)
      BY <3>5 DEF Excused
    <3> QED
      BY <3>b, <3>d, <3>6
  <2> QED
    BY <2>1, <2>2, <2>3
<1>2. T = {}
  <2> HIDE DEF Right
  <2> SUFFICES ASSUME T # {} PROVE FALSE
    OBVIOUS
  <2>1. PICK n \in T : \A m \in T : n <= m
    BY LeastNumber
  <2>2. PICK seen \in SUBSET Couples : Outside(Lefts(seen)) = n /\ ~Right(seen)
    OBVIOUS
  <2>3. ASSUME NEW a \in Datum, NEW b \in Datum, a \notin Lefts(seen) PROVE Right(seen \cup {<<a, b>>})
    <3> DEFINE s == seen \cup {<<a, b>>}
    <3>1. s \in SUBSET Couples /\ Outside(Lefts(s)) < n
      BY <2>2, <2>3, LeftsGrow
    <3>2. Outside(Lefts(s)) \in Nat
      BY <3>1, LeftsGrow
    <3> HIDE DEF s
    <3>3. Outside(Lefts(s)) \notin T
      BY <2>1, <3>1, <3>2
    <3>4. Right(s)
      BY <3>1, <3>2, <3>3
    <3> QED
      BY <3>4 DEF s
  <2>4. Right(seen)
    BY <1>1, <2>3 DEF Right
  <2> QED
    BY <2>2, <2>4
<1>3. Outside(Lefts(seen0)) \in Nat
  <2>1. \E d \in Datum : TRUE
    BY DEF Datum
  <2> QED
    BY <2>1, LeftsGrow
<1>4. Right(seen0)
  <2> HIDE DEF Right
  <2> QED
    BY <1>2, <1>3
<1> QED
  BY <1>4

\* equal? answers true for whatever cannot be told apart, if its first
\* argument has no circle in it and leads to nothing equal? is inside of.
Fresh(a, seen) == ~Circle(a) /\ \A x \in Leads(a) \cup {a} : x \notin Lefts(seen)

LEMMA FreshStep ==
    ASSUME HeapOK, NEW a \in Datum, NEW b \in Datum, NEW seen \in SUBSET Couples,
           Fresh(a, seen), NEW x \in into(a)
    PROVE  Fresh(x, seen \cup {<<a, b>>})
<1>1. Leads(a) \in SUBSET Datum /\ Leads(x) \cup {x} \subseteq Leads(a)
  BY LeadsStep
<1>2. a \notin Leads(a)
  BY DEF Fresh, Circle
<1>3. ~Circle(x)
  BY <1>1 DEF Fresh, Circle
<1>4. Lefts(seen \cup {<<a, b>>}) = Lefts(seen) \cup {a}
  BY LeftsGrow
<1> QED
  BY <1>1, <1>2, <1>3, <1>4 DEF Fresh

LEMMA EqualIsComplete ==
    ASSUME HeapOK, NEW seen0 \in SUBSET Couples
    PROVE  \A a, b \in Datum : <<a, b>> \in Same /\ Fresh(a, seen0) => equal_values[a][b][seen0]
<1> DEFINE Right(seen) == \A a, b \in Datum : <<a, b>> \in Same /\ Fresh(a, seen) => equal_values[a][b][seen]
           T == {n \in Nat : \E seen \in SUBSET Couples : Outside(Lefts(seen)) = n /\ ~Right(seen)}
<1>1. ASSUME NEW seen \in SUBSET Couples, NEW a \in Datum, NEW b \in Datum,
             <<a, b>> \in Same, Fresh(a, seen),
             a \notin Lefts(seen) => Right(seen \cup {<<a, b>>})
      PROVE  equal_values[a][b][seen]
  <2> DEFINE s == seen \cup {<<a, b>>}
  <2>1. a \notin Lefts(seen)
    BY <1>1 DEF Fresh
  <2>2. Right(s)
    <3> HIDE DEF Right
    <3> QED
      BY <1>1, <2>1
  <2>3. Matches(Same, a, b)
    <3> DEFINE p == <<a, b>>
    <3>1. p[1] = a /\ p[2] = b
      OBVIOUS
    <3> HIDE DEF p
    <3>2. p \in Same
      BY <1>1 DEF p
    <3> QED
      BY <3>1, <3>2, SameIs DEF Consistent
  <2>4. CASE a = b
    BY <2>4, EqualIs
  <2>5. CASE a # b
    <3>1. Alike(a, b) /\ Below(a, b) \subseteq Same
      BY <2>3, <2>5, MatchesIs
    <3>2. ASSUME NEW p \in Below(a, b) PROVE equal_values[p[1]][p[2]][s]
      <4>1. p \in Couples /\ p[1] \in into(a)
        BY <3>1, BelowIs
      <4>2. p = <<p[1], p[2]>> /\ p[1] \in Datum /\ p[2] \in Datum
        BY <4>1 DEF Couples
      <4>3. Fresh(p[1], s)
        BY <1>1, <4>1, FreshStep
      <4> HIDE DEF s
      <4> QED
        BY <2>2, <3>1, <4>2, <4>3
    <3> QED
      BY <2>1, <3>1, <3>2, EqualIs
  <2> QED
    BY <2>4, <2>5
<1>2. T = {}
  <2> HIDE DEF Right
  <2> SUFFICES ASSUME T # {} PROVE FALSE
    OBVIOUS
  <2>1. PICK n \in T : \A m \in T : n <= m
    BY LeastNumber
  <2>2. PICK seen \in SUBSET Couples : Outside(Lefts(seen)) = n /\ ~Right(seen)
    OBVIOUS
  <2>3. ASSUME NEW a \in Datum, NEW b \in Datum, a \notin Lefts(seen) PROVE Right(seen \cup {<<a, b>>})
    <3> DEFINE s == seen \cup {<<a, b>>}
    <3>1. s \in SUBSET Couples /\ Outside(Lefts(s)) < n
      BY <2>2, <2>3, LeftsGrow
    <3>2. Outside(Lefts(s)) \in Nat
      BY <3>1, LeftsGrow
    <3> HIDE DEF s
    <3>3. Outside(Lefts(s)) \notin T
      BY <2>1, <3>1, <3>2
    <3>4. Right(s)
      BY <3>1, <3>2, <3>3
    <3> QED
      BY <3>4 DEF s
  <2>4. Right(seen)
    BY <1>1, <2>3 DEF Right
  <2> QED
    BY <2>2, <2>4
<1>3. Outside(Lefts(seen0)) \in Nat
  <2>1. \E d \in Datum : TRUE
    BY DEF Datum
  <2> QED
    BY <2>1, LeftsGrow
<1>4. Right(seen0)
  <2> HIDE DEF Right
  <2> QED
    BY <1>2, <1>3
<1> QED
  BY <1>4

LEMMA EqualHolds == HeapOK => EqualIsSame
<1> SUFFICES ASSUME HeapOK, NEW a \in Pairs \cup Vectors, NEW b \in Pairs \cup Vectors
             PROVE  /\ equal(a, b) => <<a, b>> \in Same
                    /\ (<<a, b>> \in Same /\ ~Circular(a)) => equal(a, b)
  BY DEF EqualIsSame
<1>1. a \in Datum /\ b \in Datum /\ {} \in SUBSET Couples
  BY DEF Datum
<1>2. ASSUME equal(a, b) PROVE <<a, b>> \in Same
  <2>1. equal_values[a][b][{}]
    BY <1>2 DEF equal
  <2>2. PICK Q \in SUBSET Couples : <<a, b>> \in Q \cup {} /\ Excused(Q, {})
    BY <1>1, <2>1, EqualIsSound
  <2>3. Q \cup {} = Q
    OBVIOUS
  <2>4. Consistent(Q)
    BY <2>2, <2>3 DEF Excused, Consistent
  <2> QED
    BY <2>2, <2>3, <2>4, SameIs
<1>3. ASSUME <<a, b>> \in Same, ~Circular(a) PROVE equal(a, b)
  <2>1. Fresh(a, {})
    BY <1>1, <1>3, CircleIs DEF Fresh, Lefts
  <2> QED
    BY <1>1, <1>3, <2>1, EqualIsComplete DEF equal
<1> QED
  BY <1>2, <1>3

-----------------------------------------------------------------------------
(* Whatever the program does to its pairs and vectors.                     *)

\* The writer of a value ends, and marks it as circular just when it leads
\* back to itself or to something that does.
THEOREM MarksAreCycles == HeapSpec => []MarksJustCycles
BY HeapKept, MarksHold, PTL

\* equal? ends, answers true only for values no walk tells apart, and answers
\* true for all of those whose first argument is not circular.
THEOREM EqualValuesAreSame == HeapSpec => []EqualIsSame
BY HeapKept, EqualHolds, PTL

\* The two pointers of list? meet just when the cdrs never end.
THEOREM ListsAreFinite == HeapSpec => []ListIsFinite
BY HeapKept, ListHolds, PTL

-----------------------------------------------------------------------------
(* Quasiquote: terms of a number of levels.                                *)

TermLevel(leaves, twos, ones, S) == leaves \cup (twos \X S \X S) \cup (ones \X S)

AreLevels(t, leaves, twos, ones, n) ==
    /\ t = [m \in 0..n |-> t[m]]
    /\ t[0] = leaves
    /\ \A m \in 0..n : m < n => t[m + 1] = TermLevel(leaves, twos, ones, t[m])

LEMMA TermLevelsExist ==
    ASSUME NEW leaves, NEW twos, NEW ones, NEW n \in Nat
    PROVE  \E t : AreLevels(t, leaves, twos, ones, n)
<1> DEFINE Is(t, m) == AreLevels(t, leaves, twos, ones, m)
           T == {m \in Nat : ~ \E t : Is(t, m)}
<1> SUFFICES ASSUME T # {} PROVE FALSE
  OBVIOUS
<1>1. PICK m \in T : \A k \in T : m <= k
  BY LeastNumber
<1>2. CASE m = 0
  <2>1. Is([k \in 0..m |-> leaves], m)
    BY <1>2 DEF AreLevels
  <2> QED
    BY <2>1
<1>3. CASE m # 0
  <2> DEFINE p == m - 1
  <2>1. p \in Nat /\ p \notin T /\ p + 1 = m
    BY <1>1, <1>3
  <2> HIDE DEF p
  <2>2. PICK t : Is(t, p)
    BY <2>1
  <2> DEFINE u == [k \in 0..m |-> IF k = m THEN TermLevel(leaves, twos, ones, t[p]) ELSE t[k]]
  <2>3. u[0] = leaves
    BY <1>3, <2>1, <2>2 DEF AreLevels
  <2>4. ASSUME NEW k \in 0..m, k < m PROVE u[k + 1] = TermLevel(leaves, twos, ones, u[k])
    <3>1. k \in 0..p /\ u[k] = t[k] /\ k + 1 \in 0..m
      BY <2>1, <2>4
    <3>2. CASE k = p
      <4>1. u[k + 1] = TermLevel(leaves, twos, ones, t[p])
        BY <2>1, <3>1, <3>2
      <4> QED
        BY <3>1, <3>2, <4>1
    <3>3. CASE k # p
      <4>1. k < p /\ u[k + 1] = t[k + 1]
        BY <2>1, <3>1, <3>3
      <4> QED
        BY <2>2, <3>1, <4>1 DEF AreLevels
    <3> QED
      BY <3>2, <3>3
  <2>5. u = [k \in 0..m |-> u[k]]
    OBVIOUS
  <2> HIDE DEF u
  <2>6. Is(u, m)
    BY <2>3, <2>4, <2>5 DEF AreLevels
  <2> QED
    BY <2>6
<1> QED
  BY <1>2, <1>3

LEMMA TermLevelsAgree ==
    ASSUME NEW leaves, NEW twos, NEW ones, NEW n \in Nat, NEW m \in Nat, NEW t, NEW u,
           AreLevels(t, leaves, twos, ones, n), AreLevels(u, leaves, twos, ones, m),
           NEW k \in Nat, k <= n, k <= m
    PROVE  t[k] = u[k]
<1> DEFINE T == {j \in Nat : j <= n /\ j <= m /\ t[j] # u[j]}
<1> SUFFICES ASSUME T # {} PROVE FALSE
  OBVIOUS
<1>1. PICK j \in T : \A i \in T : j <= i
  BY LeastNumber
<1>2. j # 0
  BY DEF AreLevels
<1> DEFINE p == j - 1
<1>3. p \in Nat /\ p \notin T /\ p \in 0..n /\ p < n /\ p \in 0..m /\ p < m /\ p + 1 = j
  BY <1>1, <1>2
<1> HIDE DEF p
<1>4. t[p] = u[p]
  BY <1>3
<1>5. /\ t[j] = TermLevel(leaves, twos, ones, t[p])
      /\ u[j] = TermLevel(leaves, twos, ones, u[p])
  BY <1>3 DEF AreLevels
<1> QED
  BY <1>4, <1>5

\* Terms is what its recursive definition says.
LEMMA TermsAre ==
    ASSUME NEW leaves, NEW twos, NEW ones
    PROVE  LET of == Terms(leaves, twos, ones) IN
           /\ of[0] = leaves
           /\ \A n \in Nat : of[n + 1] = TermLevel(leaves, twos, ones, of[n])
<1> DEFINE Body(f) == [n \in Nat |->
               leaves \cup (IF n = 0 THEN {}
                            ELSE LET sub == f[n - 1] IN (twos \X sub \X sub) \cup (ones \X sub))]
           t(n) == CHOOSE u : AreLevels(u, leaves, twos, ones, n)
           f == [n \in Nat |-> t(n)[n]]
           of == Terms(leaves, twos, ones)
<1>1. ASSUME NEW n \in Nat PROVE AreLevels(t(n), leaves, twos, ones, n)
  BY TermLevelsExist, Zenon
<1>2. f[0] = leaves
  BY <1>1 DEF AreLevels
<1>3. ASSUME NEW n \in Nat PROVE f[n + 1] = TermLevel(leaves, twos, ones, f[n])
  <2>1. n + 1 \in Nat /\ n \in 0..n + 1 /\ n < n + 1 /\ n <= n /\ n <= n + 1
    OBVIOUS
  <2>2. AreLevels(t(n), leaves, twos, ones, n) /\ AreLevels(t(n + 1), leaves, twos, ones, n + 1)
    BY <1>1, <2>1
  <2> HIDE DEF t
  <2>3. t(n + 1)[n] = t(n)[n]
    BY <2>1, <2>2, TermLevelsAgree
  <2>4. t(n + 1)[n + 1] = TermLevel(leaves, twos, ones, t(n + 1)[n])
    BY <2>1, <2>2 DEF AreLevels
  <2> QED
    BY <2>1, <2>3, <2>4
<1>f. f = [n \in Nat |-> f[n]]
  BY DEF f
<1> HIDE DEF f
<1>4. f = Body(f)
  <2>1. ASSUME NEW n \in Nat
        PROVE  f[n] = leaves \cup (IF n = 0 THEN {}
                            ELSE (twos \X f[n - 1] \X f[n - 1]) \cup (ones \X f[n - 1]))
    <3>1. CASE n = 0
      BY <1>2, <3>1
    <3>2. CASE n # 0
      <4>1. n - 1 \in Nat /\ (n - 1) + 1 = n
        BY <3>2
      <4>2. f[n] = TermLevel(leaves, twos, ones, f[n - 1])
        BY <1>3, <4>1
      <4> QED
        BY <3>2, <4>2 DEF TermLevel
    <3> QED
      BY <3>1, <3>2
  <2> QED
    BY <2>1, <1>f
<1>5. of = CHOOSE g : g = Body(g)
  BY DEF Terms
<1> HIDE DEF Body, of
<1>6. of = Body(of)
  BY <1>4, <1>5
<1>7. ASSUME NEW n \in Nat
      PROVE  of[n] = leaves \cup (IF n = 0 THEN {}
                            ELSE (twos \X of[n - 1] \X of[n - 1]) \cup (ones \X of[n - 1]))
  BY <1>6 DEF Body
<1>8. of[0] = leaves
  BY <1>7
<1>9. ASSUME NEW n \in Nat PROVE of[n + 1] = TermLevel(leaves, twos, ones, of[n])
  <2>1. n + 1 \in Nat /\ n + 1 # 0 /\ (n + 1) - 1 = n
    OBVIOUS
  <2>2. of[n + 1] = leaves \cup ((twos \X of[n] \X of[n]) \cup (ones \X of[n]))
    BY <1>7, <2>1
  <2> QED
    BY <2>2 DEF TermLevel
<1> QED
  BY <1>8, <1>9 DEF of

\* A term of more levels is one of fewer, or made of such.
LEMMA TermsGrow ==
    ASSUME NEW leaves, NEW twos, NEW ones, NEW n \in Nat, NEW m \in Nat, n <= m
    PROVE  Terms(leaves, twos, ones)[n] \subseteq Terms(leaves, twos, ones)[m]
<1> DEFINE of == Terms(leaves, twos, ones)
<1> HIDE DEF of
<1>0. /\ of[0] = leaves
      /\ \A k \in Nat : of[k + 1] = TermLevel(leaves, twos, ones, of[k])
  BY TermsAre DEF of
<1>1. ASSUME NEW k \in Nat PROVE of[k] \subseteq of[k + 1]
  <2> DEFINE T == {j \in Nat : ~(of[j] \subseteq of[j + 1])}
  <2> SUFFICES ASSUME T # {} PROVE FALSE
    OBVIOUS
  <2>1. PICK j \in T : \A i \in T : j <= i
    BY LeastNumber
  <2>2. j # 0
    <3>1. of[0] = leaves /\ of[0 + 1] = TermLevel(leaves, twos, ones, of[0])
      BY <1>0
    <3>2. leaves \subseteq TermLevel(leaves, twos, ones, of[0])
      BY DEF TermLevel
    <3> QED
      BY <3>1, <3>2
  <2> DEFINE p == j - 1
  <2>3. p \in Nat /\ p \notin T /\ p + 1 = j
    BY <2>1, <2>2
  <2> HIDE DEF p
  <2>4. of[p] \subseteq of[j] /\ of[j] = TermLevel(leaves, twos, ones, of[p])
        /\ of[j + 1] = TermLevel(leaves, twos, ones, of[j])
    BY <1>0, <2>3
  <2>5. TermLevel(leaves, twos, ones, of[p]) \subseteq TermLevel(leaves, twos, ones, of[j])
    BY <2>4 DEF TermLevel
  <2> QED
    BY <2>4, <2>5
<1> DEFINE T == {j \in Nat : n <= j /\ ~(of[n] \subseteq of[j])}
<1> SUFFICES ASSUME T # {} PROVE FALSE
  BY DEF of
<1>3. PICK j \in T : \A i \in T : j <= i
  BY LeastNumber
<1>4. j # n
  OBVIOUS
<1> DEFINE p == j - 1
<1>5. p \in Nat /\ p \notin T /\ p + 1 = j /\ n <= p
  BY <1>3, <1>4
<1> HIDE DEF p
<1> QED
  BY <1>1, <1>5

-----------------------------------------------------------------------------
(* What data are made of.                                                  *)

Leaves == {Sym(s) : s \in Symbols} \cup {Empty}

LEMMA DataGrow ==
    ASSUME NEW n \in Nat, NEW m \in Nat, n <= m
    PROVE  DataOf[n] \subseteq DataOf[m]
BY TermsGrow DEF DataOf

LEMMA DataAre ==
    /\ DataOf[0] = Leaves
    /\ \A n \in Nat : DataOf[n + 1] = Leaves \cup ({"pair"} \X DataOf[n] \X DataOf[n])
                                             \cup ({"vector"} \X DataOf[n])
<1>1. /\ Terms(Leaves, {"pair"}, {"vector"})[0] = Leaves
      /\ \A n \in Nat : Terms(Leaves, {"pair"}, {"vector"})[n + 1] =
                 TermLevel(Leaves, {"pair"}, {"vector"}, Terms(Leaves, {"pair"}, {"vector"})[n])
  BY TermsAre
<1>2. DataOf = Terms(Leaves, {"pair"}, {"vector"})
  BY DEF DataOf, Leaves
<1> QED
  BY <1>1, <1>2 DEF TermLevel

LEMMA LeavesAre ==
    ASSUME NEW x \in Leaves
    PROVE  ~IsPair(x) /\ ~IsVec(x) /\ x # Failure
BY DEF Leaves, Sym, Empty, IsPair, IsVec, Failure

LEMMA LeafIn ==
    /\ Leaves \subseteq Template
    /\ Empty \in Template
    /\ Template # {}
<1>1. Leaves \subseteq DataOf[0]
  BY DataAre
<1>2. DataOf[0] \subseteq Template
  BY DataGrow, TemplatesAssumption DEF Template
<1> QED
  BY <1>1, <1>2 DEF Leaves

LEMMA DataMake ==
    ASSUME NEW n \in Nat, NEW a \in DataOf[n], NEW d \in DataOf[n]
    PROVE  Pair(a, d) \in DataOf[n + 1] /\ Vec(a) \in DataOf[n + 1]
<1>1. Pair(a, d) \in {"pair"} \X DataOf[n] \X DataOf[n]
  BY DEF Pair
<1>2. Vec(a) \in {"vector"} \X DataOf[n]
  BY DEF Vec
<1> QED
  BY <1>1, <1>2, DataAre

LEMMA DataParts ==
    ASSUME NEW n \in Nat, NEW x \in DataOf[n]
    PROVE  /\ x # Failure
           /\ IsPair(x) => /\ n # 0 /\ n - 1 \in Nat /\ ~IsVec(x)
                           /\ x[2] \in DataOf[n - 1] /\ x[3] \in DataOf[n - 1]
                           /\ x = Pair(x[2], x[3])
           /\ IsVec(x) => /\ n # 0 /\ n - 1 \in Nat
                          /\ x[2] \in DataOf[n - 1] /\ x = Vec(x[2])
<1>1. CASE x \in Leaves
  BY <1>1, LeavesAre
<1>2. CASE x \notin Leaves
  <2>1. n # 0
    BY <1>2, DataAre
  <2>2. n - 1 \in Nat /\ (n - 1) + 1 = n
    BY <2>1
  <2> DEFINE S == DataOf[n - 1]
  <2>3. x \in ({"pair"} \X S \X S) \cup ({"vector"} \X S)
    BY <1>2, <2>2, DataAre
  <2> HIDE DEF S
  <2>4. CASE x \in {"pair"} \X S \X S
    <3>1. PICK a \in S, d \in S : x = <<"pair", a, d>>
      BY <2>4
    <3>2. x[1] = "pair" /\ x[2] = a /\ x[3] = d
      BY <3>1
    <3>3. x # Failure
      BY <3>1 DEF Failure
    <3> QED
      BY <2>1, <2>2, <3>1, <3>2, <3>3 DEF IsPair, IsVec, Pair, S
  <2>5. CASE x \in {"vector"} \X S
    <3>1. PICK l \in S : x = <<"vector", l>>
      BY <2>5
    <3>2. x[1] = "vector" /\ x[2] = l
      BY <3>1
    <3>3. x # Failure
      BY <3>1 DEF Failure
    <3> QED
      BY <2>1, <2>2, <3>1, <3>2, <3>3 DEF IsPair, IsVec, Vec, S
  <2> QED
    BY <2>3, <2>4, <2>5
<1> QED
  BY <1>1, <1>2

\* How many levels a template has.
LevelOf(x) == CHOOSE n \in Nat : x \in DataOf[n] /\ \A m \in Nat : x \in DataOf[m] => n <= m

LEMMA LevelIs ==
    ASSUME NEW k \in Nat, NEW x \in DataOf[k]
    PROVE  /\ LevelOf(x) \in Nat /\ x \in DataOf[LevelOf(x)]
           /\ \A m \in Nat : x \in DataOf[m] => LevelOf(x) <= m
<1> DEFINE T == {n \in Nat : x \in DataOf[n]}
<1>1. PICK n \in T : \A m \in T : n <= m
  BY LeastNumber
<1> QED
  BY <1>1 DEF LevelOf

LEMMA TemplateParts ==
    ASSUME NEW x \in Template
    PROVE  /\ LevelOf(x) \in Nat /\ LevelOf(x) <= MaxLevels
           /\ x \in DataOf[LevelOf(x)] /\ x # Failure
           /\ IsPair(x) => /\ ~IsVec(x) /\ x = Pair(x[2], x[3])
                           /\ x[2] \in Template /\ LevelOf(x[2]) < LevelOf(x)
                           /\ x[3] \in Template /\ LevelOf(x[3]) < LevelOf(x)
           /\ IsVec(x) => x = Vec(x[2]) /\ x[2] \in Template /\ LevelOf(x[2]) < LevelOf(x)
<1> DEFINE n == LevelOf(x)
<1>0. MaxLevels \in Nat /\ x \in DataOf[MaxLevels]
  BY TemplatesAssumption DEF Template
<1>1. n \in Nat /\ x \in DataOf[n] /\ n <= MaxLevels
  BY <1>0, LevelIs
<1> HIDE DEF n
<1>2. ASSUME NEW y, n - 1 \in Nat, y \in DataOf[n - 1]
      PROVE  y \in Template /\ LevelOf(y) < n
  <2>1. DataOf[n - 1] \subseteq DataOf[MaxLevels]
    BY <1>0, <1>1, <1>2, DataGrow
  <2>2. LevelOf(y) \in Nat /\ LevelOf(y) <= n - 1
    BY <1>2, LevelIs
  <2> QED
    BY <1>1, <1>2, <2>1, <2>2 DEF Template
<1>3. CASE IsPair(x)
  BY <1>1, <1>2, <1>3, DataParts DEF n
<1>4. CASE IsVec(x)
  BY <1>1, <1>2, <1>4, DataParts DEF n
<1>5. CASE ~IsPair(x) /\ ~IsVec(x)
  BY <1>1, <1>5, DataParts DEF n
<1> QED
  BY <1>3, <1>4, <1>5

LEMMA FormParts ==
    ASSUME NEW x \in Template, IsPair(x), TakesOne(x)
    PROVE  Arg(x) \in Template /\ LevelOf(Arg(x)) < LevelOf(x)
<1>1. x[3] \in Template /\ LevelOf(x[3]) < LevelOf(x)
  BY TemplateParts
<1>2. x[3][2] \in Template /\ LevelOf(x[3][2]) < LevelOf(x[3])
  BY <1>1, TemplateParts DEF TakesOne
<1>3. LevelOf(x) \in Nat /\ LevelOf(x[3]) \in Nat /\ LevelOf(x[3][2]) \in Nat
  BY <1>1, <1>2, TemplateParts
<1> QED
  BY <1>1, <1>2, <1>3 DEF Arg

-----------------------------------------------------------------------------
(* What expressions are made of.                                           *)

Constants == ({"quote", "code"} \X Template) \cup {Bad}

LEMMA ExpressionsGrow ==
    ASSUME NEW n \in Nat, NEW m \in Nat, n <= m
    PROVE  ExpressionsOf[n] \subseteq ExpressionsOf[m]
BY TermsGrow DEF ExpressionsOf

LEMMA ExpressionsAre ==
    /\ ExpressionsOf[0] = Constants
    /\ \A n \in Nat : ExpressionsOf[n + 1] =
           Constants \cup ({"cons", "append"} \X ExpressionsOf[n] \X ExpressionsOf[n])
                     \cup ({"list->vector"} \X ExpressionsOf[n])
<1> DEFINE of == Terms(Constants, {"cons", "append"}, {"list->vector"})
<1>1. /\ of[0] = Constants
      /\ \A n \in Nat : of[n + 1] = TermLevel(Constants, {"cons", "append"}, {"list->vector"}, of[n])
  BY TermsAre
<1>2. ExpressionsOf = of
  BY DEF ExpressionsOf, Constants
<1> HIDE DEF of
<1> QED
  BY <1>1, <1>2 DEF TermLevel

LEMMA ConstantsAre ==
    ASSUME NEW n \in Nat
    PROVE  /\ \A x \in Template : Quote(x) \in ExpressionsOf[n] /\ Code(x) \in ExpressionsOf[n]
           /\ Bad \in ExpressionsOf[n]
<1>1. Constants \subseteq ExpressionsOf[0]
  BY ExpressionsAre
<1>2. ExpressionsOf[0] \subseteq ExpressionsOf[n]
  BY ExpressionsGrow
<1>3. ASSUME NEW x \in Template PROVE Quote(x) \in Constants /\ Code(x) \in Constants
  BY DEF Quote, Code, Constants
<1>4. Bad \in Constants
  BY DEF Constants
<1> QED
  BY <1>1, <1>2, <1>3, <1>4

LEMMA CallsAre ==
    ASSUME NEW n \in Nat, NEW a \in ExpressionsOf[n], NEW d \in ExpressionsOf[n], NEW x \in Template
    PROVE  /\ CallCons(a, d) \in ExpressionsOf[n + 1]
           /\ CallAppend(x, d) \in ExpressionsOf[n + 1]
           /\ CallToVector(a) \in ExpressionsOf[n + 1]
<1>1. Code(x) \in ExpressionsOf[n]
  BY ConstantsAre
<1> DEFINE S == ExpressionsOf[n]
<1> HIDE DEF S
<1>2. CallCons(a, d) \in {"cons", "append"} \X S \X S
  BY DEF CallCons, S
<1>3. CallAppend(x, d) \in {"cons", "append"} \X S \X S
  BY <1>1 DEF CallAppend, S
<1>4. CallToVector(a) \in {"list->vector"} \X S
  BY DEF CallToVector, S
<1> QED
  BY <1>2, <1>3, <1>4, ExpressionsAre DEF S

LEMMA ExpressionParts ==
    ASSUME NEW n \in Nat, NEW e \in ExpressionsOf[n]
    PROVE  /\ e[1] \in {"bad", "quote", "code", "cons", "append", "list->vector"}
           /\ e[1] \in {"quote", "code"} => e[2] \in Template
           /\ e[1] \in {"cons", "append"} => /\ n # 0 /\ n - 1 \in Nat
                                            /\ e[2] \in ExpressionsOf[n - 1]
                                            /\ e[3] \in ExpressionsOf[n - 1]
           /\ e[1] = "list->vector" => n # 0 /\ n - 1 \in Nat /\ e[2] \in ExpressionsOf[n - 1]
<1>1. CASE e \in Constants
  <2>1. CASE e \in {"quote", "code"} \X Template
    <3>1. PICK c \in {"quote", "code"}, x \in Template : e = <<c, x>>
      BY <2>1
    <3>2. e[1] = c /\ e[2] = x
      BY <3>1
    <3> QED
      BY <3>2
  <2>2. CASE e = Bad
    <3>1. e[1] = "bad"
      BY <2>2 DEF Bad
    <3> QED
      BY <3>1
  <2> QED
    BY <1>1, <2>1, <2>2 DEF Constants
<1>2. CASE e \notin Constants
  <2>1. n # 0
    BY <1>2, ExpressionsAre
  <2>2. n - 1 \in Nat /\ (n - 1) + 1 = n
    BY <2>1
  <2> DEFINE S == ExpressionsOf[n - 1]
  <2>3. e \in ({"cons", "append"} \X S \X S) \cup ({"list->vector"} \X S)
    BY <1>2, <2>2, ExpressionsAre
  <2> HIDE DEF S
  <2>4. CASE e \in {"cons", "append"} \X S \X S
    <3>1. PICK c \in {"cons", "append"}, a \in S, d \in S : e = <<c, a, d>>
      BY <2>4
    <3>2. e[1] = c /\ e[2] = a /\ e[3] = d
      BY <3>1
    <3> QED
      BY <2>1, <2>2, <3>2 DEF S
  <2>5. CASE e \in {"list->vector"} \X S
    <3>1. PICK l \in S : e = <<"list->vector", l>>
      BY <2>5
    <3>2. e[1] = "list->vector" /\ e[2] = l
      BY <3>1
    <3> QED
      BY <2>1, <2>2, <3>2 DEF S
  <2> QED
    BY <2>3, <2>4, <2>5
<1> QED
  BY <1>1, <1>2

-----------------------------------------------------------------------------
(* The expander is what its recursive definition says.                     *)

AnyExpression == UNION {ExpressionsOf[n] : n \in Nat}

LEMMA AnyExpressions ==
    /\ \A x \in Template : Quote(x) \in AnyExpression /\ Code(x) \in AnyExpression
    /\ Bad \in AnyExpression
    /\ \A a, d \in AnyExpression : CallCons(a, d) \in AnyExpression
    /\ \A x \in Template, d \in AnyExpression : CallAppend(x, d) \in AnyExpression
    /\ \A a \in AnyExpression : CallToVector(a) \in AnyExpression
<1>1. ASSUME NEW n \in Nat, NEW e \in ExpressionsOf[n] PROVE e \in AnyExpression
  BY <1>1 DEF AnyExpression
<1>2. \A x \in Template : Quote(x) \in ExpressionsOf[0] /\ Code(x) \in ExpressionsOf[0]
  BY ConstantsAre
<1>3. Bad \in ExpressionsOf[0]
  BY ConstantsAre
<1>4. ASSUME NEW a \in AnyExpression, NEW d \in AnyExpression
      PROVE  /\ CallCons(a, d) \in AnyExpression /\ CallToVector(a) \in AnyExpression
             /\ \A x \in Template : CallAppend(x, d) \in AnyExpression
  <2>1. PICK n \in Nat : a \in ExpressionsOf[n]
    BY DEF AnyExpression
  <2>2. PICK m \in Nat : d \in ExpressionsOf[m]
    BY DEF AnyExpression
  <2> DEFINE k == IF n <= m THEN m ELSE n
  <2>3. k \in Nat /\ n <= k /\ m <= k
    OBVIOUS
  <2> HIDE DEF k
  <2>4. a \in ExpressionsOf[k] /\ d \in ExpressionsOf[k]
    BY <2>1, <2>2, <2>3, ExpressionsGrow
  <2>5. k + 1 \in Nat
    BY <2>3
  <2>6. CallCons(a, d) \in ExpressionsOf[k + 1] /\ CallToVector(a) \in ExpressionsOf[k + 1]
    BY <2>3, <2>4, CallsAre, TemplatesAssumption, LeafIn
  <2>7. ASSUME NEW x \in Template PROVE CallAppend(x, d) \in ExpressionsOf[k + 1]
    BY <2>3, <2>4, CallsAre
  <2> QED
    BY <1>1, <2>5, <2>6, <2>7
<1>5. 0 \in Nat
  OBVIOUS
<1> QED
  BY <1>1, <1>2, <1>3, <1>4, <1>5

\* A form's name is a template.
LEMMA NameOf ==
    ASSUME NEW x \in Template, IsForm(x)
    PROVE  Sym(Kind(x)) = x[2] /\ x[2] \in Template /\ Kind(x) \in Kinds /\ IsPair(x)
<1>1. PICK k \in Kinds : x[2] = Sym(k)
  BY DEF IsForm
<1>2. Kind(x) = k
  BY <1>1 DEF Kind, Sym
<1> QED
  BY <1>1, <1>2, TemplateParts DEF IsForm

Transferred(f, x, depth) ==
    IF IsVec(x) THEN CallToVector(f[x[2]][depth])
    ELSE IF ~IsPair(x) THEN Quote(x)
    ELSE IF IsForm(x)
    THEN IF ~TakesOne(x) \/ Splices(x, depth) THEN Bad
         ELSE qq_form_code(x, depth, f[Arg(x)][Inner(x, depth)])
    ELSE LET a    == x[2]
             rest == f[x[3]][depth]
         IN IF ~IsPair(a) THEN CallCons(Quote(a), rest)
            ELSE IF ~IsForm(a) THEN CallCons(f[a][depth], rest)
            ELSE IF ~TakesOne(a) THEN Bad
            ELSE IF Splices(a, depth) THEN CallAppend(Arg(a), rest)
            ELSE CallCons(qq_form_code(a, depth, f[Arg(a)][Inner(a, depth)]), rest)

LEMMA InnerIs ==
    ASSUME NEW x, NEW d \in Depths, ~Unquotes(x, d)
    PROVE  Inner(x, d) \in Depths
BY DEF Unquotes, Inner, Depths

\* One round of it, given what it makes of smaller templates.
LEMMA FormCodeIs ==
    ASSUME NEW x \in Template, IsForm(x), TakesOne(x), NEW d \in Depths,
           NEW e, ~Unquotes(x, d) => e \in AnyExpression
    PROVE  qq_form_code(x, d, e) \in AnyExpression
<1>1. CASE Unquotes(x, d)
  <2>1. Arg(x) \in Template
    BY NameOf, FormParts
  <2> QED
    BY <1>1, <2>1, AnyExpressions DEF qq_form_code
<1>2. CASE ~Unquotes(x, d)
  <2>1. Quote(Sym(Kind(x))) \in AnyExpression
    BY NameOf, AnyExpressions
  <2>2. Quote(Empty) \in AnyExpression
    BY AnyExpressions, LeafIn
  <2>3. CallCons(e, Quote(Empty)) \in AnyExpression
    BY <1>2, <2>2, AnyExpressions
  <2> QED
    BY <1>2, <2>1, <2>3, AnyExpressions DEF qq_form_code, qq_wrap
<1> QED
  BY <1>1, <1>2

LEMMA TransferredIs ==
    ASSUME NEW f \in [Template -> [Depths -> AnyExpression]], NEW x \in Template, NEW d \in Depths
    PROVE  Transferred(f, x, d) \in AnyExpression
<1>0. ASSUME NEW y \in Template, NEW c \in Depths PROVE f[y][c] \in AnyExpression
  OBVIOUS
<1>1. CASE IsVec(x)
  <2>1. f[x[2]][d] \in AnyExpression
    BY <1>0, <1>1, TemplateParts
  <2> QED
    BY <1>1, <2>1, AnyExpressions DEF Transferred
<1>2. CASE ~IsVec(x) /\ ~IsPair(x)
  BY <1>2, AnyExpressions DEF Transferred
<1>3. CASE IsPair(x) /\ IsForm(x)
  <2>1. ~IsVec(x)
    BY <1>3, TemplateParts
  <2>2. CASE ~TakesOne(x) \/ Splices(x, d)
    BY <1>3, <2>1, <2>2, AnyExpressions DEF Transferred
  <2>3. CASE TakesOne(x) /\ ~Splices(x, d)
    <3>1. ~Unquotes(x, d) => f[Arg(x)][Inner(x, d)] \in AnyExpression
      BY <1>0, <1>3, <2>3, FormParts, InnerIs
    <3>2. qq_form_code(x, d, f[Arg(x)][Inner(x, d)]) \in AnyExpression
      BY <1>3, <2>3, <3>1, FormCodeIs
    <3> QED
      BY <1>3, <2>1, <2>3, <3>2 DEF Transferred
  <2> QED
    BY <2>2, <2>3
<1>4. CASE IsPair(x) /\ ~IsForm(x)
  <2> DEFINE a == x[2]
             rest == f[x[3]][d]
  <2>1. ~IsVec(x) /\ a \in Template /\ x[3] \in Template
    BY <1>4, TemplateParts
  <2>2. rest \in AnyExpression
    BY <1>0, <2>1
  <2>3. Transferred(f, x, d) =
            IF ~IsPair(a) THEN CallCons(Quote(a), rest)
            ELSE IF ~IsForm(a) THEN CallCons(f[a][d], rest)
            ELSE IF ~TakesOne(a) THEN Bad
            ELSE IF Splices(a, d) THEN CallAppend(Arg(a), rest)
            ELSE CallCons(qq_form_code(a, d, f[Arg(a)][Inner(a, d)]), rest)
    BY <1>4, <2>1 DEF Transferred
  <2> HIDE DEF a, rest
  <2>4. CASE ~IsPair(a)
    BY <2>1, <2>2, <2>3, <2>4, AnyExpressions
  <2>5. CASE IsPair(a) /\ ~IsForm(a)
    <3>1. f[a][d] \in AnyExpression
      BY <1>0, <2>1
    <3> QED
      BY <2>2, <2>3, <2>5, <3>1, AnyExpressions
  <2>6. CASE IsPair(a) /\ IsForm(a) /\ ~TakesOne(a)
    BY <2>3, <2>6, AnyExpressions
  <2>7. CASE IsPair(a) /\ IsForm(a) /\ TakesOne(a) /\ Splices(a, d)
    BY <2>1, <2>2, <2>3, <2>7, AnyExpressions, FormParts
  <2>8. CASE IsPair(a) /\ IsForm(a) /\ TakesOne(a) /\ ~Splices(a, d)
    <3>1. ~Unquotes(a, d) => f[Arg(a)][Inner(a, d)] \in AnyExpression
      BY <1>0, <2>1, <2>8, FormParts, InnerIs
    <3>2. qq_form_code(a, d, f[Arg(a)][Inner(a, d)]) \in AnyExpression
      BY <2>1, <2>8, <3>1, FormCodeIs
    <3> QED
      BY <2>2, <2>3, <2>8, <3>2, AnyExpressions
  <2> QED
    BY <2>4, <2>5, <2>6, <2>7, <2>8
<1> QED
  BY <1>1, <1>2, <1>3, <1>4

LEMMA TransferredAgree ==
    ASSUME NEW f, NEW g, NEW x \in Template, NEW d \in Depths,
           \A y \in Template : LevelOf(y) < LevelOf(x) => f[y] = g[y]
    PROVE  Transferred(f, x, d) = Transferred(g, x, d)
<1>1. CASE IsVec(x)
  <2>1. f[x[2]] = g[x[2]]
    BY <1>1, TemplateParts
  <2> QED
    BY <1>1, <2>1 DEF Transferred
<1>2. CASE ~IsVec(x) /\ ~IsPair(x)
  BY <1>2 DEF Transferred
<1>3. CASE IsPair(x) /\ IsForm(x)
  <2>1. ~IsVec(x)
    BY <1>3, TemplateParts
  <2>2. TakesOne(x) => f[Arg(x)] = g[Arg(x)]
    BY <1>3, FormParts
  <2> QED
    BY <1>3, <2>1, <2>2 DEF Transferred
<1>4. CASE IsPair(x) /\ ~IsForm(x)
  <2>1. /\ ~IsVec(x) /\ x[2] \in Template /\ LevelOf(x[2]) < LevelOf(x)
        /\ x[3] \in Template /\ LevelOf(x[3]) < LevelOf(x)
    BY <1>4, TemplateParts
  <2>2. f[x[2]] = g[x[2]] /\ f[x[3]] = g[x[3]]
    BY <2>1
  <2>3. IsPair(x[2]) /\ TakesOne(x[2]) => f[Arg(x[2])] = g[Arg(x[2])]
    <3>1. SUFFICES ASSUME IsPair(x[2]), TakesOne(x[2]) PROVE f[Arg(x[2])] = g[Arg(x[2])]
      OBVIOUS
    <3>2. Arg(x[2]) \in Template /\ LevelOf(Arg(x[2])) < LevelOf(x[2])
      BY <2>1, <3>1, FormParts
    <3>3. LevelOf(Arg(x[2])) \in Nat /\ LevelOf(x[2]) \in Nat /\ LevelOf(x) \in Nat
      BY <2>1, <3>2, TemplateParts
    <3> QED
      BY <2>1, <3>2, <3>3
  <2> QED
    BY <1>4, <2>1, <2>2, <2>3 DEF Transferred
<1> QED
  BY <1>1, <1>2, <1>3, <1>4

LEMMA TransferIs ==
    \A x \in Template : /\ qq_transfer[x] \in [Depths -> AnyExpression]
                        /\ \A d \in Depths : qq_transfer[x][d] = Transferred(qq_transfer, x, d)
<1> DEFINE S == [Depths -> AnyExpression]
           rank == [x \in Template |-> LevelOf(x)]
           Z == Funs(Template, S)
           H == [f \in Z |-> [x \in Template |-> [d \in Depths |-> Transferred(f, x, d)]]]
           Body(f) == [x \in Template |-> [d \in Depths |-> Transferred(f, x, d)]]
<1>1. rank \in Funs(Template, Nat)
  BY TemplateParts DEF Funs
<1>2. [d \in Depths |-> Bad] \in S
  BY AnyExpressions
<1>3. H \in Funs(Z, Z)
  <2>1. ASSUME NEW f \in Z PROVE Body(f) \in Z
    BY TransferredIs DEF Funs
  <2> QED
    BY <2>1 DEF Funs
<1>4. ASSUME NEW f \in Z, NEW g \in Z, NEW x \in Template,
             \A y \in Template : rank[y] < rank[x] => f[y] = g[y]
      PROVE  H[f][x] = H[g][x]
  <2>1. \A y \in Template : LevelOf(y) < LevelOf(x) => f[y] = g[y]
    BY <1>4
  <2>2. ASSUME NEW d \in Depths PROVE Transferred(f, x, d) = Transferred(g, x, d)
    BY <2>1, TransferredAgree
  <2> QED
    BY <2>2
<1>5. \E f \in Z : f = H[f]
  <2> HIDE DEF S, rank, H
  <2> QED
    BY <1>1, <1>2, <1>3, <1>4, RecursionExists
<1>6. PICK f \in Z : f = Body(f)
  BY <1>5
<1>7. qq_transfer = CHOOSE g : g = Body(g)
  BY DEF qq_transfer, Transferred
<1>8. qq_transfer = Body(qq_transfer)
  <2> HIDE DEF Body
  <2> QED
    BY <1>6, <1>7
<1>9. ASSUME NEW x \in Template PROVE qq_transfer[x] = f[x]
  <2> DEFINE T == {n \in Nat : \E y \in Template : LevelOf(y) = n /\ qq_transfer[y] # f[y]}
  <2> SUFFICES ASSUME T # {} PROVE FALSE
    BY TemplateParts
  <2>1. PICK n \in T : \A m \in T : n <= m
    BY LeastNumber
  <2>2. PICK y \in Template : LevelOf(y) = n /\ qq_transfer[y] # f[y]
    OBVIOUS
  <2>3. ASSUME NEW z \in Template, LevelOf(z) < LevelOf(y) PROVE qq_transfer[z] = f[z]
    <3>1. LevelOf(z) \in Nat /\ LevelOf(z) \notin T
      BY <2>1, <2>2, <2>3, TemplateParts
    <3> QED
      BY <3>1
  <2>4. ASSUME NEW d \in Depths PROVE Transferred(qq_transfer, y, d) = Transferred(f, y, d)
    BY <2>3, TransferredAgree
  <2>5. /\ qq_transfer[y] = [d \in Depths |-> Transferred(qq_transfer, y, d)]
        /\ f[y] = [d \in Depths |-> Transferred(f, y, d)]
    BY <1>6, <1>8
  <2> QED
    BY <2>2, <2>4, <2>5
<1>10. ASSUME NEW x \in Template, NEW d \in Depths PROVE qq_transfer[x][d] = Transferred(qq_transfer, x, d)
  BY <1>8
<1>11. ASSUME NEW x \in Template PROVE f[x] \in [Depths -> AnyExpression]
  BY DEF Funs
<1> QED
  BY <1>9, <1>10, <1>11

LEMMA TransferLevel ==
    ASSUME NEW x \in Template, NEW d \in Depths
    PROVE  qq_transfer[x][d] \in ExpressionsOf[LevelOf(x)]
<1> DEFINE T == {n \in Nat : \E y \in Template, c \in Depths :
                   LevelOf(y) = n /\ qq_transfer[y][c] \notin ExpressionsOf[n]}
<1> SUFFICES ASSUME T # {} PROVE FALSE
  BY TemplateParts
<1>1. PICK n \in T : \A m \in T : n <= m
  BY LeastNumber
<1>2. PICK y \in Template, c \in Depths : LevelOf(y) = n /\ qq_transfer[y][c] \notin ExpressionsOf[n]
  OBVIOUS
<1>3. ASSUME NEW z \in Template, LevelOf(z) < n, NEW e \in Depths, NEW m \in Nat, LevelOf(z) <= m
      PROVE  qq_transfer[z][e] \in ExpressionsOf[m]
  <2>1. LevelOf(z) \in Nat /\ LevelOf(z) \notin T
    BY <1>1, <1>3, TemplateParts
  <2>2. qq_transfer[z][e] \in ExpressionsOf[LevelOf(z)]
    BY <2>1
  <2> QED
    BY <1>3, <2>1, <2>2, ExpressionsGrow
<1>4. n \in Nat
  OBVIOUS
<1> HIDE DEF T
<1>5. qq_transfer[y][c] = Transferred(qq_transfer, y, c)
  BY TransferIs
\* A form of m levels, of what is smaller.
<1>6. ASSUME NEW z \in Template, IsForm(z), TakesOne(z), NEW m \in Nat, LevelOf(z) <= m, m <= n
      PROVE  qq_form_code(z, c, qq_transfer[Arg(z)][Inner(z, c)]) \in ExpressionsOf[m]
  <2>1. /\ IsPair(z) /\ z[3] \in Template /\ LevelOf(z[3]) < LevelOf(z)
        /\ z[3][2] \in Template /\ LevelOf(z[3][2]) < LevelOf(z[3])
    BY <1>6, NameOf, TemplateParts DEF TakesOne
  <2>2. LevelOf(z) \in Nat /\ LevelOf(z[3]) \in Nat /\ LevelOf(z[3][2]) \in Nat
    BY <2>1, TemplateParts
  <2> DEFINE k == m - 2
  <2>3. k \in Nat /\ k + 1 \in Nat /\ (k + 1) + 1 = m /\ LevelOf(Arg(z)) <= k /\ LevelOf(Arg(z)) < n
    BY <1>4, <1>6, <2>1, <2>2 DEF Arg
  <2> HIDE DEF k
  <2>4. Arg(z) \in Template
    BY <2>1 DEF Arg
  <2>5. CASE Unquotes(z, c)
    BY <2>4, <2>5, ConstantsAre DEF qq_form_code
  <2>6. CASE ~Unquotes(z, c)
    <3> DEFINE e == qq_transfer[Arg(z)][Inner(z, c)]
    <3>1. e \in ExpressionsOf[k]
      BY <1>3, <2>3, <2>4, <2>6, InnerIs
    <3> HIDE DEF e
    <3>2. Quote(Empty) \in ExpressionsOf[k] /\ Quote(Sym(Kind(z))) \in ExpressionsOf[k + 1]
      BY <1>6, <2>3, ConstantsAre, LeafIn, NameOf
    <3>3. CallCons(e, Quote(Empty)) \in ExpressionsOf[k + 1]
      BY <2>3, <3>1, <3>2, CallsAre, LeafIn
    <3>4. qq_wrap(Kind(z), e) \in ExpressionsOf[m]
      BY <2>3, <3>2, <3>3, CallsAre, LeafIn DEF qq_wrap
    <3> QED
      BY <2>6, <3>4 DEF qq_form_code, e
  <2> QED
    BY <2>5, <2>6
<1> DEFINE p == n - 1
<1>7. CASE IsVec(y)
  <2>1. y[2] \in Template /\ LevelOf(y[2]) < n /\ LevelOf(y[2]) \in Nat
    BY <1>2, <1>7, TemplateParts
  <2>2. p \in Nat /\ p + 1 = n /\ LevelOf(y[2]) <= p
    BY <1>4, <2>1
  <2> HIDE DEF p
  <2>3. qq_transfer[y[2]][c] \in ExpressionsOf[p]
    BY <1>3, <2>1, <2>2
  <2>4. CallToVector(qq_transfer[y[2]][c]) \in ExpressionsOf[n]
    BY <2>2, <2>3, CallsAre, LeafIn
  <2> QED
    BY <1>2, <1>5, <1>7, <2>4 DEF Transferred
<1>8. CASE ~IsVec(y) /\ ~IsPair(y)
  BY <1>2, <1>4, <1>5, <1>8, ConstantsAre DEF Transferred
<1>9. CASE IsPair(y) /\ IsForm(y)
  <2>1. ~IsVec(y)
    BY <1>9, TemplateParts
  <2>2. CASE ~TakesOne(y) \/ Splices(y, c)
    BY <1>2, <1>4, <1>5, <1>9, <2>1, <2>2, ConstantsAre DEF Transferred
  <2>3. CASE TakesOne(y) /\ ~Splices(y, c)
    <3>1. qq_form_code(y, c, qq_transfer[Arg(y)][Inner(y, c)]) \in ExpressionsOf[n]
      BY <1>2, <1>4, <1>6, <1>9, <2>3
    <3> QED
      BY <1>2, <1>5, <1>9, <2>1, <2>3, <3>1 DEF Transferred
  <2> QED
    BY <2>2, <2>3
<1>10. CASE IsPair(y) /\ ~IsForm(y)
  <2> DEFINE a == y[2]
             rest == qq_transfer[y[3]][c]
  <2>1. /\ ~IsVec(y) /\ a \in Template /\ y[3] \in Template
        /\ LevelOf(a) < n /\ LevelOf(y[3]) < n /\ LevelOf(a) \in Nat /\ LevelOf(y[3]) \in Nat
    BY <1>2, <1>10, TemplateParts
  <2>2. p \in Nat /\ p + 1 = n /\ LevelOf(a) <= p /\ LevelOf(y[3]) <= p /\ p <= n
    BY <1>4, <2>1
  <2> HIDE DEF p
  <2>3. rest \in ExpressionsOf[p]
    BY <1>3, <2>1, <2>2
  <2>4. Transferred(qq_transfer, y, c) =
            IF ~IsPair(a) THEN CallCons(Quote(a), rest)
            ELSE IF ~IsForm(a) THEN CallCons(qq_transfer[a][c], rest)
            ELSE IF ~TakesOne(a) THEN Bad
            ELSE IF Splices(a, c) THEN CallAppend(Arg(a), rest)
            ELSE CallCons(qq_form_code(a, c, qq_transfer[Arg(a)][Inner(a, c)]), rest)
    BY <1>10, <2>1 DEF Transferred
  <2> HIDE DEF a, rest
  <2>5. ASSUME NEW e \in ExpressionsOf[p], NEW z \in Template
        PROVE  CallCons(e, rest) \in ExpressionsOf[n] /\ CallAppend(z, rest) \in ExpressionsOf[n]
    BY <2>2, <2>3, CallsAre
  <2>6. CASE ~IsPair(a)
    <3>1. Quote(a) \in ExpressionsOf[p]
      BY <2>1, <2>2, ConstantsAre
    <3> QED
      BY <1>2, <1>5, <2>1, <2>4, <2>5, <2>6, <3>1
  <2>7. CASE IsPair(a) /\ ~IsForm(a)
    <3>1. qq_transfer[a][c] \in ExpressionsOf[p]
      BY <1>3, <2>1, <2>2
    <3> QED
      BY <1>2, <1>5, <2>1, <2>4, <2>5, <2>7, <3>1
  <2>8. CASE IsPair(a) /\ IsForm(a) /\ ~TakesOne(a)
    BY <1>2, <1>4, <1>5, <2>4, <2>8, ConstantsAre
  <2>9. CASE IsPair(a) /\ IsForm(a) /\ TakesOne(a) /\ Splices(a, c)
    <3>1. Arg(a) \in Template
      BY <2>1, <2>9, FormParts
    <3> QED
      BY <1>2, <1>5, <2>3, <2>4, <2>5, <2>9, <3>1
  <2>10. CASE IsPair(a) /\ IsForm(a) /\ TakesOne(a) /\ ~Splices(a, c)
    <3>1. qq_form_code(a, c, qq_transfer[Arg(a)][Inner(a, c)]) \in ExpressionsOf[p]
      BY <1>6, <2>1, <2>2, <2>10
    <3> QED
      BY <1>2, <1>5, <2>1, <2>4, <2>5, <2>10, <3>1
  <2> QED
    BY <2>6, <2>7, <2>8, <2>9, <2>10
<1> QED
  BY <1>7, <1>8, <1>9, <1>10

LEMMA ExpansionIs ==
    ASSUME NEW x \in Template, NEW d \in Depths
    PROVE  /\ qq_transfer[x][d] \in Expression
           /\ qq_transfer[x][d] = Transferred(qq_transfer, x, d)
<1>1. LevelOf(x) \in Nat /\ MaxLevels \in Nat /\ LevelOf(x) <= MaxLevels
  BY TemplateParts, TemplatesAssumption
<1>2. ExpressionsOf[LevelOf(x)] \subseteq Expression
  BY <1>1, ExpressionsGrow DEF Expression
<1> QED
  BY <1>2, TransferLevel, TransferIs

-----------------------------------------------------------------------------
(* What expansions evaluate to.                                            *)

AnyDatum == UNION {DataOf[n] : n \in Nat}
Result   == AnyDatum \cup {Failure}

LEMMA AnyData ==
    /\ Template \subseteq AnyDatum /\ Failure \notin AnyDatum
    /\ \A a, d \in AnyDatum : Pair(a, d) \in AnyDatum
    /\ \A a \in AnyDatum : Vec(a) \in AnyDatum
<1>1. ASSUME NEW n \in Nat, NEW e \in DataOf[n] PROVE e \in AnyDatum
  BY <1>1 DEF AnyDatum
<1>2. Template \subseteq AnyDatum
  BY TemplatesAssumption DEF Template, AnyDatum
<1>3. Failure \notin AnyDatum
  BY DataParts DEF AnyDatum
<1>4. ASSUME NEW a \in AnyDatum, NEW d \in AnyDatum
      PROVE  Pair(a, d) \in AnyDatum /\ Vec(a) \in AnyDatum
  <2>1. PICK n \in Nat : a \in DataOf[n]
    BY DEF AnyDatum
  <2>2. PICK m \in Nat : d \in DataOf[m]
    BY DEF AnyDatum
  <2> DEFINE k == IF n <= m THEN m ELSE n
  <2>3. k \in Nat /\ n <= k /\ m <= k
    OBVIOUS
  <2> HIDE DEF k
  <2>4. a \in DataOf[k] /\ d \in DataOf[k]
    BY <2>1, <2>2, <2>3, DataGrow
  <2>5. k + 1 \in Nat
    BY <2>3
  <2> QED
    BY <1>1, <2>3, <2>4, <2>5, DataMake
<1> QED
  BY <1>2, <1>3, <1>4

LEMMA Results ==
    /\ Template \subseteq Result /\ Failure \in Result
    /\ \A a, d \in Result : Consed(a, d) \in Result
    /\ \A l \in Result : Vectored(l) \in Result
BY AnyData DEF Result, Consed, Vectored

LEMMA MeaningIs == \A x : Meaning(x) \in Template \cup {Failure}
BY TemplatesAssumption DEF Meaning

JoinedTo(f, l, d) == IF IsPair(l) THEN Consed(l[2], f[l[3]]) ELSE IF l = Empty THEN d ELSE Failure

LEMMA JoinedIs ==
    ASSUME NEW d \in Result
    PROVE  Joined(d) \in [Template -> Result]
<1> DEFINE rank == [x \in Template |-> LevelOf(x)]
           Z == Funs(Template, Result)
           H == [f \in Z |-> [l \in Template |-> JoinedTo(f, l, d)]]
           Body(f) == [l \in Template |-> JoinedTo(f, l, d)]
<1>1. rank \in Funs(Template, Nat)
  BY TemplateParts DEF Funs
<1>2. Failure \in Result
  BY Results
<1>3. H \in Funs(Z, Z)
  <2>1. ASSUME NEW f \in Z, NEW l \in Template PROVE JoinedTo(f, l, d) \in Result
    <3>1. CASE IsPair(l)
      <4>1. l[2] \in Result /\ l[3] \in Template
        BY <3>1, TemplateParts, Results
      <4>2. f[l[3]] \in Result
        BY <4>1 DEF Funs
      <4> QED
        BY <3>1, <4>1, <4>2, Results DEF JoinedTo
    <3>2. CASE ~IsPair(l)
      BY <3>2, Results DEF JoinedTo
    <3> QED
      BY <3>1, <3>2
  <2> QED
    BY <2>1 DEF Funs
<1>4. ASSUME NEW f \in Z, NEW g \in Z, NEW x \in Template,
             \A y \in Template : rank[y] < rank[x] => f[y] = g[y]
      PROVE  H[f][x] = H[g][x]
  <2>1. IsPair(x) => f[x[3]] = g[x[3]]
    BY <1>4, TemplateParts
  <2> QED
    BY <2>1 DEF JoinedTo
<1>5. \E f \in Z : f = H[f]
  <2> HIDE DEF rank, H
  <2> QED
    BY <1>1, <1>2, <1>3, <1>4, RecursionExists
<1>6. PICK f \in Z : f = Body(f)
  BY <1>5
<1>7. Joined(d) = CHOOSE g : g = Body(g)
  BY DEF Joined, JoinedTo
<1> DEFINE J == Joined(d)
<1> HIDE DEF J
<1>8. J = Body(J)
  <2> HIDE DEF Body
  <2> QED
    BY <1>6, <1>7 DEF J
<1>9. ASSUME NEW x \in Template PROVE J[x] = f[x]
  <2> DEFINE T == {n \in Nat : \E y \in Template : LevelOf(y) = n /\ J[y] # f[y]}
  <2> SUFFICES ASSUME T # {} PROVE FALSE
    BY TemplateParts
  <2>1. PICK n \in T : \A m \in T : n <= m
    BY LeastNumber
  <2>2. PICK y \in Template : LevelOf(y) = n /\ J[y] # f[y]
    OBVIOUS
  <2>3. ASSUME NEW z \in Template, LevelOf(z) < LevelOf(y) PROVE J[z] = f[z]
    <3>1. LevelOf(z) \in Nat /\ LevelOf(z) \notin T
      BY <2>1, <2>2, <2>3, TemplateParts
    <3> QED
      BY <3>1
  <2>4. JoinedTo(J, y, d) = JoinedTo(f, y, d)
    BY <2>3, TemplateParts DEF JoinedTo
  <2>5. J[y] = JoinedTo(J, y, d) /\ f[y] = JoinedTo(f, y, d)
    BY <1>6, <1>8
  <2> QED
    BY <2>2, <2>4, <2>5
<1>10. f \in [Template -> Result] /\ J = [x \in Template |-> J[x]]
  BY <1>8 DEF Funs
<1> QED
  BY <1>9, <1>10 DEF J

LEMMA SplicedIs ==
    ASSUME NEW l \in Template \cup {Failure}, NEW d \in Result
    PROVE  Spliced(l, d) \in Result
BY JoinedIs, Results DEF Spliced

\* How many levels an expression has.
CodeLevel(e) ==
    CHOOSE n \in Nat : e \in ExpressionsOf[n] /\ \A m \in Nat : e \in ExpressionsOf[m] => n <= m

LEMMA CodeLevelIs ==
    ASSUME NEW k \in Nat, NEW e \in ExpressionsOf[k]
    PROVE  /\ CodeLevel(e) \in Nat /\ e \in ExpressionsOf[CodeLevel(e)]
           /\ \A m \in Nat : e \in ExpressionsOf[m] => CodeLevel(e) <= m
<1> DEFINE T == {n \in Nat : e \in ExpressionsOf[n]}
<1>1. PICK n \in T : \A m \in T : n <= m
  BY LeastNumber
<1> QED
  BY <1>1 DEF CodeLevel

LEMMA CodeParts ==
    ASSUME NEW e \in Expression
    PROVE  /\ CodeLevel(e) \in Nat
           /\ e[1] \in {"bad", "quote", "code", "cons", "append", "list->vector"}
           /\ e[1] \in {"quote", "code"} => e[2] \in Template
           /\ e[1] \in {"cons", "append", "list->vector"} =>
                  e[2] \in Expression /\ CodeLevel(e[2]) < CodeLevel(e)
           /\ e[1] \in {"cons", "append"} =>
                  e[3] \in Expression /\ CodeLevel(e[3]) < CodeLevel(e)
<1> DEFINE n == CodeLevel(e)
<1>0. MaxLevels \in Nat /\ e \in ExpressionsOf[MaxLevels]
  BY TemplatesAssumption DEF Expression
<1>1. n \in Nat /\ e \in ExpressionsOf[n] /\ n <= MaxLevels
  BY <1>0, CodeLevelIs
<1>2. ASSUME NEW y, n - 1 \in Nat, y \in ExpressionsOf[n - 1]
      PROVE  y \in Expression /\ CodeLevel(y) < n
  <2> HIDE DEF n
  <2>1. ExpressionsOf[n - 1] \subseteq ExpressionsOf[MaxLevels]
    BY <1>0, <1>1, <1>2, ExpressionsGrow
  <2>2. CodeLevel(y) \in Nat /\ CodeLevel(y) <= n - 1
    BY <1>2, CodeLevelIs
  <2> QED
    BY <1>1, <1>2, <2>1, <2>2 DEF Expression
<1>3. /\ e[1] \in {"bad", "quote", "code", "cons", "append", "list->vector"}
      /\ e[1] \in {"quote", "code"} => e[2] \in Template
      /\ e[1] \in {"cons", "append"} => /\ n - 1 \in Nat
                                       /\ e[2] \in ExpressionsOf[n - 1]
                                       /\ e[3] \in ExpressionsOf[n - 1]
      /\ e[1] = "list->vector" => n - 1 \in Nat /\ e[2] \in ExpressionsOf[n - 1]
  <2> HIDE DEF n
  <2> QED
    BY <1>1, ExpressionParts
<1> QED
  BY <1>1, <1>2, <1>3

Evaluated(f, e) ==
    IF e[1] = "quote" THEN e[2]
    ELSE IF e[1] = "code"   THEN Meaning(e[2])
    ELSE IF e[1] = "cons"   THEN Consed(f[e[2]], f[e[3]])
    ELSE IF e[1] = "append" THEN Spliced(Meaning(e[2][2]), f[e[3]])
    ELSE IF e[1] = "list->vector" THEN Vectored(f[e[2]])
    ELSE Failure

LEMMA EvaluatedIs ==
    ASSUME NEW f \in [Expression -> Result], NEW e \in Expression
    PROVE  Evaluated(f, e) \in Result
<1>1. CASE e[1] = "bad"
  BY <1>1, Results DEF Evaluated
<1>2. CASE e[1] = "quote"
  BY <1>2, CodeParts, Results DEF Evaluated
<1>3. CASE e[1] = "code"
  <2>1. Meaning(e[2]) \in Result
    BY MeaningIs, Results
  <2> QED
    BY <1>3, <2>1 DEF Evaluated
<1>4. CASE e[1] = "cons"
  BY <1>4, CodeParts, Results DEF Evaluated
<1>5. CASE e[1] = "append"
  <2>1. f[e[3]] \in Result
    BY <1>5, CodeParts
  <2>2. Spliced(Meaning(e[2][2]), f[e[3]]) \in Result
    BY <2>1, MeaningIs, SplicedIs
  <2> QED
    BY <1>5, <2>2 DEF Evaluated
<1>6. CASE e[1] = "list->vector"
  BY <1>6, CodeParts, Results DEF Evaluated
<1> QED
  BY <1>1, <1>2, <1>3, <1>4, <1>5, <1>6, CodeParts

LEMMA EvaluatedAgree ==
    ASSUME NEW f, NEW g, NEW e \in Expression,
           \A c \in Expression : CodeLevel(c) < CodeLevel(e) => f[c] = g[c]
    PROVE  Evaluated(f, e) = Evaluated(g, e)
<1>1. CASE e[1] \in {"bad", "quote", "code"}
  BY <1>1 DEF Evaluated
<1>2. CASE e[1] \in {"cons", "append"}
  <2>1. f[e[2]] = g[e[2]] /\ f[e[3]] = g[e[3]]
    BY <1>2, CodeParts
  <2> QED
    BY <1>2, <2>1 DEF Evaluated
<1>3. CASE e[1] = "list->vector"
  <2>1. f[e[2]] = g[e[2]]
    BY <1>3, CodeParts
  <2> QED
    BY <1>3, <2>1 DEF Evaluated
<1> QED
  BY <1>1, <1>2, <1>3, CodeParts

LEMMA ValueIs ==
    \A e \in Expression : ValueOf[e] \in Result /\ ValueOf[e] = Evaluated(ValueOf, e)
<1> DEFINE rank == [e \in Expression |-> CodeLevel(e)]
           Z == Funs(Expression, Result)
           H == [f \in Z |-> [e \in Expression |-> Evaluated(f, e)]]
           Body(f) == [e \in Expression |-> Evaluated(f, e)]
<1>1. rank \in Funs(Expression, Nat)
  BY CodeParts DEF Funs
<1>2. Failure \in Result
  BY Results
<1>3. H \in Funs(Z, Z)
  BY EvaluatedIs DEF Funs
<1>4. ASSUME NEW f \in Z, NEW g \in Z, NEW e \in Expression,
             \A c \in Expression : rank[c] < rank[e] => f[c] = g[c]
      PROVE  H[f][e] = H[g][e]
  <2>1. Evaluated(f, e) = Evaluated(g, e)
    BY <1>4, EvaluatedAgree
  <2> QED
    BY <2>1
<1>5. \E f \in Z : f = H[f]
  <2> HIDE DEF rank, H
  <2> QED
    BY <1>1, <1>2, <1>3, <1>4, RecursionExists
<1>6. PICK f \in Z : f = Body(f)
  BY <1>5
<1>7. ValueOf = CHOOSE g : g = Body(g)
  BY DEF ValueOf, Evaluated
<1>8. ValueOf = Body(ValueOf)
  <2> HIDE DEF Body
  <2> QED
    BY <1>6, <1>7
<1>9. ASSUME NEW e \in Expression PROVE ValueOf[e] = f[e]
  <2> DEFINE T == {n \in Nat : \E c \in Expression : CodeLevel(c) = n /\ ValueOf[c] # f[c]}
  <2> SUFFICES ASSUME T # {} PROVE FALSE
    BY CodeParts
  <2>1. PICK n \in T : \A m \in T : n <= m
    BY LeastNumber
  <2>2. PICK c \in Expression : CodeLevel(c) = n /\ ValueOf[c] # f[c]
    OBVIOUS
  <2>3. ASSUME NEW z \in Expression, CodeLevel(z) < CodeLevel(c) PROVE ValueOf[z] = f[z]
    <3>1. CodeLevel(z) \in Nat /\ CodeLevel(z) \notin T
      BY <2>1, <2>2, <2>3, CodeParts
    <3> QED
      BY <3>1
  <2>4. Evaluated(ValueOf, c) = Evaluated(f, c)
    BY <2>3, EvaluatedAgree
  <2>5. ValueOf[c] = Evaluated(ValueOf, c) /\ f[c] = Evaluated(f, c)
    BY <1>6, <1>8
  <2> QED
    BY <2>2, <2>4, <2>5
<1>10. ASSUME NEW e \in Expression PROVE ValueOf[e] = Evaluated(ValueOf, e) /\ f[e] \in Result
  BY <1>8 DEF Funs
<1> QED
  BY <1>9, <1>10

-----------------------------------------------------------------------------
(* What a template stands for.                                             *)

FilledIn(f, x, d) ==
    IF IsForm(x)
    THEN IF ~TakesOne(x) THEN Failure
         ELSE IF Kind(x) = "quasiquote" THEN Holding(Kind(x), f[Arg(x)][d + 1])
         ELSE IF d > 1 THEN Holding(Kind(x), f[Arg(x)][d - 1])
         ELSE IF Kind(x) = "unquote" THEN Meaning(Arg(x))
         ELSE Failure
    ELSE IF IsPair(x)
    THEN IF Splices(x[2], d) /\ TakesOne(x[2]) THEN Spliced(Meaning(Arg(x[2])), f[x[3]][d])
         ELSE Consed(f[x[2]][d], f[x[3]][d])
    ELSE IF IsVec(x) THEN Vectored(f[x[2]][d])
    ELSE x

LEMMA HoldingIs ==
    ASSUME NEW x \in Template, IsForm(x), NEW v \in Result
    PROVE  Holding(Kind(x), v) \in Result
<1>1. Sym(Kind(x)) \in Result /\ Empty \in Result
  BY NameOf, Results, LeafIn
<1> QED
  BY <1>1, Results DEF Holding

LEMMA FilledInIs ==
    ASSUME NEW f \in [Template -> [Depths -> Result]], NEW x \in Template, NEW d \in Depths
    PROVE  FilledIn(f, x, d) \in Result
<1>0. ASSUME NEW y \in Template, NEW c \in Depths PROVE f[y][c] \in Result
  OBVIOUS
<1>1. d + 1 \in Depths /\ (d > 1 => d - 1 \in Depths)
  BY DEF Depths
<1>2. CASE IsForm(x) /\ ~TakesOne(x)
  BY <1>2, Results DEF FilledIn
<1>3. CASE IsForm(x) /\ TakesOne(x)
  <2>1. Arg(x) \in Template
    BY <1>3, NameOf, FormParts
  <2>2. /\ Holding(Kind(x), f[Arg(x)][d + 1]) \in Result
        /\ d > 1 => Holding(Kind(x), f[Arg(x)][d - 1]) \in Result
    BY <1>0, <1>1, <1>3, <2>1, HoldingIs
  <2>3. Meaning(Arg(x)) \in Result /\ Failure \in Result
    BY MeaningIs, Results
  <2> QED
    BY <1>3, <2>2, <2>3 DEF FilledIn
<1>4. CASE ~IsForm(x) /\ IsPair(x)
  <2>1. f[x[2]][d] \in Result /\ f[x[3]][d] \in Result
    BY <1>0, <1>4, TemplateParts
  <2>2. Spliced(Meaning(Arg(x[2])), f[x[3]][d]) \in Result
    BY <2>1, MeaningIs, SplicedIs
  <2>3. Consed(f[x[2]][d], f[x[3]][d]) \in Result
    BY <2>1, Results
  <2> QED
    BY <1>4, <2>2, <2>3 DEF FilledIn
<1>5. CASE ~IsForm(x) /\ ~IsPair(x) /\ IsVec(x)
  <2>1. f[x[2]][d] \in Result
    BY <1>0, <1>5, TemplateParts
  <2> QED
    BY <1>5, <2>1, Results DEF FilledIn
<1>6. CASE ~IsForm(x) /\ ~IsPair(x) /\ ~IsVec(x)
  BY <1>6, Results DEF FilledIn
<1> QED
  BY <1>2, <1>3, <1>4, <1>5, <1>6

LEMMA FilledInAgree ==
    ASSUME NEW f, NEW g, NEW x \in Template, NEW d \in Depths,
           \A y \in Template : LevelOf(y) < LevelOf(x) => f[y] = g[y]
    PROVE  FilledIn(f, x, d) = FilledIn(g, x, d)
<1>1. IsForm(x) /\ TakesOne(x) => f[Arg(x)] = g[Arg(x)]
  BY NameOf, FormParts
<1>2. IsPair(x) => f[x[2]] = g[x[2]] /\ f[x[3]] = g[x[3]]
  BY TemplateParts
<1>3. IsVec(x) => f[x[2]] = g[x[2]]
  BY TemplateParts
<1> QED
  BY <1>1, <1>2, <1>3 DEF FilledIn

LEMMA FilledIs ==
    \A x \in Template : \A d \in Depths :
        Filled[x][d] \in Result /\ Filled[x][d] = FilledIn(Filled, x, d)
<1> DEFINE S == [Depths -> Result]
           rank == [x \in Template |-> LevelOf(x)]
           Z == Funs(Template, S)
           H == [f \in Z |-> [x \in Template |-> [d \in Depths |-> FilledIn(f, x, d)]]]
           Body(f) == [x \in Template |-> [d \in Depths |-> FilledIn(f, x, d)]]
<1>1. rank \in Funs(Template, Nat)
  BY TemplateParts DEF Funs
<1>2. [d \in Depths |-> Failure] \in S
  BY Results
<1>3. H \in Funs(Z, Z)
  <2>1. ASSUME NEW f \in Z PROVE Body(f) \in Z
    BY FilledInIs DEF Funs
  <2> QED
    BY <2>1 DEF Funs
<1>4. ASSUME NEW f \in Z, NEW g \in Z, NEW x \in Template,
             \A y \in Template : rank[y] < rank[x] => f[y] = g[y]
      PROVE  H[f][x] = H[g][x]
  <2>1. \A y \in Template : LevelOf(y) < LevelOf(x) => f[y] = g[y]
    BY <1>4
  <2>2. ASSUME NEW d \in Depths PROVE FilledIn(f, x, d) = FilledIn(g, x, d)
    BY <2>1, FilledInAgree
  <2> QED
    BY <2>2
<1>5. \E f \in Z : f = H[f]
  <2> HIDE DEF S, rank, H
  <2> QED
    BY <1>1, <1>2, <1>3, <1>4, RecursionExists
<1>6. PICK f \in Z : f = Body(f)
  BY <1>5
<1>7. Filled = CHOOSE g : g = Body(g)
  BY DEF Filled, FilledIn
<1>8. Filled = Body(Filled)
  <2> HIDE DEF Body
  <2> QED
    BY <1>6, <1>7
<1>9. ASSUME NEW x \in Template PROVE Filled[x] = f[x]
  <2> DEFINE T == {n \in Nat : \E y \in Template : LevelOf(y) = n /\ Filled[y] # f[y]}
  <2> SUFFICES ASSUME T # {} PROVE FALSE
    BY TemplateParts
  <2>1. PICK n \in T : \A m \in T : n <= m
    BY LeastNumber
  <2>2. PICK y \in Template : LevelOf(y) = n /\ Filled[y] # f[y]
    OBVIOUS
  <2>3. ASSUME NEW z \in Template, LevelOf(z) < LevelOf(y) PROVE Filled[z] = f[z]
    <3>1. LevelOf(z) \in Nat /\ LevelOf(z) \notin T
      BY <2>1, <2>2, <2>3, TemplateParts
    <3> QED
      BY <3>1
  <2>4. ASSUME NEW d \in Depths PROVE FilledIn(Filled, y, d) = FilledIn(f, y, d)
    BY <2>3, FilledInAgree
  <2>5. /\ Filled[y] = [d \in Depths |-> FilledIn(Filled, y, d)]
        /\ f[y] = [d \in Depths |-> FilledIn(f, y, d)]
    BY <1>6, <1>8
  <2> QED
    BY <2>2, <2>4, <2>5
<1>10. ASSUME NEW x \in Template, NEW d \in Depths PROVE Filled[x][d] = FilledIn(Filled, x, d)
  BY <1>8
<1>11. ASSUME NEW x \in Template, NEW d \in Depths PROVE f[x][d] \in Result
  BY DEF Funs
<1> QED
  BY <1>9, <1>10, <1>11

OutsideOf(f, x) ==
    /\ IsPair(x) => ~IsVec(x[2]) /\ f[x[2]] /\ f[x[3]]
    /\ IsVec(x)  => f[x[2]]

LEMMA OutsideIs ==
    \A x \in Template : VectorsOutside[x] = OutsideOf(VectorsOutside, x)
<1> DEFINE rank == [x \in Template |-> LevelOf(x)]
           B == BOOLEAN
           Z == Funs(Template, B)
           H == [f \in Z |-> [x \in Template |-> OutsideOf(f, x)]]
           Body(f) == [x \in Template |-> OutsideOf(f, x)]
<1>1. rank \in Funs(Template, Nat)
  BY TemplateParts DEF Funs
<1>2. PICK v : v \in B
  OBVIOUS
<1>3. H \in Funs(Z, Z)
  <2>1. ASSUME NEW f, NEW x PROVE OutsideOf(f, x) \in BOOLEAN
    BY DEF OutsideOf
  <2> QED
    BY <2>1 DEF Funs
<1>4. ASSUME NEW f \in Z, NEW g \in Z, NEW x \in Template,
             \A y \in Template : rank[y] < rank[x] => f[y] = g[y]
      PROVE  H[f][x] = H[g][x]
  <2>1. /\ IsPair(x) => f[x[2]] = g[x[2]] /\ f[x[3]] = g[x[3]]
        /\ IsVec(x) => f[x[2]] = g[x[2]]
    BY <1>4, TemplateParts
  <2>2. OutsideOf(f, x) = OutsideOf(g, x)
    BY <2>1 DEF OutsideOf
  <2> QED
    BY <2>2
<1>5. \E f \in Z : f = H[f]
  <2> HIDE DEF rank, H, B
  <2> QED
    BY <1>1, <1>2, <1>3, <1>4, RecursionExists
<1>6. PICK f \in Z : f = Body(f)
  BY <1>5
<1>7. VectorsOutside = CHOOSE g : g = Body(g)
  BY DEF VectorsOutside, OutsideOf
<1>8. VectorsOutside = Body(VectorsOutside)
  <2> HIDE DEF Body
  <2> QED
    BY <1>6, <1>7
<1> QED
  BY <1>8

-----------------------------------------------------------------------------
(* The theorem.                                                            *)

\* A form's code evaluates to the form filled in, if its argument's does.
LEMMA FormValue ==
    ASSUME NEW x \in Template, IsForm(x), TakesOne(x), NEW d \in Depths, ~Splices(x, d),
           qq_form_code(x, d, qq_transfer[Arg(x)][Inner(x, d)]) \in Expression,
           ~Unquotes(x, d) =>
               /\ qq_wrap(Kind(x), qq_transfer[Arg(x)][Inner(x, d)]) \in Expression
               /\ ValueOf[qq_transfer[Arg(x)][Inner(x, d)]] = Filled[Arg(x)][Inner(x, d)]
    PROVE  ValueOf[qq_form_code(x, d, qq_transfer[Arg(x)][Inner(x, d)])] = Filled[x][d]
<1> DEFINE e == qq_transfer[Arg(x)][Inner(x, d)]
<1>0. Filled[x][d] = FilledIn(Filled, x, d)
  BY FilledIs
<1>1. CASE Unquotes(x, d)
  <2>1. qq_form_code(x, d, e) = Code(Arg(x)) /\ Code(Arg(x)) \in Expression
    BY <1>1 DEF qq_form_code
  <2>2. Code(Arg(x))[1] = "code" /\ Code(Arg(x))[2] = Arg(x)
    BY DEF Code
  <2>3. ValueOf[Code(Arg(x))] = Meaning(Arg(x))
    BY <2>1, <2>2, ValueIs DEF Evaluated
  <2>4. Kind(x) = "unquote" /\ ~(d > 1)
    BY <1>1, NameOf DEF Unquotes, Splices, Kinds
  <2>5. FilledIn(Filled, x, d) = Meaning(Arg(x))
    BY <2>4 DEF FilledIn
  <2> QED
    BY <1>0, <2>1, <2>3, <2>5
<1>2. CASE ~Unquotes(x, d)
  <2>1. qq_form_code(x, d, e) = qq_wrap(Kind(x), e)
    BY <1>2 DEF qq_form_code
  <2> DEFINE w == qq_wrap(Kind(x), e)
             c == CallCons(e, Quote(Empty))
             q == Quote(Sym(Kind(x)))
  <2>2. w[1] = "cons" /\ w[2] = q /\ w[3] = c
    BY DEF qq_wrap, CallCons
  <2>3. w \in Expression
    BY <1>2
  <2>4. q \in Expression /\ c \in Expression
    BY <2>2, <2>3, CodeParts
  <2>5. ValueOf[w] = Consed(ValueOf[q], ValueOf[c])
    BY <2>2, <2>3, ValueIs DEF Evaluated
  <2>6. c[1] = "cons" /\ c[2] = e /\ c[3] = Quote(Empty)
    BY DEF CallCons
  <2>7. ValueOf[c] = Consed(ValueOf[e], ValueOf[Quote(Empty)]) /\ Quote(Empty) \in Expression
    BY <2>4, <2>6, ValueIs, CodeParts DEF Evaluated
  <2>8. ASSUME NEW y, Quote(y) \in Expression PROVE ValueOf[Quote(y)] = y
    <3>1. Quote(y)[1] = "quote" /\ Quote(y)[2] = y
      BY DEF Quote
    <3> QED
      BY <2>8, <3>1, ValueIs DEF Evaluated
  <2>9. ValueOf[w] = Consed(Sym(Kind(x)), Consed(ValueOf[e], Empty))
    BY <2>4, <2>5, <2>7, <2>8
  <2>10. ValueOf[w] = Holding(Kind(x), Filled[Arg(x)][Inner(x, d)])
    BY <1>2, <2>9 DEF Holding
  <2>11. FilledIn(Filled, x, d) = Holding(Kind(x), Filled[Arg(x)][Inner(x, d)])
    BY <1>2 DEF FilledIn, Inner, Unquotes, Depths
  <2> QED
    BY <1>0, <2>1, <2>10, <2>11
<1> QED
  BY <1>1, <1>2

LEMMA ExpansionsAreFilled ==
    ASSUME NEW x \in Template, NEW d \in Depths, VectorsOutside[x]
    PROVE  ValueOf[qq_transfer[x][d]] = Filled[x][d]
<1> DEFINE Right(y, c) == ValueOf[qq_transfer[y][c]] = Filled[y][c]
           T == {n \in Nat : \E y \in Template, c \in Depths :
                   LevelOf(y) = n /\ VectorsOutside[y] /\ ~Right(y, c)}
<1> SUFFICES ASSUME T # {} PROVE FALSE
  BY TemplateParts
<1>1. PICK n \in T : \A m \in T : n <= m
  BY LeastNumber
<1>2. PICK y \in Template, c \in Depths : LevelOf(y) = n /\ VectorsOutside[y] /\ ~Right(y, c)
  OBVIOUS
<1>3. ASSUME NEW z \in Template, NEW b \in Depths, LevelOf(z) < n, VectorsOutside[z]
      PROVE  Right(z, b)
  <2>1. LevelOf(z) \in Nat /\ LevelOf(z) \notin T
    BY <1>1, <1>3, TemplateParts
  <2> QED
    BY <1>3, <2>1
<1>a. SUFFICES Right(y, c)
  BY <1>2
<1> HIDE DEF T
<1> DEFINE e == qq_transfer[y][c]
<1>4. e \in Expression /\ e = Transferred(qq_transfer, y, c)
  BY ExpansionIs
<1>5. Filled[y][c] = FilledIn(Filled, y, c)
  BY FilledIs
<1>6. ValueOf[e] = Evaluated(ValueOf, e)
  BY <1>4, ValueIs
<1>7. OutsideOf(VectorsOutside, y)
  BY <1>2, OutsideIs
\* The argument of a form is no vector outside and smaller.
<1>8. ASSUME NEW z \in Template, IsForm(z), TakesOne(z), VectorsOutside[z], LevelOf(z) <= n
      PROVE  Arg(z) \in Template /\ LevelOf(Arg(z)) < n /\ VectorsOutside[Arg(z)]
  <2>1. IsPair(z) /\ z[3] \in Template /\ VectorsOutside[z[3]]
    BY <1>8, NameOf, TemplateParts, OutsideIs DEF OutsideOf
  <2>2. IsPair(z[3]) /\ VectorsOutside[z[3][2]]
    BY <1>8, <2>1, OutsideIs DEF OutsideOf, TakesOne
  <2>3. Arg(z) \in Template /\ LevelOf(Arg(z)) < LevelOf(z)
    BY <1>8, <2>1, FormParts
  <2>4. LevelOf(Arg(z)) \in Nat /\ LevelOf(z) \in Nat /\ n \in Nat
    BY <1>2, <2>3, TemplateParts
  <2> QED
    BY <1>8, <2>2, <2>3, <2>4 DEF Arg
<1>9. ASSUME NEW z \in Template, IsForm(z), TakesOne(z), VectorsOutside[z], LevelOf(z) <= n, ~Splices(z, c),
             qq_form_code(z, c, qq_transfer[Arg(z)][Inner(z, c)]) \in Expression
      PROVE  ValueOf[qq_form_code(z, c, qq_transfer[Arg(z)][Inner(z, c)])] = Filled[z][c]
  <2>1. ~Unquotes(z, c) => Right(Arg(z), Inner(z, c))
    BY <1>3, <1>8, <1>9, InnerIs
  <2>2. ~Unquotes(z, c) => qq_wrap(Kind(z), qq_transfer[Arg(z)][Inner(z, c)]) \in Expression
    BY <1>9 DEF qq_form_code
  <2> QED
    BY <1>9, <2>1, <2>2, FormValue
<1>10. Bad[1] = "bad"
  BY DEF Bad
<1>11. CASE IsVec(y)
  <2>1. y[2] \in Template /\ LevelOf(y[2]) < n /\ VectorsOutside[y[2]] /\ ~IsPair(y) /\ ~IsForm(y)
    BY <1>2, <1>7, <1>11, TemplateParts DEF OutsideOf, IsForm
  <2>2. Right(y[2], c)
    BY <1>3, <2>1
  <2> DEFINE l == qq_transfer[y[2]][c]
  <2>3. e = CallToVector(l)
    BY <1>4, <1>11 DEF Transferred
  <2> HIDE DEF l
  <2>4. e[1] = "list->vector" /\ e[2] = l
    BY <2>3 DEF CallToVector
  <2>5. ValueOf[e] = Vectored(ValueOf[l])
    BY <1>6, <2>4 DEF Evaluated
  <2>6. Filled[y][c] = Vectored(Filled[y[2]][c])
    BY <1>5, <1>11, <2>1 DEF FilledIn
  <2> QED
    BY <2>2, <2>5, <2>6 DEF l
<1>12. CASE ~IsVec(y) /\ ~IsPair(y)
  <2>1. e = Quote(y)
    BY <1>4, <1>12 DEF Transferred
  <2>2. e[1] = "quote" /\ e[2] = y
    BY <2>1 DEF Quote
  <2>3. ValueOf[e] = y
    BY <1>6, <2>2 DEF Evaluated
  <2>4. Filled[y][c] = y
    BY <1>5, <1>12 DEF FilledIn, IsForm
  <2> QED
    BY <2>3, <2>4
<1>13. CASE IsPair(y) /\ IsForm(y)
  <2>1. ~IsVec(y)
    BY <1>13, TemplateParts
  <2>2. CASE ~TakesOne(y) \/ Splices(y, c)
    <3>1. e = Bad
      BY <1>4, <1>13, <2>1, <2>2 DEF Transferred
    <3>2. ValueOf[e] = Failure
      BY <1>6, <1>10, <3>1 DEF Evaluated
    <3>3. FilledIn(Filled, y, c) = Failure
      BY <1>13, <2>2 DEF FilledIn, Splices
    <3> QED
      BY <1>5, <3>2, <3>3
  <2>3. CASE TakesOne(y) /\ ~Splices(y, c)
    <3>1. e = qq_form_code(y, c, qq_transfer[Arg(y)][Inner(y, c)])
      BY <1>4, <1>13, <2>1, <2>3 DEF Transferred
    <3>2. LevelOf(y) <= n
      BY <1>2, TemplateParts
    <3>3. ValueOf[qq_form_code(y, c, qq_transfer[Arg(y)][Inner(y, c)])] = Filled[y][c]
      BY <1>2, <1>4, <1>9, <1>13, <2>3, <3>1, <3>2
    <3> QED
      BY <3>1, <3>3
  <2> QED
    BY <2>2, <2>3
<1>14. CASE IsPair(y) /\ ~IsForm(y)
  <2> DEFINE a == y[2]
             rest == qq_transfer[y[3]][c]
  <2>1. /\ ~IsVec(y) /\ a \in Template /\ y[3] \in Template
        /\ LevelOf(a) < n /\ LevelOf(y[3]) < n /\ LevelOf(a) \in Nat /\ n \in Nat
        /\ ~IsVec(a) /\ VectorsOutside[a] /\ VectorsOutside[y[3]]
    BY <1>2, <1>7, <1>14, TemplateParts DEF OutsideOf
  <2>2. Right(y[3], c)
    BY <1>3, <2>1
  <2>3. e =
            IF ~IsPair(a) THEN CallCons(Quote(a), rest)
            ELSE IF ~IsForm(a) THEN CallCons(qq_transfer[a][c], rest)
            ELSE IF ~TakesOne(a) THEN Bad
            ELSE IF Splices(a, c) THEN CallAppend(Arg(a), rest)
            ELSE CallCons(qq_form_code(a, c, qq_transfer[Arg(a)][Inner(a, c)]), rest)
    BY <1>4, <1>14, <2>1 DEF Transferred
  <2>4. FilledIn(Filled, y, c) =
            IF Splices(a, c) /\ TakesOne(a) THEN Spliced(Meaning(Arg(a)), Filled[y[3]][c])
            ELSE Consed(Filled[a][c], Filled[y[3]][c])
    BY <1>14 DEF FilledIn
  <2>5. ValueOf[rest] = Filled[y[3]][c]
    BY <2>2
  <2>6. Filled[a][c] = FilledIn(Filled, a, c)
    BY <2>1, FilledIs
  <2> HIDE DEF a, rest, e
  <2>7. ASSUME NEW h, e = CallCons(h, rest)
        PROVE  h \in Expression /\ ValueOf[e] = Consed(ValueOf[h], ValueOf[rest])
    <3>1. e[1] = "cons" /\ e[2] = h /\ e[3] = rest
      BY <2>7 DEF CallCons
    <3>2. h \in Expression
      BY <1>4, <3>1, CodeParts
    <3>3. ValueOf[e] = Consed(ValueOf[h], ValueOf[rest])
      BY <1>6, <3>1 DEF Evaluated
    <3> QED
      BY <3>2, <3>3
  <2>8. CASE ~IsPair(a)
    <3>1. ~IsForm(a) /\ e = CallCons(Quote(a), rest)
      BY <2>3, <2>8 DEF IsForm
    <3>2. Quote(a) \in Expression /\ ValueOf[e] = Consed(ValueOf[Quote(a)], ValueOf[rest])
      BY <2>7, <3>1
    <3>3. Quote(a)[1] = "quote" /\ Quote(a)[2] = a
      BY DEF Quote
    <3>4. ValueOf[Quote(a)] = a
      BY <3>2, <3>3, ValueIs DEF Evaluated
    <3>5. Filled[a][c] = a
      BY <2>1, <2>6, <2>8, <3>1 DEF FilledIn
    <3>6. ~Splices(a, c)
      BY <3>1 DEF Splices
    <3> QED
      BY <1>5, <2>4, <2>5, <3>2, <3>4, <3>5, <3>6 DEF e
  <2>9. CASE IsPair(a) /\ ~IsForm(a)
    <3>1. e = CallCons(qq_transfer[a][c], rest)
      BY <2>3, <2>9
    <3>2. ValueOf[e] = Consed(ValueOf[qq_transfer[a][c]], ValueOf[rest])
      BY <2>7, <3>1
    <3>3. Right(a, c)
      BY <1>3, <2>1
    <3>4. ~Splices(a, c)
      BY <2>9 DEF Splices
    <3> QED
      BY <1>5, <2>4, <2>5, <3>2, <3>3, <3>4 DEF e
  <2>10. CASE IsPair(a) /\ IsForm(a) /\ ~TakesOne(a)
    <3>1. e = Bad
      BY <2>3, <2>10
    <3>2. ValueOf[e] = Failure
      BY <1>6, <1>10, <3>1 DEF Evaluated
    <3>3. Filled[a][c] = Failure
      BY <2>6, <2>10 DEF FilledIn
    <3>4. FilledIn(Filled, y, c) = Failure
      BY <2>4, <2>10, <3>3 DEF Consed
    <3> QED
      BY <1>5, <3>2, <3>4 DEF e
  <2>11. CASE IsPair(a) /\ IsForm(a) /\ TakesOne(a) /\ Splices(a, c)
    <3>1. e = CallAppend(Arg(a), rest)
      BY <2>3, <2>11
    <3>2. e[1] = "append" /\ e[2] = Code(Arg(a)) /\ e[3] = rest
      BY <3>1 DEF CallAppend
    <3>3. Code(Arg(a))[2] = Arg(a)
      BY DEF Code
    <3>4. ValueOf[e] = Spliced(Meaning(e[2][2]), ValueOf[e[3]])
      BY <1>6, <3>2 DEF Evaluated
    <3>5. ValueOf[e] = Spliced(Meaning(Arg(a)), ValueOf[rest])
      BY <3>2, <3>3, <3>4
    <3> QED
      BY <1>5, <2>4, <2>5, <2>11, <3>5 DEF e
  <2>12. CASE IsPair(a) /\ IsForm(a) /\ TakesOne(a) /\ ~Splices(a, c)
    <3> DEFINE h == qq_form_code(a, c, qq_transfer[Arg(a)][Inner(a, c)])
    <3>1. e = CallCons(h, rest)
      BY <2>3, <2>12
    <3> HIDE DEF h
    <3>2. h \in Expression /\ ValueOf[e] = Consed(ValueOf[h], ValueOf[rest])
      BY <2>7, <3>1
    <3>3. LevelOf(a) <= n
      BY <2>1
    <3>4. ValueOf[h] = Filled[a][c]
      BY <1>9, <2>1, <2>12, <3>2, <3>3 DEF h
    <3> QED
      BY <1>5, <2>4, <2>5, <2>12, <3>2, <3>4 DEF e
  <2> QED
    BY <2>8, <2>9, <2>10, <2>11, <2>12
<1> QED
  BY <1>11, <1>12, <1>13, <1>14

\* Whatever template is expanded, of whatever depth, the expression that comes
\* of it evaluates to the template with its holes filled (qq_transfer).
THEOREM TemplatesAreFilled == TemplateSpec => []TemplateIsFilled
<1> DEFINE Inv == template \in Template /\ (expansion # Unexpanded => expansion = qq_transfer[template][1])
<1>1. TemplateInit => Inv
  BY TemplatesAssumption DEF TemplateInit
<1>2. Inv /\ [expand_quasiquote]_templateVars => Inv'
  BY DEF expand_quasiquote, templateVars
<1>3. Inv => TemplateIsFilled
  <2>1. 1 \in Depths
    BY DEF Depths
  <2> QED
    BY <2>1, ExpansionsAreFilled DEF TemplateIsFilled
<1> QED
  BY <1>1, <1>2, <1>3, PTL DEF TemplateSpec

-----------------------------------------------------------------------------
(***************************************************************************)
(* HashTable, for any keys and values, any modulus and any hash of the     *)
(* strings: however keys collide, and whatever the callbacks of an         *)
(* iteration do, the table is the dictionary it promises to be.            *)
(***************************************************************************)

\* The entries of a bucket, and a bucket as it must be under a hash.
In(b) == {b[i] : i \in 1..Len(b)}

BucketOK(b, h) ==
    /\ b \in Seq(Entry) /\ b # <<>>
    /\ \A i \in 1..Len(b) : Hashable(b[i][1]) /\ hash_value(b[i][1]) = h
    /\ \A i, j \in 1..Len(b) : b[i][1] = b[j][1] => i = j

TreeOK(t)   == \A h \in DOMAIN t : BucketOK(t[h], h)
OnePerKey(S) == \A d, e \in S : d[1] = e[1] => d = e

\* An iteration holds entries the table has, and entries it had.
TableInv ==
    /\ TreeOK(tree)
    /\ IsFiniteSet(Entries) /\ size = Cardinality(Entries)
    /\ todo \subseteq Entry /\ OnePerKey(todo)
    /\ DOMAIN value = Entries \cup todo

-----------------------------------------------------------------------------
(* Buckets.                                                                *)

LEMMA BucketHas ==
    ASSUME NEW b, NEW h, BucketOK(b, h)
    PROVE  /\ In(b) \subseteq Entry /\ OnePerKey(In(b))
           /\ \A e \in In(b) : Hashable(e[1]) /\ hash_value(e[1]) = h
<1>1. b \in Seq(Entry)
  BY DEF BucketOK
<1>2. \A i \in 1..Len(b) : b[i] \in Entry
  BY <1>1, ElementOfSeq
<1> QED
  BY <1>2 DEF BucketOK, In, OnePerKey

\* A new entry at the end of a bucket, or in one of its own.
LEMMA BucketAdd ==
    ASSUME NEW b, NEW h, b = <<>> \/ BucketOK(b, h), NEW e \in Entry,
           Hashable(e[1]), hash_value(e[1]) = h, \A d \in In(b) : d[1] # e[1]
    PROVE  BucketOK(bucket_add(b, e), h) /\ In(bucket_add(b, e)) = In(b) \cup {e}
<1> DEFINE a == Append(b, e)
<1>1. b \in Seq(Entry) /\ Len(b) \in Nat
  <2>1. b \in Seq(Entry)
    BY EmptySeq DEF BucketOK
  <2> QED
    BY <2>1, LenProperties
<1>2. /\ a \in Seq(Entry) /\ a # <<>> /\ Len(a) = Len(b) + 1 /\ a[Len(b) + 1] = e
      /\ \A i \in 1..Len(b) : a[i] = b[i]
  BY <1>1, AppendProperties
<1> HIDE DEF a
<1>3. \A i \in 1..Len(a) : i \in 1..Len(b) \/ i = Len(b) + 1
  BY <1>1, <1>2
<1>4. In(a) = In(b) \cup {e}
  <2>1. \A i \in 1..Len(b) : i \in 1..Len(a)
    BY <1>1, <1>2
  <2>2. Len(b) + 1 \in 1..Len(a)
    BY <1>1, <1>2
  <2> QED
    BY <1>2, <1>3, <2>1, <2>2 DEF In
<1>5. \A i \in 1..Len(b) : /\ Hashable(b[i][1]) /\ hash_value(b[i][1]) = h /\ b[i][1] # e[1]
                           /\ \A j \in 1..Len(b) : b[i][1] = b[j][1] => i = j
  <2>1. CASE b = <<>>
    BY <2>1
  <2>2. CASE BucketOK(b, h)
    BY <2>2 DEF BucketOK, In
  <2> QED
    BY <2>1, <2>2
<1>6. \A i \in 1..Len(a) : Hashable(a[i][1]) /\ hash_value(a[i][1]) = h
  BY <1>2, <1>3, <1>5
<1>7. \A i, j \in 1..Len(a) : a[i][1] = a[j][1] => i = j
  BY <1>2, <1>3, <1>5
<1> QED
  BY <1>2, <1>4, <1>6, <1>7 DEF BucketOK, bucket_add, a

\* The entry for a key is the one there is.
LEMMA BucketFind ==
    ASSUME NEW b, NEW h, BucketOK(b, h), NEW k, Places(b, k) # {}
    PROVE  /\ Place(b, k) \in 1..Len(b) /\ bucket_find(b, k) = b[Place(b, k)]
           /\ bucket_find(b, k) \in In(b) /\ bucket_find(b, k)[1] = k
<1>1. PICK i \in 1..Len(b) : b[i][1] = k
  BY DEF Places
<1>2. \A j \in 1..Len(b) : b[j][1] = k => j = i
  BY <1>1 DEF BucketOK
<1>3. i \in Places(b, k) /\ \A j \in Places(b, k) : i <= j
  BY <1>1, <1>2 DEF Places
<1>4. Place(b, k) \in Places(b, k)
  BY <1>3 DEF Place
<1> QED
  BY <1>4 DEF Places, bucket_find, In

LEMMA BucketRemove ==
    ASSUME NEW b, NEW h, BucketOK(b, h), NEW k, Places(b, k) # {}
    PROVE  LET r == bucket_remove(b, k) IN
           /\ In(r) = In(b) \ {bucket_find(b, k)}
           /\ r # <<>> => BucketOK(r, h)
<1> DEFINE n == Len(b)
           p == Place(b, k)
           x == SubSeq(b, 1, p - 1)
           y == SubSeq(b, p + 1, n)
           r == x \o y
           old == [i \in 1..n - 1 |-> IF i < p THEN i ELSE i + 1]
<1>1. b \in Seq(Entry) /\ n \in Nat /\ \A i \in 1..n : b[i] \in Entry
  BY LenProperties, ElementOfSeq DEF BucketOK
<1>2. p \in 1..n /\ bucket_find(b, k) = b[p]
  BY BucketFind
<1> HIDE DEF p
<1>3. /\ x \in Seq(Entry) /\ Len(x) = p - 1 /\ \A i \in 1..p - 1 : x[i] = b[i]
  <2>1. p - 1 \in Int /\ 1 \in Int /\ \A i \in 1..p - 1 : b[i] \in Entry
    BY <1>1, <1>2
  <2>2. /\ x \in Seq(Entry) /\ Len(x) = IF 1 <= p - 1 THEN p - 1 - 1 + 1 ELSE 0
        /\ \A i \in 1..p - 1 - 1 + 1 : x[i] = b[1 + i - 1]
    BY <2>1, SubSeqProperties
  <2> HIDE DEF x
  <2>3. \A i \in 1..p - 1 : i \in 1..p - 1 - 1 + 1 /\ 1 + i - 1 = i
    BY <1>2
  <2> QED
    BY <1>1, <1>2, <2>2, <2>3
<1>4. /\ y \in Seq(Entry) /\ Len(y) = n - p /\ \A i \in 1..n - p : y[i] = b[p + i]
  <2>1. p + 1 \in Int /\ n \in Int /\ \A i \in p + 1..n : b[i] \in Entry
    BY <1>1, <1>2
  <2>2. /\ y \in Seq(Entry) /\ Len(y) = IF p + 1 <= n THEN n - (p + 1) + 1 ELSE 0
        /\ \A i \in 1..n - (p + 1) + 1 : y[i] = b[p + 1 + i - 1]
    BY <2>1, SubSeqProperties
  <2> HIDE DEF y
  <2>3. \A i \in 1..n - p : i \in 1..n - (p + 1) + 1 /\ p + 1 + i - 1 = p + i
    BY <1>1, <1>2
  <2> QED
    <3>1. Len(y) = n - p
      BY <1>1, <1>2, <2>2
    <3> QED
      BY <1>1, <1>2, <2>2, <2>3, <3>1
<1> HIDE DEF x, y
<1>5. /\ r \in Seq(Entry) /\ Len(r) = Len(x) + Len(y)
      /\ \A i \in 1..Len(x) + Len(y) : r[i] = IF i <= Len(x) THEN x[i] ELSE y[i - Len(x)]
  BY <1>3, <1>4, ConcatProperties
<1> HIDE DEF r, n
<1>6. Len(r) = n - 1
  BY <1>1, <1>2, <1>3, <1>4, <1>5
<1>7. ASSUME NEW i \in 1..n - 1 PROVE old[i] \in 1..n \ {p} /\ r[i] = b[old[i]]
  <2>1. CASE i < p
    <3>1. old[i] = i /\ i \in 1..p - 1 /\ i \in 1..n /\ i # p /\ i <= Len(x)
      BY <2>1, <1>1, <1>2, <1>3
    <3>2. r[i] = x[i]
      BY <3>1, <1>1, <1>2, <1>3, <1>4, <1>5
    <3> QED
      BY <3>1, <3>2, <1>3
  <2>2. CASE ~(i < p)
    <3>1. old[i] = i + 1 /\ i + 1 \in 1..n /\ i + 1 # p /\ ~(i <= Len(x))
      BY <2>2, <1>1, <1>2, <1>3
    <3> DEFINE d == i - Len(x)
    <3>2. d \in 1..n - p /\ p + d = i + 1
      BY <2>2, <1>1, <1>2, <1>3
    <3>3. r[i] = y[d]
      BY <3>1, <1>1, <1>2, <1>3, <1>4, <1>5
    <3> HIDE DEF d
    <3>4. y[d] = b[p + d]
      BY <3>2, <1>4
    <3> QED
      BY <3>1, <3>2, <3>3, <3>4
  <2> QED
    BY <2>1, <2>2
<1>8. \A j \in 1..n \ {p} : \E i \in 1..n - 1 : old[i] = j
  <2> SUFFICES ASSUME NEW j \in 1..n \ {p} PROVE \E i \in 1..n - 1 : old[i] = j
    OBVIOUS
  <2>1. CASE j < p
    <3>1. j \in 1..n - 1 /\ old[j] = j
      BY <2>1, <1>1, <1>2
    <3> QED
      BY <3>1
  <2>2. CASE j > p
    <3>1. j - 1 \in 1..n - 1 /\ ~(j - 1 < p) /\ j - 1 + 1 = j
      BY <2>2, <1>1, <1>2
    <3>2. old[j - 1] = j
      BY <3>1
    <3> QED
      BY <3>1, <3>2
  <2> QED
    BY <2>1, <2>2, <1>1, <1>2
<1>9. \A i, j \in 1..n - 1 : old[i] = old[j] => i = j
  BY <1>1, <1>2
<1> HIDE DEF old
<1>10. In(b) = {b[i] : i \in 1..n} /\ In(r) = {r[i] : i \in 1..n - 1}
  BY <1>6 DEF In, n
<1>11. In(r) = {b[j] : j \in 1..n \ {p}}
  BY <1>7, <1>8, <1>10
<1>12. \A i, j \in 1..n : b[i][1] = b[j][1] => i = j
  BY DEF BucketOK, n
<1>13. In(r) = In(b) \ {b[p]}
  BY <1>2, <1>10, <1>11, <1>12
<1>14. ASSUME r # <<>> PROVE BucketOK(r, h)
  <2>1. \A i \in 1..n : Hashable(b[i][1]) /\ hash_value(b[i][1]) = h
    BY DEF BucketOK, n
  <2>2. \A i, j \in 1..n - 1 : r[i][1] = r[j][1] => i = j
    BY <1>7, <1>9, <1>12
  <2> QED
    BY <1>5, <1>6, <1>7, <1>14, <2>1, <2>2 DEF BucketOK
<1>15. bucket_remove(b, k) = r
  BY DEF bucket_remove, RemoveAt, r, x, y, n, p
<1> QED
  BY <1>2, <1>13, <1>14, <1>15

-----------------------------------------------------------------------------
(* The tree.                                                               *)

\* Entries of different buckets have keys of different hashes.
LEMMA TreeHas ==
    ASSUME NEW t, TreeOK(t)
    PROVE  /\ EntriesIn(t) \subseteq Entry /\ OnePerKey(EntriesIn(t))
           /\ \A e \in EntriesIn(t) : /\ Hashable(e[1]) /\ hash_value(e[1]) \in DOMAIN t
                                      /\ e \in In(t[hash_value(e[1])])
<1>1. \A h \in DOMAIN t : /\ In(t[h]) \subseteq Entry /\ OnePerKey(In(t[h]))
                          /\ \A e \in In(t[h]) : Hashable(e[1]) /\ hash_value(e[1]) = h
  BY BucketHas DEF TreeOK
<1>2. \A e : e \in EntriesIn(t) <=> \E h \in DOMAIN t : e \in In(t[h])
  BY DEF EntriesIn, In
<1>3. \A e \in EntriesIn(t) : /\ Hashable(e[1]) /\ hash_value(e[1]) \in DOMAIN t
                              /\ e \in In(t[hash_value(e[1])])
  BY <1>1, <1>2
<1>4. OnePerKey(EntriesIn(t))
  <2> SUFFICES ASSUME NEW d \in EntriesIn(t), NEW e \in EntriesIn(t), d[1] = e[1] PROVE d = e
    BY DEF OnePerKey
  <2> QED
    BY <1>1, <1>3 DEF OnePerKey
<1> QED
  BY <1>1, <1>2, <1>3, <1>4

\* What the bucket of a key holds, of all the entries.
LEMMA BucketOf ==
    ASSUME TreeOK(tree), NEW k
    PROVE  /\ Bucket(k) = <<>> \/ BucketOK(Bucket(k), hash_value(k))
           /\ In(Bucket(k)) \subseteq Entries
           /\ \A e \in Entries : e[1] = k => e \in In(Bucket(k))
           /\ Places(Bucket(k), k) = {} <=> ~ \E e \in Entries : e[1] = k
<1>1. CASE hash_value(k) \in DOMAIN tree
  <2>1. Bucket(k) = tree[hash_value(k)]
    BY <1>1 DEF Bucket
  <2>2. In(Bucket(k)) \subseteq Entries
    BY <1>1, <2>1 DEF Entries, EntriesIn, In
  <2>3. \A e \in Entries : e[1] = k => e \in In(Bucket(k))
    BY <2>1, TreeHas DEF Entries
  <2>4. Places(Bucket(k), k) = {} <=> ~ \E e \in In(Bucket(k)) : e[1] = k
    BY DEF Places, In
  <2> QED
    BY <1>1, <2>1, <2>2, <2>3, <2>4 DEF TreeOK
<1>2. CASE hash_value(k) \notin DOMAIN tree
  <2>1. Bucket(k) = <<>>
    BY <1>2 DEF Bucket
  <2>2. In(Bucket(k)) = {} /\ Places(Bucket(k), k) = {}
    BY <2>1 DEF In, Places
  <2>3. \A e \in Entries : e[1] # k
    BY <1>2, TreeHas DEF Entries
  <2> QED
    BY <2>1, <2>2, <2>3
<1> QED
  BY <1>1, <1>2

\* Another bucket under a hash.
LEMMA TreeWith ==
    ASSUME NEW t, TreeOK(t), NEW h, NEW b, BucketOK(b, h)
    PROVE  /\ TreeOK(With(t, h, b))
           /\ EntriesIn(With(t, h, b)) = {e \in EntriesIn(t) : hash_value(e[1]) # h} \cup In(b)
<1> DEFINE w == With(t, h, b)
<1>1. DOMAIN w = DOMAIN t \cup {h} /\ \A g \in DOMAIN w : w[g] = IF g = h THEN b ELSE t[g]
  BY DEF With
<1> HIDE DEF w
<1>2. TreeOK(w)
  BY <1>1 DEF TreeOK
<1>3. ASSUME NEW e PROVE e \in EntriesIn(w) <=>
          (e \in EntriesIn(t) /\ hash_value(e[1]) # h) \/ e \in In(b)
  <2>1. e \in EntriesIn(w) <=> \E g \in DOMAIN w : e \in In(w[g])
    BY DEF EntriesIn, In
  <2>2. e \in EntriesIn(t) <=> \E g \in DOMAIN t : e \in In(t[g])
    BY DEF EntriesIn, In
  <2>3. \A g \in DOMAIN t : e \in In(t[g]) => hash_value(e[1]) = g
    BY BucketHas DEF TreeOK
  <2> QED
    BY <1>1, <2>1, <2>2, <2>3
<1> QED
  BY <1>2, <1>3 DEF w

LEMMA TreeWithout ==
    ASSUME NEW t, TreeOK(t), NEW h
    PROVE  /\ TreeOK(Without(t, h))
           /\ EntriesIn(Without(t, h)) = {e \in EntriesIn(t) : hash_value(e[1]) # h}
<1> DEFINE w == Without(t, h)
<1>1. DOMAIN w = DOMAIN t \ {h} /\ \A g \in DOMAIN w : w[g] = t[g]
  BY DEF Without
<1> HIDE DEF w
<1>2. TreeOK(w)
  BY <1>1 DEF TreeOK
<1>3. ASSUME NEW e PROVE e \in EntriesIn(w) <=> e \in EntriesIn(t) /\ hash_value(e[1]) # h
  <2>1. e \in EntriesIn(w) <=> \E g \in DOMAIN w : e \in In(w[g])
    BY DEF EntriesIn, In
  <2>2. e \in EntriesIn(t) <=> \E g \in DOMAIN t : e \in In(t[g])
    BY DEF EntriesIn, In
  <2>3. \A g \in DOMAIN t : e \in In(t[g]) => hash_value(e[1]) = g
    BY BucketHas DEF TreeOK
  <2> QED
    BY <1>1, <2>1, <2>2, <2>3
<1> QED
  BY <1>2, <1>3 DEF w

-----------------------------------------------------------------------------
(* What set and delete do to the entries.                                  *)

LEMMA Found ==
    ASSUME TableInv, NEW k, Places(Bucket(k), k) # {}
    PROVE  LET x == bucket_find(Bucket(k), k) IN
           x \in Entries /\ x[1] = k /\ (\A e \in Entries : e[1] = k => e = x)
<1>1. BucketOK(Bucket(k), hash_value(k)) /\ In(Bucket(k)) \subseteq Entries
  <2>1. Bucket(k) # <<>>
    BY DEF Places
  <2> QED
    BY <2>1, BucketOf DEF TableInv
<1>2. bucket_find(Bucket(k), k) \in Entries /\ bucket_find(Bucket(k), k)[1] = k
  BY <1>1, BucketFind
<1>3. OnePerKey(Entries)
  BY TreeHas DEF TableInv, Entries
<1> QED
  BY <1>2, <1>3 DEF OnePerKey

NewEntry(k) == <<k, IF <<k, 1>> \in todo THEN 2 ELSE 1>>

LEMMA Added ==
    ASSUME TableInv, NEW k \in Key, Hashable(k), NEW v, AddEntry(k, v)
    PROVE  /\ TreeOK(tree') /\ Entries' = Entries \cup {NewEntry(k)}
           /\ NewEntry(k) \in Entry /\ NewEntry(k)[1] = k /\ NewEntry(k) \notin Entries \cup todo
           /\ \A e \in Entries : e[1] # k
<1> DEFINE e == NewEntry(k)
           b == Bucket(k)
           h == hash_value(k)
           a == bucket_add(b, e)
<1>1. e \in Entry /\ e[1] = k
  BY DEF NewEntry, Entry
<1>2. Places(b, k) = {} /\ tree' = With(tree, h, a)
  BY DEF AddEntry, NewEntry
<1>3. /\ b = <<>> \/ BucketOK(b, h)
      /\ In(b) \subseteq Entries /\ \A d \in Entries : d[1] # k
  BY <1>2, BucketOf DEF TableInv
<1>4. e \notin todo
  <2>1. CASE <<k, 1>> \in todo
    <3>1. <<k, 1>>[1] = <<k, 2>>[1] /\ <<k, 1>> # <<k, 2>>
      OBVIOUS
    <3> QED
      BY <2>1, <3>1 DEF TableInv, OnePerKey, NewEntry
  <2>2. CASE <<k, 1>> \notin todo
    BY <2>2 DEF NewEntry
  <2> QED
    BY <2>1, <2>2
<1>5. \A d \in In(b) : Hashable(d[1]) /\ hash_value(d[1]) = h
  <2>1. CASE b = <<>>
    BY <2>1 DEF In
  <2>2. CASE BucketOK(b, h)
    BY <2>2, BucketHas
  <2> QED
    BY <1>3, <2>1, <2>2
<1>6. \A d \in Entries : hash_value(d[1]) = h => d \in In(b)
  <2>1. \A d \in Entries : hash_value(d[1]) \in DOMAIN tree /\ d \in In(tree[hash_value(d[1])])
    BY TreeHas DEF TableInv, Entries
  <2> QED
    BY <2>1 DEF Bucket
<1>7. e \notin Entries
  BY <1>1, <1>3
<1> HIDE DEF e, b, h
<1>8. BucketOK(a, h) /\ In(a) = In(b) \cup {e}
  <2>1. hash_value(e[1]) = h /\ Hashable(e[1])
    BY <1>1 DEF h
  <2> QED
    BY <1>1, <1>3, <2>1, BucketAdd
<1> HIDE DEF a
<1>9. /\ TreeOK(tree')
      /\ EntriesIn(tree') = {d \in EntriesIn(tree) : hash_value(d[1]) # h} \cup In(a)
  BY <1>2, <1>8, TreeWith DEF TableInv
<1>10. Entries' = Entries \cup {e}
  BY <1>3, <1>5, <1>6, <1>8, <1>9 DEF Entries
<1> QED
  BY <1>1, <1>3, <1>4, <1>7, <1>9, <1>10 DEF e

LEMMA Deleted ==
    ASSUME TableInv, NEW k, Places(Bucket(k), k) # {},
           LET b == bucket_remove(Bucket(k), k) IN
           tree' = IF b = <<>> THEN Without(tree, hash_value(k)) ELSE With(tree, hash_value(k), b)
    PROVE  TreeOK(tree') /\ Entries' = Entries \ {bucket_find(Bucket(k), k)}
<1> DEFINE b == Bucket(k)
           h == hash_value(k)
           r == bucket_remove(b, k)
           x == bucket_find(b, k)
<1>1. BucketOK(b, h) /\ In(b) \subseteq Entries
  <2>1. b # <<>>
    BY DEF Places
  <2> QED
    BY <2>1, BucketOf DEF TableInv
<1>2. In(r) = In(b) \ {x} /\ (r # <<>> => BucketOK(r, h)) /\ x \in In(b)
  BY <1>1, BucketRemove, BucketFind
<1>3. \A d \in In(b) : hash_value(d[1]) = h
  BY <1>1, BucketHas
<1>4. \A d \in Entries : hash_value(d[1]) = h => d \in In(b)
  <2>1. \A d \in Entries : hash_value(d[1]) \in DOMAIN tree /\ d \in In(tree[hash_value(d[1])])
    BY TreeHas DEF TableInv, Entries
  <2> QED
    BY <2>1 DEF Bucket
<1>5. tree' = IF r = <<>> THEN Without(tree, h) ELSE With(tree, h, r)
  OBVIOUS
<1>6. r = <<>> => In(r) = {}
  BY DEF In
<1> HIDE DEF b, h, r, x
<1>7. TreeOK(tree') /\ EntriesIn(tree') = {d \in EntriesIn(tree) : hash_value(d[1]) # h} \cup In(r)
  BY <1>2, <1>5, <1>6, TreeWith, TreeWithout DEF TableInv
<1>8. Entries' = Entries \ {x}
  BY <1>1, <1>2, <1>3, <1>4, <1>7 DEF Entries
<1> QED
  BY <1>7, <1>8 DEF x, b

-----------------------------------------------------------------------------
(* The dictionary the table is.                                            *)

Keys(T)     == {e[1] : e \in T}
ByKey(T, g) == [k \in Keys(T) |-> g[CHOOSE e \in T : e[1] = k]]

\* What an iteration knows of the entries it has still to visit.
Left(S, v, T) == [e \in T |-> IF e \in S THEN [live |-> TRUE] ELSE [was |-> v[e]]]

IsMap(m) == m = [x \in DOMAIN m |-> m[x]]

LEMMA SameMap ==
    ASSUME NEW f, NEW g, IsMap(f), IsMap(g), DOMAIN f = DOMAIN g, \A x \in DOMAIN f : f[x] = g[x]
    PROVE  f = g
<1>1. [x \in DOMAIN f |-> f[x]] = [x \in DOMAIN g |-> g[x]]
  OBVIOUS
<1> QED
  BY <1>1 DEF IsMap

LEMMA ByKeyIs ==
    ASSUME NEW T, OnePerKey(T), NEW g
    PROVE  /\ DOMAIN ByKey(T, g) = Keys(T) /\ IsMap(ByKey(T, g))
           /\ \A e \in T : e[1] \in Keys(T) /\ ByKey(T, g)[e[1]] = g[e]
           /\ \A m : IsMap(m) /\ DOMAIN m = Keys(T) /\ (\A e \in T : m[e[1]] = g[e])
                       => ByKey(T, g) = m
<1> DEFINE c == ByKey(T, g)
<1>1. \A e \in T : (CHOOSE d \in T : d[1] = e[1]) = e
  BY DEF OnePerKey
<1>2. DOMAIN c = Keys(T) /\ \A k \in Keys(T) : c[k] = g[CHOOSE e \in T : e[1] = k]
  BY DEF ByKey
<1>3. IsMap(c)
  BY DEF IsMap, ByKey
<1> HIDE DEF c
<1>4. \A e \in T : e[1] \in Keys(T)
  BY DEF Keys
<1>5. \A e \in T : c[e[1]] = g[e]
  BY <1>1, <1>2, <1>4
<1>6. ASSUME NEW m, IsMap(m), DOMAIN m = Keys(T), \A e \in T : m[e[1]] = g[e]
      PROVE  c = m
  <2>1. ASSUME NEW k \in Keys(T) PROVE c[k] = m[k]
    <3>1. PICK e \in T : k = e[1]
      BY <2>1 DEF Keys
    <3> QED
      BY <3>1, <1>5, <1>6
  <2> QED
    BY <1>2, <1>3, <1>6, <2>1, SameMap
<1> QED
  BY <1>2, <1>3, <1>4, <1>5, <1>6 DEF c

RemainingOf(S, T, v) ==
    [k \in {e[1] : e \in T} |->
        LET e == CHOOSE x \in T : x[1] = k
        IN IF e \in S THEN [live |-> TRUE] ELSE [was |-> v[e]]]

LEMMA Mapping ==
    /\ Contents = ByKey(Entries, value) /\ Remaining = ByKey(todo, Left(Entries, value, todo))
    /\ Contents' = ByKey(Entries', value') /\ Remaining' = ByKey(todo', Left(Entries', value', todo'))
<1>1. ASSUME NEW S, NEW T, NEW v PROVE RemainingOf(S, T, v) = ByKey(T, Left(S, v, T))
  <2>1. ASSUME NEW k \in Keys(T) PROVE (CHOOSE x \in T : x[1] = k) \in T
    BY DEF Keys
  <2> QED
    BY <2>1 DEF ByKey, Left, Keys, RemainingOf
<1>2. Contents = ByKey(Entries, value) /\ Contents' = ByKey(Entries', value')
  BY DEF Contents, ByKey, Keys
<1>3. /\ Remaining = RemainingOf(Entries, todo, value)
      /\ Remaining' = RemainingOf(Entries', todo', value')
  BY DEF Remaining, RemainingOf
<1> QED
  BY <1>1, <1>2, <1>3

LEMMA MapsAre ==
    /\ \A m, k, v : /\ IsMap(D!With(m, k, v)) /\ DOMAIN D!With(m, k, v) = DOMAIN m \cup {k}
                    /\ \A x \in DOMAIN m \cup {k} : D!With(m, k, v)[x] = IF x = k THEN v ELSE m[x]
    /\ \A m, k : /\ IsMap(D!Without(m, k)) /\ DOMAIN D!Without(m, k) = DOMAIN m \ {k}
                 /\ \A x \in DOMAIN m \ {k} : D!Without(m, k)[x] = m[x]
    /\ IsMap(D!Nothing) /\ DOMAIN D!Nothing = {}
BY DEF IsMap, D!With, D!Without, D!Nothing

LEMMA KeysAre ==
    /\ \A S, k : (\E e \in S : e[1] = k) <=> k \in Keys(S)
    /\ \A S, T : Keys(S \cup T) = Keys(S) \cup Keys(T)
    /\ \A e : Keys({e}) = {e[1]}
    /\ \A S, e : OnePerKey(S) /\ e \in S => Keys(S \ {e}) = Keys(S) \ {e[1]}
    /\ Keys({}) = {}
BY DEF Keys, OnePerKey

\* What TableInv and the mapping say of the state before a step.
LEMMA Before ==
    ASSUME TableInv
    PROVE  /\ OnePerKey(Entries) /\ Entries \subseteq Entry /\ OnePerKey(todo) /\ todo \subseteq Entry
           /\ DOMAIN Contents = Keys(Entries) /\ IsMap(Contents)
           /\ \A e \in Entries : Contents[e[1]] = value[e]
           /\ DOMAIN Remaining = Keys(todo) /\ IsMap(Remaining)
           /\ \A e \in todo : Remaining[e[1]] = Left(Entries, value, todo)[e]
<1>1. OnePerKey(Entries) /\ Entries \subseteq Entry /\ OnePerKey(todo) /\ todo \subseteq Entry
  BY TreeHas DEF TableInv, Entries
<1> QED
  BY <1>1, Mapping, ByKeyIs

\* How a step is shown to be the dictionary's.
LEMMA After ==
    /\ \A m : OnePerKey(Entries') /\ IsMap(m) /\ DOMAIN m = Keys(Entries')
                  /\ (\A e \in Entries' : m[e[1]] = value'[e]) => Contents' = m
    /\ \A m : OnePerKey(todo') /\ IsMap(m) /\ DOMAIN m = Keys(todo')
                  /\ (\A e \in todo' : m[e[1]] = Left(Entries', value', todo')[e]) => Remaining' = m
<1>1. \A T, g, m : OnePerKey(T) /\ IsMap(m) /\ DOMAIN m = Keys(T)
                       /\ (\A e \in T : m[e[1]] = g[e]) => ByKey(T, g) = m
  BY ByKeyIs
<1> QED
  BY <1>1, Mapping

LEMMA SetStep ==
    ASSUME TableInv, NEW k \in Key, NEW v \in Value, SetEntry(k, v), UNCHANGED todo,
           answer' = Said(<<"set", k>>, v)
    PROVE  TableInv' /\ D!Put(k, v)
<1> DEFINE x == bucket_find(Bucket(k), k)
<1>1. x \in Entries /\ x[1] = k /\ \A e \in Entries : e[1] = k => e = x
  BY Found DEF SetEntry
<1>2. UNCHANGED <<tree, size>> /\ value' = [value EXCEPT ![x] = v]
  BY DEF SetEntry
<1>3. Entries' = Entries
  BY <1>2 DEF Entries
<1> HIDE DEF x
<1>4. /\ DOMAIN value' = DOMAIN value /\ value'[x] = v
      /\ \A e \in DOMAIN value : e # x => value'[e] = value[e]
  BY <1>1, <1>2 DEF TableInv
<1>5. TableInv'
  BY <1>2, <1>3, <1>4 DEF TableInv
<1>6. Contents' = D!With(Contents, k, v)
  <2> DEFINE m == D!With(Contents, k, v)
  <2>1. IsMap(m) /\ DOMAIN m = Keys(Entries)
    <3>1. Keys(Entries) \cup {k} = Keys(Entries)
      <4>1. k \in Keys(Entries)
        BY <1>1, KeysAre
      <4> QED
        BY <4>1
    <3>2. IsMap(m) /\ DOMAIN m = DOMAIN Contents \cup {k}
      BY MapsAre
    <3> HIDE DEF m
    <3> QED
      BY <3>1, <3>2, Before
  <2>2. ASSUME NEW e \in Entries PROVE m[e[1]] = value'[e]
    BY <1>1, <1>4, MapsAre, Before, KeysAre DEF TableInv
  <2> HIDE DEF m
  <2>3. Contents' = m
    BY <1>3, <2>1, <2>2, After, Before
  <2> QED
    BY <2>3 DEF m
<1>7. Remaining' = Remaining
  <2>1. Left(Entries, value', todo) = Left(Entries, value, todo)
    BY <1>1, <1>4 DEF TableInv, Left
  <2> QED
    BY <1>3, <2>1, Mapping
<1> QED
  BY <1>5, <1>6, <1>7 DEF D!Put, D!Said, Said

LEMMA AddStep ==
    ASSUME TableInv, NEW k \in Key, NEW v \in Value, Hashable(k), AddEntry(k, v), UNCHANGED todo,
           answer' = Said(<<"set", k>>, v)
    PROVE  TableInv' /\ D!Put(k, v)
<1> DEFINE n == NewEntry(k)
<1>1. /\ TreeOK(tree') /\ Entries' = Entries \cup {n}
      /\ n \in Entry /\ n[1] = k /\ n \notin Entries \cup todo /\ \A e \in Entries : e[1] # k
  BY Added
<1>2. value' = With(value, n, v) /\ size' = size + 1
  BY DEF AddEntry, NewEntry
<1> HIDE DEF n
<1>3. /\ DOMAIN value' = DOMAIN value \cup {n} /\ value'[n] = v
      /\ \A e \in DOMAIN value : value'[e] = value[e]
  BY <1>1, <1>2 DEF TableInv, With
<1>4. OnePerKey(Entries')
  BY <1>1, TreeHas DEF Entries
<1>5. TableInv'
  <2>1. IsFiniteSet(Entries') /\ Cardinality(Entries') = Cardinality(Entries) + 1
    BY <1>1, FS_AddElement DEF TableInv
  <2> QED
    BY <1>1, <1>2, <1>3, <2>1 DEF TableInv
<1>6. Contents' = D!With(Contents, k, v)
  <2> DEFINE m == D!With(Contents, k, v)
  <2>1. IsMap(m) /\ DOMAIN m = DOMAIN Contents \cup {k}
    BY MapsAre
  <2>2. \A x \in DOMAIN Contents \cup {k} : m[x] = IF x = k THEN v ELSE Contents[x]
    BY MapsAre
  <2> HIDE DEF m
  <2>3. DOMAIN m = Keys(Entries')
    BY <1>1, <2>1, Before, KeysAre
  <2>4. ASSUME NEW e \in Entries' PROVE m[e[1]] = value'[e]
    <3>1. CASE e = n
      BY <3>1, <1>1, <1>3, <2>2
    <3>2. CASE e \in Entries
      <4>1. e[1] \in DOMAIN Contents /\ e[1] # k /\ Contents[e[1]] = value[e]
        BY <3>2, <1>1, Before, KeysAre
      <4> QED
        BY <3>2, <4>1, <1>3, <2>2 DEF TableInv
    <3> QED
      BY <3>1, <3>2, <1>1
  <2>5. Contents' = m
    BY <1>4, <2>1, <2>3, <2>4, After
  <2> QED
    BY <2>5 DEF m
<1>7. Remaining' = Remaining
  <2>1. Left(Entries', value', todo) = Left(Entries, value, todo)
    <3>1. \A e \in todo : (e \in Entries' <=> e \in Entries) /\ value'[e] = value[e]
      BY <1>1, <1>3 DEF TableInv
    <3> QED
      BY <3>1 DEF Left
  <2> QED
    BY <2>1, Mapping
<1> QED
  BY <1>5, <1>6, <1>7 DEF D!Put, D!Said, Said

\* An entry the table has is not taken for one it had.
LEMMA ThereOrGone == \A w : [live |-> TRUE] # [was |-> w]
OBVIOUS

\* What an iteration knows once entries are taken out of the table.
LEMMA RemainingGoes ==
    ASSUME TableInv, UNCHANGED todo, Entries' \subseteq Entries, \A e \in todo : value'[e] = value[e],
           NEW G, \A e \in Entries : e[1] \in G <=> e \notin Entries'
    PROVE  Remaining' = [y \in DOMAIN Remaining |->
                            IF y \in G /\ D!IsThere(y) THEN D!Gone(Contents[y]) ELSE Remaining[y]]
<1> DEFINE m == [y \in DOMAIN Remaining |->
                     IF y \in G /\ D!IsThere(y) THEN D!Gone(Contents[y]) ELSE Remaining[y]]
<1>1. IsMap(m) /\ DOMAIN m = Keys(todo)
  BY Before DEF IsMap
<1>2. ASSUME NEW e \in todo PROVE m[e[1]] = Left(Entries', value', todo)[e]
  <2>1. /\ e[1] \in DOMAIN Remaining /\ Remaining[e[1]] = Left(Entries, value, todo)[e]
        /\ e \in Entries => Contents[e[1]] = value[e]
    BY Before, KeysAre
  <2>2. /\ Left(Entries, value, todo)[e] = IF e \in Entries THEN [live |-> TRUE] ELSE [was |-> value[e]]
        /\ Left(Entries', value', todo)[e] = IF e \in Entries' THEN [live |-> TRUE] ELSE [was |-> value[e]]
    BY DEF Left
  <2>3. D!IsThere(e[1]) <=> e \in Entries
    BY <2>1, <2>2, ThereOrGone DEF D!IsThere, D!There
  <2>4. m[e[1]] = IF e[1] \in G /\ e \in Entries THEN [was |-> value[e]] ELSE Remaining[e[1]]
    BY <2>1, <2>3 DEF D!Gone
  <2> HIDE DEF m
  <2> QED
    BY <2>1, <2>2, <2>4
<1> HIDE DEF m
<1>3. Remaining' = m
  BY <1>1, <1>2, After, Before
<1> QED
  BY <1>3 DEF m

LEMMA DeleteStep ==
    ASSUME TableInv, NEW k \in Key, Places(Bucket(k), k) # {}, delete(k)
    PROVE  TableInv' /\ D!Drop(k)
<1> DEFINE x == bucket_find(Bucket(k), k)
<1>1. x \in Entries /\ x[1] = k /\ \A e \in Entries : e[1] = k => e = x
  BY Found
<1>2. TreeOK(tree') /\ Entries' = Entries \ {x}
  BY Deleted DEF delete
<1>3. /\ value' = Held(value, Entries' \cup todo) /\ size' = size - 1 /\ UNCHANGED todo
      /\ answer' = Said(<<"delete", k>>, "true")
  BY DEF delete, Entries
<1> HIDE DEF x
<1>4. DOMAIN value' = Entries' \cup todo /\ \A e \in Entries' \cup todo : value'[e] = value[e]
  BY <1>3 DEF Held
<1>5. TableInv'
  <2>1. IsFiniteSet(Entries') /\ Cardinality(Entries') = Cardinality(Entries) - 1
    BY <1>1, <1>2, FS_RemoveElement DEF TableInv
  <2> QED
    BY <1>2, <1>3, <1>4, <2>1 DEF TableInv
<1>6. Contents' = D!Without(Contents, k)
  <2> DEFINE m == D!Without(Contents, k)
  <2>1. IsMap(m) /\ DOMAIN m = DOMAIN Contents \ {k}
    BY MapsAre
  <2>2. \A y \in DOMAIN Contents \ {k} : m[y] = Contents[y]
    BY MapsAre
  <2> HIDE DEF m
  <2>3. DOMAIN m = Keys(Entries')
    BY <1>1, <1>2, <2>1, Before, KeysAre
  <2>4. ASSUME NEW e \in Entries' PROVE m[e[1]] = value'[e]
    <3>1. e \in Entries /\ e[1] # k
      BY <1>1, <1>2
    <3>2. e[1] \in DOMAIN Contents \ {k} /\ Contents[e[1]] = value[e]
      BY <3>1, Before, KeysAre
    <3> QED
      BY <3>2, <1>4, <2>2
  <2>5. OnePerKey(Entries')
    BY <1>2, TreeHas DEF Entries
  <2>6. Contents' = m
    BY <2>1, <2>3, <2>4, <2>5, After
  <2> QED
    BY <2>6 DEF m
<1>7. Remaining' = [y \in DOMAIN Remaining |->
                       IF y \in {k} /\ D!IsThere(y) THEN D!Gone(Contents[y]) ELSE Remaining[y]]
  <2>1. \A e \in Entries : e[1] \in {k} <=> e \notin Entries'
    BY <1>1, <1>2
  <2>2. Entries' \subseteq Entries /\ \A e \in todo : value'[e] = value[e]
    BY <1>2, <1>4
  <2> QED
    BY <1>3, <2>1, <2>2, RemainingGoes
<1>8. Remaining' = [y \in DOMAIN Remaining |->
                       IF y = k /\ D!IsThere(y) THEN D!Gone(Contents[y]) ELSE Remaining[y]]
  BY <1>7
<1>9. k \in DOMAIN Contents
  BY <1>1, Before, KeysAre
<1> QED
  BY <1>3, <1>5, <1>6, <1>8, <1>9 DEF D!Drop, D!Said, Said

\* A key that is not there.
LEMMA NotFound ==
    ASSUME TableInv, NEW k
    PROVE  Places(Bucket(k), k) = {} <=> k \notin DOMAIN Contents
<1>1. Places(Bucket(k), k) = {} <=> ~ \E e \in Entries : e[1] = k
  BY BucketOf DEF TableInv
<1>2. (\E e \in Entries : e[1] = k) <=> k \in Keys(Entries)
  BY KeysAre
<1>3. DOMAIN Contents = Keys(Entries)
  BY Before
<1> QED
  BY <1>1, <1>2, <1>3

LEMMA Stays ==
    ASSUME TableInv, UNCHANGED <<tree, size, value, todo>>
    PROVE  TableInv' /\ Contents' = Contents /\ Remaining' = Remaining
<1>1. Entries' = Entries
  BY DEF Entries
<1> QED
  BY <1>1, Mapping DEF TableInv

LEMMA MissStep ==
    ASSUME TableInv, NEW k \in Key, Places(Bucket(k), k) = {}, delete(k)
    PROVE  TableInv' /\ D!Drop(k)
<1>1. UNCHANGED <<tree, size, value, todo>> /\ answer' = Said(<<"delete", k>>, "false")
  BY DEF delete
<1> QED
  BY <1>1, Stays, NotFound DEF D!Drop, D!Said, Said

LEMMA ReadStep ==
    ASSUME TableInv, NEW k \in Key
    PROVE  /\ get(k) => TableInv' /\ D!Get(k)
           /\ has_key(k) => TableInv' /\ D!Has(k)
           /\ refuse(k) => TableInv' /\ D!Refuse(k)
<1>1. ASSUME get(k) PROVE TableInv' /\ D!Get(k)
  <2>1. TableInv' /\ Contents' = Contents /\ Remaining' = Remaining
    BY <1>1, Stays DEF get
  <2>2. Current(k) = IF k \in DOMAIN Contents THEN Contents[k] ELSE "false"
    <3>1. CASE Places(Bucket(k), k) = {}
      BY <3>1, NotFound DEF Current
    <3>2. CASE Places(Bucket(k), k) # {}
      <4> DEFINE x == bucket_find(Bucket(k), k)
      <4>1. x \in Entries /\ x[1] = k /\ Current(k) = value[x]
        BY <3>2, Found DEF Current
      <4> HIDE DEF x
      <4> QED
        BY <3>2, <4>1, Before, NotFound
    <3> QED
      BY <3>1, <3>2
  <2> QED
    BY <1>1, <2>1, <2>2 DEF get, D!Get, D!Said, Said
<1>2. ASSUME has_key(k) PROVE TableInv' /\ D!Has(k)
  BY <1>2, Stays, NotFound DEF has_key, D!Has, D!Said, Said
<1>3. ASSUME refuse(k) PROVE TableInv' /\ D!Refuse(k)
  BY <1>3, Stays DEF refuse, D!Refuse, D!Said, Said
<1> QED
  BY <1>1, <1>2, <1>3

LEMMA ClearStep ==
    ASSUME TableInv, clear
    PROVE  TableInv' /\ D!Clear
<1>1. /\ tree' = Nothing /\ size' = 0 /\ value' = Held(value, todo) /\ UNCHANGED todo
      /\ answer' = Said(<<"clear">>, "table")
  BY DEF clear
<1>2. TreeOK(tree') /\ Entries' = {}
  BY <1>1 DEF Nothing, TreeOK, Entries, EntriesIn
<1>3. DOMAIN value' = todo /\ \A e \in todo : value'[e] = value[e]
  BY <1>1 DEF Held
<1>4. TableInv'
  BY <1>1, <1>2, <1>3, FS_EmptySet DEF TableInv
<1>5. Contents' = D!Nothing
  BY <1>2, MapsAre, KeysAre, After DEF OnePerKey
<1>6. Remaining' = [y \in DOMAIN Remaining |->
                       IF D!IsThere(y) THEN D!Gone(Contents[y]) ELSE Remaining[y]]
  <2> DEFINE G == DOMAIN Remaining \cup Keys(Entries)
  <2>1. \A e \in Entries : e[1] \in G <=> e \notin Entries'
    BY <1>2, KeysAre
  <2>2. \A y \in DOMAIN Remaining : y \in G
    OBVIOUS
  <2> HIDE DEF G
  <2>3. Remaining' = [y \in DOMAIN Remaining |->
                         IF y \in G /\ D!IsThere(y) THEN D!Gone(Contents[y]) ELSE Remaining[y]]
    BY <1>1, <1>2, <1>3, <2>1, RemainingGoes
  <2> QED
    BY <2>2, <2>3
<1> QED
  BY <1>1, <1>4, <1>5, <1>6 DEF D!Clear, D!Said, Said

LEMMA CountStep ==
    ASSUME TableInv, count
    PROVE  TableInv' /\ D!Size
<1>1. TableInv' /\ Contents' = Contents /\ Remaining' = Remaining /\ answer' = [of |-> <<"size">>, size |-> size]
  BY Stays DEF count
<1>2. Cardinality(DOMAIN Contents) = Cardinality(Entries)
  <2> DEFINE f == [e \in Entries |-> e[1]]
  <2>1. f \in Bijection(Entries, Keys(Entries))
    BY Before DEF OnePerKey, Keys, Bijection, Injection, Surjection, IsInjective
  <2> HIDE DEF f
  <2>2. ExistsBijection(Entries, Keys(Entries))
    BY <2>1 DEF ExistsBijection
  <2> QED
    BY <2>2, FS_Bijection, Before DEF TableInv
<1> QED
  <2>1. D!Cardinality(DOMAIN Contents) = Cardinality(DOMAIN Contents)
    BY DEF D!Cardinality, Cardinality
  <2> QED
    BY <1>1, <1>2, <2>1 DEF D!Size, TableInv

LEMMA BeginStep ==
    ASSUME TableInv, for_each
    PROVE  TableInv' /\ D!Begin
<1>1. todo' = Entries /\ value' = Held(value, Entries) /\ UNCHANGED <<tree, size, answer>>
  BY DEF for_each
<1>2. Entries' = Entries
  BY <1>1 DEF Entries
<1>3. DOMAIN value' = Entries /\ \A e \in Entries : value'[e] = value[e]
  BY <1>1 DEF Held
<1>4. TableInv'
  BY <1>1, <1>2, <1>3, Before DEF TableInv
<1>5. Contents' = Contents
  <2>1. \A e \in Entries : Contents[e[1]] = value'[e]
    BY <1>3, Before
  <2> QED
    BY <1>2, <2>1, Before, After
<1>6. Remaining' = [k \in DOMAIN Contents |-> D!There]
  <2> DEFINE m == [k \in DOMAIN Contents |-> D!There]
  <2>1. IsMap(m) /\ DOMAIN m = Keys(todo')
    BY <1>1, Before DEF IsMap
  <2>2. ASSUME NEW e \in todo' PROVE m[e[1]] = Left(Entries', value', todo')[e]
    <3>1. e[1] \in DOMAIN Contents
      BY <1>1, Before, KeysAre
    <3>2. Left(Entries', value', todo')[e] = [live |-> TRUE]
      BY <1>1, <1>2 DEF Left
    <3> QED
      BY <3>1, <3>2 DEF D!There
  <2> HIDE DEF m
  <2>3. Remaining' = m
    BY <1>1, <2>1, <2>2, Before, After
  <2> QED
    BY <2>3 DEF m
<1> QED
  BY <1>1, <1>4, <1>5, <1>6 DEF D!Begin

LEMMA VisitStep ==
    ASSUME TableInv, NEW e \in Entry, visit(e)
    PROVE  TableInv' /\ e[1] \in Key /\ D!Visit(e[1])
<1>1. /\ e \in todo /\ todo' = todo \ {e} /\ value' = Held(value, Entries \cup todo')
      /\ answer' = Said(<<"visit", e[1]>>, value[e]) /\ UNCHANGED <<tree, size>>
  BY DEF visit
<1>2. Entries' = Entries
  BY <1>1 DEF Entries
<1>3. DOMAIN value' = Entries \cup todo' /\ \A d \in Entries \cup todo' : value'[d] = value[d]
  BY <1>1 DEF Held
<1>4. OnePerKey(todo') /\ todo' \subseteq todo
  BY <1>1, Before DEF OnePerKey
<1>5. TableInv'
  BY <1>1, <1>2, <1>3, <1>4 DEF TableInv
<1>6. Contents' = Contents
  <2>1. \A d \in Entries : Contents[d[1]] = value'[d]
    BY <1>3, Before
  <2> QED
    BY <1>2, <2>1, Before, After
<1>7. Remaining' = D!Without(Remaining, e[1])
  <2> DEFINE m == D!Without(Remaining, e[1])
  <2>1. IsMap(m) /\ DOMAIN m = DOMAIN Remaining \ {e[1]}
    BY MapsAre
  <2>2. \A y \in DOMAIN Remaining \ {e[1]} : m[y] = Remaining[y]
    BY MapsAre
  <2> HIDE DEF m
  <2>3. DOMAIN m = Keys(todo')
    BY <1>1, <2>1, Before, KeysAre
  <2>4. ASSUME NEW d \in todo' PROVE m[d[1]] = Left(Entries', value', todo')[d]
    <3>1. d \in todo /\ d[1] # e[1]
      BY <1>1, Before DEF OnePerKey
    <3>2. d[1] \in DOMAIN Remaining \ {e[1]} /\ Remaining[d[1]] = Left(Entries, value, todo)[d]
      BY <3>1, Before, KeysAre
    <3>3. Left(Entries, value, todo)[d] = Left(Entries', value', todo')[d]
      BY <3>1, <1>2, <1>3 DEF Left
    <3> QED
      BY <3>2, <3>3, <2>2
  <2>5. Remaining' = m
    BY <1>4, <2>1, <2>3, <2>4, After
  <2> QED
    BY <2>5 DEF m
<1>8. /\ e[1] \in DOMAIN Remaining
      /\ value[e] = IF Remaining[e[1]] = D!There THEN Contents[e[1]] ELSE Remaining[e[1]].was
  <2>1. /\ e[1] \in DOMAIN Remaining /\ Remaining[e[1]] = Left(Entries, value, todo)[e]
        /\ e \in Entries => Contents[e[1]] = value[e]
    BY <1>1, Before, KeysAre
  <2>2. Left(Entries, value, todo)[e] = IF e \in Entries THEN [live |-> TRUE] ELSE [was |-> value[e]]
    BY <1>1 DEF Left
  <2> QED
    BY <2>1, <2>2, ThereOrGone DEF D!There
<1>9. e[1] \in Key
  BY DEF Entry
<1> QED
  BY <1>1, <1>5, <1>6, <1>7, <1>8, <1>9 DEF D!Visit, D!Said, Said

-----------------------------------------------------------------------------
(* The theorems.                                                           *)

LEMMA TableStarts == TableInit => TableInv /\ D!Init
<1> SUFFICES ASSUME TableInit PROVE TableInv /\ D!Init
  OBVIOUS
<1>1. tree = Nothing /\ size = 0 /\ value = Nothing /\ todo = {} /\ answer = Said(<<"new">>, "table")
  BY DEF TableInit
<1>2. Entries = {} /\ TreeOK(tree) /\ DOMAIN value = {}
  BY <1>1 DEF Nothing, TreeOK, Entries, EntriesIn
<1>3. TableInv
  BY <1>1, <1>2, FS_EmptySet DEF TableInv, OnePerKey
<1>4. Contents = D!Nothing /\ Remaining = D!Nothing
  <2>1. \A f, g : IsMap(f) /\ IsMap(g) /\ DOMAIN f = {} /\ DOMAIN g = {} => f = g
    BY SameMap
  <2> QED
    BY <1>1, <1>2, <1>3, <2>1, Before, MapsAre, KeysAre
<1> QED
  BY <1>1, <1>3, <1>4 DEF D!Init, D!Said, Said

LEMMA NextStep ==
    ASSUME TableInv, TableNext
    PROVE  TableInv' /\ D!Next
<1>1. CASE \E k \in Key, v \in Value : set(k, v)
  BY <1>1, SetStep, AddStep DEF set, D!Next
<1>2. CASE \E k \in Key : get(k) \/ has_key(k) \/ delete(k) \/ refuse(k)
  BY <1>2, ReadStep, DeleteStep, MissStep DEF D!Next
<1>3. CASE \E e \in Entry : visit(e)
  BY <1>3, VisitStep DEF D!Next
<1>4. CASE clear \/ count \/ for_each
  BY <1>4, ClearStep, CountStep, BeginStep DEF D!Next
<1> QED
  BY <1>1, <1>2, <1>3, <1>4 DEF TableNext

LEMMA TableKept == TableSpec => []TableInv
<1>1. TableInv /\ [TableNext]_tableVars => TableInv'
  <2>1. TableInv /\ UNCHANGED tableVars => TableInv'
    BY Stays DEF tableVars
  <2> QED
    BY <2>1, NextStep
<1> QED
  BY <1>1, TableStarts, PTL DEF TableSpec

\* However keys collide and buckets come and go: no empty bucket is left in
\* the tree, an entry is found under the hash of its key, and a key has one.
THEOREM EveryKeyIsFiledOnce == TableSpec => []WellFiled
<1>1. TableInv => WellFiled
  BY DEF TableInv, TreeOK, BucketOK, OnePerKey, WellFiled
<1> QED
  BY <1>1, TableKept, PTL

\* The counter hash-table-size answers with is the number of entries.
THEOREM SizeIsExact == TableSpec => []SizeExact
<1>1. TableInv => SizeExact
  BY DEF TableInv, SizeExact
<1> QED
  BY <1>1, TableKept, PTL

\* The table of buckets does what Dictionary does, operation by operation,
\* and an iteration whose callback sets, deletes and clears sees what
\* Dictionary says it sees.
THEOREM TableIsDictionary == TableSpec => ImplementsDictionary
<1>1. TableInv /\ [TableNext]_tableVars => [D!Next]_<<Contents, Remaining, answer>>
  <2>1. TableInv /\ UNCHANGED tableVars => UNCHANGED <<Contents, Remaining, answer>>
    BY Stays DEF tableVars
  <2> QED
    BY <2>1, NextStep
<1> QED
  BY <1>1, TableStarts, TableKept, PTL DEF TableSpec, ImplementsDictionary, D!Spec
=============================================================================
