------------------------------ MODULE Recursion ------------------------------
(***************************************************************************)
(* Recursive functions: when one exists, and how to show what it computes. *)
(* f[x \in D] == e is any f with f = [x \in D |-> e], if there is one; it  *)
(* computes what is wanted if that holds at the least argument where it    *)
(* might not.                                                              *)
(***************************************************************************)
EXTENDS Naturals, WellFoundedInduction, TLAPS

LEMMA LeastNumber ==
    ASSUME NEW T, T \subseteq Nat, T # {}
    PROVE  \E n \in T : \A m \in T : n <= m
<1>1. PICK n \in T : \A m \in T : ~(<<m, n>> \in OpToRel(<, Nat))
  BY WFMin, NatLessThanWellFounded, Zenon
<1>2. \A m \in T : ~(m < n)
  BY <1>1, Zenon DEF OpToRel
<1> QED
  BY <1>2

\* The first steps of an iteration.
Steps(S, s, h, n) ==
    {t \in [0..n -> S] : t[0] = s /\ \A k \in 0..n - 1 : t[k + 1] = h[t[k]]}

LEMMA StepsExist ==
    ASSUME NEW S, NEW s \in S, NEW h \in [S -> S], NEW n \in Nat
    PROVE  Steps(S, s, h, n) # {}
<1> DEFINE T == {m \in Nat : Steps(S, s, h, m) = {}}
<1> SUFFICES ASSUME T # {} PROVE FALSE
  OBVIOUS
<1>1. PICK m \in T : \A k \in T : m <= k
  BY LeastNumber
<1>2. CASE m = 0
  <2>1. [k \in 0..m |-> s] \in Steps(S, s, h, m)
    BY <1>2 DEF Steps
  <2> QED
    BY <2>1
<1>3. CASE m # 0
  <2>1. m - 1 \in Nat /\ m - 1 \notin T
    BY <1>1, <1>3
  <2>2. PICK t : t \in Steps(S, s, h, m - 1)
    BY <2>1
  <2> DEFINE u == [k \in 0..m |-> IF k = m THEN h[t[m - 1]] ELSE t[k]]
  <2>3. t \in [0..m - 1 -> S] /\ t[0] = s /\ \A k \in 0..(m - 1) - 1 : t[k + 1] = h[t[k]]
    BY <2>2 DEF Steps
  <2>4. t[m - 1] \in S
    BY <2>1, <2>3
  <2>5. u \in [0..m -> S]
    BY <2>1, <2>3, <2>4
  <2>6. u[0] = s
    BY <1>3, <2>3
  <2>7. ASSUME NEW k \in 0..m - 1 PROVE u[k + 1] = h[u[k]]
    <3>1. k \in 0..m /\ k + 1 \in 0..m /\ k # m
      BY <2>1
    <3>2. CASE k = m - 1
      BY <3>1, <3>2
    <3>3. CASE k # m - 1
      <4>1. k \in 0..(m - 1) - 1 /\ k + 1 # m
        BY <2>1, <3>3
      <4> QED
        BY <2>3, <3>1, <4>1
    <3> QED
      BY <3>2, <3>3
  <2>8. u \in Steps(S, s, h, m)
    BY <2>5, <2>6, <2>7 DEF Steps
  <2> QED
    BY <2>8
<1> QED
  BY <1>2, <1>3

LEMMA StepsAgree ==
    ASSUME NEW S, NEW s \in S, NEW h \in [S -> S],
           NEW n \in Nat, NEW m \in Nat, NEW k \in Nat, k <= n, k <= m,
           NEW t \in Steps(S, s, h, n), NEW u \in Steps(S, s, h, m)
    PROVE  t[k] = u[k]
<1> DEFINE T == {j \in Nat : j <= n /\ j <= m /\ t[j] # u[j]}
<1> SUFFICES ASSUME T # {} PROVE FALSE
  OBVIOUS
<1>1. PICK j \in T : \A i1 \in T : j <= i1
  BY LeastNumber
<1>2. j # 0
  BY DEF Steps
<1>3. j - 1 \in Nat /\ j - 1 \notin T /\ j - 1 \in 0..n - 1 /\ j - 1 \in 0..m - 1 /\ (j - 1) + 1 = j
  BY <1>1, <1>2
<1>4. t[j - 1] = u[j - 1]
  BY <1>3
<1>5. t[j] = h[t[j - 1]] /\ u[j] = h[u[j - 1]]
  BY <1>3 DEF Steps
<1> QED
  BY <1>4, <1>5

LEMMA Iteration ==
    ASSUME NEW S, NEW s \in S, NEW h \in [S -> S]
    PROVE  \E g \in [Nat -> S] : g[0] = s /\ \A n \in Nat : g[n + 1] = h[g[n]]
<1> DEFINE t(n) == CHOOSE u : u \in Steps(S, s, h, n)
           g    == [n \in Nat |-> t(n)[n]]
<1>1. ASSUME NEW n \in Nat PROVE t(n) \in Steps(S, s, h, n)
  BY StepsExist, Zenon
<1>2. ASSUME NEW n \in Nat
      PROVE  /\ t(n) \in [0..n -> S] /\ t(n)[0] = s
             /\ \A k \in 0..n - 1 : t(n)[k + 1] = h[t(n)[k]]
  BY <1>1 DEF Steps
<1>3. g \in [Nat -> S]
  BY <1>2
<1>4. ASSUME NEW n \in Nat PROVE g[n + 1] = h[g[n]]
  <2>1. t(n + 1)[n + 1] = h[t(n + 1)[n]]
    BY <1>2
  <2>2. t(n + 1)[n] = t(n)[n]
    <3>1. n + 1 \in Nat /\ n <= n + 1 /\ n <= n
      OBVIOUS
    <3>2. t(n + 1) \in Steps(S, s, h, n + 1) /\ t(n) \in Steps(S, s, h, n)
      BY <1>1, <3>1
    <3> HIDE DEF t
    <3> QED
      BY <3>1, <3>2, StepsAgree
  <2> HIDE DEF t
  <2> QED
    BY <2>1, <2>2
<1>5. g[0] = s
  BY <1>2
<1> HIDE DEF g
<1> QED
  BY <1>3, <1>4, <1>5

Funs(D, S) == [D -> S]

\* A recursion whose calls go down a rank has a function: begun with any,
\* enough rounds of its body are right up to any rank.
LEMMA RecursionExists ==
    ASSUME NEW D, NEW S, NEW s, s \in S, NEW rank, rank \in Funs(D, Nat),
           NEW H, H \in Funs(Funs(D, S), Funs(D, S)),
           \A f, g \in Funs(D, S), d \in D :
              (\A e \in D : rank[e] < rank[d] => f[e] = g[e]) => H[f][d] = H[g][d]
    PROVE  \E f \in Funs(D, S) : f = H[f]
<1> USE DEF Funs
<1> DEFINE Z == [D -> S]
<1>1. [d \in D |-> s] \in Z
  OBVIOUS
<1>0. H \in [Z -> Z]
  OBVIOUS
<1> HIDE DEF Z
<1>a. PICK z : z \in Z
  BY <1>1
<1>b. \E F \in [Nat -> Z] : F[0] = z /\ \A n \in Nat : F[n + 1] = H[F[n]]
  BY ONLY <1>0, <1>a, Iteration
<1>2. PICK F \in [Nat -> [D -> S]] : \A n \in Nat : F[n + 1] = H[F[n]]
  BY <1>b DEF Z
<1>3. ASSUME NEW n \in Nat PROVE F[n] \in [D -> S] /\ F[n + 1] \in [D -> S] /\ F[n + 1] = H[F[n]]
  BY <1>2
<1>4. ASSUME NEW n \in Nat, NEW d \in D, rank[d] < n
      PROVE  F[n + 1][d] = F[n][d]
  <2> DEFINE T == {m \in Nat : \E e \in D : rank[e] < m /\ F[m + 1][e] # F[m][e]}
  <2> SUFFICES ASSUME T # {} PROVE FALSE
    BY <1>4
  <2>1. PICK m \in T : \A k \in T : m <= k
    BY LeastNumber
  <2>2. PICK e \in D : rank[e] < m /\ F[m + 1][e] # F[m][e]
    OBVIOUS
  <2>3. rank[e] \in Nat /\ m \in Nat
    OBVIOUS
  <2> DEFINE k == m - 1
  <2>4. k \in Nat /\ k \notin T /\ k + 1 = m /\ rank[e] <= k
    BY <2>1, <2>2, <2>3
  <2> HIDE DEF k
  <2>5. ASSUME NEW c \in D, rank[c] < rank[e] PROVE F[m][c] = F[k][c]
    <3>1. rank[c] \in Nat /\ rank[c] < k
      BY <2>3, <2>4, <2>5
    <3> QED
      BY <2>4, <3>1
  <2>6. F[m] \in [D -> S] /\ F[k] \in [D -> S] /\ F[m] = H[F[k]] /\ F[m + 1] = H[F[m]]
    BY <1>3, <2>3, <2>4
  <2>7. H[F[m]][e] = H[F[k]][e]
    BY <2>5, <2>6
  <2> QED
    BY <2>2, <2>6, <2>7
<1> DEFINE f == [d \in D |-> F[rank[d] + 1][d]]
<1>5. ASSUME NEW n \in Nat, NEW d \in D, rank[d] < n PROVE F[n][d] = f[d]
  <2> DEFINE T == {m \in Nat : rank[d] < m /\ F[m][d] # f[d]}
  <2> SUFFICES ASSUME T # {} PROVE FALSE
    BY <1>5
  <2>1. PICK m \in T : \A k \in T : m <= k
    BY LeastNumber
  <2>2. rank[d] \in Nat /\ m # rank[d] + 1
    OBVIOUS
  <2> DEFINE k == m - 1
  <2>3. k \in Nat /\ k \notin T /\ k + 1 = m /\ rank[d] < k
    BY <2>1, <2>2
  <2> HIDE DEF k
  <2>4. F[k][d] = f[d] /\ F[k + 1][d] = F[k][d]
    BY <1>4, <2>3
  <2> QED
    BY <2>3, <2>4
<1>6. f \in [D -> S]
  <2>1. ASSUME NEW d \in D PROVE F[rank[d] + 1][d] \in S
    <3>1. rank[d] + 1 \in Nat
      OBVIOUS
    <3> QED
      BY <1>3, <3>1
  <2> QED
    BY <2>1
<1>7. ASSUME NEW d \in D PROVE f[d] = H[f][d]
  <2> DEFINE r == rank[d]
  <2>1. r \in Nat /\ F[r] \in [D -> S] /\ F[r + 1] = H[F[r]]
    BY <1>3
  <2>2. ASSUME NEW e \in D, rank[e] < rank[d] PROVE F[r][e] = f[e]
    BY <1>5, <2>1, <2>2
  <2>3. f[d] = F[r + 1][d]
    OBVIOUS
  <2> HIDE DEF f
  <2>4. H[F[r]][d] = H[f][d]
    BY <1>6, <2>1, <2>2
  <2> QED
    BY <2>1, <2>3, <2>4
<1> HIDE DEF f
<1>8. H[f] \in [D -> S]
  BY <1>6
<1> QED
  BY <1>6, <1>7, <1>8
=============================================================================
