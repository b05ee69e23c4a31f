---------------------------- MODULE RBTreeProof ----------------------------
(***************************************************************************)
(* The red-black trees of RBTree stay valid, and a handle implements       *)
(* OrderedMap, whatever the number of keys and the size of a tree.         *)
(***************************************************************************)
EXTENDS RBTree, Recursion, SequenceTheorems

----------------------------------------------------------------------------
(* Trees of a number of levels.                                            *)

Level(S) == {Nil} \cup [left : S, right : S, color : {"RED", "BLACK"}, key : Keys, data : Data]

IsLevels(t, n) ==
    /\ t = [m \in 0..n |-> t[m]]
    /\ t[0] = {Nil}
    /\ \A m \in 0..n : m < n => t[m + 1] = Level(t[m])

\* The chain of levels TreesOf is made of exists up to any level.
LEMMA LevelsExist ==
    ASSUME NEW n \in Nat
    PROVE  \E t : IsLevels(t, n)
<1> DEFINE T == {m \in Nat : ~ \E t : IsLevels(t, m)}
<1> SUFFICES ASSUME T # {} PROVE FALSE
  OBVIOUS
<1>1. PICK m \in T : \A k \in T : m <= k
  BY LeastNumber
<1>2. CASE m = 0
  <2>1. IsLevels([k \in 0..m |-> {Nil}], m)
    BY <1>2 DEF IsLevels
  <2> QED
    BY <2>1
<1>3. CASE m # 0
  <2> DEFINE p == m - 1
  <2>1. p \in Nat /\ p \notin T /\ p + 1 = m
    BY <1>1, <1>3
  <2> HIDE DEF p
  <2>2. PICK t : IsLevels(t, p)
    BY <2>1
  <2> DEFINE u == [k \in 0..m |-> IF k = m THEN Level(t[p]) ELSE t[k]]
  <2>3. u[0] = {Nil}
    BY <1>3, <2>1, <2>2 DEF IsLevels
  <2>4. ASSUME NEW k \in 0..m, k < m PROVE u[k + 1] = Level(u[k])
    <3>1. k \in 0..p /\ u[k] = t[k] /\ k + 1 \in 0..m
      BY <2>1, <2>4
    <3>2. CASE k = p
      <4>1. u[k + 1] = Level(t[p])
        BY <2>1, <3>1, <3>2
      <4> QED
        BY <3>1, <3>2, <4>1
    <3>3. CASE k # p
      <4>1. k < p /\ u[k + 1] = t[k + 1]
        BY <2>1, <3>1, <3>3
      <4> QED
        BY <2>2, <3>1, <4>1 DEF IsLevels
    <3> QED
      BY <3>2, <3>3
  <2>5. u = [k \in 0..m |-> u[k]]
    OBVIOUS
  <2> HIDE DEF u
  <2>6. IsLevels(u, m)
    BY <2>3, <2>4, <2>5 DEF IsLevels
  <2> QED
    BY <2>6
<1> QED
  BY <1>2, <1>3

LEMMA LevelsAgree ==
    ASSUME NEW n \in Nat, NEW m \in Nat, NEW t, NEW u, IsLevels(t, n), IsLevels(u, m),
           NEW k \in Nat, k <= n, k <= m
    PROVE  t[k] = u[k]
<1> DEFINE T == {j \in Nat : j <= n /\ j <= m /\ t[j] # u[j]}
<1> SUFFICES ASSUME T # {} PROVE FALSE
  OBVIOUS
<1>1. PICK j \in T : \A i \in T : j <= i
  BY LeastNumber
<1>2. j # 0
  BY DEF IsLevels
<1> DEFINE p == j - 1
<1>3. p \in Nat /\ p \notin T /\ p \in 0..n /\ p < n /\ p \in 0..m /\ p < m /\ p + 1 = j
  BY <1>1, <1>2
<1> HIDE DEF p
<1>4. t[p] = u[p]
  BY <1>3
<1>5. t[j] = Level(t[p]) /\ u[j] = Level(u[p])
  BY <1>3 DEF IsLevels
<1> QED
  BY <1>4, <1>5

\* TreesOf is what its recursive definition says.
LEMMA LevelsAre ==
    /\ TreesOf[0] = {Nil}
    /\ \A n \in Nat : TreesOf[n + 1] = Level(TreesOf[n])
<1> DEFINE Body(f) == [n \in Nat |-> IF n = 0 THEN {Nil}
                                     ELSE {Nil} \cup [left : f[n - 1], right : f[n - 1],
                                          color : {"RED", "BLACK"}, key : Keys, data : Data]]
           t(n) == CHOOSE u : IsLevels(u, n)
           f == [n \in Nat |-> t(n)[n]]
<1>1. ASSUME NEW n \in Nat PROVE IsLevels(t(n), n)
  BY LevelsExist, Zenon
<1>2. f[0] = {Nil}
  BY <1>1 DEF IsLevels
<1>3. ASSUME NEW n \in Nat PROVE f[n + 1] = Level(f[n])
  <2>1. n + 1 \in Nat /\ n \in 0..n + 1 /\ n < n + 1 /\ n <= n /\ n <= n + 1
    OBVIOUS
  <2>2. IsLevels(t(n), n) /\ IsLevels(t(n + 1), n + 1)
    BY <1>1, <2>1
  <2> HIDE DEF t
  <2>3. t(n + 1)[n] = t(n)[n]
    BY <2>1, <2>2, LevelsAgree
  <2>4. t(n + 1)[n + 1] = Level(t(n + 1)[n])
    BY <2>1, <2>2 DEF IsLevels
  <2> QED
    BY <2>1, <2>3, <2>4
<1> HIDE DEF f
<1>4. f = Body(f)
  <2>1. ASSUME NEW n \in Nat
        PROVE  f[n] = IF n = 0 THEN {Nil} ELSE {Nil} \cup [left : f[n - 1], right : f[n - 1],
                                          color : {"RED", "BLACK"}, key : Keys, data : Data]
    <3>1. CASE n = 0
      BY <1>2, <3>1
    <3>2. CASE n # 0
      <4>1. n - 1 \in Nat /\ (n - 1) + 1 = n
        BY <3>2
      <4>2. f[n] = Level(f[n - 1])
        BY <1>3, <4>1
      <4> QED
        BY <3>2, <4>2 DEF Level
    <3> QED
      BY <3>1, <3>2
  <2>2. f = [n \in Nat |-> f[n]]
    BY DEF f
  <2> QED
    BY <2>1, <2>2
<1>5. TreesOf = CHOOSE g : g = Body(g)
  BY DEF TreesOf
<1> HIDE DEF Body
<1>6. TreesOf = Body(TreesOf)
  BY <1>4, <1>5
<1>7. ASSUME NEW n \in Nat
      PROVE  TreesOf[n] = IF n = 0 THEN {Nil} ELSE {Nil} \cup [left : TreesOf[n - 1], right : TreesOf[n - 1],
                                          color : {"RED", "BLACK"}, key : Keys, data : Data]
  BY <1>6 DEF Body
<1>8. TreesOf[0] = {Nil}
  BY <1>7
<1>9. ASSUME NEW n \in Nat PROVE TreesOf[n + 1] = Level(TreesOf[n])
  <2>1. n + 1 \in Nat /\ n + 1 # 0 /\ (n + 1) - 1 = n
    OBVIOUS
  <2>2. TreesOf[n + 1] = {Nil} \cup [left : TreesOf[n], right : TreesOf[n],
                                     color : {"RED", "BLACK"}, key : Keys, data : Data]
    BY <1>7, <2>1
  <2> QED
    BY <2>2 DEF Level
<1> QED
  BY <1>8, <1>9

----------------------------------------------------------------------------
(* What a tree is made of, and recursion and induction over trees.         *)

Make(l, r, c, k, d) == [left |-> l, right |-> r, color |-> c, key |-> k, data |-> d]

Colors == {"RED", "BLACK"}

LEMMA NilIsNoNode ==
    ASSUME NEW l, NEW r, NEW c, NEW k, NEW d
    PROVE  Make(l, r, c, k, d) # Nil
<1>1. "left" \in DOMAIN Make(l, r, c, k, d) /\ "left" \notin DOMAIN Nil
  BY DEF Make, Nil
<1> QED
  BY <1>1

LEMMA MakeIs ==
    ASSUME NEW l, NEW r, NEW c, NEW k, NEW d
    PROVE  LET t == Make(l, r, c, k, d)
           IN t.left = l /\ t.right = r /\ t.color = c /\ t.key = k /\ t.data = d
BY DEF Make

LEMMA LevelParts ==
    ASSUME NEW S, NEW t \in Level(S), t # Nil
    PROVE  /\ t.left \in S /\ t.right \in S /\ t.color \in Colors /\ t.key \in Keys /\ t.data \in Data
           /\ t = Make(t.left, t.right, t.color, t.key, t.data)
BY DEF Level, Make, Colors

LEMMA LevelMake ==
    ASSUME NEW S, NEW l \in S, NEW r \in S, NEW c \in Colors, NEW k \in Keys, NEW d \in Data
    PROVE  Make(l, r, c, k, d) \in Level(S)
BY DEF Level, Make, Colors

LEMMA LevelGrows ==
    ASSUME NEW n \in Nat
    PROVE  TreesOf[n] \subseteq TreesOf[n + 1] /\ Nil \in TreesOf[n]
<1> DEFINE T == {m \in Nat : ~(TreesOf[m] \subseteq TreesOf[m + 1])}
<1>1. ASSUME NEW m \in Nat PROVE Nil \in TreesOf[m]
  <2>1. m = 0 \/ (m - 1 \in Nat /\ (m - 1) + 1 = m)
    OBVIOUS
  <2> QED
    BY <2>1, LevelsAre DEF Level
<1>2. T = {}
  <2> SUFFICES ASSUME T # {} PROVE FALSE
    OBVIOUS
  <2>1. PICK m \in T : \A k \in T : m <= k
    BY LeastNumber
  <2>2. m # 0
    BY <1>1, LevelsAre
  <2> DEFINE p == m - 1
  <2>3. p \in Nat /\ p \notin T /\ p + 1 = m
    BY <2>1, <2>2
  <2> HIDE DEF p
  <2>4. TreesOf[p] \subseteq TreesOf[m] /\ TreesOf[m] = Level(TreesOf[p]) /\ TreesOf[m + 1] = Level(TreesOf[m])
    BY <2>3, LevelsAre
  <2>5. Level(TreesOf[p]) \subseteq Level(TreesOf[m])
    BY <2>4 DEF Level
  <2> QED
    BY <2>4, <2>5
<1> QED
  BY <1>1, <1>2

LEMMA LevelsGrow ==
    ASSUME NEW m \in Nat, NEW n \in Nat, m <= n
    PROVE  TreesOf[m] \subseteq TreesOf[n]
<1> DEFINE T == {k \in Nat : m <= k /\ ~(TreesOf[m] \subseteq TreesOf[k])}
<1> SUFFICES ASSUME T # {} PROVE FALSE
  OBVIOUS
<1>1. PICK k \in T : \A j \in T : k <= j
  BY LeastNumber
<1>2. k # m
  OBVIOUS
<1>3. k - 1 \in Nat /\ k - 1 \notin T /\ (k - 1) + 1 = k /\ m <= k - 1
  BY <1>1, <1>2
<1>4. TreesOf[k - 1] \subseteq TreesOf[k]
  BY <1>3, LevelGrows
<1> QED
  BY <1>3, <1>4

\* The parts of a shape are shapes, with fewer levels.
LEMMA ShapeParts ==
    ASSUME NEW n \in Nat, n <= MaxNodes, NEW t \in TreesOf[n], t # Nil
    PROVE  /\ n # 0 /\ n - 1 \in Nat
           /\ t.left \in TreesOf[n - 1] /\ t.right \in TreesOf[n - 1]
           /\ t.left \in Shape /\ t.right \in Shape
           /\ t.color \in Colors /\ t.key \in Keys /\ t.data \in Data
           /\ t = Make(t.left, t.right, t.color, t.key, t.data)
<1>1. n # 0
  BY LevelsAre
<1>2. n - 1 \in Nat /\ (n - 1) + 1 = n /\ n - 1 <= MaxNodes /\ MaxNodes \in Nat
  BY <1>1, HandlesAssumption
<1>3. t \in Level(TreesOf[n - 1])
  BY <1>2, LevelsAre
<1>4. TreesOf[n - 1] \subseteq Shape
  BY <1>2, LevelsGrow DEF Shape
<1> QED
  BY <1>1, <1>2, <1>3, <1>4, LevelParts

\* What holds of the empty tree, and of a tree if of its subtrees, holds of all.
LEMMA ShapeInduction ==
    ASSUME NEW X, Nil \in X,
           \A t \in Shape : t # Nil /\ t.left \in X /\ t.right \in X => t \in X
    PROVE  Shape \subseteq X
<1> DEFINE T == {n \in Nat : n <= MaxNodes /\ ~(TreesOf[n] \subseteq X)}
<1> SUFFICES ASSUME T # {} PROVE FALSE
  BY HandlesAssumption DEF Shape
<1>1. PICK n \in T : \A m \in T : n <= m
  BY LeastNumber
<1>2. PICK t \in TreesOf[n] : t \notin X
  OBVIOUS
<1>3. n - 1 \in Nat /\ t.left \in TreesOf[n - 1] /\ t.right \in TreesOf[n - 1]
  BY <1>2, ShapeParts
<1>4. n - 1 \notin T /\ n - 1 <= MaxNodes
  BY <1>1, <1>3, HandlesAssumption
<1>5. t \in Shape
  BY LevelsGrow, HandlesAssumption DEF Shape
<1> QED
  BY <1>2, <1>3, <1>4, <1>5

Levels(t) == {n \in Nat : n <= MaxNodes /\ t \in TreesOf[n]}
depth(t) == CHOOSE n \in Levels(t) : \A m \in Levels(t) : n <= m

LEMMA DepthIs ==
    ASSUME NEW t \in Shape
    PROVE  /\ depth(t) \in Nat /\ depth(t) <= MaxNodes /\ t \in TreesOf[depth(t)]
           /\ \A m \in Nat : m <= MaxNodes /\ t \in TreesOf[m] => depth(t) <= m
<1>1. Levels(t) # {} /\ Levels(t) \subseteq Nat
  BY HandlesAssumption DEF Levels, Shape
<1>2. \E n \in Levels(t) : \A m \in Levels(t) : n <= m
  BY <1>1, LeastNumber
<1>3. depth(t) \in Levels(t) /\ \A m \in Levels(t) : depth(t) <= m
  BY <1>2 DEF depth
<1> QED
  BY <1>3 DEF Levels

\* A recursion that calls itself on the subtrees has a function.
LEMMA ShapeRecursion ==
    ASSUME NEW S, NEW s, s \in S,
           NEW H, H \in Funs(Funs(Shape, S), Funs(Shape, S)),
           \A f, g \in Funs(Shape, S), t \in Shape :
              (t # Nil => f[t.left] = g[t.left] /\ f[t.right] = g[t.right]) => H[f][t] = H[g][t]
    PROVE  \E f \in Funs(Shape, S) : f = H[f]
<1> DEFINE rank == [t \in Shape |-> depth(t)]
<1>1. rank \in Funs(Shape, Nat)
  BY DepthIs DEF Funs
<1>2. ASSUME NEW f \in Funs(Shape, S), NEW g \in Funs(Shape, S), NEW t \in Shape,
             \A e \in Shape : rank[e] < rank[t] => f[e] = g[e]
      PROVE  H[f][t] = H[g][t]
  <2>1. ASSUME t # Nil PROVE f[t.left] = g[t.left] /\ f[t.right] = g[t.right]
    <3> DEFINE n == depth(t)
    <3>1. n \in Nat /\ n <= MaxNodes /\ t \in TreesOf[n] /\ MaxNodes \in Nat
      BY DepthIs, HandlesAssumption
    <3> HIDE DEF n
    <3>2. n # 0 /\ n - 1 \in Nat /\ t.left \in TreesOf[n - 1] /\ t.right \in TreesOf[n - 1]
          /\ t.left \in Shape /\ t.right \in Shape
      BY <2>1, <3>1, ShapeParts
    <3>3. n - 1 <= MaxNodes
      BY <3>1, <3>2
    <3>4. depth(t.left) <= n - 1 /\ depth(t.right) <= n - 1 /\ depth(t.left) \in Nat /\ depth(t.right) \in Nat
      BY <3>2, <3>3, DepthIs
    <3>5. depth(t.left) < n /\ depth(t.right) < n
      BY <3>1, <3>4
    <3>6. rank[t] = n /\ rank[t.left] = depth(t.left) /\ rank[t.right] = depth(t.right)
      BY <3>2 DEF n
    <3> HIDE DEF rank
    <3> QED
      BY <1>2, <3>2, <3>5, <3>6
  <2> HIDE DEF rank
  <2> QED
    BY <2>1
<1> HIDE DEF rank
<1> QED
  BY ONLY <1>1, <1>2, s \in S, H \in Funs(Funs(Shape, S), Funs(Shape, S)), RecursionExists

----------------------------------------------------------------------------
(* The functions of trees: how many nodes, the black height, the walk.     *)

LEMMA PartsOf ==
    ASSUME NEW t \in Shape, t # Nil
    PROVE  /\ t.left \in Shape /\ t.right \in Shape
           /\ t.color \in Colors /\ t.key \in Keys /\ t.data \in Data
           /\ t = Make(t.left, t.right, t.color, t.key, t.data)
BY ShapeParts, HandlesAssumption DEF Shape

\* nodes, Height and walk are what their recursive definitions say.
LEMMA NodesAre ==
    /\ \A t \in Shape : nodes[t] \in Nat
    /\ Nil \in Shape => nodes[Nil] = 0
    /\ \A t \in Shape : t # Nil => nodes[t] = nodes[t.left] + nodes[t.right] + 1
<1> DEFINE V(f, t) == IF Null(t) THEN 0 ELSE f[t.left] + f[t.right] + 1
           H == [f \in Funs(Shape, Nat) |-> [t \in Shape |-> V(f, t)]]
<1>1. H \in Funs(Funs(Shape, Nat), Funs(Shape, Nat))
  <2>1. ASSUME NEW f \in Funs(Shape, Nat), NEW t \in Shape PROVE V(f, t) \in Nat
    BY PartsOf DEF Funs, Null
  <2> HIDE DEF V
  <2> QED
    BY <2>1 DEF Funs
<1>2. ASSUME NEW f \in Funs(Shape, Nat), NEW g \in Funs(Shape, Nat), NEW t \in Shape,
             t # Nil => f[t.left] = g[t.left] /\ f[t.right] = g[t.right]
      PROVE  H[f][t] = H[g][t]
  BY <1>2 DEF Null
<1>3. \E f \in Funs(Shape, Nat) : f = H[f]
  <2> HIDE DEF H
  <2>1. 0 \in Nat
    OBVIOUS
  <2> QED
    BY ONLY <1>1, <1>2, <2>1, ShapeRecursion
<1>4. PICK f \in Funs(Shape, Nat) : f = [t \in Shape |-> V(f, t)]
  BY <1>3
<1>5. nodes = CHOOSE g : g = [t \in Shape |-> V(g, t)]
  BY DEF nodes
<1> HIDE DEF V
<1>6. nodes = [t \in Shape |-> V(nodes, t)]
  BY <1>4, <1>5
<1>7. ASSUME NEW t \in Shape PROVE nodes[t] = V(nodes, t)
  BY <1>6
<1>8. \A t \in Shape : nodes[t] \in Nat
  <2> DEFINE X == {t \in Shape : nodes[t] \in Nat}
  <2>1. Nil \in Shape
    BY LevelGrows, HandlesAssumption DEF Shape
  <2>2. Nil \in X
    BY <1>7, <2>1 DEF V, Null
  <2>3. ASSUME NEW t \in Shape, t # Nil, t.left \in X, t.right \in X PROVE t \in X
    BY <1>7, <2>3 DEF V, Null
  <2> HIDE DEF X
  <2>4. Shape \subseteq X
    BY <2>2, <2>3, ShapeInduction
  <2> QED
    BY <2>4 DEF X
<1> QED
  BY <1>7, <1>8 DEF V, Null

\* The order of the values of Height: -1, or at least 1.
LEMMA HeightsAre ==
    /\ \A t \in Shape : Height[t] \in Nat \/ Height[t] = -1
    /\ \A t \in Shape :
          Height[t] = IF t = Nil THEN 1
                      ELSE IF \/ IsRed(t.right)
                              \/ IsRed(t) /\ IsRed(t.left)
                              \/ Height[t.left] = -1 \/ Height[t.right] = -1
                              \/ Height[t.left] # Height[t.right]
                           THEN -1
                           ELSE IF IsRed(t) THEN Height[t.left] ELSE Height[t.left] + 1
<1> DEFINE V(f, t) ==
              IF Null(t) THEN 1
              ELSE LET l == f[t.left]  r == f[t.right]
                   IN IF \/ IsRed(t.right)
                         \/ IsRed(t) /\ IsRed(t.left)
                         \/ l = -1 \/ r = -1 \/ l # r
                      THEN -1
                      ELSE IF IsRed(t) THEN l ELSE l + 1
           S == Nat \cup {-1}
           H == [f \in Funs(Shape, S) |-> [t \in Shape |-> V(f, t)]]
<1>1. H \in Funs(Funs(Shape, S), Funs(Shape, S))
  <2>1. ASSUME NEW f \in Funs(Shape, S), NEW t \in Shape PROVE V(f, t) \in S
    BY PartsOf DEF Funs, Null
  <2> HIDE DEF V
  <2> QED
    BY <2>1 DEF Funs
<1>2. ASSUME NEW f \in Funs(Shape, S), NEW g \in Funs(Shape, S), NEW t \in Shape,
             t # Nil => f[t.left] = g[t.left] /\ f[t.right] = g[t.right]
      PROVE  H[f][t] = H[g][t]
  <2>1. V(f, t) = V(g, t)
    BY <1>2 DEF Null
  <2> HIDE DEF V
  <2> QED
    BY <2>1
<1>3. \E f \in Funs(Shape, S) : f = H[f]
  <2>1. 1 \in S
    OBVIOUS
  <2> HIDE DEF H, S
  <2> QED
    BY ONLY <1>1, <1>2, <2>1, ShapeRecursion
<1>4. PICK f \in Funs(Shape, S) : f = [t \in Shape |-> V(f, t)]
  BY <1>3
<1>5. Height = CHOOSE g : g = [t \in Shape |-> V(g, t)]
  BY Zenon DEF Height
<1> HIDE DEF V
<1>6. Height = [t \in Shape |-> V(Height, t)]
  BY <1>4, <1>5
<1>7. ASSUME NEW t \in Shape PROVE Height[t] = V(Height, t)
  BY <1>6
<1>8. \A t \in Shape : Height[t] \in S
  <2> DEFINE X == {t \in Shape : Height[t] \in S}
  <2>1. Nil \in Shape
    BY LevelGrows, HandlesAssumption DEF Shape
  <2>2. Nil \in X
    BY <1>7, <2>1 DEF V, Null
  <2>3. ASSUME NEW t \in Shape, t # Nil, t.left \in X, t.right \in X PROVE t \in X
    BY <1>7, <2>3 DEF V, Null
  <2> HIDE DEF X
  <2>4. Shape \subseteq X
    BY <2>2, <2>3, ShapeInduction
  <2> QED
    BY <2>4 DEF X
<1> QED
  BY <1>7, <1>8 DEF V, Null

Entry == Keys \X Data

Join(a, k, d, b) == a \o <<<<k, d>>>> \o b

LEMMA WalksAre ==
    /\ \A t \in Shape : walk[t] \in Seq(Entry)
    /\ \A t \in Shape :
          walk[t] = IF t = Nil THEN <<>> ELSE walk[t.left] \o <<<<t.key, t.data>>>> \o walk[t.right]
<1> DEFINE V(f, t) == IF Null(t) THEN <<>> ELSE f[t.left] \o <<<<t.key, t.data>>>> \o f[t.right]
           S == Seq(Entry)
           H == [f \in Funs(Shape, S) |-> [t \in Shape |-> V(f, t)]]
<1>0. ASSUME NEW l \in S, NEW r \in S, NEW e \in Entry PROVE l \o <<e>> \o r \in S
  OBVIOUS
<1>9. <<>> \in S
  OBVIOUS
<1>a. ASSUME NEW t \in Shape, t # Nil PROVE <<t.key, t.data>> \in Entry
  BY <1>a, PartsOf DEF Entry
<1> HIDE DEF S
<1>1. H \in Funs(Funs(Shape, S), Funs(Shape, S))
  <2>1. ASSUME NEW f \in Funs(Shape, S), NEW t \in Shape PROVE V(f, t) \in S
    <3>1. CASE t = Nil
      BY <1>9, <3>1 DEF Null
    <3>2. CASE t # Nil
      <4>1. f[t.left] \in S /\ f[t.right] \in S
        BY <3>2, PartsOf DEF Funs
      <4> QED
        BY <1>0, <1>a, <3>2, <4>1 DEF Null
    <3> QED
      BY <3>1, <3>2
  <2> HIDE DEF V
  <2> QED
    BY <2>1 DEF Funs
<1>2. ASSUME NEW f \in Funs(Shape, S), NEW g \in Funs(Shape, S), NEW t \in Shape,
             t # Nil => f[t.left] = g[t.left] /\ f[t.right] = g[t.right]
      PROVE  H[f][t] = H[g][t]
  <2>1. V(f, t) = V(g, t)
    BY <1>2 DEF Null
  <2> HIDE DEF V
  <2> QED
    BY <2>1
<1>3. \E f \in Funs(Shape, S) : f = H[f]
  <2> HIDE DEF H
  <2> QED
    BY ONLY <1>1, <1>2, <1>9, ShapeRecursion
<1>4. PICK f \in Funs(Shape, S) : f = [t \in Shape |-> V(f, t)]
  BY <1>3
<1>5. walk = CHOOSE g : g = [t \in Shape |-> V(g, t)]
  BY DEF walk
<1> HIDE DEF V
<1>6. walk = [t \in Shape |-> V(walk, t)]
  BY <1>4, <1>5
<1>7. ASSUME NEW t \in Shape PROVE walk[t] = V(walk, t)
  BY <1>6
<1>8. \A t \in Shape : walk[t] \in S
  <2> DEFINE X == {t \in Shape : walk[t] \in S}
  <2>1. Nil \in Shape
    BY LevelGrows, HandlesAssumption DEF Shape
  <2>2. Nil \in X
    BY <1>7, <1>9, <2>1 DEF V, Null
  <2>3. ASSUME NEW t \in Shape, t # Nil, t.left \in X, t.right \in X PROVE t \in X
    BY <1>0, <1>a, <1>7, <2>3 DEF V, Null
  <2> HIDE DEF X
  <2>4. Shape \subseteq X
    BY <2>2, <2>3, ShapeInduction
  <2> QED
    BY <2>4 DEF X
<1> QED
  BY <1>7, <1>8 DEF V, Null, S

----------------------------------------------------------------------------
(* Trees of up to MaxNodes nodes.                                              *)

LEMMA NilIsTree == Nil \in Shape /\ Nil \in Tree /\ nodes[Nil] = 0 /\ Height[Nil] = 1 /\ walk[Nil] = <<>>
<1>1. Nil \in Shape
  BY LevelGrows, HandlesAssumption DEF Shape
<1>2. Nil \in Tree /\ nodes[Nil] = 0
  BY <1>1, NodesAre, HandlesAssumption DEF Tree
<1>3. Height[Nil] = 1
  BY <1>1, HeightsAre
<1>4. walk[Nil] = <<>>
  BY <1>1, WalksAre
<1> QED
  BY <1>1, <1>2, <1>3, <1>4

\* A shape has no more levels than nodes.
LEMMA LevelsAndNodes ==
    ASSUME NEW t \in Shape
    PROVE  t \in TreesOf[nodes[t]]
<1> DEFINE X == {x \in Shape : x \in TreesOf[nodes[x]]}
<1>1. Nil \in X
  BY NilIsTree, LevelGrows
<1>2. ASSUME NEW x \in Shape, x # Nil, x.left \in X, x.right \in X PROVE x \in X
  <2> DEFINE n == nodes[x.left] + nodes[x.right]
  <2>1. nodes[x.left] \in Nat /\ nodes[x.right] \in Nat /\ nodes[x] = n + 1
    BY <1>2, NodesAre
  <2>2. n \in Nat /\ nodes[x.left] <= n /\ nodes[x.right] <= n
    BY <2>1
  <2> HIDE DEF n
  <2>3. x.left \in TreesOf[n] /\ x.right \in TreesOf[n]
    BY <1>2, <2>1, <2>2, LevelsGrow
  <2>4. x \in Level(TreesOf[n])
    BY <1>2, <2>3, PartsOf, LevelMake
  <2> QED
    BY <2>1, <2>2, <2>4, LevelsAre
<1> HIDE DEF X
<1>3. Shape \subseteq X
  BY <1>1, <1>2, ShapeInduction
<1> QED
  BY <1>3 DEF X

LEMMA TreeIs ==
    ASSUME NEW t \in Tree
    PROVE  /\ t \in Shape /\ nodes[t] \in Nat /\ nodes[t] <= MaxNodes
           /\ Height[t] \in Nat \/ Height[t] = -1
           /\ walk[t] \in Seq(Entry)
BY NodesAre, HeightsAre, WalksAre DEF Tree

LEMMA TreeParts ==
    ASSUME NEW t \in Tree, t # Nil
    PROVE  /\ t.left \in Tree /\ t.right \in Tree
           /\ t.color \in Colors /\ t.key \in Keys /\ t.data \in Data
           /\ t = Make(t.left, t.right, t.color, t.key, t.data)
           /\ nodes[t] = nodes[t.left] + nodes[t.right] + 1
           /\ nodes[t.left] \in Nat /\ nodes[t.right] \in Nat
<1>1. t \in Shape /\ nodes[t] <= MaxNodes /\ MaxNodes \in Nat
  BY HandlesAssumption DEF Tree
<1>2. t.left \in Shape /\ t.right \in Shape
  BY <1>1, PartsOf
<1>3. nodes[t.left] \in Nat /\ nodes[t.right] \in Nat /\ nodes[t] = nodes[t.left] + nodes[t.right] + 1
  BY <1>1, <1>2, NodesAre
<1>4. nodes[t.left] <= MaxNodes /\ nodes[t.right] <= MaxNodes
  BY <1>1, <1>3
<1> QED
  BY <1>1, <1>2, <1>3, <1>4, PartsOf DEF Tree

LEMMA TreeMake ==
    ASSUME NEW l \in Tree, NEW r \in Tree, NEW c \in Colors, NEW k \in Keys, NEW d \in Data,
           nodes[l] + nodes[r] < MaxNodes
    PROVE  /\ Make(l, r, c, k, d) \in Tree
           /\ nodes[Make(l, r, c, k, d)] = nodes[l] + nodes[r] + 1
           /\ walk[Make(l, r, c, k, d)] = Join(walk[l], k, d, walk[r])
<1> DEFINE t == Make(l, r, c, k, d)
           n == nodes[l] + nodes[r]
<1>1. l \in Shape /\ r \in Shape /\ nodes[l] \in Nat /\ nodes[r] \in Nat /\ MaxNodes \in Nat
  BY TreeIs, HandlesAssumption
<1>2. n \in Nat /\ nodes[l] <= n /\ nodes[r] <= n /\ n + 1 <= MaxNodes /\ n + 1 \in Nat
  BY <1>1
<1> HIDE DEF n
<1>3. l \in TreesOf[n] /\ r \in TreesOf[n]
  BY <1>1, <1>2, LevelsAndNodes, LevelsGrow
<1>4. t \in TreesOf[n + 1]
  BY <1>2, <1>3, LevelMake, LevelsAre
<1>5. t \in Shape
  BY <1>1, <1>2, <1>4, LevelsGrow DEF Shape
<1>6. t # Nil /\ t.left = l /\ t.right = r /\ t.key = k /\ t.data = d
  BY NilIsNoNode, MakeIs
<1> HIDE DEF t
<1>7. nodes[t] = nodes[l] + nodes[r] + 1 /\ walk[t] = Join(walk[l], k, d, walk[r])
  BY <1>5, <1>6, NodesAre, WalksAre DEF Join
<1>8. t \in Tree
  BY <1>1, <1>2, <1>5, <1>7 DEF Tree, n
<1> QED
  BY <1>7, <1>8 DEF t

\* The colors and heights of a node.
LEMMA HeightIs ==
    ASSUME NEW t \in Tree, t # Nil
    PROVE  /\ Height[t] = IF \/ IsRed(t.right)
                             \/ IsRed(t) /\ IsRed(t.left)
                             \/ Height[t.left] = -1 \/ Height[t.right] = -1
                             \/ Height[t.left] # Height[t.right]
                          THEN -1
                          ELSE IF IsRed(t) THEN Height[t.left] ELSE Height[t.left] + 1
           /\ IsRed(t) <=> t.color = "RED"
           /\ Height[t.left] \in Nat \/ Height[t.left] = -1
           /\ Height[t.right] \in Nat \/ Height[t.right] = -1
<1>1. t \in Shape
  BY TreeIs
<1>2. t.left \in Tree /\ t.right \in Tree
  BY TreeParts
<1>3. t.left \in Shape /\ t.right \in Shape
  BY <1>2, TreeIs
<1>4. IsRed(t) <=> t.color = "RED"
  BY DEF IsRed, rb_color, Null
<1> QED
  BY <1>1, <1>3, <1>4, HeightsAre

LEMMA HeightPositive ==
    ASSUME NEW t \in Tree
    PROVE  Height[t] = -1 \/ (Height[t] \in Nat /\ Height[t] >= 1)
<1> DEFINE X == {x \in Shape : Height[x] = -1 \/ (Height[x] \in Nat /\ Height[x] >= 1)}
<1>1. Nil \in X
  BY NilIsTree
<1>2. ASSUME NEW x \in Shape, x # Nil, x.left \in X, x.right \in X PROVE x \in X
  BY <1>2, HeightsAre
<1> HIDE DEF X
<1>3. Shape \subseteq X
  BY <1>1, <1>2, ShapeInduction
<1> QED
  BY <1>3, TreeIs DEF X

\* Induction over the number of nodes.
LEMMA TreeInduction ==
    ASSUME NEW X,
           \A t \in Tree : (\A e \in Tree : nodes[e] < nodes[t] => e \in X) => t \in X
    PROVE  Tree \subseteq X
<1> SUFFICES ASSUME NEW x \in Tree, x \notin X PROVE FALSE
  OBVIOUS
<1> DEFINE T == {nodes[t] : t \in Tree \ X}
<1>1. T \subseteq Nat /\ T # {}
  BY TreeIs
<1> HIDE DEF T
<1>2. PICK n \in T : \A m \in T : n <= m
  BY <1>1, LeastNumber
<1>3. PICK t \in Tree : t \notin X /\ nodes[t] = n
  BY <1>2 DEF T
<1>4. ASSUME NEW e \in Tree, nodes[e] < nodes[t] PROVE e \in X
  <2>1. nodes[e] \in Nat /\ nodes[t] \in Nat
    BY TreeIs
  <2> QED
    BY <1>2, <1>3, <1>4, <2>1 DEF T
<1> QED
  BY <1>3, <1>4

----------------------------------------------------------------------------
(* Setters, rotations and color flips make nodes anew.                     *)

Fits(l, r) == l \in Tree /\ r \in Tree /\ nodes[l] + nodes[r] < MaxNodes

\* The same entries in the same order.
Same(u, t) == u \in Tree /\ nodes[u] = nodes[t] /\ walk[u] = walk[t]

LEMMA MakeSets ==
    ASSUME NEW l, NEW r, NEW c, NEW k, NEW d, NEW x
    PROVE  LET t == Make(l, r, c, k, d)
           IN /\ rb_set_left(t, x) = Make(x, r, c, k, d)
              /\ rb_set_right(t, x) = Make(l, x, c, k, d)
              /\ rb_set_color(t, x) = Make(l, r, x, k, d)
              /\ rb_set_key(t, x) = Make(l, r, c, x, d)
              /\ rb_set_data(t, x) = Make(l, r, c, k, x)
<1> DEFINE t == Make(l, r, c, k, d)
<1>1. t # Nil
  BY NilIsNoNode
<1>2. /\ [t EXCEPT !.left = x] = Make(x, r, c, k, d)
      /\ [t EXCEPT !.right = x] = Make(l, x, c, k, d)
      /\ [t EXCEPT !.color = x] = Make(l, r, x, k, d)
      /\ [t EXCEPT !.key = x] = Make(l, r, c, x, d)
      /\ [t EXCEPT !.data = x] = Make(l, r, c, k, x)
  BY DEF Make
<1> HIDE DEF t
<1>3. /\ rb_set_left(t, x) = Make(x, r, c, k, d)
      /\ rb_set_right(t, x) = Make(l, x, c, k, d)
      /\ rb_set_color(t, x) = Make(l, r, x, k, d)
      /\ rb_set_key(t, x) = Make(l, r, c, x, d)
      /\ rb_set_data(t, x) = Make(l, r, c, k, x)
  BY <1>1, <1>2, Zenon DEF rb_set_left, rb_set_right, rb_set_color, rb_set_key, rb_set_data, Null
<1> QED
  BY <1>3 DEF t

LEMMA MakeReads ==
    ASSUME NEW l, NEW r, NEW c, NEW k, NEW d
    PROVE  LET t == Make(l, r, c, k, d)
           IN /\ t # Nil
              /\ t.left = l /\ t.right = r /\ t.color = c /\ t.key = k /\ t.data = d
              /\ rb_left(t) = l /\ rb_right(t) = r /\ rb_color(t) = c
<1> DEFINE t == Make(l, r, c, k, d)
<1>1. t # Nil /\ t.left = l /\ t.right = r /\ t.color = c /\ t.key = k /\ t.data = d
  BY NilIsNoNode, MakeIs
<1> HIDE DEF t
<1>2. rb_left(t) = l /\ rb_right(t) = r /\ rb_color(t) = c
  BY <1>1 DEF rb_left, rb_right, rb_color, Null
<1> QED
  BY <1>1, <1>2 DEF t

LEMMA NodeSets ==
    ASSUME NEW t \in Tree, t # Nil, NEW x
    PROVE  /\ rb_set_left(t, x) = Make(x, t.right, t.color, t.key, t.data)
           /\ rb_set_right(t, x) = Make(t.left, x, t.color, t.key, t.data)
           /\ rb_set_color(t, x) = Make(t.left, t.right, x, t.key, t.data)
           /\ rb_set_key(t, x) = Make(t.left, t.right, t.color, x, t.data)
           /\ rb_set_data(t, x) = Make(t.left, t.right, t.color, t.key, x)
<1> DEFINE u == Make(t.left, t.right, t.color, t.key, t.data)
<1>1. t = u
  BY TreeParts
<1>2. /\ rb_set_left(u, x) = Make(x, t.right, t.color, t.key, t.data)
      /\ rb_set_right(u, x) = Make(t.left, x, t.color, t.key, t.data)
      /\ rb_set_color(u, x) = Make(t.left, t.right, x, t.key, t.data)
      /\ rb_set_key(u, x) = Make(t.left, t.right, t.color, x, t.data)
      /\ rb_set_data(u, x) = Make(t.left, t.right, t.color, t.key, x)
  BY MakeSets
<1> HIDE DEF u
<1> QED
  BY <1>1, <1>2

LEMMA NodeIs ==
    ASSUME NEW t \in Tree, t # Nil
    PROVE  /\ Fits(t.left, t.right)
           /\ rb_left(t) = t.left /\ rb_right(t) = t.right /\ rb_color(t) = t.color
           /\ walk[t] = Join(walk[t.left], t.key, t.data, walk[t.right])
<1>1. Fits(t.left, t.right)
  BY TreeParts, TreeIs, HandlesAssumption DEF Fits
<1>2. walk[t] = Join(walk[t.left], t.key, t.data, walk[t.right])
  BY TreeIs, WalksAre DEF Join
<1> QED
  BY <1>1, <1>2 DEF rb_left, rb_right, rb_color, Null

\* A node with these parts is a tree like any other.
LEMMA MadeIs ==
    ASSUME NEW l, NEW r, Fits(l, r), NEW c \in Colors, NEW k \in Keys, NEW d \in Data
    PROVE  LET t == Make(l, r, c, k, d)
           IN /\ t \in Tree /\ t # Nil
              /\ t.left = l /\ t.right = r /\ t.color = c /\ t.key = k /\ t.data = d
              /\ nodes[t] = nodes[l] + nodes[r] + 1
              /\ nodes[l] \in Nat /\ nodes[r] \in Nat
              /\ walk[t] = Join(walk[l], k, d, walk[r])
BY NilIsNoNode, MakeIs, TreeMake, TreeIs DEF Fits

LEMMA PaintIs ==
    ASSUME NEW t \in Tree, NEW c \in Colors
    PROVE  /\ Same(rb_set_color(t, c), t)
           /\ t = Nil => rb_set_color(t, c) = Nil
           /\ t # Nil => rb_set_color(t, c) = Make(t.left, t.right, c, t.key, t.data)
<1>1. CASE t = Nil
  BY <1>1, NilIsTree DEF rb_set_color, Null, Same
<1>2. CASE t # Nil
  <2> DEFINE u == Make(t.left, t.right, c, t.key, t.data)
  <2>1. rb_set_color(t, c) = u
    BY <1>2, NodeSets
  <2>2. Fits(t.left, t.right) /\ t.key \in Keys /\ t.data \in Data
    BY <1>2, NodeIs, TreeParts
  <2>3. u \in Tree /\ nodes[u] = nodes[t.left] + nodes[t.right] + 1
        /\ walk[u] = Join(walk[t.left], t.key, t.data, walk[t.right])
    BY <2>2, MadeIs
  <2>4. nodes[t] = nodes[t.left] + nodes[t.right] + 1
        /\ walk[t] = Join(walk[t.left], t.key, t.data, walk[t.right])
    BY <1>2, NodeIs, TreeParts
  <2> HIDE DEF u
  <2>5. Same(u, t)
    BY <2>3, <2>4 DEF Same
  <2> QED
    BY <1>2, <2>1, <2>5 DEF u
<1> QED
  BY <1>1, <1>2

\* A rotation keeps the walk: joining is associative.
LEMMA WalkRotates ==
    ASSUME NEW a \in Seq(Entry), NEW b \in Seq(Entry), NEW c \in Seq(Entry),
           NEW k \in Keys, NEW d \in Data, NEW m \in Keys, NEW e \in Data
    PROVE  Join(Join(a, k, d, b), m, e, c) = Join(a, k, d, Join(b, m, e, c))
<1> DEFINE se == <<<<k, d>>>>
           sf == <<<<m, e>>>>
<1>1. se \in Seq(Entry) /\ sf \in Seq(Entry)
  BY DEF Entry
<1> HIDE DEF se, sf
<1>2. a \o se \in Seq(Entry) /\ b \o sf \in Seq(Entry) /\ sf \o c \in Seq(Entry)
  BY <1>1, ConcatProperties
<1> DEFINE p == a \o se
           q == b \o sf
<1>3. p \in Seq(Entry) /\ q \in Seq(Entry)
  BY <1>2
<1>4. (p \o b) \o sf = p \o q
  BY <1>1, <1>3, ConcatAssociative
<1>5. (p \o q) \o c = p \o (q \o c)
  <2> HIDE DEF p, q
  <2> QED
    BY <1>3, ConcatAssociative
<1> QED
  BY <1>4, <1>5, Zenon DEF se, sf, Join

\* A rotation of a node, seen from its parts.
LEMMA RotatedRight ==
    ASSUME NEW t \in Tree, t # Nil, t.left # Nil
    PROVE  LET n == Make(t.left.right, t.right, "RED", t.key, t.data)
           IN /\ rotate_right(t) = Make(t.left.left, n, t.color, t.left.key, t.left.data)
              /\ Fits(t.left.right, t.right) /\ Fits(t.left.left, n)
              /\ Same(rotate_right(t), t)
<1> DEFINE l == t.left
           n == Make(l.right, t.right, "RED", t.key, t.data)
           u == Make(l.left, n, t.color, l.key, l.data)
<1>1. l \in Tree /\ l # Nil /\ t.right \in Tree
  BY TreeParts
<1>2. l.left \in Tree /\ l.right \in Tree /\ l.key \in Keys /\ l.data \in Data
  BY <1>1, TreeParts
<1>3. t.color \in Colors /\ t.key \in Keys /\ t.data \in Data /\ "RED" \in Colors
  BY TreeParts DEF Colors
<1>4. rotate_right(t) = u
  <2>1. rb_left(t) = l
    BY NodeIs
  <2>2. rb_set_left(t, l.right) = Make(l.right, t.right, t.color, t.key, t.data)
    BY NodeSets
  <2>3. rb_set_color(Make(l.right, t.right, t.color, t.key, t.data), "RED") = n
    BY MakeSets
  <2> HIDE DEF l, n
  <2>4. rb_set_right(l, n) = Make(l.left, n, l.color, l.key, l.data)
    BY <1>1, NodeSets
  <2>5. rb_set_color(Make(l.left, n, l.color, l.key, l.data), t.color) = u
    BY MakeSets
  <2>6. rotate_right(t) = rb_set_color(rb_set_right(l, rb_set_color(rb_set_left(t, l.right), "RED")), t.color)
    BY <1>1, <2>1 DEF rotate_right, Null, l
  <2> HIDE DEF u
  <2> QED
    BY <2>2, <2>3, <2>4, <2>5, <2>6
<1>5. nodes[t] = nodes[l] + nodes[t.right] + 1 /\ walk[t] = Join(walk[l], t.key, t.data, walk[t.right])
  BY TreeParts, NodeIs
<1> HIDE DEF l
<1>6. nodes[l] = nodes[l.left] + nodes[l.right] + 1 /\ walk[l] = Join(walk[l.left], l.key, l.data, walk[l.right])
  BY <1>1, TreeParts, NodeIs
<1>7. /\ nodes[l.left] \in Nat /\ nodes[l.right] \in Nat /\ nodes[t.right] \in Nat
      /\ MaxNodes \in Nat /\ nodes[t] <= MaxNodes
      /\ walk[l.left] \in Seq(Entry) /\ walk[l.right] \in Seq(Entry) /\ walk[t.right] \in Seq(Entry)
  BY <1>1, <1>2, TreeIs, HandlesAssumption
<1>8. Fits(l.right, t.right)
  BY <1>1, <1>2, <1>5, <1>6, <1>7 DEF Fits
<1>9. n \in Tree /\ nodes[n] = nodes[l.right] + nodes[t.right] + 1
      /\ walk[n] = Join(walk[l.right], t.key, t.data, walk[t.right])
  BY <1>3, <1>8, MadeIs
<1> HIDE DEF n
<1>10. Fits(l.left, n)
  BY <1>2, <1>5, <1>6, <1>7, <1>9 DEF Fits
<1>11. u \in Tree /\ nodes[u] = nodes[l.left] + nodes[n] + 1
       /\ walk[u] = Join(walk[l.left], l.key, l.data, walk[n])
  BY <1>2, <1>3, <1>10, MadeIs
<1> HIDE DEF u
<1>12. walk[u] = walk[t]
  <2>1. Join(Join(walk[l.left], l.key, l.data, walk[l.right]), t.key, t.data, walk[t.right])
          = Join(walk[l.left], l.key, l.data, Join(walk[l.right], t.key, t.data, walk[t.right]))
    BY <1>2, <1>3, <1>7, WalkRotates
  <2> QED
    BY <1>5, <1>6, <1>9, <1>11, <2>1
<1>13. Same(u, t)
  BY <1>5, <1>6, <1>7, <1>9, <1>11, <1>12 DEF Same
<1> QED
  BY <1>4, <1>8, <1>10, <1>13 DEF u, n, l

\* What rotate-left makes of a node with a right child.
LEMMA RotatedLeft ==
    ASSUME NEW t \in Tree, t # Nil, t.right # Nil
    PROVE  LET n == Make(t.left, t.right.left, "RED", t.key, t.data)
           IN /\ rotate_left(t) = Make(n, t.right.right, t.color, t.right.key, t.right.data)
              /\ Fits(t.left, t.right.left) /\ Fits(n, t.right.right)
              /\ Same(rotate_left(t), t)
<1> DEFINE r == t.right
           n == Make(t.left, r.left, "RED", t.key, t.data)
           u == Make(n, r.right, t.color, r.key, r.data)
<1>1. r \in Tree /\ r # Nil /\ t.left \in Tree
  BY TreeParts
<1>2. r.left \in Tree /\ r.right \in Tree /\ r.key \in Keys /\ r.data \in Data
  BY <1>1, TreeParts
<1>3. t.color \in Colors /\ t.key \in Keys /\ t.data \in Data /\ "RED" \in Colors
  BY TreeParts DEF Colors
<1>4. rotate_left(t) = u
  <2>1. rb_right(t) = r
    BY NodeIs
  <2>2. rb_set_right(t, r.left) = Make(t.left, r.left, t.color, t.key, t.data)
    BY NodeSets
  <2>3. rb_set_color(Make(t.left, r.left, t.color, t.key, t.data), "RED") = n
    BY MakeSets
  <2> HIDE DEF r, n
  <2>4. rb_set_left(r, n) = Make(n, r.right, r.color, r.key, r.data)
    BY <1>1, NodeSets
  <2>5. rb_set_color(Make(n, r.right, r.color, r.key, r.data), t.color) = u
    BY MakeSets
  <2>6. rotate_left(t) = rb_set_color(rb_set_left(r, rb_set_color(rb_set_right(t, r.left), "RED")), t.color)
    BY <1>1, <2>1 DEF rotate_left, Null, r
  <2> HIDE DEF u
  <2> QED
    BY <2>2, <2>3, <2>4, <2>5, <2>6
<1>5. nodes[t] = nodes[t.left] + nodes[r] + 1 /\ walk[t] = Join(walk[t.left], t.key, t.data, walk[r])
  BY TreeParts, NodeIs
<1> HIDE DEF r
<1>6. nodes[r] = nodes[r.left] + nodes[r.right] + 1 /\ walk[r] = Join(walk[r.left], r.key, r.data, walk[r.right])
  BY <1>1, TreeParts, NodeIs
<1>7. /\ nodes[r.left] \in Nat /\ nodes[r.right] \in Nat /\ nodes[t.left] \in Nat
      /\ MaxNodes \in Nat /\ nodes[t] <= MaxNodes
      /\ walk[r.left] \in Seq(Entry) /\ walk[r.right] \in Seq(Entry) /\ walk[t.left] \in Seq(Entry)
  BY <1>1, <1>2, TreeIs, HandlesAssumption
<1>8. Fits(t.left, r.left)
  BY <1>1, <1>2, <1>5, <1>6, <1>7 DEF Fits
<1>9. n \in Tree /\ nodes[n] = nodes[t.left] + nodes[r.left] + 1
      /\ walk[n] = Join(walk[t.left], t.key, t.data, walk[r.left])
  BY <1>3, <1>8, MadeIs
<1> HIDE DEF n
<1>10. Fits(n, r.right)
  BY <1>2, <1>5, <1>6, <1>7, <1>9 DEF Fits
<1>11. u \in Tree /\ nodes[u] = nodes[n] + nodes[r.right] + 1
       /\ walk[u] = Join(walk[n], r.key, r.data, walk[r.right])
  BY <1>2, <1>3, <1>10, MadeIs
<1> HIDE DEF u
<1>12. walk[u] = walk[t]
  <2>1. Join(Join(walk[t.left], t.key, t.data, walk[r.left]), r.key, r.data, walk[r.right])
          = Join(walk[t.left], t.key, t.data, Join(walk[r.left], r.key, r.data, walk[r.right]))
    BY <1>2, <1>3, <1>7, WalkRotates
  <2> QED
    BY <1>5, <1>6, <1>9, <1>11, <2>1
<1>13. Same(u, t)
  BY <1>5, <1>6, <1>7, <1>9, <1>11, <1>12 DEF Same
<1> QED
  BY <1>4, <1>8, <1>10, <1>13 DEF u, n, r

----------------------------------------------------------------------------
(* Flips and fix_up keep the entries, and what fix_up makes of a node.     *)

LEMMA Parts ==
    ASSUME NEW t \in Tree, t # Nil
    PROVE  \E l, r \in Tree, c \in Colors, k \in Keys, d \in Data : t = Make(l, r, c, k, d) /\ Fits(l, r)
BY TreeParts, NodeIs

LEMMA NilNodes ==
    ASSUME NEW t \in Tree
    PROVE  t = Nil <=> nodes[t] = 0
BY TreeParts, NilIsTree

LEMMA SameIs ==
    ASSUME NEW t \in Tree, NEW u, Same(u, t), NEW v, Same(v, u)
    PROVE  Same(v, t) /\ (u = Nil <=> t = Nil)
BY NilNodes DEF Same

LEMMA ColoredIs ==
    ASSUME NEW l, NEW r, Fits(l, r), NEW c \in Colors, NEW k \in Keys, NEW d \in Data,
           NEW nc \in Colors, NEW lc \in Colors, NEW rc \in Colors
    PROVE  LET t == Make(l, r, c, k, d)
               u == Make(rb_set_color(l, lc), rb_set_color(r, rc), nc, k, d)
           IN /\ Colored(t, nc, lc, rc) = u
              /\ Fits(rb_set_color(l, lc), rb_set_color(r, rc)) /\ Same(u, t)
<1> DEFINE t == Make(l, r, c, k, d)
           a == rb_set_color(l, lc)
           b == rb_set_color(r, rc)
           u == Make(a, b, nc, k, d)
<1>1. l \in Tree /\ r \in Tree
  BY DEF Fits
<1>2. Same(a, l) /\ Same(b, r)
  BY <1>1, PaintIs
<1>3. Colored(t, nc, lc, rc) = u
  <2>1. rb_left(t) = l /\ rb_right(t) = r
    BY MakeReads
  <2> HIDE DEF a, b
  <2>2. rb_set_right(t, b) = Make(l, b, c, k, d)
    BY MakeSets
  <2>3. rb_set_left(Make(l, b, c, k, d), a) = Make(a, b, c, k, d)
    BY MakeSets
  <2>4. rb_set_color(Make(a, b, c, k, d), nc) = u
    BY MakeSets
  <2> HIDE DEF t, u
  <2>5. Colored(t, nc, lc, rc) = rb_set_color(rb_set_left(rb_set_right(t, b), a), nc)
    BY <2>1 DEF Colored, a, b
  <2> QED
    BY <2>2, <2>3, <2>4, <2>5
<1> HIDE DEF a, b
<1>4. Fits(a, b)
  BY <1>2 DEF Same, Fits
<1>5. u \in Tree /\ nodes[u] = nodes[a] + nodes[b] + 1 /\ walk[u] = Join(walk[a], k, d, walk[b])
  BY <1>4, MadeIs
<1>6. nodes[t] = nodes[l] + nodes[r] + 1 /\ walk[t] = Join(walk[l], k, d, walk[r])
  BY MadeIs
<1> HIDE DEF t, u
<1>7. Same(u, t)
  BY <1>2, <1>5, <1>6 DEF Same
<1> QED
  BY <1>3, <1>4, <1>7 DEF t, u, a, b

LEMMA RotateSame ==
    ASSUME NEW t \in Tree
    PROVE  Same(rotate_right(t), t) /\ Same(rotate_left(t), t)
<1>1. t = Nil => rb_left(t) = Nil /\ rb_right(t) = Nil
  BY DEF rb_left, rb_right, Null
<1>2. t # Nil => rb_left(t) = t.left /\ rb_right(t) = t.right
  BY NodeIs
<1>3. Same(t, t)
  BY DEF Same
<1>4. Same(rotate_right(t), t)
  <2>1. CASE t = Nil \/ t.left = Nil
    BY <1>1, <1>2, <1>3, <2>1 DEF rotate_right, Null
  <2> QED
    BY <2>1, RotatedRight
<1>5. Same(rotate_left(t), t)
  <2>1. CASE t = Nil \/ t.right = Nil
    BY <1>1, <1>2, <1>3, <2>1 DEF rotate_left, Null
  <2> QED
    BY <2>1, RotatedLeft
<1> QED
  BY <1>4, <1>5

LEMMA FlipSame ==
    ASSUME NEW t \in Tree, t # Nil
    PROVE  Same(flip_colors(t), t) /\ Same(flip_colors_delete(t), t)
<1>1. PICK l \in Tree, r \in Tree, c \in Colors, k \in Keys, d \in Data :
           t = Make(l, r, c, k, d) /\ Fits(l, r)
  BY Parts
<1>2. \A x : Flipped(x) \in Colors
  BY DEF Flipped, Colors
<1>3. "RED" \in Colors /\ "BLACK" \in Colors
  BY DEF Colors
<1>4. \A nc, lc, rc \in Colors : Same(Colored(t, nc, lc, rc), t)
  BY <1>1, ColoredIs
<1> QED
  BY <1>2, <1>3, <1>4 DEF flip_colors, flip_colors_delete

\* fix-up keeps the entries and their order.
LEMMA FixSame ==
    ASSUME NEW t \in Tree, t # Nil
    PROVE  Same(fix_up(t), t)
<1> DEFINE a == IF IsRed(rb_right(t)) /\ ~IsRed(rb_left(t)) THEN rotate_left(t) ELSE t
           b == IF IsRed(rb_left(a)) /\ IsRed(rb_left(rb_left(a))) THEN rotate_right(a) ELSE a
           u == IF IsRed(rb_left(b)) /\ IsRed(rb_right(b)) THEN flip_colors(b) ELSE b
<1>1. Same(a, t)
  BY RotateSame DEF Same
<1> HIDE DEF a
<1>2. a \in Tree /\ a # Nil
  BY <1>1, NilNodes DEF Same
<1>3. Same(b, a)
  BY <1>2, RotateSame DEF Same
<1> HIDE DEF b
<1>4. b \in Tree /\ b # Nil
  BY <1>2, <1>3, NilNodes DEF Same
<1>5. Same(u, b)
  BY <1>4, FlipSame DEF Same
<1>6. fix_up(t) = u
  BY DEF fix_up, a, b
<1> HIDE DEF u
<1> QED
  BY <1>1, <1>3, <1>5, <1>6 DEF Same

----------------------------------------------------------------------------
(* Sound trees: left leaning, of one black height, no two reds in a row.   *)

Sound(t, h) == t \in Tree /\ h \in Nat /\ Height[t] = h

\* The height of a node of color c over children of height g.
Up(c, g) == IF c = "RED" THEN g ELSE g + 1

Balanced(t, g) == t \in Tree /\ t # Nil /\ g \in Nat /\ Sound(t.left, g) /\ Sound(t.right, g)

LEMMA NilIsSound == Sound(Nil, 1) /\ ~IsRed(Nil) /\ \A h : Sound(Nil, h) => h = 1
<1>1. ~IsRed(Nil)
  BY DEF IsRed, rb_color, Null
<1> QED
  BY <1>1, NilIsTree DEF Sound

LEMMA RedIs ==
    ASSUME NEW t, t # Nil
    PROVE  IsRed(t) <=> t.color = "RED"
BY DEF IsRed, rb_color, Null

\* A node over children of one height is sound if it leans to the left and
\* has no two reds in a row.
LEMMA SoundNode ==
    ASSUME NEW t, NEW g, Balanced(t, g), ~IsRed(t.right), t.color = "RED" => ~IsRed(t.left)
    PROVE  Sound(t, Up(t.color, g))
<1>1. t \in Tree /\ t # Nil /\ g \in Nat /\ Height[t.left] = g /\ Height[t.right] = g /\ g # -1
  BY DEF Balanced, Sound
<1>2. IsRed(t) <=> t.color = "RED"
  BY <1>1, RedIs
<1>3. Height[t] = IF IsRed(t) THEN g ELSE g + 1
  BY <1>1, <1>2, HeightIs
<1> QED
  BY <1>1, <1>2, <1>3 DEF Sound, Up

LEMMA SoundParts ==
    ASSUME NEW t, t # Nil, NEW h, Sound(t, h)
    PROVE  /\ ~IsRed(t.right) /\ (t.color = "RED" => ~IsRed(t.left))
           /\ \E g \in Nat : Balanced(t, g) /\ h = Up(t.color, g) /\ g >= 1
<1>1. t \in Tree /\ Height[t] = h /\ h \in Nat /\ h # -1
  BY DEF Sound
<1>2. IsRed(t) <=> t.color = "RED"
  BY <1>1, RedIs
<1>3. t.left \in Tree /\ t.right \in Tree
  BY <1>1, TreeParts
<1>4. /\ ~IsRed(t.right) /\ ~(IsRed(t) /\ IsRed(t.left))
      /\ Height[t.left] # -1 /\ Height[t.left] = Height[t.right]
      /\ Height[t] = IF IsRed(t) THEN Height[t.left] ELSE Height[t.left] + 1
  BY <1>1, HeightIs
<1>5. Height[t.left] \in Nat /\ Height[t.left] >= 1
  BY <1>3, <1>4, HeightPositive
<1> DEFINE g == Height[t.left]
<1>6. Balanced(t, g) /\ h = Up(t.color, g)
  BY <1>1, <1>2, <1>3, <1>4, <1>5 DEF Balanced, Sound, Up
<1> QED
  BY <1>2, <1>4, <1>5, <1>6

\* A tree of height 1 that is not red is none.
LEMMA LowIsNil ==
    ASSUME NEW t, ~IsRed(t)
    PROVE  Sound(t, 1) <=> t = Nil
<1>1. ASSUME Sound(t, 1), t # Nil PROVE FALSE
  <2>1. PICK g \in Nat : 1 = Up(t.color, g) /\ g >= 1
    BY <1>1, SoundParts
  <2>2. t.color # "RED"
    BY <1>1, RedIs
  <2> QED
    BY <2>1, <2>2 DEF Up
<1> QED
  BY <1>1, NilIsSound

\* Painting a node.
LEMMA Painted ==
    ASSUME NEW t \in Tree, t # Nil, NEW c \in Colors
    PROVE  LET u == rb_set_color(t, c)
           IN /\ u \in Tree /\ u # Nil /\ Same(u, t)
              /\ u.left = t.left /\ u.right = t.right /\ u.color = c /\ u.key = t.key /\ u.data = t.data
              /\ IsRed(u) <=> c = "RED"
              /\ \A g : Balanced(t, g) => Balanced(u, g)
<1> DEFINE u == rb_set_color(t, c)
<1>1. u = Make(t.left, t.right, c, t.key, t.data) /\ Same(u, t)
  BY PaintIs
<1>2. u # Nil /\ u.left = t.left /\ u.right = t.right /\ u.color = c /\ u.key = t.key /\ u.data = t.data
  BY <1>1, MakeReads
<1> HIDE DEF u
<1>3. u \in Tree /\ (IsRed(u) <=> c = "RED")
  BY <1>1, <1>2, RedIs DEF Same
<1>4. \A g : Balanced(t, g) => Balanced(u, g)
  BY <1>2, <1>3 DEF Balanced
<1> QED
  BY <1>1, <1>2, <1>3, <1>4 DEF u

\* Painting the root black keeps a tree sound.
LEMMA PaintedBlack ==
    ASSUME NEW t, NEW h, Sound(t, h)
    PROVE  LET u == rb_set_color(t, "BLACK")
           IN /\ Sound(u, IF IsRed(t) THEN h + 1 ELSE h) /\ ~IsRed(u) /\ Same(u, t)
              /\ u = Nil <=> t = Nil
<1> DEFINE u == rb_set_color(t, "BLACK")
<1>1. CASE t = Nil
  <2>1. u = Nil
    BY <1>1 DEF rb_set_color, Null
  <2> QED
    BY <1>1, <2>1, NilIsSound, NilIsTree DEF Same
<1>2. CASE t # Nil
  <2>1. t \in Tree /\ "BLACK" \in Colors
    BY DEF Sound, Colors
  <2>2. PICK g \in Nat : Balanced(t, g) /\ h = Up(t.color, g)
    BY <1>2, SoundParts
  <2>3. Balanced(u, g) /\ u.color = "BLACK" /\ u # Nil /\ ~IsRed(u) /\ u.right = t.right /\ Same(u, t)
    BY <1>2, <2>1, <2>2, Painted
  <2>4. ~IsRed(t.right) /\ (IsRed(t) <=> t.color = "RED")
    BY <1>2, SoundParts, RedIs
  <2> HIDE DEF u
  <2>5. Sound(u, Up("BLACK", g))
    BY <2>3, <2>4, SoundNode
  <2>6. Up("BLACK", g) = IF IsRed(t) THEN h + 1 ELSE h
    BY <2>2, <2>4 DEF Up
  <2> QED
    BY <1>2, <2>3, <2>5, <2>6 DEF u
<1> QED
  BY <1>1, <1>2

\* A black node without a red child may turn red.
LEMMA PaintedRed ==
    ASSUME NEW t, t # Nil, NEW h, Sound(t, h), ~IsRed(t), ~IsRed(t.left)
    PROVE  LET u == rb_set_color(t, "RED")
           IN /\ h - 1 \in Nat /\ Sound(u, h - 1) /\ IsRed(u) /\ u # Nil
              /\ u.left = t.left /\ u.right = t.right /\ u.key = t.key /\ u.data = t.data /\ u.color = "RED"
              /\ Balanced(u, h - 1) /\ Same(u, t)
<1> DEFINE u == rb_set_color(t, "RED")
<1>1. t \in Tree /\ "RED" \in Colors /\ h \in Nat
  BY DEF Sound, Colors
<1>2. PICK g \in Nat : Balanced(t, g) /\ h = Up(t.color, g)
  BY SoundParts
<1>3. t.color # "RED" /\ h - 1 = g
  BY <1>1, <1>2, RedIs DEF Up
<1>4. /\ Balanced(u, g) /\ u.color = "RED" /\ u # Nil /\ IsRed(u) /\ Same(u, t)
      /\ u.left = t.left /\ u.right = t.right /\ u.key = t.key /\ u.data = t.data
  BY <1>1, <1>2, Painted
<1>5. ~IsRed(t.right)
  BY SoundParts
<1> HIDE DEF u
<1>6. Sound(u, Up("RED", g))
  BY <1>4, <1>5, SoundNode
<1> QED
  BY <1>2, <1>3, <1>4, <1>6 DEF Up, u

----------------------------------------------------------------------------
(* What fix_up makes of a node whose children are sound.                   *)

LEMMA ColoredNode ==
    ASSUME NEW t \in Tree, t # Nil, NEW nc \in Colors, NEW lc \in Colors, NEW rc \in Colors
    PROVE  LET u == Colored(t, nc, lc, rc)
           IN /\ u \in Tree /\ u # Nil /\ Same(u, t)
              /\ u.left = rb_set_color(t.left, lc) /\ u.right = rb_set_color(t.right, rc)
              /\ u.color = nc /\ u.key = t.key /\ u.data = t.data
<1> DEFINE a == rb_set_color(t.left, lc)
           b == rb_set_color(t.right, rc)
           u == Make(a, b, nc, t.key, t.data)
<1>1. t = Make(t.left, t.right, t.color, t.key, t.data) /\ Fits(t.left, t.right)
      /\ t.color \in Colors /\ t.key \in Keys /\ t.data \in Data
  BY TreeParts, NodeIs
<1>2. Colored(Make(t.left, t.right, t.color, t.key, t.data), nc, lc, rc) = u
      /\ Same(u, Make(t.left, t.right, t.color, t.key, t.data))
  BY <1>1, ColoredIs
<1>3. u # Nil /\ u.left = a /\ u.right = b /\ u.color = nc /\ u.key = t.key /\ u.data = t.data
  BY MakeReads
<1> HIDE DEF u, a, b
<1>4. Colored(t, nc, lc, rc) = u /\ Same(u, t)
  BY <1>1, <1>2
<1> QED
  BY <1>3, <1>4 DEF Same, a, b

LEMMA FixPlain ==
    ASSUME NEW t \in Tree, t # Nil, ~IsRed(t.right), ~(IsRed(t.left) /\ IsRed(rb_left(t.left)))
    PROVE  fix_up(t) = t
<1>1. rb_left(t) = t.left /\ rb_right(t) = t.right
  BY NodeIs
<1> QED
  BY <1>1 DEF fix_up

LEMMA FixLean ==
    ASSUME NEW t, NEW g, Balanced(t, g), IsRed(t.right), ~IsRed(t.left)
    PROVE  LET u == fix_up(t)
           IN /\ Balanced(u, g) /\ u.color = t.color /\ Same(u, t)
              /\ IsRed(u.left) /\ ~IsRed(u.right) /\ ~IsRed(rb_left(u.left))
<1> DEFINE r == t.right
           n == Make(t.left, r.left, "RED", t.key, t.data)
           u == Make(n, r.right, t.color, r.key, r.data)
<1>1. t \in Tree /\ t # Nil /\ g \in Nat /\ Sound(t.left, g) /\ Sound(r, g) /\ r # Nil
  BY NilIsSound DEF Balanced
<1>2. rotate_left(t) = u /\ Fits(t.left, r.left) /\ Fits(n, r.right) /\ Same(u, t)
  BY <1>1, RotatedLeft
<1>3. u \in Tree /\ u # Nil /\ u.left = n /\ u.right = r.right /\ u.color = t.color
  BY <1>2, MakeReads DEF Same
<1>4. n # Nil /\ n.left = t.left /\ n.right = r.left /\ n.color = "RED" /\ rb_left(n) = t.left
  BY MakeReads
<1>5. t.key \in Keys /\ t.data \in Data /\ "RED" \in Colors
  BY <1>1, TreeParts DEF Colors
<1>6. n \in Tree
  BY <1>2, <1>5, MadeIs
<1> HIDE DEF n, u
<1>7. /\ ~IsRed(r.right) /\ ~IsRed(r.left) /\ r.color = "RED"
      /\ Sound(r.left, g) /\ Sound(r.right, g)
  <2>1. r.color = "RED"
    BY <1>1, RedIs
  <2>2. PICK h \in Nat : Balanced(r, h) /\ g = Up(r.color, h)
    BY <1>1, SoundParts
  <2>3. h = g
    BY <2>1, <2>2 DEF Up
  <2> QED
    BY <1>1, <2>1, <2>2, <2>3, SoundParts DEF Balanced
<1>8. Sound(n, g) /\ IsRed(n)
  <2>1. Balanced(n, g)
    BY <1>1, <1>4, <1>6, <1>7 DEF Balanced
  <2> QED
    BY <1>4, <1>7, <2>1, SoundNode, RedIs DEF Up
<1>9. Balanced(u, g)
  BY <1>1, <1>3, <1>7, <1>8 DEF Balanced
<1>10. fix_up(t) = u
  <2>1. rb_left(t) = t.left /\ rb_right(t) = r
    BY <1>1, NodeIs
  <2>2. rb_left(u) = n /\ rb_right(u) = r.right
    BY <1>3, NodeIs
  <2> HIDE DEF r
  <2> QED
    BY <1>2, <1>4, <1>7, <2>1, <2>2 DEF fix_up, r
<1> QED
  BY <1>2, <1>3, <1>4, <1>7, <1>8, <1>9, <1>10

LEMMA FlipSound ==
    ASSUME NEW t, NEW g, Balanced(t, g), IsRed(t.left), IsRed(t.right)
    PROVE  LET u == flip_colors(t)
           IN IsRed(u) /\ Sound(u, g + 1) /\ Same(u, t)
<1> DEFINE u == Colored(t, "RED", "BLACK", "BLACK")
           l == rb_set_color(t.left, "BLACK")
           r == rb_set_color(t.right, "BLACK")
<1>1. "RED" \in Colors /\ "BLACK" \in Colors /\ t \in Tree /\ t # Nil /\ g \in Nat
  BY DEF Colors, Balanced
<1>2. u \in Tree /\ u # Nil /\ Same(u, t) /\ u.left = l /\ u.right = r /\ u.color = "RED"
  BY <1>1, ColoredNode
<1>3. Sound(l, g + 1) /\ ~IsRed(l) /\ Sound(r, g + 1) /\ ~IsRed(r)
  BY PaintedBlack DEF Balanced
<1> HIDE DEF u, l, r
<1>4. Balanced(u, g + 1)
  BY <1>1, <1>2, <1>3 DEF Balanced
<1>5. Sound(u, g + 1) /\ IsRed(u)
  BY <1>2, <1>3, <1>4, SoundNode, RedIs DEF Up
<1> QED
  BY <1>2, <1>5 DEF u, flip_colors

\* Sound children: fix_up leaves a node that leans left, or a red one.
LEMMA FixMakes ==
    ASSUME NEW t, NEW g, Balanced(t, g)
    PROVE  LET u == fix_up(t)
           IN /\ u \in Tree /\ u # Nil /\ Same(u, t)
              /\ IF IsRed(t.left) /\ IsRed(t.right)
                 THEN IsRed(u) /\ Sound(u, g + 1)
                 ELSE /\ Balanced(u, g) /\ u.color = t.color /\ ~IsRed(u.right)
                      /\ IsRed(u.left) <=> IsRed(t.left) \/ IsRed(t.right)
<1> DEFINE u == fix_up(t)
<1>1. t \in Tree /\ t # Nil /\ g \in Nat /\ Sound(t.left, g) /\ Sound(t.right, g)
  BY DEF Balanced
<1>2. ~(IsRed(t.left) /\ IsRed(rb_left(t.left)))
  <2>1. ASSUME IsRed(t.left) PROVE ~IsRed(rb_left(t.left))
    <3>1. t.left # Nil /\ t.left \in Tree
      BY <1>1, <2>1, NilIsSound DEF Sound
    <3>2. t.left.color = "RED"
      BY <2>1, <3>1, RedIs
    <3> QED
      BY <1>1, <3>1, <3>2, SoundParts, NodeIs
  <2> QED
    BY <2>1
<1>3. CASE ~IsRed(t.right)
  <2>1. u = t
    BY <1>1, <1>2, <1>3, FixPlain
  <2> QED
    BY <1>1, <1>3, <2>1 DEF Same
<1>4. CASE IsRed(t.right) /\ ~IsRed(t.left)
  BY <1>4, FixLean DEF Balanced
<1>5. CASE IsRed(t.right) /\ IsRed(t.left)
  <2>1. u = flip_colors(t)
    <3>1. rb_left(t) = t.left /\ rb_right(t) = t.right
      BY <1>1, NodeIs
    <3> QED
      BY <1>2, <1>5, <3>1 DEF fix_up
  <2>2. IsRed(u) /\ Sound(u, g + 1) /\ Same(u, t)
    BY <1>5, <2>1, FlipSound
  <2> QED
    BY <1>5, <2>2, NilIsSound DEF Sound
<1> QED
  BY <1>3, <1>4, <1>5

LEMMA FixBlack ==
    ASSUME NEW t, NEW g, Balanced(t, g), t.color # "RED"
    PROVE  LET u == fix_up(t)
           IN /\ Sound(u, g + 1) /\ Same(u, t)
              /\ IsRed(u) <=> IsRed(t.left) /\ IsRed(t.right)
<1> DEFINE u == fix_up(t)
<1>1. /\ u \in Tree /\ u # Nil /\ Same(u, t)
      /\ IF IsRed(t.left) /\ IsRed(t.right)
         THEN IsRed(u) /\ Sound(u, g + 1)
         ELSE /\ Balanced(u, g) /\ u.color = t.color /\ ~IsRed(u.right)
              /\ IsRed(u.left) <=> IsRed(t.left) \/ IsRed(t.right)
  BY FixMakes
<1> HIDE DEF u
<1> QED
  BY <1>1, SoundNode, RedIs DEF Up, u

LEMMA FixRed ==
    ASSUME NEW t, NEW g, Balanced(t, g), t.color = "RED", ~IsRed(t.left), ~IsRed(t.right)
    PROVE  LET u == fix_up(t)
           IN Sound(u, g) /\ Same(u, t) /\ IsRed(u)
<1>1. t \in Tree /\ t # Nil
  BY DEF Balanced
<1>2. fix_up(t) = t
  BY <1>1, FixPlain
<1> QED
  BY <1>1, <1>2, SoundNode, RedIs DEF Up, Same

\* Two red nodes in a row on the left.
LEMMA FixChain ==
    ASSUME NEW t \in Tree, t # Nil, NEW g, IsRed(t.left), Balanced(t.left, g),
           IsRed(t.left.left), ~IsRed(t.left.right), Sound(t.right, g), ~IsRed(t.right)
    PROVE  LET u == fix_up(t)
           IN Sound(u, g + 1) /\ Same(u, t) /\ IsRed(u)
<1> DEFINE l == t.left
           n == Make(l.right, t.right, "RED", t.key, t.data)
           u == Make(l.left, n, t.color, l.key, l.data)
<1>1. l # Nil /\ l \in Tree /\ g \in Nat /\ Sound(l.left, g) /\ Sound(l.right, g)
  BY DEF Balanced
<1>2. rotate_right(t) = u /\ Fits(l.right, t.right) /\ Fits(l.left, n) /\ Same(u, t)
  BY <1>1, RotatedRight
<1>3. u \in Tree /\ u # Nil /\ u.left = l.left /\ u.right = n /\ u.color = t.color
  BY <1>2, MakeReads DEF Same
<1>4. n # Nil /\ n.left = l.right /\ n.right = t.right /\ n.color = "RED"
  BY MakeReads
<1>5. t.key \in Keys /\ t.data \in Data /\ "RED" \in Colors
  BY TreeParts DEF Colors
<1>6. n \in Tree
  BY <1>2, <1>5, MadeIs
<1> HIDE DEF n, u
<1>7. Sound(n, g) /\ IsRed(n)
  <2>1. Balanced(n, g)
    BY <1>1, <1>4, <1>6 DEF Balanced
  <2> QED
    BY <1>4, <2>1, SoundNode, RedIs DEF Up
<1>8. Balanced(u, g)
  BY <1>1, <1>3, <1>7 DEF Balanced
<1>9. fix_up(t) = flip_colors(u)
  <2>1. rb_left(t) = l /\ rb_right(t) = t.right
    BY NodeIs
  <2>2. rb_left(l) = l.left
    BY <1>1, NodeIs
  <2>3. rb_left(u) = l.left /\ rb_right(u) = n
    BY <1>3, NodeIs
  <2> HIDE DEF l
  <2> QED
    BY <1>2, <1>7, <2>1, <2>2, <2>3 DEF fix_up, l
<1>10. IsRed(flip_colors(u)) /\ Sound(flip_colors(u), g + 1) /\ Same(flip_colors(u), u)
  BY <1>3, <1>7, <1>8, FlipSound
<1> QED
  BY <1>2, <1>9, <1>10 DEF Same

----------------------------------------------------------------------------
(* The order of the keys.                                                  *)

Less(a, b) == Cmp(a, b) = "less"

LEMMA KeyIs ==
    ASSUME NEW a \in Keys, NEW b \in Keys
    PROVE  /\ a[1] \in {"number", "string", "symbol"} /\ a[2] \in Nat
           /\ a = b <=> a[1] = b[1] /\ a[2] = b[2]
BY HandlesAssumption DEF Keys

\* Each comparator orders the keys it takes.
LEMMA OrderIs ==
    ASSUME cmp \in Comparators, NEW a \in Keys, NEW b \in Keys, NEW c \in Keys
    PROVE  /\ Cmp(a, b) \in {"less", "greater", "same", "reject"}
           /\ Cmp(a, b) = "same" => a = b
           /\ Cmp(a, b) = "greater" <=> Less(b, a)
           /\ Less(a, b) /\ Less(b, c) => Less(a, c)
           /\ ~Less(a, a)
           /\ Cmp(a, a) # "reject" => Cmp(a, a) = "same"
<1>1. /\ a[2] \in Nat /\ b[2] \in Nat /\ c[2] \in Nat
      /\ a[1] \in {"number", "string", "symbol"}
      /\ b[1] \in {"number", "string", "symbol"}
      /\ c[1] \in {"number", "string", "symbol"}
      /\ a = b <=> a[1] = b[1] /\ a[2] = b[2]
      /\ b = c <=> b[1] = c[1] /\ b[2] = c[2]
      /\ a = c <=> a[1] = c[1] /\ a[2] = c[2]
  BY KeyIs
<1>2. cmp \in {"number", "string", "mixed", "caller"}
  BY HandlesAssumption
<1>3. CASE cmp = "number"
  BY <1>1, <1>3 DEF Less, Cmp, cmp_number, Order
<1>4. CASE cmp = "string"
  BY <1>1, <1>4 DEF Less, Cmp, cmp_string, Order
<1>5. CASE cmp = "mixed"
  BY <1>1, <1>5 DEF Less, Cmp, cmp_mixed, Order
<1>6. CASE cmp = "caller"
  BY <1>1, <1>6 DEF Less, Cmp, cmp_caller, cmp_number, Order
<1> QED
  BY <1>2, <1>3, <1>4, <1>5, <1>6

----------------------------------------------------------------------------
(* The entries of a walk, and of a tree.                                   *)

Ents(w) == {w[n] : n \in 1..Len(w)}

Sorted(w) == \A m, n \in 1..Len(w) : m < n => Less(w[m][1], w[n][1])

LEMMA JoinIs ==
    ASSUME NEW a \in Seq(Entry), NEW k \in Keys, NEW d \in Data, NEW b \in Seq(Entry)
    PROVE  LET w == Join(a, k, d, b)
           IN /\ w \in Seq(Entry) /\ Len(w) = Len(a) + 1 + Len(b)
              /\ Len(a) \in Nat /\ Len(b) \in Nat
              /\ \A n \in 1..Len(a) : w[n] = a[n]
              /\ w[Len(a) + 1] = <<k, d>>
              /\ \A n \in 1..Len(b) : w[Len(a) + 1 + n] = b[n]
<1> DEFINE s == <<<<k, d>>>>
           p == a \o s
           w == p \o b
<1>1. s \in Seq(Entry) /\ Len(s) = 1 /\ s[1] = <<k, d>>
  BY DEF Entry
<1> HIDE DEF s
<1>2. Len(a) \in Nat /\ Len(b) \in Nat
  BY LenProperties
<1>3. /\ p \in Seq(Entry) /\ Len(p) = Len(a) + Len(s)
      /\ \A n \in 1..Len(a) + Len(s) : p[n] = IF n <= Len(a) THEN a[n] ELSE s[n - Len(a)]
  BY <1>1, ConcatProperties
<1> HIDE DEF p
<1>4. /\ w \in Seq(Entry) /\ Len(w) = Len(p) + Len(b)
      /\ \A n \in 1..Len(p) + Len(b) : w[n] = IF n <= Len(p) THEN p[n] ELSE b[n - Len(p)]
  <2>1. p \in Seq(Entry)
    BY <1>3
  <2> QED
    BY ONLY <2>1, b \in Seq(Entry), ConcatProperties
<1> HIDE DEF w
<1>5. Len(w) = Len(a) + 1 + Len(b) /\ Len(p) = Len(a) + 1
  BY <1>1, <1>3, <1>4
<1>6. ASSUME NEW n \in 1..Len(a) PROVE w[n] = a[n]
  BY <1>1, <1>2, <1>3, <1>4
<1>7. w[Len(a) + 1] = <<k, d>>
  <2>1. p[Len(a) + 1] = s[1]
    BY <1>1, <1>2, <1>3
  <2> QED
    BY <1>1, <1>2, <1>4, <1>5, <2>1
<1>8. ASSUME NEW n \in 1..Len(b) PROVE w[Len(a) + 1 + n] = b[n]
  <2> DEFINE m == Len(a) + 1 + n
  <2>1. m \in 1..Len(p) + Len(b) /\ m > Len(p) /\ m - Len(p) = n
    BY <1>2, <1>5
  <2> HIDE DEF m
  <2>2. w[m] = b[n]
    BY <1>2, <1>4, <1>5, <2>1
  <2> QED
    BY <2>2 DEF m
<1> QED
  BY <1>2, <1>4, <1>5, <1>6, <1>7, <1>8 DEF w, p, s, Join

LEMMA JoinEnts ==
    ASSUME NEW a \in Seq(Entry), NEW k \in Keys, NEW d \in Data, NEW b \in Seq(Entry)
    PROVE  Ents(Join(a, k, d, b)) = Ents(a) \cup {<<k, d>>} \cup Ents(b)
<1> DEFINE w == Join(a, k, d, b)
<1>1. /\ Len(w) = Len(a) + 1 + Len(b) /\ Len(a) \in Nat /\ Len(b) \in Nat
      /\ \A n \in 1..Len(a) : w[n] = a[n]
      /\ w[Len(a) + 1] = <<k, d>>
      /\ \A n \in 1..Len(b) : w[Len(a) + 1 + n] = b[n]
  BY JoinIs
<1> HIDE DEF w
<1>2. ASSUME NEW n \in 1..Len(w) PROVE w[n] \in Ents(a) \cup {<<k, d>>} \cup Ents(b)
  <2>1. CASE n <= Len(a)
    BY <1>1, <2>1 DEF Ents
  <2>2. CASE n = Len(a) + 1
    BY <1>1, <2>2
  <2>3. CASE n > Len(a) + 1
    <3>1. n - (Len(a) + 1) \in 1..Len(b) /\ n = Len(a) + 1 + (n - (Len(a) + 1))
      BY <1>1, <2>3
    <3>2. w[n] = b[n - (Len(a) + 1)]
      BY <1>1, <3>1
    <3> QED
      BY <3>1, <3>2 DEF Ents
  <2> QED
    BY <1>1, <2>1, <2>2, <2>3
<1>3. ASSUME NEW n \in 1..Len(a) PROVE a[n] \in Ents(w)
  BY <1>1 DEF Ents
<1>4. ASSUME NEW n \in 1..Len(b) PROVE b[n] \in Ents(w)
  <2>1. Len(a) + 1 + n \in 1..Len(w) /\ w[Len(a) + 1 + n] = b[n]
    BY <1>1
  <2> QED
    BY <2>1 DEF Ents
<1>5. <<k, d>> \in Ents(w)
  BY <1>1 DEF Ents
<1>6. Ents(w) \subseteq Ents(a) \cup {<<k, d>>} \cup Ents(b)
  BY <1>2 DEF Ents
<1>7. Ents(a) \subseteq Ents(w) /\ Ents(b) \subseteq Ents(w)
  BY <1>3, <1>4 DEF Ents
<1> QED
  BY <1>5, <1>6, <1>7 DEF w

\* A node is in order if its children are, the left one before its key and
\* the right one after it.
LEMMA JoinSorted ==
    ASSUME cmp \in Comparators,
           NEW a \in Seq(Entry), NEW k \in Keys, NEW d \in Data, NEW b \in Seq(Entry)
    PROVE  Sorted(Join(a, k, d, b)) <=>
              /\ Sorted(a) /\ Sorted(b)
              /\ \A e \in Ents(a) : Less(e[1], k)
              /\ \A e \in Ents(b) : Less(k, e[1])
<1> DEFINE w == Join(a, k, d, b)
           c == Len(a) + 1
<1>1. /\ Len(w) = c + Len(b) /\ Len(a) \in Nat /\ Len(b) \in Nat
      /\ \A n \in 1..Len(a) : w[n] = a[n]
      /\ w[c] = <<k, d>>
      /\ \A n \in 1..Len(b) : w[c + n] = b[n]
  BY JoinIs
<1> HIDE DEF w
<1>2. ASSUME Sorted(w)
      PROVE  /\ Sorted(a) /\ Sorted(b)
             /\ \A e \in Ents(a) : Less(e[1], k)
             /\ \A e \in Ents(b) : Less(k, e[1])
  <2>0. \A m, n \in 1..Len(w) : m < n => Less(w[m][1], w[n][1])
    BY <1>2 DEF Sorted
  <2>1. ASSUME NEW m \in 1..Len(a), NEW n \in 1..Len(a), m < n PROVE Less(a[m][1], a[n][1])
    <3>1. m \in 1..Len(w) /\ n \in 1..Len(w) /\ w[m] = a[m] /\ w[n] = a[n]
      BY <1>1
    <3>2. Less(w[m][1], w[n][1])
      BY <2>0, <2>1, <3>1
    <3> QED
      BY <3>1, <3>2
  <2>2. ASSUME NEW m \in 1..Len(b), NEW n \in 1..Len(b), m < n PROVE Less(b[m][1], b[n][1])
    <3>1. c + m \in 1..Len(w) /\ c + n \in 1..Len(w) /\ w[c + m] = b[m] /\ w[c + n] = b[n] /\ c + m < c + n
      BY <1>1, <2>2
    <3>2. Less(w[c + m][1], w[c + n][1])
      BY <2>0, <3>1
    <3> QED
      BY <3>1, <3>2
  <2>3. ASSUME NEW m \in 1..Len(a) PROVE Less(a[m][1], k)
    <3>1. m \in 1..Len(w) /\ c \in 1..Len(w) /\ m < c /\ w[m] = a[m] /\ w[c][1] = k
      BY <1>1
    <3>2. Less(w[m][1], w[c][1])
      BY <2>0, <3>1
    <3> QED
      BY <3>1, <3>2
  <2>4. ASSUME NEW m \in 1..Len(b) PROVE Less(k, b[m][1])
    <3>1. c + m \in 1..Len(w) /\ c \in 1..Len(w) /\ c < c + m /\ w[c + m] = b[m] /\ w[c][1] = k
      BY <1>1
    <3>2. Less(w[c][1], w[c + m][1])
      BY <2>0, <3>1
    <3> QED
      BY <3>1, <3>2
  <2> QED
    BY <2>1, <2>2, <2>3, <2>4 DEF Sorted, Ents
<1>3. ASSUME Sorted(a), Sorted(b),
             \A e \in Ents(a) : Less(e[1], k), \A e \in Ents(b) : Less(k, e[1])
      PROVE  Sorted(w)
  <2>1. \A n \in 1..Len(a) : Less(a[n][1], k) /\ a[n][1] \in Keys
    <3>1. \A n \in 1..Len(a) : a[n] \in Entry
      BY ElementOfSeq
    <3> QED
      BY <1>3, <3>1 DEF Ents, Entry
  <2>2. \A n \in 1..Len(b) : Less(k, b[n][1]) /\ b[n][1] \in Keys
    <3>1. \A n \in 1..Len(b) : b[n] \in Entry
      BY ElementOfSeq
    <3> QED
      BY <1>3, <3>1 DEF Ents, Entry
  <2>3. ASSUME NEW n \in 1..Len(w), n > c PROVE n - c \in 1..Len(b) /\ w[n] = b[n - c]
    <3>1. n - c \in 1..Len(b) /\ c + (n - c) = n
      BY <1>1, <2>3
    <3> QED
      BY <1>1, <3>1
  <2>4. ASSUME NEW m \in 1..Len(w), NEW n \in 1..Len(w), m < n PROVE Less(w[m][1], w[n][1])
    <3> HIDE DEF c
    <3>0. c = Len(a) + 1
      BY DEF c
    <3>1. CASE n < c
      <4>1. m \in 1..Len(a) /\ n \in 1..Len(a)
        BY <1>1, <2>4, <3>0, <3>1
      <4> QED
        BY <1>1, <1>3, <2>4, <4>1 DEF Sorted
    <3>2. CASE n = c
      <4>1. m \in 1..Len(a) /\ w[n][1] = k
        BY <1>1, <2>4, <3>0, <3>2
      <4> QED
        BY <1>1, <2>1, <4>1
    <3>3. CASE n > c /\ m = c
      <4>1. w[m][1] = k
        BY <1>1, <3>3
      <4> QED
        BY <2>2, <2>3, <3>3, <4>1
    <3>4. CASE n > c /\ m < c
      <4>1. m \in 1..Len(a) /\ w[m] = a[m]
        BY <1>1, <3>0, <3>4
      <4>2. n - c \in 1..Len(b) /\ w[n] = b[n - c]
        BY <2>3, <3>4
      <4> QED
        BY <2>1, <2>2, <4>1, <4>2, OrderIs
    <3>5. CASE n > c /\ m > c
      <4>1. m - c \in 1..Len(b) /\ w[m] = b[m - c] /\ n - c \in 1..Len(b) /\ w[n] = b[n - c]
        BY <2>3, <3>5
      <4>2. m - c < n - c
        BY <1>1, <2>4, <3>0
      <4> QED
        BY <1>3, <4>1, <4>2 DEF Sorted
    <3> QED
      BY <1>1, <3>0, <3>1, <3>2, <3>3, <3>4, <3>5
  <2> QED
    BY <2>4 DEF Sorted
<1> QED
  BY <1>2, <1>3 DEF w

E(t) == Ents(walk[t])

InOrder(t) == Sorted(walk[t])

LEMMA NilIsInOrder == E(Nil) = {} /\ InOrder(Nil)
<1>1. walk[Nil] = <<>>
  BY NilIsTree
<1> QED
  BY <1>1 DEF E, InOrder, Ents, Sorted

LEMMA EntriesOf ==
    ASSUME NEW t \in Tree
    PROVE  /\ E(t) \subseteq Entry
           /\ t # Nil => E(t) = E(t.left) \cup {<<t.key, t.data>>} \cup E(t.right)
<1>1. walk[t] \in Seq(Entry)
  BY TreeIs
<1>2. E(t) \subseteq Entry
  BY <1>1, ElementOfSeq DEF E, Ents
<1>3. ASSUME t # Nil PROVE E(t) = E(t.left) \cup {<<t.key, t.data>>} \cup E(t.right)
  <2>1. walk[t] = Join(walk[t.left], t.key, t.data, walk[t.right])
    BY <1>3, NodeIs
  <2>2. t.left \in Tree /\ t.right \in Tree /\ t.key \in Keys /\ t.data \in Data
    BY <1>3, TreeParts
  <2>3. walk[t.left] \in Seq(Entry) /\ walk[t.right] \in Seq(Entry)
    BY <2>2, TreeIs
  <2> QED
    BY <2>1, <2>2, <2>3, JoinEnts DEF E
<1> QED
  BY <1>2, <1>3

LEMMA OrderOf ==
    ASSUME cmp \in Comparators, NEW t \in Tree, t # Nil
    PROVE  InOrder(t) <=>
              /\ InOrder(t.left) /\ InOrder(t.right)
              /\ \A e \in E(t.left) : Less(e[1], t.key)
              /\ \A e \in E(t.right) : Less(t.key, e[1])
<1>1. walk[t] = Join(walk[t.left], t.key, t.data, walk[t.right])
  BY NodeIs
<1>2. t.left \in Tree /\ t.right \in Tree /\ t.key \in Keys /\ t.data \in Data
  BY TreeParts
<1>3. walk[t.left] \in Seq(Entry) /\ walk[t.right] \in Seq(Entry)
  BY <1>2, TreeIs
<1> QED
  BY <1>1, <1>2, <1>3, JoinSorted DEF E, InOrder

LEMMA SameEntries ==
    ASSUME NEW u, NEW t, Same(u, t)
    PROVE  E(u) = E(t) /\ (InOrder(u) <=> InOrder(t)) /\ nodes[u] = nodes[t] /\ u \in Tree
BY DEF Same, E, InOrder

----------------------------------------------------------------------------
(* Trees of any number of nodes: the results of an operation before it is  *)
(* known how many it adds.                                                 *)

AnyTree == UNION {TreesOf[n] : n \in Nat}

LEMMA AnyParts ==
    ASSUME NEW t \in AnyTree
    PROVE  /\ rb_left(t) \in AnyTree /\ rb_right(t) \in AnyTree
           /\ t # Nil => /\ t.left \in AnyTree /\ t.right \in AnyTree
                         /\ t.color \in Colors /\ t.key \in Keys /\ t.data \in Data
                         /\ t = Make(t.left, t.right, t.color, t.key, t.data)
                         /\ rb_left(t) = t.left /\ rb_right(t) = t.right
<1>1. PICK n \in Nat : t \in TreesOf[n]
  BY DEF AnyTree
<1>2. CASE t = Nil
  BY <1>2 DEF rb_left, rb_right, Null
<1>3. CASE t # Nil
  <2>1. n # 0
    BY <1>1, <1>3, LevelsAre
  <2> DEFINE m == n - 1
  <2>2. m \in Nat /\ m + 1 = n
    BY <2>1
  <2> HIDE DEF m
  <2>3. t \in Level(TreesOf[m])
    BY <1>1, <2>2, LevelsAre
  <2>4. /\ t.left \in TreesOf[m] /\ t.right \in TreesOf[m]
        /\ t.color \in Colors /\ t.key \in Keys /\ t.data \in Data
        /\ t = Make(t.left, t.right, t.color, t.key, t.data)
    BY <1>3, <2>3, LevelParts
  <2>5. t.left \in AnyTree /\ t.right \in AnyTree
    BY <2>2, <2>4 DEF AnyTree
  <2> QED
    BY <1>3, <2>4, <2>5 DEF rb_left, rb_right, Null
<1> QED
  BY <1>2, <1>3

LEMMA AnyMake ==
    ASSUME NEW l \in AnyTree, NEW r \in AnyTree, NEW c \in Colors, NEW k \in Keys, NEW d \in Data
    PROVE  Make(l, r, c, k, d) \in AnyTree
<1>1. PICK m \in Nat : l \in TreesOf[m]
  BY DEF AnyTree
<1>2. PICK n \in Nat : r \in TreesOf[n]
  BY DEF AnyTree
<1>3. m + n \in Nat /\ m <= m + n /\ n <= m + n /\ m + n + 1 \in Nat
  OBVIOUS
<1> DEFINE p == m + n
<1>4. l \in TreesOf[p] /\ r \in TreesOf[p]
  BY <1>1, <1>2, <1>3, LevelsGrow
<1>5. p \in Nat /\ p + 1 \in Nat
  OBVIOUS
<1> HIDE DEF p
<1>6. Make(l, r, c, k, d) \in TreesOf[p + 1]
  BY <1>4, <1>5, LevelMake, LevelsAre
<1> QED
  BY <1>5, <1>6 DEF AnyTree

LEMMA TreesAreAny == Nil \in AnyTree /\ Tree \subseteq AnyTree
BY LevelGrows, HandlesAssumption DEF AnyTree, Tree, Shape

LEMMA AnySets ==
    ASSUME NEW t \in AnyTree
    PROVE  /\ \A x \in AnyTree : rb_set_left(t, x) \in AnyTree /\ rb_set_right(t, x) \in AnyTree
           /\ \A c \in Colors : rb_set_color(t, c) \in AnyTree
           /\ \A k \in Keys : rb_set_key(t, k) \in AnyTree
           /\ \A d \in Data : rb_set_data(t, d) \in AnyTree
<1>1. CASE t = Nil
  BY <1>1 DEF rb_set_left, rb_set_right, rb_set_color, rb_set_key, rb_set_data, Null
<1>2. CASE t # Nil
  <2>1. /\ t.left \in AnyTree /\ t.right \in AnyTree
        /\ t.color \in Colors /\ t.key \in Keys /\ t.data \in Data
        /\ t = Make(t.left, t.right, t.color, t.key, t.data)
    BY <1>2, AnyParts
  <2> DEFINE u == Make(t.left, t.right, t.color, t.key, t.data)
  <2>2. \A x : /\ rb_set_left(u, x) = Make(x, t.right, t.color, t.key, t.data)
               /\ rb_set_right(u, x) = Make(t.left, x, t.color, t.key, t.data)
               /\ rb_set_color(u, x) = Make(t.left, t.right, x, t.key, t.data)
               /\ rb_set_key(u, x) = Make(t.left, t.right, t.color, x, t.data)
               /\ rb_set_data(u, x) = Make(t.left, t.right, t.color, t.key, x)
    BY MakeSets
  <2>3. t = u
    BY <2>1
  <2> HIDE DEF u
  <2> QED
    BY <2>1, <2>2, <2>3, AnyMake
<1> QED
  BY <1>1, <1>2

LEMMA AnyTurns ==
    ASSUME NEW t \in AnyTree
    PROVE  rotate_left(t) \in AnyTree /\ rotate_right(t) \in AnyTree
<1>1. "RED" \in Colors
  BY DEF Colors
<1>2. rotate_left(t) \in AnyTree
  <2>1. CASE Null(t) \/ Null(rb_right(t))
    BY <2>1 DEF rotate_left
  <2>2. CASE ~(Null(t) \/ Null(rb_right(t)))
    <3>1. t # Nil /\ t.right # Nil /\ t.right \in AnyTree /\ t.color \in Colors
      BY <2>2, AnyParts DEF Null
    <3>2. t.right.left \in AnyTree
      BY <3>1, AnyParts
    <3>3. rb_set_right(t, t.right.left) \in AnyTree
      BY <3>2, AnySets
    <3>4. rb_set_color(rb_set_right(t, t.right.left), "RED") \in AnyTree
      BY <1>1, <3>3, AnySets
    <3>5. rb_set_left(t.right, rb_set_color(rb_set_right(t, t.right.left), "RED")) \in AnyTree
      BY <3>1, <3>4, AnySets
    <3> QED
      BY <2>2, <3>1, <3>5, AnySets DEF rotate_left
  <2> QED
    BY <2>1, <2>2
<1>3. rotate_right(t) \in AnyTree
  <2>1. CASE Null(t) \/ Null(rb_left(t))
    BY <2>1 DEF rotate_right
  <2>2. CASE ~(Null(t) \/ Null(rb_left(t)))
    <3>1. t # Nil /\ t.left # Nil /\ t.left \in AnyTree /\ t.color \in Colors
      BY <2>2, AnyParts DEF Null
    <3>2. t.left.right \in AnyTree
      BY <3>1, AnyParts
    <3>3. rb_set_left(t, t.left.right) \in AnyTree
      BY <3>2, AnySets
    <3>4. rb_set_color(rb_set_left(t, t.left.right), "RED") \in AnyTree
      BY <1>1, <3>3, AnySets
    <3>5. rb_set_right(t.left, rb_set_color(rb_set_left(t, t.left.right), "RED")) \in AnyTree
      BY <3>1, <3>4, AnySets
    <3> QED
      BY <2>2, <3>1, <3>5, AnySets DEF rotate_right
  <2> QED
    BY <2>1, <2>2
<1> QED
  BY <1>2, <1>3

LEMMA AnyFixed ==
    ASSUME NEW t \in AnyTree
    PROVE  fix_up(t) \in AnyTree
<1> DEFINE a == IF IsRed(rb_right(t)) /\ ~IsRed(rb_left(t)) THEN rotate_left(t) ELSE t
           b == IF IsRed(rb_left(a)) /\ IsRed(rb_left(rb_left(a))) THEN rotate_right(a) ELSE a
           u == IF IsRed(rb_left(b)) /\ IsRed(rb_right(b)) THEN flip_colors(b) ELSE b
<1>1. a \in AnyTree
  BY AnyTurns
<1> HIDE DEF a
<1>2. b \in AnyTree
  BY <1>1, AnyTurns
<1> HIDE DEF b
<1>3. flip_colors(b) \in AnyTree
  <2>1. "RED" \in Colors /\ "BLACK" \in Colors
    BY DEF Colors
  <2>2. rb_left(b) \in AnyTree /\ rb_right(b) \in AnyTree
    BY <1>2, AnyParts
  <2>3. rb_set_color(rb_right(b), "BLACK") \in AnyTree /\ rb_set_color(rb_left(b), "BLACK") \in AnyTree
    BY <2>1, <2>2, AnySets
  <2>4. rb_set_right(b, rb_set_color(rb_right(b), "BLACK")) \in AnyTree
    BY <1>2, <2>3, AnySets
  <2>5. rb_set_left(rb_set_right(b, rb_set_color(rb_right(b), "BLACK")), rb_set_color(rb_left(b), "BLACK"))
           \in AnyTree
    BY <2>3, <2>4, AnySets
  <2> QED
    BY <2>1, <2>5, AnySets DEF flip_colors, Colored
<1>4. u \in AnyTree
  BY <1>2, <1>3
<1>5. fix_up(t) = u
  BY DEF fix_up, a, b
<1> QED
  BY <1>4, <1>5

----------------------------------------------------------------------------
(* Insertion.                                                              *)

\* A recursion that calls itself on trees of fewer nodes has a function.
LEMMA TreeRecursion ==
    ASSUME NEW S, NEW s, s \in S,
           NEW H, H \in Funs(Funs(Tree, S), Funs(Tree, S)),
           \A f, g \in Funs(Tree, S), t \in Tree :
              (\A e \in Tree : nodes[e] < nodes[t] => f[e] = g[e]) => H[f][t] = H[g][t]
    PROVE  \E f \in Funs(Tree, S) : f = H[f]
<1> DEFINE rank == [t \in Tree |-> nodes[t]]
<1>1. rank \in Funs(Tree, Nat)
  BY TreeIs DEF Funs
<1>2. \A f, g \in Funs(Tree, S), t \in Tree :
         (\A e \in Tree : rank[e] < rank[t] => f[e] = g[e]) => H[f][t] = H[g][t]
  OBVIOUS
<1> HIDE DEF rank
<1> QED
  BY ONLY <1>1, <1>2, s \in S, H \in Funs(Funs(Tree, S), Funs(Tree, S)), RecursionExists

Ends == {"done", "error"}

Results == [tree : AnyTree, end : Ends]

LEMMA ResultsAre ==
    /\ \A t \in AnyTree : Done(t) \in Results /\ Escaped(t) \in Results
    /\ \A t : IsDone(Done(t)) /\ ~IsDone(Escaped(t)) /\ Done(t).tree = t /\ Escaped(t).tree = t
    /\ \A r \in Results : r.tree \in AnyTree
BY DEF Done, Escaped, IsDone, Results, Ends

\* The body of insert_impl.
InsertStep(f, k, d, t) ==
    IF Null(t) THEN Done(Node(k, d))
    ELSE LET c   == Cmp(k, t.key)
             sub == f[IF c = "less" THEN t.left ELSE t.right]
         IN CASE c = "reject" -> Escaped(t)
              [] c = "same"   -> Done(fix_up(rb_set_data(t, d)))
              [] OTHER ->
                   IF ~IsDone(sub) THEN Escaped(t)
                   ELSE Done(fix_up(IF c = "less" THEN rb_set_left(t, sub.tree)
                                                  ELSE rb_set_right(t, sub.tree)))

LEMMA NodeIsMade ==
    ASSUME NEW k, NEW d
    PROVE  Node(k, d) = Make(Nil, Nil, "RED", k, d)
BY DEF Node, Make

\* insert-impl is what its recursive definition says.
LEMMA InsertIs ==
    ASSUME NEW k \in Keys, NEW d \in Data
    PROVE  \A t \in Tree : insert_impl(k, d)[t] = InsertStep(insert_impl(k, d), k, d, t)
<1> DEFINE S == Results
           V(f, t) == InsertStep(f, k, d, t)
           H == [f \in Funs(Tree, S) |-> [t \in Tree |-> V(f, t)]]
<1>0. Node(k, d) \in AnyTree
  BY NodeIsMade, TreesAreAny, AnyMake DEF Colors
<1>9. Done(Nil) \in S
  BY TreesAreAny, ResultsAre
<1>1. H \in Funs(Funs(Tree, S), Funs(Tree, S))
  <2>1. ASSUME NEW f \in Funs(Tree, S), NEW t \in Tree PROVE V(f, t) \in S
    <3>1. CASE t = Nil
      BY <1>0, <3>1, ResultsAre DEF InsertStep, Null
    <3>2. CASE t # Nil
      <4> DEFINE sub == f[IF Cmp(k, t.key) = "less" THEN t.left ELSE t.right]
      <4>1. t \in AnyTree /\ t.left \in Tree /\ t.right \in Tree
        BY <3>2, TreesAreAny, TreeParts
      <4>2. sub.tree \in AnyTree
        BY <4>1, ResultsAre DEF Funs
      <4>3. /\ fix_up(rb_set_data(t, d)) \in AnyTree
            /\ fix_up(rb_set_left(t, sub.tree)) \in AnyTree
            /\ fix_up(rb_set_right(t, sub.tree)) \in AnyTree
        BY <4>1, <4>2, AnySets, AnyFixed
      <4>4. /\ Escaped(t) \in S /\ Done(fix_up(rb_set_data(t, d))) \in S
            /\ Done(fix_up(rb_set_left(t, sub.tree))) \in S
            /\ Done(fix_up(rb_set_right(t, sub.tree))) \in S
        BY <4>1, <4>3, ResultsAre
      <4> QED
        BY <3>2, <4>4 DEF InsertStep, Null
    <3> QED
      BY <3>1, <3>2
  <2> HIDE DEF V, S
  <2> QED
    BY <2>1 DEF Funs
<1>2. ASSUME NEW f \in Funs(Tree, S), NEW g \in Funs(Tree, S), NEW t \in Tree,
             \A e \in Tree : nodes[e] < nodes[t] => f[e] = g[e]
      PROVE  H[f][t] = H[g][t]
  <2>1. V(f, t) = V(g, t)
    <3>1. CASE t = Nil
      BY <3>1 DEF InsertStep, Null
    <3>2. CASE t # Nil
      <4>1. /\ t.left \in Tree /\ t.right \in Tree
            /\ nodes[t] = nodes[t.left] + nodes[t.right] + 1
            /\ nodes[t.left] \in Nat /\ nodes[t.right] \in Nat
        BY <3>2, TreeParts
      <4>2. f[t.left] = g[t.left] /\ f[t.right] = g[t.right]
        BY <1>2, <4>1
      <4> QED
        BY <4>2 DEF InsertStep
    <3> QED
      BY <3>1, <3>2
  <2> HIDE DEF V, S
  <2> QED
    BY <2>1
<1>3. \E f \in Funs(Tree, S) : f = H[f]
  <2> HIDE DEF H, S
  <2> QED
    BY ONLY <1>1, <1>2, <1>9, TreeRecursion
<1>4. PICK f \in Funs(Tree, S) : f = [t \in Tree |-> V(f, t)]
  BY <1>3
<1>5. insert_impl(k, d) = CHOOSE g : g = [t \in Tree |-> V(g, t)]
  BY Zenon DEF insert_impl, InsertStep
<1> HIDE DEF V
<1> DEFINE g == insert_impl(k, d)
<1>6. g = [t \in Tree |-> V(g, t)]
  BY <1>4, <1>5
<1> HIDE DEF g
<1>7. ASSUME NEW t \in Tree PROVE g[t] = V(g, t)
  BY <1>6
<1> QED
  BY <1>7 DEF V, g

\* A node with a new left or right subtree, or another entry.
LEMMA SetLeftIs ==
    ASSUME NEW t \in Tree, t # Nil, NEW x \in Tree, nodes[x] + nodes[t.right] < MaxNodes
    PROVE  LET u == rb_set_left(t, x)
           IN /\ u \in Tree /\ u # Nil /\ nodes[u] = nodes[x] + nodes[t.right] + 1
              /\ u.left = x /\ u.right = t.right /\ u.color = t.color /\ u.key = t.key /\ u.data = t.data
              /\ E(u) = E(x) \cup {<<t.key, t.data>>} \cup E(t.right)
<1> DEFINE u == rb_set_left(t, x)
<1>1. u = Make(x, t.right, t.color, t.key, t.data)
  BY NodeSets
<1>2. Fits(x, t.right) /\ t.color \in Colors /\ t.key \in Keys /\ t.data \in Data
  BY TreeParts DEF Fits
<1>3. /\ u \in Tree /\ u # Nil /\ nodes[u] = nodes[x] + nodes[t.right] + 1
      /\ u.left = x /\ u.right = t.right /\ u.color = t.color /\ u.key = t.key /\ u.data = t.data
  BY <1>1, <1>2, MadeIs
<1> HIDE DEF u
<1> QED
  BY <1>3, EntriesOf DEF u

LEMMA SetRightIs ==
    ASSUME NEW t \in Tree, t # Nil, NEW x \in Tree, nodes[t.left] + nodes[x] < MaxNodes
    PROVE  LET u == rb_set_right(t, x)
           IN /\ u \in Tree /\ u # Nil /\ nodes[u] = nodes[t.left] + nodes[x] + 1
              /\ u.left = t.left /\ u.right = x /\ u.color = t.color /\ u.key = t.key /\ u.data = t.data
              /\ E(u) = E(t.left) \cup {<<t.key, t.data>>} \cup E(x)
<1> DEFINE u == rb_set_right(t, x)
<1>1. u = Make(t.left, x, t.color, t.key, t.data)
  BY NodeSets
<1>2. Fits(t.left, x) /\ t.color \in Colors /\ t.key \in Keys /\ t.data \in Data
  BY TreeParts DEF Fits
<1>3. /\ u \in Tree /\ u # Nil /\ nodes[u] = nodes[t.left] + nodes[x] + 1
      /\ u.left = t.left /\ u.right = x /\ u.color = t.color /\ u.key = t.key /\ u.data = t.data
  BY <1>1, <1>2, MadeIs
<1> HIDE DEF u
<1> QED
  BY <1>3, EntriesOf DEF u

LEMMA SetEntryIs ==
    ASSUME NEW t \in Tree, t # Nil, NEW k \in Keys, NEW d \in Data
    PROVE  LET u == rb_set_data(rb_set_key(t, k), d)
           IN /\ u \in Tree /\ u # Nil /\ nodes[u] = nodes[t]
              /\ u.left = t.left /\ u.right = t.right /\ u.color = t.color /\ u.key = k /\ u.data = d
              /\ E(u) = E(t.left) \cup {<<k, d>>} \cup E(t.right)
              /\ rb_set_data(t, d) = rb_set_data(rb_set_key(t, t.key), d)
<1> DEFINE u == rb_set_data(rb_set_key(t, k), d)
<1>1. rb_set_key(t, k) = Make(t.left, t.right, t.color, k, t.data)
      /\ rb_set_key(t, t.key) = Make(t.left, t.right, t.color, t.key, t.data)
      /\ rb_set_data(t, d) = Make(t.left, t.right, t.color, t.key, d)
  BY NodeSets
<1>2. rb_set_data(Make(t.left, t.right, t.color, k, t.data), d) = Make(t.left, t.right, t.color, k, d)
      /\ rb_set_data(Make(t.left, t.right, t.color, t.key, t.data), d) = Make(t.left, t.right, t.color, t.key, d)
  BY MakeSets
<1>3. u = Make(t.left, t.right, t.color, k, d) /\ rb_set_data(t, d) = rb_set_data(rb_set_key(t, t.key), d)
  BY <1>1, <1>2
<1>4. Fits(t.left, t.right) /\ t.color \in Colors /\ nodes[t] = nodes[t.left] + nodes[t.right] + 1
  BY TreeParts, NodeIs
<1>5. /\ u \in Tree /\ u # Nil /\ nodes[u] = nodes[t]
      /\ u.left = t.left /\ u.right = t.right /\ u.color = t.color /\ u.key = k /\ u.data = d
  BY <1>3, <1>4, MadeIs
<1> HIDE DEF u
<1> QED
  BY <1>3, <1>5, EntriesOf DEF u

\* An insertion adds at most one node; one that fails leaves the tree.
LEMMA InsertSizes ==
    ASSUME NEW k \in Keys, NEW d \in Data, NEW t \in Tree, nodes[t] < MaxNodes
    PROVE  LET r == insert_impl(k, d)[t]
           IN IF IsDone(r) THEN r.tree \in Tree /\ r.tree # Nil /\ nodes[r.tree] <= nodes[t] + 1
              ELSE r.tree = t /\ r = Escaped(t)
<1> DEFINE g == insert_impl(k, d)
           P(x) == IF IsDone(g[x]) THEN g[x].tree \in Tree /\ g[x].tree # Nil /\ nodes[g[x].tree] <= nodes[x] + 1
                   ELSE g[x].tree = x /\ g[x] = Escaped(x)
           X == {x \in Tree : nodes[x] < MaxNodes => P(x)}
<1>1. \A x \in Tree : g[x] = InsertStep(g, k, d, x)
  BY InsertIs
<1> HIDE DEF g
<1>2. ASSUME NEW x \in Tree, \A e \in Tree : nodes[e] < nodes[x] => e \in X, nodes[x] < MaxNodes
      PROVE  P(x)
  <2>1. CASE x = Nil
    <3>1. Nil \in Tree /\ nodes[Nil] = 0 /\ Fits(Nil, Nil)
      BY <1>2, <2>1, NilIsTree DEF Fits
    <3>2. Node(k, d) = Make(Nil, Nil, "RED", k, d) /\ "RED" \in Colors
      BY NodeIsMade DEF Colors
    <3>3. Node(k, d) \in Tree /\ Node(k, d) # Nil /\ nodes[Node(k, d)] = 1
      BY <3>1, <3>2, MadeIs
    <3>4. g[x] = Done(Node(k, d))
      BY <1>1, <2>1 DEF InsertStep, Null
    <3> QED
      BY <2>1, <3>1, <3>3, <3>4, ResultsAre
  <2>2. CASE x # Nil
    <3>1. /\ x.left \in Tree /\ x.right \in Tree /\ x.key \in Keys
          /\ nodes[x] = nodes[x.left] + nodes[x.right] + 1
          /\ nodes[x.left] \in Nat /\ nodes[x.right] \in Nat /\ MaxNodes \in Nat
      BY <2>2, TreeParts, HandlesAssumption
    <3>2. P(x.left) /\ P(x.right)
      BY <1>2, <3>1
    <3> HIDE DEF P
    <3>3. CASE Cmp(k, x.key) = "reject"
      <4>1. g[x] = Escaped(x)
        BY <1>1, <2>2, <3>3 DEF InsertStep, Null
      <4> QED
        BY <4>1, ResultsAre DEF P
    <3>4. CASE Cmp(k, x.key) = "same"
      <4> DEFINE y == rb_set_data(x, d)
      <4>1. g[x] = Done(fix_up(y))
        BY <1>1, <2>2, <3>4 DEF InsertStep, Null
      <4>2. y \in Tree /\ y # Nil /\ nodes[y] = nodes[x]
        BY <2>2, <3>1, SetEntryIs
      <4> HIDE DEF y
      <4>3. fix_up(y) \in Tree /\ fix_up(y) # Nil /\ nodes[fix_up(y)] = nodes[x]
        BY <4>2, FixSame, NilNodes DEF Same
      <4> QED
        BY <3>1, <4>1, <4>3, ResultsAre DEF P
    <3>5. CASE Cmp(k, x.key) = "less"
      <4> DEFINE y == rb_set_left(x, g[x.left].tree)
      <4>1. CASE ~IsDone(g[x.left])
        <5>1. g[x] = Escaped(x)
          BY <1>1, <2>2, <3>5, <4>1 DEF InsertStep, Null
        <5> QED
          BY <5>1, ResultsAre DEF P
      <4>2. CASE IsDone(g[x.left])
        <5>1. g[x] = Done(fix_up(y))
          BY <1>1, <2>2, <3>5, <4>2 DEF InsertStep, Null
        <5>2. g[x.left].tree \in Tree /\ nodes[g[x.left].tree] <= nodes[x.left] + 1
              /\ nodes[g[x.left].tree] \in Nat
          BY <3>2, <4>2, TreeIs DEF P
        <5>3. nodes[g[x.left].tree] + nodes[x.right] < MaxNodes
          BY <1>2, <3>1, <5>2
        <5>4. y \in Tree /\ y # Nil /\ nodes[y] = nodes[g[x.left].tree] + nodes[x.right] + 1
          BY <2>2, <5>2, <5>3, SetLeftIs
        <5> HIDE DEF y
        <5>5. fix_up(y) \in Tree /\ fix_up(y) # Nil /\ nodes[fix_up(y)] = nodes[y]
          BY <5>4, FixSame, NilNodes DEF Same
        <5>6. nodes[fix_up(y)] <= nodes[x] + 1
          BY <3>1, <5>2, <5>4, <5>5
        <5> QED
          BY <5>1, <5>5, <5>6, ResultsAre DEF P
      <4> QED
        BY <4>1, <4>2
    <3>6. CASE Cmp(k, x.key) \notin {"reject", "same", "less"}
      <4> DEFINE y == rb_set_right(x, g[x.right].tree)
      <4>1. CASE ~IsDone(g[x.right])
        <5>1. g[x] = Escaped(x)
          BY <1>1, <2>2, <3>6, <4>1 DEF InsertStep, Null
        <5> QED
          BY <5>1, ResultsAre DEF P
      <4>2. CASE IsDone(g[x.right])
        <5>1. g[x] = Done(fix_up(y))
          BY <1>1, <2>2, <3>6, <4>2 DEF InsertStep, Null
        <5>2. g[x.right].tree \in Tree /\ nodes[g[x.right].tree] <= nodes[x.right] + 1
              /\ nodes[g[x.right].tree] \in Nat
          BY <3>2, <4>2, TreeIs DEF P
        <5>3. nodes[x.left] + nodes[g[x.right].tree] < MaxNodes
          BY <1>2, <3>1, <5>2
        <5>4. y \in Tree /\ y # Nil /\ nodes[y] = nodes[x.left] + nodes[g[x.right].tree] + 1
          BY <2>2, <5>2, <5>3, SetRightIs
        <5> HIDE DEF y
        <5>5. fix_up(y) \in Tree /\ fix_up(y) # Nil /\ nodes[fix_up(y)] = nodes[y]
          BY <5>4, FixSame, NilNodes DEF Same
        <5>6. nodes[fix_up(y)] <= nodes[x] + 1
          BY <3>1, <5>2, <5>4, <5>5
        <5> QED
          BY <5>1, <5>5, <5>6, ResultsAre DEF P
      <4> QED
        BY <4>1, <4>2
    <3> QED
      BY <3>3, <3>4, <3>5, <3>6
  <2> QED
    BY <2>1, <2>2
<1>3. Tree \subseteq X
  <2> HIDE DEF P
  <2>1. \A x \in Tree : (\A e \in Tree : nodes[e] < nodes[x] => e \in X) => x \in X
    BY <1>2
  <2> HIDE DEF X
  <2> QED
    BY <2>1, TreeInduction
<1> QED
  BY <1>3 DEF g

\* What an insertion below a node makes of it, before fix_up.
LEMMA InsertBelow ==
    ASSUME NEW k \in Keys, NEW d \in Data, NEW x \in Tree, x # Nil, nodes[x] < MaxNodes,
           IsDone(insert_impl(k, d)[x])
    PROVE  LET g == insert_impl(k, d)
           IN \E y \in Tree :
                 /\ g[x].tree = fix_up(y) /\ y # Nil /\ y.color = x.color /\ y.key = x.key
                 /\ \/ /\ Cmp(k, x.key) = "same" /\ y.left = x.left /\ y.right = x.right
                       /\ E(y) = E(x.left) \cup {<<x.key, d>>} \cup E(x.right)
                    \/ /\ Cmp(k, x.key) = "less" /\ IsDone(g[x.left])
                       /\ y.left = g[x.left].tree /\ y.right = x.right
                       /\ E(y) = E(g[x.left].tree) \cup {<<x.key, x.data>>} \cup E(x.right)
                    \/ /\ Cmp(k, x.key) \notin {"reject", "same", "less"} /\ IsDone(g[x.right])
                       /\ y.left = x.left /\ y.right = g[x.right].tree
                       /\ E(y) = E(x.left) \cup {<<x.key, x.data>>} \cup E(g[x.right].tree)
<1> DEFINE g == insert_impl(k, d)
<1>1. g[x] = InsertStep(g, k, d, x)
  BY InsertIs
<1>2. /\ x.left \in Tree /\ x.right \in Tree /\ x.key \in Keys
      /\ nodes[x] = nodes[x.left] + nodes[x.right] + 1
      /\ nodes[x.left] \in Nat /\ nodes[x.right] \in Nat /\ MaxNodes \in Nat
  BY TreeParts, HandlesAssumption
<1>3. /\ IsDone(g[x.left]) => g[x.left].tree \in Tree /\ nodes[g[x.left].tree] <= nodes[x.left] + 1
      /\ IsDone(g[x.right]) => g[x.right].tree \in Tree /\ nodes[g[x.right].tree] <= nodes[x.right] + 1
  <2>1. nodes[x.left] < MaxNodes /\ nodes[x.right] < MaxNodes
    BY <1>2
  <2> QED
    BY <1>2, <2>1, InsertSizes
<1>4. IsDone(g[x])
  OBVIOUS
<1> HIDE DEF g
<1>5. CASE Cmp(k, x.key) = "reject"
  BY <1>1, <1>4, <1>5, ResultsAre DEF InsertStep, Null
<1>6. CASE Cmp(k, x.key) = "same"
  <2> DEFINE y == rb_set_data(x, d)
  <2>1. g[x] = Done(fix_up(y))
    BY <1>1, <1>6 DEF InsertStep, Null
  <2>2. /\ y \in Tree /\ y # Nil /\ y.left = x.left /\ y.right = x.right /\ y.color = x.color /\ y.key = x.key
        /\ E(y) = E(x.left) \cup {<<x.key, d>>} \cup E(x.right)
    BY <1>2, SetEntryIs
  <2> HIDE DEF y
  <2>3. g[x].tree = fix_up(y)
    BY <2>1, ResultsAre
  <2> QED
    BY <1>6, <2>2, <2>3 DEF g
<1>7. CASE Cmp(k, x.key) = "less"
  <2> DEFINE y == rb_set_left(x, g[x.left].tree)
  <2>1. IsDone(g[x.left])
    BY <1>1, <1>4, <1>7, ResultsAre DEF InsertStep, Null
  <2>2. g[x] = Done(fix_up(y))
    BY <1>1, <1>7, <2>1 DEF InsertStep, Null
  <2>3. g[x.left].tree \in Tree /\ nodes[g[x.left].tree] + nodes[x.right] < MaxNodes
    BY <1>2, <1>3, <2>1, TreeIs
  <2>4. /\ y \in Tree /\ y # Nil /\ y.left = g[x.left].tree /\ y.right = x.right
        /\ y.color = x.color /\ y.key = x.key
        /\ E(y) = E(g[x.left].tree) \cup {<<x.key, x.data>>} \cup E(x.right)
    BY <2>3, SetLeftIs
  <2> HIDE DEF y
  <2>5. g[x].tree = fix_up(y)
    BY <2>2, ResultsAre
  <2> QED
    BY <1>7, <2>1, <2>4, <2>5 DEF g
<1>8. CASE Cmp(k, x.key) \notin {"reject", "same", "less"}
  <2> DEFINE y == rb_set_right(x, g[x.right].tree)
  <2>1. IsDone(g[x.right])
    BY <1>1, <1>4, <1>8, ResultsAre DEF InsertStep, Null
  <2>2. g[x] = Done(fix_up(y))
    BY <1>1, <1>8, <2>1 DEF InsertStep, Null
  <2>3. g[x.right].tree \in Tree /\ nodes[x.left] + nodes[g[x.right].tree] < MaxNodes
    BY <1>2, <1>3, <2>1, TreeIs
  <2>4. /\ y \in Tree /\ y # Nil /\ y.left = x.left /\ y.right = g[x.right].tree
        /\ y.color = x.color /\ y.key = x.key
        /\ E(y) = E(x.left) \cup {<<x.key, x.data>>} \cup E(g[x.right].tree)
    BY <2>3, SetRightIs
  <2> HIDE DEF y
  <2>5. g[x].tree = fix_up(y)
    BY <2>2, ResultsAre
  <2> QED
    BY <1>8, <2>1, <2>4, <2>5 DEF g
<1> QED
  BY <1>5, <1>6, <1>7, <1>8

\* The entries without the one of a key.
Drop(S, k) == {e \in S : e[1] # k}

\* A tree u holds what t held, with d under k.
Inserted(u, t, k, d) == InOrder(u) /\ E(u) = Drop(E(t), k) \cup {<<k, d>>}

\* An insertion keeps the order and puts the entry in place of one with its
\* key.
LEMMA InsertEntries ==
    ASSUME cmp \in Comparators, NEW k \in Keys, NEW d \in Data,
           NEW t \in Tree, nodes[t] < MaxNodes, InOrder(t), IsDone(insert_impl(k, d)[t])
    PROVE  Inserted(insert_impl(k, d)[t].tree, t, k, d)
<1> DEFINE g == insert_impl(k, d)
           P(x) == Inserted(g[x].tree, x, k, d)
           X == {x \in Tree : nodes[x] < MaxNodes /\ InOrder(x) /\ IsDone(g[x]) => P(x)}
<1>1. ASSUME NEW x \in Tree, \A e \in Tree : nodes[e] < nodes[x] => e \in X,
             nodes[x] < MaxNodes, InOrder(x), IsDone(g[x])
      PROVE  P(x)
  <2>1. CASE x = Nil
    <3>1. Node(k, d) = Make(Nil, Nil, "RED", k, d) /\ "RED" \in Colors
      BY NodeIsMade DEF Colors
    <3>2. Fits(Nil, Nil) /\ E(Nil) = {} /\ InOrder(Nil) /\ E(x) = {}
      BY <1>1, <2>1, NilIsTree, NilIsInOrder DEF Fits
    <3> DEFINE n == Node(k, d)
    <3>3. n \in Tree /\ n # Nil /\ n.left = Nil /\ n.right = Nil /\ n.key = k /\ n.data = d
      BY <3>1, <3>2, MadeIs
    <3>4. g[x].tree = n
      BY <2>1, InsertIs, ResultsAre DEF InsertStep, Null
    <3> HIDE DEF n
    <3>5. E(n) = {<<k, d>>}
      BY <3>2, <3>3, EntriesOf
    <3>6. InOrder(n)
      BY <3>2, <3>3, OrderOf
    <3> QED
      BY <3>2, <3>4, <3>5, <3>6 DEF Inserted, Drop
  <2>2. CASE x # Nil
    <3>1. PICK y \in Tree :
                 /\ g[x].tree = fix_up(y) /\ y # Nil /\ y.color = x.color /\ y.key = x.key
                 /\ \/ /\ Cmp(k, x.key) = "same" /\ y.left = x.left /\ y.right = x.right
                       /\ E(y) = E(x.left) \cup {<<x.key, d>>} \cup E(x.right)
                    \/ /\ Cmp(k, x.key) = "less" /\ IsDone(g[x.left])
                       /\ y.left = g[x.left].tree /\ y.right = x.right
                       /\ E(y) = E(g[x.left].tree) \cup {<<x.key, x.data>>} \cup E(x.right)
                    \/ /\ Cmp(k, x.key) \notin {"reject", "same", "less"} /\ IsDone(g[x.right])
                       /\ y.left = x.left /\ y.right = g[x.right].tree
                       /\ E(y) = E(x.left) \cup {<<x.key, x.data>>} \cup E(g[x.right].tree)
      BY <1>1, <2>2, InsertBelow
    <3>2. /\ x.left \in Tree /\ x.right \in Tree /\ x.key \in Keys /\ x.data \in Data
          /\ nodes[x.left] < MaxNodes /\ nodes[x.right] < MaxNodes
          /\ nodes[x.left] < nodes[x] /\ nodes[x.right] < nodes[x]
      <4>1. /\ x.left \in Tree /\ x.right \in Tree /\ x.key \in Keys /\ x.data \in Data
            /\ nodes[x] = nodes[x.left] + nodes[x.right] + 1
            /\ nodes[x.left] \in Nat /\ nodes[x.right] \in Nat /\ MaxNodes \in Nat
        BY <2>2, TreeParts, HandlesAssumption
      <4> QED
        BY <1>1, <4>1
    <3>3. /\ InOrder(x.left) /\ InOrder(x.right)
          /\ \A e \in E(x.left) : Less(e[1], x.key)
          /\ \A e \in E(x.right) : Less(x.key, e[1])
          /\ E(x) = E(x.left) \cup {<<x.key, x.data>>} \cup E(x.right)
          /\ E(x.left) \subseteq Entry /\ E(x.right) \subseteq Entry
      BY <1>1, <2>2, <3>2, OrderOf, EntriesOf
    <3>4. (IsDone(g[x.left]) => P(x.left)) /\ (IsDone(g[x.right]) => P(x.right))
      BY <1>1, <3>2, <3>3
    <3>5. \A e \in E(x.left) \cup E(x.right) : e[1] \in Keys
      BY <3>3 DEF Entry
    <3> HIDE DEF P, g, X
    <3>6. InOrder(y) /\ E(y) = Drop(E(x), k) \cup {<<k, d>>}
      <4>1. CASE Cmp(k, x.key) = "same"
        <5>1. y.left = x.left /\ y.right = x.right /\ E(y) = E(x.left) \cup {<<x.key, d>>} \cup E(x.right)
          BY <3>1, <4>1
        <5>2. k = x.key
          BY <3>2, <4>1, OrderIs
        <5>3. InOrder(y)
          BY <3>1, <3>3, <5>1, OrderOf
        <5>4. \A e \in E(x.left) \cup E(x.right) : e[1] # k
          BY <3>2, <3>3, <3>5, <5>2, OrderIs
        <5>5. Drop(E(x), k) = E(x.left) \cup E(x.right)
          BY <3>3, <5>2, <5>4 DEF Drop
        <5> QED
          BY <5>1, <5>2, <5>3, <5>5
      <4>2. CASE Cmp(k, x.key) = "less"
        <5> DEFINE l == g[x.left].tree
        <5>1. y.left = l /\ y.right = x.right /\ E(y) = E(l) \cup {<<x.key, x.data>>} \cup E(x.right)
              /\ InOrder(l) /\ E(l) = Drop(E(x.left), k) \cup {<<k, d>>}
          BY <3>1, <3>4, <4>2 DEF P, Inserted
        <5> HIDE DEF l
        <5>2. k # x.key /\ \A e \in E(x.right) : e[1] # k
          BY <3>2, <3>3, <3>5, <4>2, OrderIs DEF Less
        <5>3. \A e \in E(l) : Less(e[1], x.key)
          BY <3>3, <4>2, <5>1 DEF Drop, Less
        <5>4. InOrder(y)
          BY <3>1, <3>3, <5>1, <5>3, OrderOf
        <5>5. Drop(E(x), k) = Drop(E(x.left), k) \cup {<<x.key, x.data>>} \cup E(x.right)
          BY <3>3, <5>2 DEF Drop
        <5> QED
          BY <5>1, <5>4, <5>5
      <4>3. CASE Cmp(k, x.key) \notin {"reject", "same", "less"}
        <5> DEFINE r == g[x.right].tree
        <5>1. y.left = x.left /\ y.right = r /\ E(y) = E(x.left) \cup {<<x.key, x.data>>} \cup E(r)
              /\ InOrder(r) /\ E(r) = Drop(E(x.right), k) \cup {<<k, d>>}
          BY <3>1, <3>4, <4>3 DEF P, Inserted
        <5> HIDE DEF r
        <5>2. Less(x.key, k)
          BY <3>2, <4>3, OrderIs
        <5>3. k # x.key /\ \A e \in E(x.left) : e[1] # k
          BY <3>2, <3>3, <3>5, <5>2, OrderIs
        <5>4. \A e \in E(r) : Less(x.key, e[1])
          BY <3>3, <5>1, <5>2 DEF Drop
        <5>5. InOrder(y)
          BY <3>1, <3>3, <5>1, <5>4, OrderOf
        <5>6. Drop(E(x), k) = E(x.left) \cup {<<x.key, x.data>>} \cup Drop(E(x.right), k)
          BY <3>3, <5>3 DEF Drop
        <5> QED
          BY <5>1, <5>5, <5>6
      <4> QED
        BY <3>1, <4>1, <4>2, <4>3
    <3>7. Same(fix_up(y), y)
      BY <3>1, FixSame
    <3> QED
      BY <3>1, <3>6, <3>7, SameEntries DEF P, Inserted
  <2> QED
    BY <2>1, <2>2
<1>2. Tree \subseteq X
  <2> HIDE DEF P, g
  <2>1. \A x \in Tree : (\A e \in Tree : nodes[e] < nodes[x] => e \in X) => x \in X
    BY <1>1
  <2> HIDE DEF X
  <2> QED
    BY <2>1, TreeInduction
<1> QED
  BY <1>2

\* Below a red node an insertion may leave two reds in a row, on the left.
Chain(u, h) == Balanced(u, h) /\ u.color = "RED" /\ IsRed(u.left) /\ ~IsRed(u.right)

Grown(u, t, h) == Sound(u, h) \/ (IsRed(t) /\ Chain(u, h))

\* What an insertion makes of a sound tree is sound, but for two reds in a
\* row under a red node.
LEMMA InsertBalance ==
    ASSUME NEW k \in Keys, NEW d \in Data, NEW t \in Tree, nodes[t] < MaxNodes,
           NEW h \in Nat, Sound(t, h), IsDone(insert_impl(k, d)[t])
    PROVE  Grown(insert_impl(k, d)[t].tree, t, h)
<1> DEFINE g == insert_impl(k, d)
           P(x, n) == Grown(g[x].tree, x, n)
           X == {x \in Tree : \A n \in Nat : nodes[x] < MaxNodes /\ Sound(x, n) /\ IsDone(g[x]) => P(x, n)}
<1>1. ASSUME NEW x \in Tree, \A e \in Tree : nodes[e] < nodes[x] => e \in X,
             nodes[x] < MaxNodes, NEW n \in Nat, Sound(x, n), IsDone(g[x])
      PROVE  P(x, n)
  <2>1. CASE x = Nil
    <3>1. Node(k, d) = Make(Nil, Nil, "RED", k, d) /\ "RED" \in Colors
      BY NodeIsMade DEF Colors
    <3>2. Fits(Nil, Nil) /\ Sound(Nil, 1) /\ ~IsRed(Nil) /\ n = 1
      BY <1>1, <2>1, NilIsTree, NilIsSound DEF Fits
    <3> DEFINE m == Node(k, d)
    <3>3. m \in Tree /\ m # Nil /\ m.left = Nil /\ m.right = Nil /\ m.color = "RED"
      BY <3>1, <3>2, MadeIs
    <3>4. g[x].tree = m
      BY <2>1, InsertIs, ResultsAre DEF InsertStep, Null
    <3> HIDE DEF m
    <3>5. Balanced(m, 1)
      BY <3>2, <3>3 DEF Balanced
    <3>6. Sound(m, 1)
      BY <3>2, <3>3, <3>5, SoundNode DEF Up
    <3> QED
      BY <3>2, <3>4, <3>6 DEF Grown
  <2>2. CASE x # Nil
    <3>1. PICK y \in Tree :
                 /\ g[x].tree = fix_up(y) /\ y # Nil /\ y.color = x.color
                 /\ \/ y.left = x.left /\ y.right = x.right
                    \/ IsDone(g[x.left]) /\ y.left = g[x.left].tree /\ y.right = x.right
                    \/ IsDone(g[x.right]) /\ y.left = x.left /\ y.right = g[x.right].tree
      BY <1>1, <2>2, InsertBelow
    <3>2. /\ x.left \in Tree /\ x.right \in Tree
          /\ nodes[x.left] < MaxNodes /\ nodes[x.right] < MaxNodes
          /\ nodes[x.left] < nodes[x] /\ nodes[x.right] < nodes[x]
      <4>1. /\ x.left \in Tree /\ x.right \in Tree
            /\ nodes[x] = nodes[x.left] + nodes[x.right] + 1
            /\ nodes[x.left] \in Nat /\ nodes[x.right] \in Nat /\ MaxNodes \in Nat
        BY <2>2, TreeParts, HandlesAssumption
      <4> QED
        BY <1>1, <4>1
    <3>3. PICK p \in Nat : Balanced(x, p) /\ n = Up(x.color, p)
      BY <1>1, <2>2, SoundParts
    <3>4. ~IsRed(x.right) /\ (x.color = "RED" => ~IsRed(x.left)) /\ (IsRed(x) <=> x.color = "RED")
      BY <1>1, <2>2, SoundParts, RedIs
    <3>5. Sound(x.left, p) /\ Sound(x.right, p)
      BY <3>3 DEF Balanced
    <3>6. (IsDone(g[x.left]) => P(x.left, p)) /\ (IsDone(g[x.right]) => P(x.right, p))
      BY <1>1, <3>2, <3>5
    <3> HIDE DEF P, g, X
    <3> DEFINE u == fix_up(y)
    <3>7. CASE x.color = "RED"
      <4>1. Sound(y.left, p) /\ Sound(y.right, p) /\ (~IsRed(y.left) \/ ~IsRed(y.right))
        BY <3>1, <3>4, <3>5, <3>6, <3>7 DEF P, Grown
      <4>2. Balanced(y, p)
        BY <3>1, <4>1 DEF Balanced
      <4>3. Balanced(u, p) /\ u.color = "RED" /\ ~IsRed(u.right)
        BY <3>1, <3>7, <4>1, <4>2, FixMakes
      <4> HIDE DEF u
      <4>4. Sound(u, p) \/ Chain(u, p)
        BY <4>3, SoundNode DEF Chain, Up
      <4>5. n = p
        BY <3>3, <3>7 DEF Up
      <4> QED
        BY <3>1, <3>4, <3>7, <4>4, <4>5 DEF Grown, P, u
    <3>8. CASE x.color # "RED" /\ Sound(y.left, p)
      <4>1. Sound(y.right, p)
        BY <3>1, <3>4, <3>5, <3>6 DEF P, Grown
      <4>2. Balanced(y, p)
        BY <3>1, <3>8, <4>1 DEF Balanced
      <4>3. Sound(u, p + 1)
        BY <3>1, <3>8, <4>2, FixBlack
      <4>4. n = p + 1
        BY <3>3, <3>8 DEF Up
      <4> QED
        BY <3>1, <4>3, <4>4 DEF Grown, P
    <3>9. CASE x.color # "RED" /\ ~Sound(y.left, p)
      <4>1. Chain(y.left, p) /\ y.right = x.right
        BY <3>1, <3>5, <3>6, <3>9 DEF P, Grown
      <4>2. IsRed(y.left) /\ Balanced(y.left, p) /\ IsRed(y.left.left) /\ ~IsRed(y.left.right)
        BY <4>1, RedIs DEF Chain, Balanced
      <4>3. Sound(u, p + 1)
        BY <3>1, <3>4, <3>5, <4>1, <4>2, FixChain
      <4>4. n = p + 1
        BY <3>3, <3>9 DEF Up
      <4> QED
        BY <3>1, <4>3, <4>4 DEF Grown, P
    <3> QED
      BY <3>7, <3>8, <3>9
  <2> QED
    BY <2>1, <2>2
<1>2. Tree \subseteq X
  <2> HIDE DEF P, g
  <2>1. \A x \in Tree : (\A e \in Tree : nodes[e] < nodes[x] => e \in X) => x \in X
    BY <1>1
  <2> HIDE DEF X
  <2> QED
    BY <2>1, TreeInduction
<1> QED
  BY <1>2

\* A tree as a handle keeps it.
Good(t) == ~IsRed(t) /\ InOrder(t) /\ \E h \in Nat : Sound(t, h)

\* rb-insert makes a good tree of a good one.
LEMMA InsertGood ==
    ASSUME cmp \in Comparators, NEW k \in Keys, NEW d \in Data,
           NEW t \in Tree, nodes[t] < MaxNodes, Good(t)
    PROVE  LET r == rb_insert(t, k, d)
           IN IF IsDone(r) THEN r.tree \in Tree /\ Good(r.tree) /\ E(r.tree) = Drop(E(t), k) \cup {<<k, d>>}
              ELSE r.tree = t
<1> DEFINE r == insert_impl(k, d)[t]
           u == rb_set_color(r.tree, "BLACK")
<1>1. CASE ~IsDone(r)
  <2>1. rb_insert(t, k, d) = r /\ r.tree = t
    BY <1>1, InsertSizes DEF rb_insert
  <2> QED
    BY <1>1, <2>1
<1>2. CASE IsDone(r)
  <2>1. rb_insert(t, k, d) = Done(u)
    BY <1>2 DEF rb_insert
  <2>2. PICK h \in Nat : Sound(t, h)
    BY DEF Good
  <2>3. r.tree \in Tree /\ Inserted(r.tree, t, k, d) /\ Sound(r.tree, h)
    BY <1>2, <2>2, InsertSizes, InsertEntries, InsertBalance DEF Good, Grown
  <2>4. ~IsRed(u) /\ Same(u, r.tree) /\ \E n \in Nat : Sound(u, n)
    BY <2>2, <2>3, PaintedBlack DEF Sound
  <2> HIDE DEF u
  <2>5. u \in Tree /\ Good(u) /\ E(u) = Drop(E(t), k) \cup {<<k, d>>}
    BY <2>3, <2>4, SameEntries DEF Good, Inserted
  <2>6. IsDone(Done(u)) /\ Done(u).tree = u
    BY ResultsAre
  <2> QED
    BY <2>1, <2>5, <2>6
<1> QED
  BY <1>1, <1>2

----------------------------------------------------------------------------
(* Moving a red link along, before a deletion goes down.                   *)

LEMMA SetSame ==
    ASSUME NEW t \in Tree, t # Nil, NEW x
    PROVE  /\ Same(x, t.right) => Same(rb_set_right(t, x), t)
           /\ Same(x, t.left) => Same(rb_set_left(t, x), t)
<1>1. /\ walk[t] = Join(walk[t.left], t.key, t.data, walk[t.right])
      /\ nodes[t] = nodes[t.left] + nodes[t.right] + 1
      /\ Fits(t.left, t.right)
  BY NodeIs, TreeParts
<1>2. ASSUME Same(x, t.right) PROVE Same(rb_set_right(t, x), t)
  <2> DEFINE u == rb_set_right(t, x)
  <2>1. x \in Tree /\ nodes[x] = nodes[t.right] /\ walk[x] = walk[t.right]
    BY <1>2 DEF Same
  <2>2. nodes[t.left] + nodes[x] < MaxNodes
    BY <1>1, <2>1 DEF Fits
  <2>3. /\ u \in Tree /\ u # Nil /\ nodes[u] = nodes[t.left] + nodes[x] + 1
        /\ u.left = t.left /\ u.right = x /\ u.key = t.key /\ u.data = t.data
    BY <2>1, <2>2, SetRightIs
  <2> HIDE DEF u
  <2>4. walk[u] = Join(walk[t.left], t.key, t.data, walk[x])
    BY <2>3, NodeIs
  <2> QED
    BY <1>1, <2>1, <2>3, <2>4 DEF Same, u
<1>3. ASSUME Same(x, t.left) PROVE Same(rb_set_left(t, x), t)
  <2> DEFINE u == rb_set_left(t, x)
  <2>1. x \in Tree /\ nodes[x] = nodes[t.left] /\ walk[x] = walk[t.left]
    BY <1>3 DEF Same
  <2>2. nodes[x] + nodes[t.right] < MaxNodes
    BY <1>1, <2>1 DEF Fits
  <2>3. /\ u \in Tree /\ u # Nil /\ nodes[u] = nodes[x] + nodes[t.right] + 1
        /\ u.left = x /\ u.right = t.right /\ u.key = t.key /\ u.data = t.data
    BY <2>1, <2>2, SetLeftIs
  <2> HIDE DEF u
  <2>4. walk[u] = Join(walk[x], t.key, t.data, walk[t.right])
    BY <2>3, NodeIs
  <2> QED
    BY <1>1, <2>1, <2>3, <2>4 DEF Same, u
<1> QED
  BY <1>2, <1>3

LEMMA MoveLeftSame ==
    ASSUME NEW t \in Tree, t # Nil
    PROVE  Same(move_red_left(t), t)
<1> DEFINE a == flip_colors_delete(t)
           x == rotate_right(a.right)
           y == rb_set_right(a, x)
           z == rotate_left(y)
           u == flip_colors_delete(z)
<1>1. Same(a, t)
  BY FlipSame
<1> HIDE DEF a
<1>2. a \in Tree /\ a # Nil
  BY <1>1, NilNodes DEF Same
<1>3. Same(x, a.right)
  BY <1>2, TreeParts, RotateSame
<1> HIDE DEF x
<1>4. Same(y, a)
  BY <1>2, <1>3, SetSame
<1> HIDE DEF y
<1>5. y \in Tree
  BY <1>4 DEF Same
<1>6. Same(z, y)
  BY <1>5, RotateSame
<1>7. Same(z, t)
  BY <1>1, <1>4, <1>6 DEF Same
<1> HIDE DEF z
<1>8. z \in Tree /\ z # Nil
  BY <1>7, NilNodes DEF Same
<1>9. Same(u, z)
  BY <1>8, FlipSame
<1>10. move_red_left(t) = u \/ move_red_left(t) = a
  BY DEF move_red_left, a, x, y, z
<1> HIDE DEF u
<1> QED
  BY <1>1, <1>7, <1>9, <1>10 DEF Same

LEMMA MoveRightSame ==
    ASSUME NEW t \in Tree, t # Nil
    PROVE  /\ Same(move_red_right(t), t)
           /\ t.right # Nil => move_red_right(t).right # Nil
<1> DEFINE a == flip_colors_delete(t)
           z == rotate_right(a)
           u == flip_colors_delete(z)
<1>0. \A x : Flipped(x) \in Colors
  BY DEF Flipped, Colors
<1>1. Same(a, t) /\ a.right = rb_set_color(t.right, Flipped(rb_right(t)))
  BY <1>0, FlipSame, ColoredNode DEF flip_colors_delete
<1> HIDE DEF a
<1>2. a \in Tree /\ a # Nil
  BY <1>1, NilNodes DEF Same
<1>3. Same(z, a)
  BY <1>2, RotateSame
<1>4. z \in Tree /\ z # Nil
  BY <1>2, <1>3, NilNodes DEF Same
<1>5. Same(u, z) /\ u.right = rb_set_color(z.right, Flipped(rb_right(z)))
  BY <1>0, <1>4, FlipSame, ColoredNode DEF flip_colors_delete
<1>6. move_red_right(t) = IF IsRed(rb_left(rb_left(a))) THEN u ELSE a
  BY DEF move_red_right, a
<1>7. ASSUME IsRed(rb_left(rb_left(a))) PROVE z.right # Nil
  <2>1. a.left # Nil
    <3>1. rb_left(a) = a.left
      BY <1>2, NodeIs
    <3> QED
      BY <1>7, <3>1 DEF IsRed, rb_color, rb_left, Null
  <2>2. z = Make(a.left.left, Make(a.left.right, a.right, "RED", a.key, a.data), a.color, a.left.key, a.left.data)
    BY <1>2, <2>1, RotatedRight
  <2>3. z.right = Make(a.left.right, a.right, "RED", a.key, a.data)
    BY <2>2, MakeReads
  <2> QED
    BY <2>3, NilIsNoNode
<1> HIDE DEF z, u
<1>8. ASSUME NEW x \in Tree, NEW y PROVE rb_set_color(x, Flipped(y)) = Nil <=> x = Nil
  <2>1. Same(rb_set_color(x, Flipped(y)), x)
    BY <1>0, PaintIs
  <2> QED
    BY <2>1, NilNodes DEF Same
<1>9. t.right \in Tree /\ z.right \in Tree
  BY <1>4, TreeParts
<1>10. (t.right # Nil => a.right # Nil) /\ (z.right # Nil => u.right # Nil)
  BY <1>1, <1>5, <1>8, <1>9
<1> QED
  BY <1>1, <1>3, <1>5, <1>6, <1>7, <1>10 DEF Same

LEMMA FlipDelete ==
    ASSUME NEW t \in Tree, t # Nil
    PROVE  LET u == flip_colors_delete(t)
           IN /\ u \in Tree /\ u # Nil /\ Same(u, t)
              /\ u.left = rb_set_color(t.left, Flipped(t.left))
              /\ u.right = rb_set_color(t.right, Flipped(t.right))
              /\ u.color = Flipped(t) /\ u.key = t.key /\ u.data = t.data
<1>1. \A x : Flipped(x) \in Colors
  BY DEF Flipped, Colors
<1>2. rb_left(t) = t.left /\ rb_right(t) = t.right
  BY NodeIs
<1>3. flip_colors_delete(t) = Colored(t, Flipped(t), Flipped(t.left), Flipped(t.right))
  BY <1>2 DEF flip_colors_delete
<1>4. Flipped(t) \in Colors /\ Flipped(t.left) \in Colors /\ Flipped(t.right) \in Colors
  BY <1>1
<1> DEFINE u == Colored(t, Flipped(t), Flipped(t.left), Flipped(t.right))
<1>5. /\ u \in Tree /\ u # Nil /\ Same(u, t)
      /\ u.left = rb_set_color(t.left, Flipped(t.left))
      /\ u.right = rb_set_color(t.right, Flipped(t.right))
      /\ u.color = Flipped(t) /\ u.key = t.key /\ u.data = t.data
  BY <1>4, ColoredNode
<1> HIDE DEF u
<1> QED
  BY <1>3, <1>5 DEF u

\* A red node with two black subtrees, of which neither is empty.
Starved(t, h) ==
    /\ t # Nil /\ Sound(t, h) /\ h \in Nat /\ t.color = "RED"
    /\ t.left # Nil /\ t.right # Nil

LEMMA StarvedIs ==
    ASSUME NEW t, t # Nil, NEW h \in Nat, Sound(t, h), t.color = "RED", t.left # Nil \/ t.right # Nil
    PROVE  Starved(t, h) /\ Balanced(t, h) /\ ~IsRed(t.left) /\ ~IsRed(t.right) /\ h - 1 \in Nat
<1>1. ~IsRed(t.left) /\ ~IsRed(t.right)
  BY SoundParts
<1>2. Balanced(t, h) /\ h >= 1
  BY SoundParts DEF Up
<1>3. Sound(t.left, h) /\ Sound(t.right, h)
  BY <1>2 DEF Balanced
<1>4. t.left # Nil /\ t.right # Nil
  BY <1>1, <1>3, LowIsNil, NilIsSound
<1> QED
  BY <1>1, <1>2, <1>4 DEF Starved

\* move-red-left brings a red link to the left child of a red node.
LEMMA MovedLeft ==
    ASSUME NEW t, NEW h, Starved(t, h), ~IsRed(t.left.left)
    PROVE  LET u == move_red_left(t)
           IN /\ u \in Tree /\ u # Nil /\ u.left # Nil /\ h - 1 \in Nat
              /\ \/ /\ u.color = "BLACK" /\ u.key = t.key
                    /\ IsRed(u.left) /\ IsRed(u.right) /\ Balanced(u, h - 1)
                 \/ /\ u.color = "RED" /\ u.left.key = t.key
                    /\ ~IsRed(u.left) /\ IsRed(u.left.left) /\ ~IsRed(u.right) /\ Balanced(u, h)
<1> DEFINE g == h - 1
           l == t.left
           r == t.right
           a == flip_colors_delete(t)
           l0 == rb_set_color(l, "RED")
           r0 == rb_set_color(r, "RED")
<1>1. /\ Balanced(t, h) /\ ~IsRed(l) /\ ~IsRed(r) /\ g \in Nat /\ h \in Nat
      /\ t \in Tree /\ t # Nil /\ l # Nil /\ r # Nil /\ t.color = "RED"
      /\ l \in Tree /\ r \in Tree /\ Sound(l, h) /\ Sound(r, h)
  BY StarvedIs DEF Starved, Balanced, Sound
<1>2. Flipped(t) = "BLACK" /\ Flipped(l) = "RED" /\ Flipped(r) = "RED"
  BY <1>1, RedIs DEF Flipped
<1>3. a \in Tree /\ a # Nil /\ a.left = l0 /\ a.right = r0 /\ a.color = "BLACK" /\ a.key = t.key /\ a.data = t.data
  BY <1>1, <1>2, FlipDelete
<1>4. Sound(l0, g) /\ IsRed(l0) /\ l0 # Nil /\ l0 \in Tree
  BY <1>1, PaintedRed DEF Sound
<1>5. r0 \in Tree /\ r0 # Nil /\ r0.left = r.left /\ r0.right = r.right /\ r0.color = "RED"
      /\ r0.key = r.key /\ r0.data = r.data /\ (\A p : Balanced(r, p) => Balanced(r0, p))
  BY <1>1, Painted DEF Colors
<1>6. Balanced(r, g) /\ ~IsRed(r.right)
  <2>1. PICK p \in Nat : Balanced(r, p) /\ h = Up(r.color, p)
    BY <1>1, SoundParts
  <2>2. r.color # "RED"
    BY <1>1, RedIs
  <2>3. p = h - 1
    BY <1>1, <2>1, <2>2 DEF Up
  <2> QED
    BY <1>1, <2>1, <2>3, SoundParts
<1> HIDE DEF l, r, a, l0, r0, g
<1>7. rb_right(a) = r0 /\ rb_left(r0) = r.left
  BY <1>3, <1>5, NodeIs
<1>8. CASE ~IsRed(r.left)
  <2>1. move_red_left(t) = a
    BY <1>7, <1>8 DEF move_red_left, a
  <2>2. Sound(r0, g) /\ IsRed(r0)
    BY <1>1, <1>8, PaintedRed DEF r0, g
  <2>3. Balanced(a, g)
    BY <1>1, <1>3, <1>4, <2>2 DEF Balanced
  <2> QED
    BY <1>1, <1>3, <1>4, <2>1, <2>2, <2>3 DEF g
<1>9. CASE IsRed(r.left)
  <2> DEFINE rl == r.left
             n == Make(rl.right, r.right, "RED", r.key, r.data)
             x == rotate_right(r0)
             y == rb_set_right(a, x)
             m == Make(l0, rl.left, "RED", t.key, t.data)
             z == rotate_left(y)
             u == flip_colors_delete(z)
  <2>1. rl # Nil /\ rl \in Tree /\ Sound(rl, g) /\ Sound(r.right, g)
    BY <1>6, <1>9, NilIsSound DEF Balanced, Sound
  <2>2. Sound(rl.left, g) /\ Sound(rl.right, g) /\ ~IsRed(rl.left) /\ ~IsRed(rl.right)
    <3> HIDE DEF rl
    <3>1. rl.color = "RED"
      BY <1>9, <2>1, RedIs DEF rl
    <3>2. Balanced(rl, g)
      BY <2>1, <3>1, SoundParts DEF Up
    <3> QED
      BY <2>1, <3>1, <3>2, SoundParts DEF Balanced
  <2>3. /\ x = Make(rl.left, n, "RED", rl.key, rl.data)
        /\ Same(x, r0) /\ Fits(rl.right, r.right)
    <3>1. r0.left # Nil
      BY <1>5, <2>1
    <3> QED
      BY <1>5, <3>1, RotatedRight
  <2>4. x \in Tree /\ x # Nil /\ x.left = rl.left /\ x.right = n
    BY <1>5, <2>3, MakeReads DEF Same
  <2>5. Same(y, a)
    BY <1>3, <2>3, SetSame
  <2>6. y = Make(l0, x, "BLACK", t.key, t.data)
    <3> HIDE DEF x
    <3> QED
      BY <1>3, NodeSets
  <2> HIDE DEF x
  <2>7. y \in Tree /\ y # Nil /\ y.left = l0 /\ y.right = x /\ y.color = "BLACK" /\ y.key = t.key /\ y.data = t.data
    BY <2>5, <2>6, MakeReads DEF Same
  <2> HIDE DEF y
  <2>8. z = Make(m, n, "BLACK", x.key, x.data) /\ Same(z, y) /\ Fits(l0, rl.left)
    <3>1. y.right # Nil
      BY <2>4, <2>7
    <3>2. /\ z = Make(Make(y.left, y.right.left, "RED", y.key, y.data), y.right.right, y.color,
                       y.right.key, y.right.data)
          /\ Fits(y.left, y.right.left) /\ Same(z, y)
      BY <2>7, <3>1, RotatedLeft
    <3> HIDE DEF n, rl, z
    <3> QED
      BY <2>4, <2>7, <3>2
  <2>9. z \in Tree /\ z # Nil /\ z.left = m /\ z.right = n /\ z.color = "BLACK"
    <3>1. z \in Tree
      BY <2>8 DEF Same
    <3> HIDE DEF m, n
    <3> QED
      BY <2>8, <3>1, MakeReads
  <2>10. /\ m \in Tree /\ m # Nil /\ m.left = l0 /\ m.right = rl.left /\ m.color = "RED" /\ m.key = t.key
         /\ n \in Tree /\ n # Nil /\ n.left = rl.right /\ n.right = r.right /\ n.color = "RED"
    <3>1. "RED" \in Colors /\ t.key \in Keys /\ t.data \in Data /\ r.key \in Keys /\ r.data \in Data
      BY <1>1, TreeParts DEF Colors
    <3>2. /\ m \in Tree /\ m # Nil /\ m.left = l0 /\ m.right = rl.left /\ m.color = "RED" /\ m.key = t.key
      BY <2>8, <3>1, MadeIs
    <3>3. /\ n \in Tree /\ n # Nil /\ n.left = rl.right /\ n.right = r.right /\ n.color = "RED"
      BY <2>3, <3>1, MadeIs
    <3> QED
      BY <3>2, <3>3
  <2> HIDE DEF m, n, z
  <2>11. Flipped(z) = "RED" /\ Flipped(m) = "BLACK" /\ Flipped(n) = "BLACK"
    BY <2>9, <2>10, RedIs DEF Flipped
  <2> DEFINE m0 == rb_set_color(m, "BLACK")
             n0 == rb_set_color(n, "BLACK")
  <2>12. u \in Tree /\ u # Nil /\ u.left = m0 /\ u.right = n0 /\ u.color = "RED"
    BY <2>9, <2>11, FlipDelete
  <2>13. Balanced(m, g) /\ Balanced(n, g)
    BY <1>1, <1>4, <2>1, <2>2, <2>10 DEF Balanced
  <2>14. /\ Balanced(m0, g) /\ m0 # Nil /\ m0.left = l0 /\ m0.right = rl.left /\ m0.color = "BLACK" /\ m0.key = t.key
         /\ Balanced(n0, g) /\ n0 # Nil /\ n0.right = r.right /\ n0.color = "BLACK" /\ ~IsRed(m0) /\ ~IsRed(n0)
    <3>1. "BLACK" \in Colors
      BY DEF Colors
    <3> QED
      BY <2>10, <2>13, <3>1, Painted
  <2> HIDE DEF m0, n0, u, rl
  <2>15. Sound(m0, h) /\ Sound(n0, h)
    <3>1. Up("BLACK", g) = h
      BY <1>1 DEF Up, g
    <3> QED
      BY <1>6, <2>2, <2>14, <3>1, SoundNode
  <2>16. Balanced(u, h)
    BY <1>1, <2>12, <2>15 DEF Balanced
  <2>17. move_red_left(t) = u
    <3>1. a.right = r0
      BY <1>3
    <3> QED
      BY <1>7, <1>9, <3>1 DEF move_red_left, a, u, z, y, x
  <2> QED
    BY <1>1, <1>4, <2>12, <2>14, <2>16, <2>17 DEF g
<1> QED
  BY <1>8, <1>9

\* A black node that leans right, as a deletion makes it on its way right.
LeansRight(t, h) ==
    h - 1 \in Nat /\ Balanced(t, h - 1) /\ t.color = "BLACK" /\ ~IsRed(t.left) /\ IsRed(t.right)

\* move-red-right brings one to the right child, or leaves a node that leans
\* to the right below.
LEMMA MovedRight ==
    ASSUME NEW t, NEW h, Starved(t, h), ~IsRed(t.right.left)
    PROVE  LET u == move_red_right(t)
           IN /\ u \in Tree /\ u # Nil /\ h - 1 \in Nat
              /\ \/ /\ u.color = "BLACK" /\ u.key = t.key
                    /\ IsRed(u.left) /\ IsRed(u.right) /\ Balanced(u, h - 1)
                 \/ /\ u.color = "RED" /\ ~IsRed(u.left) /\ Sound(u.left, h)
                    /\ LeansRight(u.right, h) /\ u.right.key = t.key
<1> DEFINE g == h - 1
           l == t.left
           r == t.right
           a == flip_colors_delete(t)
           l0 == rb_set_color(l, "RED")
           r0 == rb_set_color(r, "RED")
<1>1. /\ Balanced(t, h) /\ ~IsRed(l) /\ ~IsRed(r) /\ g \in Nat /\ h \in Nat
      /\ t \in Tree /\ t # Nil /\ l # Nil /\ r # Nil /\ t.color = "RED"
      /\ l \in Tree /\ r \in Tree /\ Sound(l, h) /\ Sound(r, h)
  BY StarvedIs DEF Starved, Balanced, Sound
<1>2. Flipped(t) = "BLACK" /\ Flipped(l) = "RED" /\ Flipped(r) = "RED"
  BY <1>1, RedIs DEF Flipped
<1>3. a \in Tree /\ a # Nil /\ a.left = l0 /\ a.right = r0 /\ a.color = "BLACK" /\ a.key = t.key /\ a.data = t.data
  BY <1>1, <1>2, FlipDelete
<1>4. Sound(r0, g) /\ IsRed(r0) /\ r0 # Nil /\ r0 \in Tree
  BY <1>1, PaintedRed DEF Sound
<1>5. l0 \in Tree /\ l0 # Nil /\ l0.left = l.left /\ l0.right = l.right /\ l0.color = "RED"
      /\ l0.key = l.key /\ l0.data = l.data /\ (\A p : Balanced(l, p) => Balanced(l0, p))
  BY <1>1, Painted DEF Colors
<1>6. Balanced(l, g) /\ ~IsRed(l.right)
  <2>1. PICK p \in Nat : Balanced(l, p) /\ h = Up(l.color, p)
    BY <1>1, SoundParts
  <2>2. l.color # "RED"
    BY <1>1, RedIs
  <2>3. p = h - 1
    BY <1>1, <2>1, <2>2 DEF Up
  <2> QED
    BY <1>1, <2>1, <2>3, SoundParts
<1> HIDE DEF l, r, a, l0, r0, g
<1>7. rb_left(a) = l0 /\ rb_left(l0) = l.left
  BY <1>3, <1>5, NodeIs
<1>8. CASE ~IsRed(l.left)
  <2>1. move_red_right(t) = a
    BY <1>7, <1>8 DEF move_red_right, a
  <2>2. Sound(l0, g) /\ IsRed(l0)
    BY <1>1, <1>8, PaintedRed DEF l0, g
  <2>3. Balanced(a, g)
    BY <1>1, <1>3, <1>4, <2>2 DEF Balanced
  <2> QED
    BY <1>1, <1>3, <1>4, <2>1, <2>2, <2>3 DEF g
<1>9. CASE IsRed(l.left)
  <2> DEFINE n == Make(l.right, r0, "RED", t.key, t.data)
             z == rotate_right(a)
             u == flip_colors_delete(z)
  <2>1. Sound(l.left, g) /\ Sound(l.right, g) /\ l.left \in Tree
    BY <1>6 DEF Balanced, Sound
  <2>2. /\ z = Make(l.left, n, "BLACK", l.key, l.data)
        /\ Same(z, a) /\ Fits(l.right, r0)
    <3>1. a.left # Nil
      BY <1>3, <1>5
    <3>2. /\ z = Make(a.left.left, Make(a.left.right, a.right, "RED", a.key, a.data), a.color,
                       a.left.key, a.left.data)
          /\ Fits(a.left.right, a.right) /\ Same(z, a)
      BY <1>3, <3>1, RotatedRight
    <3> HIDE DEF z
    <3> QED
      BY <1>3, <1>5, <3>2
  <2>3. z \in Tree /\ z # Nil /\ z.left = l.left /\ z.right = n /\ z.color = "BLACK"
    <3>1. z \in Tree
      BY <2>2 DEF Same
    <3> HIDE DEF n
    <3> QED
      BY <2>2, <3>1, MakeReads
  <2>4. n \in Tree /\ n # Nil /\ n.left = l.right /\ n.right = r0 /\ n.color = "RED" /\ n.key = t.key
    <3>1. "RED" \in Colors /\ t.key \in Keys /\ t.data \in Data
      BY <1>1, TreeParts DEF Colors
    <3> QED
      BY <2>2, <3>1, MadeIs
  <2> HIDE DEF n, z
  <2>5. Flipped(z) = "RED" /\ Flipped(l.left) = "BLACK" /\ Flipped(n) = "BLACK"
    BY <1>9, <2>3, <2>4, RedIs DEF Flipped
  <2> DEFINE m0 == rb_set_color(l.left, "BLACK")
             n0 == rb_set_color(n, "BLACK")
  <2>6. u \in Tree /\ u # Nil /\ u.left = m0 /\ u.right = n0 /\ u.color = "RED"
    BY <2>3, <2>5, FlipDelete
  <2>7. Sound(m0, g + 1) /\ ~IsRed(m0)
    BY <1>9, <2>1, PaintedBlack
  <2>8. Balanced(n, g)
    BY <1>1, <1>4, <2>1, <2>4 DEF Balanced
  <2>9. Balanced(n0, g) /\ n0.left = l.right /\ n0.right = r0 /\ n0.color = "BLACK" /\ n0.key = t.key
    <3>1. "BLACK" \in Colors
      BY DEF Colors
    <3> QED
      BY <2>4, <2>8, <3>1, Painted
  <2>10. g + 1 = h
    BY <1>1 DEF g
  <2> HIDE DEF m0, n0, u
  <2>11. LeansRight(n0, h)
    BY <1>1, <1>4, <1>6, <2>9 DEF LeansRight, g
  <2>12. move_red_right(t) = u
    BY <1>7, <1>9 DEF move_red_right, a, u, z
  <2> QED
    BY <1>1, <2>6, <2>7, <2>9, <2>10, <2>11, <2>12 DEF g
<1> QED
  BY <1>8, <1>9

----------------------------------------------------------------------------
(* One step of a deletion to the left.                                     *)

\* A red link is at hand: the node is red, or its left child is.
Fed(t, h) == Sound(t, h) /\ (t = Nil \/ IsRed(t) \/ IsRed(t.left))

\* A tree x may stand where y stood: no more nodes, the same height, and it
\* is no more red.
Replaces(x, y, h) ==
    /\ x \in Tree /\ y \in Tree /\ nodes[x] <= nodes[y] /\ Sound(x, h)
    /\ IsRed(x) => IsRed(y)

GoneLeft(t) == IF Poor(t.left) THEN move_red_left(t) ELSE t

LEMMA GoneLeftSame ==
    ASSUME NEW t \in Tree, t # Nil
    PROVE  LET a == GoneLeft(t)
           IN /\ a \in Tree /\ a # Nil /\ Same(a, t)
              /\ a.left \in Tree /\ a.right \in Tree /\ nodes[a.left] < nodes[t] /\ nodes[a.right] < nodes[t]
<1> DEFINE a == GoneLeft(t)
<1>1. Same(a, t)
  BY MoveLeftSame DEF GoneLeft, Same
<1> HIDE DEF a
<1>2. a \in Tree /\ a # Nil /\ nodes[a] = nodes[t]
  BY <1>1, NilNodes DEF Same
<1>3. /\ a.left \in Tree /\ a.right \in Tree
      /\ nodes[a] = nodes[a.left] + nodes[a.right] + 1
      /\ nodes[a.left] \in Nat /\ nodes[a.right] \in Nat
  BY <1>2, TreeParts
<1> QED
  BY <1>1, <1>2, <1>3 DEF a

\* Down to the left there is a red link again, and what replaces the child
\* gives what replaces the node.
LEMMA WentLeft ==
    ASSUME NEW t \in Tree, t # Nil, NEW h \in Nat, Fed(t, h)
    PROVE  LET a == GoneLeft(t)
           IN /\ \E g \in Nat :
                   /\ Fed(a.left, g)
                   /\ \A x : Replaces(x, a.left, g) => Replaces(fix_up(rb_set_left(a, x)), t, h)
              /\ a.key = t.key \/ (a.left # Nil /\ a.left.key = t.key)
<1> DEFINE a == GoneLeft(t)
<1>1. /\ a \in Tree /\ a # Nil /\ a.left \in Tree /\ a.right \in Tree
      /\ nodes[a] = nodes[a.left] + nodes[a.right] + 1 /\ nodes[a] = nodes[t]
      /\ nodes[a.left] \in Nat /\ nodes[a.right] \in Nat /\ nodes[t] <= MaxNodes /\ MaxNodes \in Nat
  BY GoneLeftSame, TreeParts, TreeIs, HandlesAssumption DEF Same
<1>2. t.left \in Tree /\ t.right \in Tree
  BY TreeParts
<1>3. IsRed(t) <=> t.color = "RED"
  BY RedIs
\* Before fix_up.
<1>4. ASSUME NEW g \in Nat, Balanced(a, g), NEW x, Replaces(x, a.left, g)
      PROVE  LET y == rb_set_left(a, x)
             IN /\ Balanced(y, g) /\ y.color = a.color /\ y.left = x /\ y.right = a.right
                /\ nodes[fix_up(y)] <= nodes[t]
  <2> DEFINE y == rb_set_left(a, x)
  <2>1. x \in Tree /\ nodes[x] <= nodes[a.left] /\ nodes[x] \in Nat /\ Sound(x, g)
    BY <1>4, TreeIs DEF Replaces
  <2>2. nodes[x] + nodes[a.right] < MaxNodes
    BY <1>1, <2>1
  <2> HIDE DEF a
  <2>3. /\ y \in Tree /\ y # Nil /\ nodes[y] = nodes[x] + nodes[a.right] + 1
        /\ y.left = x /\ y.right = a.right /\ y.color = a.color
    BY <1>1, <2>1, <2>2, SetLeftIs
  <2> HIDE DEF y
  <2>4. Balanced(y, g)
    BY <1>4, <2>1, <2>3 DEF Balanced
  <2>5. Same(fix_up(y), y)
    BY <2>3, FixSame
  <2>6. nodes[fix_up(y)] <= nodes[t]
    BY <1>1, <2>1, <2>3, <2>5 DEF Same
  <2> QED
    BY <2>3, <2>4, <2>6 DEF y
<1>5. CASE ~Poor(t.left)
  <2>1. a = t
    BY <1>5 DEF GoneLeft
  <2>2. PICK g \in Nat : Balanced(t, g) /\ h = Up(t.color, g)
    BY SoundParts DEF Fed
  <2>3. ~IsRed(t.right) /\ (t.color = "RED" => ~IsRed(t.left))
    BY SoundParts DEF Fed
  <2>4. Fed(t.left, g)
    <3>1. Sound(t.left, g)
      BY <2>2 DEF Balanced
    <3>2. t.left # Nil => rb_left(t.left) = t.left.left
      BY <1>2, NodeIs
    <3> QED
      BY <1>5, <3>1, <3>2 DEF Fed, Poor, Null
  <2>5. ASSUME NEW x, Replaces(x, t.left, g) PROVE Replaces(fix_up(rb_set_left(t, x)), t, h)
    <3> DEFINE y == rb_set_left(t, x)
    <3>1. Balanced(y, g) /\ y.color = t.color /\ y.left = x /\ y.right = t.right /\ nodes[fix_up(y)] <= nodes[t]
      BY <1>4, <2>1, <2>2, <2>5
    <3> HIDE DEF y
    <3>2. IsRed(x) => IsRed(t.left)
      BY <2>5 DEF Replaces
    <3>3. CASE t.color = "RED"
      <4>1. Sound(fix_up(y), g)
        BY <2>3, <3>1, <3>2, <3>3, FixRed
      <4> QED
        BY <1>3, <2>2, <3>1, <3>3, <4>1 DEF Replaces, Sound, Up, y
    <3>4. CASE t.color # "RED"
      <4>1. Sound(fix_up(y), g + 1) /\ ~IsRed(fix_up(y))
        BY <2>3, <3>1, <3>4, FixBlack
      <4> QED
        BY <2>2, <3>1, <3>4, <4>1 DEF Replaces, Sound, Up, y
    <3> QED
      BY <3>3, <3>4
  <2> HIDE DEF a
  <2> QED
    BY <2>1, <2>4, <2>5 DEF a
<1>6. CASE Poor(t.left)
  <2>1. a = move_red_left(t)
    BY <1>6 DEF GoneLeft
  <2>2. t.left # Nil /\ ~IsRed(t.left) /\ ~IsRed(t.left.left)
    <3>1. t.left # Nil
      BY <1>6 DEF Poor, Null
    <3>2. rb_left(t.left) = t.left.left
      BY <1>2, <3>1, NodeIs
    <3> QED
      BY <1>6, <3>1, <3>2 DEF Poor
  <2>3. t.color = "RED" /\ IsRed(t) /\ Sound(t, h)
    BY <1>3, <2>2 DEF Fed
  <2>4. Starved(t, h)
    BY <2>2, <2>3, StarvedIs
  <2>5. /\ a.left # Nil /\ h - 1 \in Nat
        /\ \/ /\ a.color = "BLACK" /\ a.key = t.key
              /\ IsRed(a.left) /\ IsRed(a.right) /\ Balanced(a, h - 1)
           \/ /\ a.color = "RED" /\ a.left.key = t.key
              /\ ~IsRed(a.left) /\ IsRed(a.left.left) /\ ~IsRed(a.right) /\ Balanced(a, h)
    BY <2>1, <2>2, <2>4, MovedLeft
  <2> HIDE DEF a
  <2>6. CASE a.color = "BLACK"
    <3> DEFINE g == h - 1
    <3>1. g \in Nat /\ Balanced(a, g) /\ IsRed(a.left) /\ g + 1 = h
      BY <2>5, <2>6
    <3> HIDE DEF g
    <3>2. Fed(a.left, g)
      BY <3>1 DEF Fed, Balanced
    <3>3. ASSUME NEW x, Replaces(x, a.left, g) PROVE Replaces(fix_up(rb_set_left(a, x)), t, h)
      <4> DEFINE y == rb_set_left(a, x)
      <4>1. Balanced(y, g) /\ y.color = "BLACK" /\ nodes[fix_up(y)] <= nodes[t]
        BY <1>4, <2>6, <3>1, <3>3
      <4> HIDE DEF y
      <4>2. Sound(fix_up(y), h)
        BY <3>1, <4>1, FixBlack
      <4> QED
        BY <2>3, <4>1, <4>2 DEF Replaces, Sound, y
    <3> QED
      BY <2>5, <2>6, <3>1, <3>2, <3>3 DEF a
  <2>7. CASE a.color = "RED"
    <3>1. Balanced(a, h) /\ ~IsRed(a.left) /\ IsRed(a.left.left) /\ ~IsRed(a.right)
      BY <2>5, <2>7
    <3>2. Fed(a.left, h)
      BY <3>1 DEF Fed, Balanced
    <3>3. ASSUME NEW x, Replaces(x, a.left, h) PROVE Replaces(fix_up(rb_set_left(a, x)), t, h)
      <4> DEFINE y == rb_set_left(a, x)
      <4>1. Balanced(y, h) /\ y.color = "RED" /\ nodes[fix_up(y)] <= nodes[t] /\ y.left = x /\ y.right = a.right
        BY <1>4, <2>7, <3>1, <3>3
      <4> HIDE DEF y
      <4>2. Sound(fix_up(y), h)
        BY <3>1, <3>3, <4>1, FixRed DEF Replaces
      <4> QED
        BY <2>3, <4>1, <4>2 DEF Replaces, Sound, y
    <3> QED
      BY <2>5, <2>7, <3>2, <3>3 DEF a
  <2> QED
    BY <2>5, <2>6, <2>7
<1> QED
  BY <1>5, <1>6

\* Fewer entries on the left, or on the right, keep the order.
LEMMA LessLeft ==
    ASSUME cmp \in Comparators, NEW a \in Tree, a # Nil,
           NEW x \in Tree, nodes[x] <= nodes[a.left], E(x) \subseteq E(a.left)
    PROVE  LET u == fix_up(rb_set_left(a, x))
           IN /\ u \in Tree /\ u # Nil /\ nodes[u] <= nodes[a]
              /\ rb_set_left(a, x) \in Tree /\ nodes[rb_set_left(a, x)] <= nodes[a]
              /\ E(rb_set_left(a, x)) = E(u)
              /\ E(u) = E(x) \cup {<<a.key, a.data>>} \cup E(a.right)
              /\ InOrder(a) /\ InOrder(x) => InOrder(u)
<1> DEFINE y == rb_set_left(a, x)
<1>1. /\ a.left \in Tree /\ a.right \in Tree /\ nodes[a] = nodes[a.left] + nodes[a.right] + 1
      /\ nodes[a.left] \in Nat /\ nodes[a.right] \in Nat /\ nodes[x] \in Nat /\ nodes[a] <= MaxNodes /\ MaxNodes \in Nat
  BY TreeParts, TreeIs, HandlesAssumption
<1>2. nodes[x] + nodes[a.right] < MaxNodes
  BY <1>1
<1>3. /\ y \in Tree /\ y # Nil /\ nodes[y] = nodes[x] + nodes[a.right] + 1
      /\ y.left = x /\ y.right = a.right /\ y.key = a.key
      /\ E(y) = E(x) \cup {<<a.key, a.data>>} \cup E(a.right)
  BY <1>2, SetLeftIs
<1> HIDE DEF y
<1>4. ASSUME InOrder(a), InOrder(x) PROVE InOrder(y)
  <2>1. InOrder(a.right) /\ (\A e \in E(a.left) : Less(e[1], a.key)) /\ \A e \in E(a.right) : Less(a.key, e[1])
    BY <1>4, OrderOf
  <2> QED
    BY <1>3, <1>4, <2>1, OrderOf
<1>5. Same(fix_up(y), y) /\ fix_up(y) # Nil
  BY <1>3, FixSame, NilNodes DEF Same
<1> QED
  BY <1>1, <1>3, <1>4, <1>5, SameEntries DEF y

LEMMA LessRight ==
    ASSUME cmp \in Comparators, NEW a \in Tree, a # Nil,
           NEW x \in Tree, nodes[x] <= nodes[a.right], E(x) \subseteq E(a.right)
    PROVE  LET u == fix_up(rb_set_right(a, x))
           IN /\ u \in Tree /\ u # Nil /\ nodes[u] <= nodes[a]
              /\ rb_set_right(a, x) \in Tree /\ nodes[rb_set_right(a, x)] <= nodes[a]
              /\ E(rb_set_right(a, x)) = E(u)
              /\ E(u) = E(a.left) \cup {<<a.key, a.data>>} \cup E(x)
              /\ InOrder(a) /\ InOrder(x) => InOrder(u)
<1> DEFINE y == rb_set_right(a, x)
<1>1. /\ a.left \in Tree /\ a.right \in Tree /\ nodes[a] = nodes[a.left] + nodes[a.right] + 1
      /\ nodes[a.left] \in Nat /\ nodes[a.right] \in Nat /\ nodes[x] \in Nat /\ nodes[a] <= MaxNodes /\ MaxNodes \in Nat
  BY TreeParts, TreeIs, HandlesAssumption
<1>2. nodes[a.left] + nodes[x] < MaxNodes
  BY <1>1
<1>3. /\ y \in Tree /\ y # Nil /\ nodes[y] = nodes[a.left] + nodes[x] + 1
      /\ y.left = a.left /\ y.right = x /\ y.key = a.key
      /\ E(y) = E(a.left) \cup {<<a.key, a.data>>} \cup E(x)
  BY <1>2, SetRightIs
<1> HIDE DEF y
<1>4. ASSUME InOrder(a), InOrder(x) PROVE InOrder(y)
  <2>1. InOrder(a.left) /\ (\A e \in E(a.left) : Less(e[1], a.key)) /\ \A e \in E(a.right) : Less(a.key, e[1])
    BY <1>4, OrderOf
  <2> QED
    BY <1>3, <1>4, <2>1, OrderOf
<1>5. Same(fix_up(y), y) /\ fix_up(y) # Nil
  BY <1>3, FixSame, NilNodes DEF Same
<1> QED
  BY <1>1, <1>3, <1>4, <1>5, SameEntries DEF y

----------------------------------------------------------------------------
(* The least entry, and its deletion.                                      *)

IsLeast(m, S) == m \in S /\ \A e \in S : e = m \/ Less(m[1], e[1])

LEMMA LeastIsOne ==
    ASSUME cmp \in Comparators, NEW S, S \subseteq Entry, NEW m, NEW n, IsLeast(m, S), IsLeast(n, S)
    PROVE  m = n
<1>1. m[1] \in Keys /\ n[1] \in Keys
  BY DEF IsLeast, Entry
<1> QED
  BY <1>1, OrderIs DEF IsLeast

LEMMA LeastOf ==
    ASSUME cmp \in Comparators, NEW t \in Tree, t # Nil, InOrder(t)
    PROVE  /\ t.left = Nil => IsLeast(<<t.key, t.data>>, E(t))
           /\ \A m : IsLeast(m, E(t.left)) => IsLeast(m, E(t))
<1>1. /\ (\A e \in E(t.left) : Less(e[1], t.key)) /\ \A e \in E(t.right) : Less(t.key, e[1])
      /\ E(t) = E(t.left) \cup {<<t.key, t.data>>} \cup E(t.right)
      /\ E(t.left) \subseteq Entry /\ E(t.right) \subseteq Entry /\ t.key \in Keys
  BY OrderOf, EntriesOf, TreeParts
<1>2. ASSUME t.left = Nil PROVE IsLeast(<<t.key, t.data>>, E(t))
  BY <1>1, <1>2, NilIsInOrder DEF IsLeast
<1>3. ASSUME NEW m, IsLeast(m, E(t.left)) PROVE IsLeast(m, E(t))
  <2>1. m \in E(t.left) /\ m[1] \in Keys /\ Less(m[1], t.key)
    BY <1>1, <1>3 DEF IsLeast, Entry
  <2>2. ASSUME NEW e \in E(t.right) PROVE Less(m[1], e[1])
    <3>1. e[1] \in Keys /\ Less(t.key, e[1])
      BY <1>1 DEF Entry
    <3> QED
      BY <1>1, <2>1, <3>1, OrderIs
  <2> QED
    BY <1>1, <1>3, <2>1, <2>2 DEF IsLeast
<1> QED
  BY <1>2, <1>3

\* search-min finds the least entry.
LEMMA MinimumIs ==
    ASSUME cmp \in Comparators, NEW t \in Tree, t # Nil
    PROVE  LET m == search_min[t]
           IN /\ m.key \in Keys /\ m.data \in Data
              /\ InOrder(t) => IsLeast(<<m.key, m.data>>, E(t))
<1> DEFINE V(f, x) == IF Null(rb_left(x)) THEN x ELSE f[x.left]
           S == Shape
           H == [f \in Funs(Shape, S) |-> [x \in Shape |-> V(f, x)]]
<1>0. ASSUME NEW x \in Shape PROVE rb_left(x) # Nil => x # Nil /\ x.left \in Shape /\ rb_left(x) = x.left
  BY PartsOf DEF rb_left, Null
<1>1. H \in Funs(Funs(Shape, S), Funs(Shape, S))
  <2>1. ASSUME NEW f \in Funs(Shape, S), NEW x \in Shape PROVE V(f, x) \in S
    BY <1>0 DEF Funs, Null
  <2> HIDE DEF V, S
  <2> QED
    BY <2>1 DEF Funs
<1>2. ASSUME NEW f \in Funs(Shape, S), NEW g \in Funs(Shape, S), NEW x \in Shape,
             x # Nil => f[x.left] = g[x.left] /\ f[x.right] = g[x.right]
      PROVE  H[f][x] = H[g][x]
  <2>1. V(f, x) = V(g, x)
    BY <1>0, <1>2 DEF Null
  <2> HIDE DEF V, S
  <2> QED
    BY <2>1
<1>3. \E f \in Funs(Shape, S) : f = H[f]
  <2>1. Nil \in S
    BY NilIsTree
  <2> HIDE DEF H, S
  <2> QED
    BY ONLY <1>1, <1>2, <2>1, ShapeRecursion
<1>4. PICK f \in Funs(Shape, S) : f = [x \in Shape |-> V(f, x)]
  BY <1>3
<1>5. search_min = CHOOSE g : g = [x \in Shape |-> V(g, x)]
  BY DEF search_min
<1> HIDE DEF V
<1>6. search_min = [x \in Shape |-> V(search_min, x)]
  BY <1>4, <1>5
<1>7. ASSUME NEW x \in Shape PROVE search_min[x] = V(search_min, x)
  BY <1>6
<1> DEFINE P(x) == LET m == search_min[x]
                   IN /\ m.key \in Keys /\ m.data \in Data
                      /\ InOrder(x) => IsLeast(<<m.key, m.data>>, E(x))
           X == {x \in Tree : x # Nil => P(x)}
<1>8. ASSUME NEW x \in Tree, \A e \in Tree : nodes[e] < nodes[x] => e \in X, x # Nil PROVE P(x)
  <2>1. x \in Shape /\ x.left \in Tree /\ nodes[x.left] < nodes[x] /\ x.key \in Keys /\ x.data \in Data
    <3>1. /\ x.left \in Tree /\ nodes[x.left] \in Nat /\ nodes[x.right] \in Nat
          /\ nodes[x] = nodes[x.left] + nodes[x.right] + 1 /\ x.key \in Keys /\ x.data \in Data
      BY <1>8, TreeParts
    <3> QED
      BY <3>1, TreeIs
  <2>2. rb_left(x) = x.left
    BY <1>8, NodeIs
  <2>3. search_min[x] = IF x.left = Nil THEN x ELSE search_min[x.left]
    BY <1>7, <2>1, <2>2 DEF V, Null
  <2>4. CASE x.left = Nil
    BY <1>8, <2>1, <2>3, <2>4, LeastOf
  <2>5. CASE x.left # Nil
    <3>1. P(x.left)
      BY <1>8, <2>1, <2>5
    <3>2. InOrder(x) => InOrder(x.left)
      BY <1>8, OrderOf
    <3> QED
      BY <1>8, <2>3, <2>5, <3>1, <3>2, LeastOf
  <2> QED
    BY <2>4, <2>5
<1>9. Tree \subseteq X
  <2> HIDE DEF P
  <2>1. \A x \in Tree : (\A e \in Tree : nodes[e] < nodes[x] => e \in X) => x \in X
    BY <1>8
  <2> HIDE DEF X
  <2> QED
    BY <2>1, TreeInduction
<1> QED
  BY <1>9

\* delete-min-impl is what its recursive definition says.
LEMMA DeleteMinIs ==
    \A t \in Tree : delete_min_impl[t] =
       IF t = Nil \/ t.left = Nil THEN Nil
       ELSE fix_up(rb_set_left(GoneLeft(t), delete_min_impl[GoneLeft(t).left]))
<1> DEFINE V(f, t) == IF Null(t) \/ Null(rb_left(t)) THEN Nil
                      ELSE LET a == IF Poor(t.left) THEN move_red_left(t) ELSE t
                           IN fix_up(rb_set_left(a, f[a.left]))
           S == AnyTree
           H == [f \in Funs(Tree, S) |-> [t \in Tree |-> V(f, t)]]
<1>0. ASSUME NEW f, NEW t \in Tree
      PROVE  V(f, t) = IF t = Nil \/ t.left = Nil THEN Nil
                       ELSE fix_up(rb_set_left(GoneLeft(t), f[GoneLeft(t).left]))
  <2>1. t # Nil => rb_left(t) = t.left
    BY NodeIs
  <2> QED
    BY <2>1 DEF GoneLeft, Null
<1>9. Nil \in S
  BY TreesAreAny
<1> HIDE DEF V
<1>1. H \in Funs(Funs(Tree, S), Funs(Tree, S))
  <2>1. ASSUME NEW f \in Funs(Tree, S), NEW t \in Tree PROVE V(f, t) \in S
    <3>1. CASE t = Nil \/ t.left = Nil
      BY <1>0, <1>9, <3>1
    <3>2. CASE ~(t = Nil \/ t.left = Nil)
      <4> DEFINE a == GoneLeft(t)
      <4>1. a \in AnyTree /\ a.left \in Tree
        BY <3>2, GoneLeftSame, TreesAreAny
      <4>2. f[a.left] \in AnyTree
        BY <4>1 DEF Funs
      <4>3. fix_up(rb_set_left(a, f[a.left])) \in AnyTree
        BY <4>1, <4>2, AnySets, AnyFixed
      <4> QED
        BY <1>0, <3>2, <4>3
    <3> QED
      BY <3>1, <3>2
  <2> HIDE DEF S
  <2> QED
    BY <2>1 DEF Funs
<1>2. ASSUME NEW f \in Funs(Tree, S), NEW g \in Funs(Tree, S), NEW t \in Tree,
             \A e \in Tree : nodes[e] < nodes[t] => f[e] = g[e]
      PROVE  H[f][t] = H[g][t]
  <2>1. V(f, t) = V(g, t)
    <3>1. CASE t = Nil \/ t.left = Nil
      BY <1>0, <3>1
    <3>2. CASE ~(t = Nil \/ t.left = Nil)
      <4>1. GoneLeft(t).left \in Tree /\ nodes[GoneLeft(t).left] < nodes[t]
        BY <3>2, GoneLeftSame
      <4>2. f[GoneLeft(t).left] = g[GoneLeft(t).left]
        BY <1>2, <4>1
      <4> QED
        BY <1>0, <3>2, <4>2
    <3> QED
      BY <3>1, <3>2
  <2> HIDE DEF S
  <2> QED
    BY <2>1
<1>3. \E f \in Funs(Tree, S) : f = H[f]
  <2> HIDE DEF H, S
  <2> QED
    BY ONLY <1>1, <1>2, <1>9, TreeRecursion
<1>4. PICK f \in Funs(Tree, S) : f = [t \in Tree |-> V(f, t)]
  BY <1>3
<1>5. delete_min_impl = CHOOSE g : g = [t \in Tree |-> V(g, t)]
  BY DEF delete_min_impl, V
<1>6. delete_min_impl = [t \in Tree |-> V(delete_min_impl, t)]
  BY <1>4, <1>5
<1>7. ASSUME NEW t \in Tree PROVE delete_min_impl[t] = V(delete_min_impl, t)
  BY <1>6
<1> QED
  BY <1>0, <1>7

\* A tree u holds what t held, but the least entry.
Headless(u, t) == InOrder(u) /\ \E m : IsLeast(m, E(t)) /\ E(u) = E(t) \ {m}

\* Deleting the least entry takes that one only and keeps the height.
LEMMA DeleteMinSound ==
    ASSUME cmp \in Comparators, NEW t \in Tree, NEW h \in Nat, Fed(t, h), InOrder(t)
    PROVE  LET u == delete_min_impl[t]
           IN Replaces(u, t, h) /\ (t # Nil => Headless(u, t))
<1> DEFINE g == delete_min_impl
           P(x, n) == Replaces(g[x], x, n) /\ (x # Nil => Headless(g[x], x))
           X == {x \in Tree : \A n \in Nat : Fed(x, n) /\ InOrder(x) => P(x, n)}
<1>1. \A x \in Tree : g[x] = IF x = Nil \/ x.left = Nil THEN Nil
                             ELSE fix_up(rb_set_left(GoneLeft(x), g[GoneLeft(x).left]))
  BY DeleteMinIs
<1> HIDE DEF g
<1>2. ASSUME NEW x \in Tree, \A e \in Tree : nodes[e] < nodes[x] => e \in X,
             NEW n \in Nat, Fed(x, n), InOrder(x)
      PROVE  P(x, n)
  <2>1. CASE x = Nil
    <3>1. g[x] = Nil /\ n = 1
      BY <1>1, <1>2, <2>1, NilIsSound DEF Fed
    <3> QED
      BY <2>1, <3>1, NilIsSound, NilIsTree DEF Replaces
  <2>2. CASE x # Nil /\ x.left = Nil
    <3>1. g[x] = Nil
      BY <1>1, <2>2
    <3>2. PICK p \in Nat : Balanced(x, p) /\ n = Up(x.color, p)
      BY <1>2, <2>2, SoundParts DEF Fed
    <3>3. ~IsRed(x.right) /\ p = 1
      BY <1>2, <2>2, <3>2, SoundParts, NilIsSound DEF Fed, Balanced
    <3>4. x.right = Nil
      BY <3>2, <3>3, LowIsNil DEF Balanced
    <3>5. IsRed(x) /\ x.color = "RED" /\ n = 1
      BY <1>2, <2>2, <3>2, <3>3, NilIsSound, RedIs DEF Fed, Up
    <3>6. Replaces(Nil, x, n)
      BY <1>2, <3>5, NilIsSound, NilIsTree, TreeIs DEF Replaces
    <3>7. E(x) = {<<x.key, x.data>>} /\ E(Nil) = {} /\ InOrder(Nil)
      BY <2>2, <3>4, EntriesOf, NilIsInOrder
    <3>8. IsLeast(<<x.key, x.data>>, E(x))
      BY <1>2, <2>2, LeastOf
    <3> QED
      BY <3>1, <3>6, <3>7, <3>8 DEF Headless
  <2>3. CASE x # Nil /\ x.left # Nil
    <3> DEFINE a == GoneLeft(x)
               s == g[a.left]
               u == fix_up(rb_set_left(a, s))
    <3>1. g[x] = u
      BY <1>1, <2>3
    <3>2. /\ a \in Tree /\ a # Nil /\ Same(a, x) /\ a.left \in Tree /\ a.right \in Tree
          /\ nodes[a.left] < nodes[x]
      BY <2>3, GoneLeftSame
    <3>3. PICK p \in Nat :
             /\ Fed(a.left, p)
             /\ \A y : Replaces(y, a.left, p) => Replaces(fix_up(rb_set_left(a, y)), x, n)
      BY <1>2, <2>3, WentLeft
    <3>4. a.left # Nil
      <4>1. CASE Poor(x.left)
        <5>1. Starved(x, n) /\ ~IsRed(x.left.left)
          <6>1. x.left \in Tree /\ rb_left(x.left) = x.left.left
            BY <2>3, TreeParts, NodeIs
          <6>2. ~IsRed(x.left) /\ ~IsRed(x.left.left)
            BY <4>1, <6>1 DEF Poor
          <6>3. x.color = "RED" /\ Sound(x, n)
            BY <1>2, <2>3, <6>2, RedIs DEF Fed
          <6> QED
            BY <2>3, <6>2, <6>3, StarvedIs
        <5>2. move_red_left(x).left # Nil
          BY <5>1, MovedLeft
        <5> QED
          BY <4>1, <5>2 DEF GoneLeft
      <4>2. CASE ~Poor(x.left)
        BY <2>3, <4>2 DEF GoneLeft
      <4> QED
        BY <4>1, <4>2
    <3> HIDE DEF a
    <3>5. InOrder(a) /\ E(a) = E(x) /\ nodes[a] = nodes[x]
      BY <1>2, <3>2, SameEntries
    <3>6. InOrder(a.left)
      BY <3>2, <3>5, OrderOf
    <3>7. Replaces(s, a.left, p) /\ Headless(s, a.left)
      BY <1>2, <3>2, <3>3, <3>4, <3>6
    <3>8. PICK m : IsLeast(m, E(a.left)) /\ E(s) = E(a.left) \ {m}
      BY <3>7 DEF Headless
    <3>9. s \in Tree /\ nodes[s] <= nodes[a.left] /\ InOrder(s) /\ E(s) \subseteq E(a.left)
      BY <3>7, <3>8 DEF Replaces, Headless
    <3> HIDE DEF s
    <3>10. InOrder(u) /\ E(u) = E(s) \cup {<<a.key, a.data>>} \cup E(a.right)
      BY <3>2, <3>5, <3>9, LessLeft
    <3>11. Replaces(u, x, n)
      BY <3>3, <3>7
    <3> HIDE DEF u
    <3>12. IsLeast(m, E(a))
      BY <3>2, <3>5, <3>8, LeastOf
    <3>13. E(u) = E(a) \ {m}
      <4>1. E(a) = E(a.left) \cup {<<a.key, a.data>>} \cup E(a.right)
        BY <3>2, EntriesOf
      <4>2. m # <<a.key, a.data>> /\ m \notin E(a.right)
        <5>1. /\ \A e \in E(a.left) : Less(e[1], a.key)
              /\ \A e \in E(a.right) : Less(a.key, e[1])
          BY <3>2, <3>5, OrderOf
        <5>2. m \in E(a.left) /\ E(a.left) \subseteq Entry /\ a.key \in Keys /\ m[1] \in Keys
          BY <3>2, <3>8, EntriesOf, TreeParts DEF IsLeast, Entry
        <5>3. Less(m[1], a.key)
          BY <5>1, <5>2
        <5>4. ~Less(a.key, m[1]) /\ ~Less(a.key, a.key)
          BY <5>2, <5>3, OrderIs
        <5> QED
          BY <5>1, <5>3, <5>4
      <4> QED
        BY <3>8, <3>10, <4>1, <4>2
    <3> QED
      BY <3>1, <3>5, <3>10, <3>11, <3>12, <3>13 DEF Headless
  <2> QED
    BY <2>1, <2>2, <2>3
<1>3. Tree \subseteq X
  <2> HIDE DEF P
  <2>1. \A x \in Tree : (\A e \in Tree : nodes[e] < nodes[x] => e \in X) => x \in X
    BY <1>2
  <2> HIDE DEF X
  <2> QED
    BY <2>1, TreeInduction
<1> QED
  BY <1>3 DEF g

LEMMA DeleteMinAny ==
    \A t \in Tree : delete_min_impl[t] \in AnyTree
<1> DEFINE X == {x \in Tree : delete_min_impl[x] \in AnyTree}
<1>1. ASSUME NEW x \in Tree, \A e \in Tree : nodes[e] < nodes[x] => e \in X PROVE x \in X
  <2>1. CASE x = Nil \/ x.left = Nil
    BY <2>1, DeleteMinIs, TreesAreAny
  <2>2. CASE ~(x = Nil \/ x.left = Nil)
    <3> DEFINE a == GoneLeft(x)
    <3>1. a \in Tree /\ a.left \in Tree /\ nodes[a.left] < nodes[x]
      BY <2>2, GoneLeftSame
    <3>2. delete_min_impl[x] = fix_up(rb_set_left(a, delete_min_impl[a.left]))
      BY <2>2, DeleteMinIs
    <3> HIDE DEF a
    <3>3. delete_min_impl[a.left] \in AnyTree
      BY <1>1, <3>1
    <3> QED
      BY <3>1, <3>2, <3>3, TreesAreAny, AnySets, AnyFixed
  <2> QED
    BY <2>1, <2>2
<1> HIDE DEF X
<1>2. Tree \subseteq X
  BY <1>1, TreeInduction
<1> QED
  BY <1>2 DEF X

----------------------------------------------------------------------------
(* One step of a deletion to the right.                                    *)

Turned(t) == IF IsRed(t.left) THEN rotate_right(t) ELSE t

GoneRight(a) == IF Poor(a.right) THEN move_red_right(a) ELSE a

LEMMA GoneRightSame ==
    ASSUME NEW t \in Tree, t # Nil
    PROVE  LET a == Turned(t)  b == GoneRight(a)
           IN /\ a \in Tree /\ a # Nil /\ Same(a, t)
              /\ b \in Tree /\ b # Nil /\ Same(b, t)
              /\ b.left \in Tree /\ b.right \in Tree /\ nodes[b.left] < nodes[t] /\ nodes[b.right] < nodes[t]
              /\ IF a.right = Nil THEN b = a ELSE b.right # Nil
<1> DEFINE a == Turned(t)
           b == GoneRight(a)
<1>1. Same(a, t)
  BY RotateSame DEF Turned, Same
<1> HIDE DEF a
<1>2. a \in Tree /\ a # Nil /\ nodes[a] = nodes[t]
  BY <1>1, NilNodes DEF Same
<1>3. Same(b, a) /\ IF a.right = Nil THEN b = a ELSE b.right # Nil
  BY <1>2, MoveRightSame DEF GoneRight, Same, Poor, Null
<1> HIDE DEF b
<1>4. b \in Tree /\ b # Nil /\ nodes[b] = nodes[t]
  BY <1>2, <1>3, NilNodes DEF Same
<1>5. /\ b.left \in Tree /\ b.right \in Tree
      /\ nodes[b] = nodes[b.left] + nodes[b.right] + 1
      /\ nodes[b.left] \in Nat /\ nodes[b.right] \in Nat
  BY <1>4, TreeParts
<1>6. Same(b, t)
  BY <1>1, <1>3 DEF Same
<1> QED
  BY <1>1, <1>2, <1>3, <1>4, <1>5, <1>6 DEF a, b

----------------------------------------------------------------------------
(* Deletion of a key.                                                      *)

\* The body of delete_impl, to the left and to the right.
DeleteLeft(f, t) ==
    LET a   == GoneLeft(t)
        sub == f[a.left]
        b   == rb_set_left(a, sub.tree)
    IN IF IsDone(sub) THEN Done(fix_up(b)) ELSE Escaped(Shown(t, b))

DeleteRight(f, k, t) ==
    LET a     == Turned(t)
        b     == GoneRight(a)
        min   == search_min[b.right]
        sub   == f[b.right]
        moved == rb_set_right(b, sub.tree)
    IN IF Cmp(k, a.key) = "reject" THEN Escaped(Shown(t, a))
       ELSE IF Cmp(k, a.key) = "same" /\ a.right = Nil THEN Done(Nil)
       ELSE IF Cmp(k, b.key) = "reject" THEN Escaped(Shown(t, b))
       ELSE IF Cmp(k, b.key) = "same"
       THEN Done(fix_up(rb_set_right(rb_set_data(rb_set_key(b, min.key), min.data),
                                     delete_min_impl[b.right])))
       ELSE IF IsDone(sub) THEN Done(fix_up(moved)) ELSE Escaped(Shown(t, moved))

DeleteStep(f, k, t) ==
    IF t = Nil THEN Done(Nil)
    ELSE IF Cmp(k, t.key) = "reject" THEN Escaped(t)
    ELSE IF Cmp(k, t.key) = "less" THEN DeleteLeft(f, t)
    ELSE DeleteRight(f, k, t)

LEMMA AnyShown ==
    ASSUME NEW t, NEW a \in AnyTree, a # Nil
    PROVE  Shown(t, a) \in AnyTree /\ Shown(t, a) \in {a, a.left, a.right}
<1>1. a.left \in AnyTree /\ a.right \in AnyTree
  BY AnyParts
<1> QED
  BY <1>1 DEF Shown

LEMMA SetsAreNodes ==
    ASSUME NEW t \in Tree, t # Nil, NEW x
    PROVE  rb_set_left(t, x) # Nil /\ rb_set_right(t, x) # Nil
BY NodeSets, NilIsNoNode

LEMMA DeleteStepAny ==
    ASSUME cmp \in Comparators, NEW k, NEW f \in Funs(Tree, Results), NEW t \in Tree
    PROVE  DeleteStep(f, k, t) \in Results
<1>0. ASSUME NEW x \in AnyTree PROVE Done(x) \in Results /\ Escaped(x) \in Results
  BY ResultsAre
<1>1. CASE t = Nil
  BY <1>0, <1>1, TreesAreAny DEF DeleteStep
<1>2. CASE t # Nil
  <2>1. DeleteLeft(f, t) \in Results
    <3> DEFINE a == GoneLeft(t)
               s == f[a.left]
               b == rb_set_left(a, s.tree)
    <3>1. a \in Tree /\ a # Nil /\ a.left \in Tree
      BY <1>2, GoneLeftSame
    <3> HIDE DEF a
    <3>2. s.tree \in AnyTree
      BY <3>1, ResultsAre DEF Funs
    <3>3. b \in AnyTree /\ b # Nil
      BY <3>1, <3>2, TreesAreAny, AnySets, SetsAreNodes
    <3> HIDE DEF b
    <3>4. fix_up(b) \in AnyTree /\ Shown(t, b) \in AnyTree
      BY <3>3, AnyFixed, AnyShown
    <3> QED
      BY <1>0, <3>4 DEF DeleteLeft, a, b
  <2>2. DeleteRight(f, k, t) \in Results
    <3> DEFINE a == Turned(t)
               b == GoneRight(a)
               min == search_min[b.right]
               s == f[b.right]
               moved == rb_set_right(b, s.tree)
               put == rb_set_right(rb_set_data(rb_set_key(b, min.key), min.data), delete_min_impl[b.right])
    <3>1. /\ a \in Tree /\ a # Nil /\ b \in Tree /\ b # Nil /\ b.right \in Tree
          /\ IF a.right = Nil THEN b = a ELSE b.right # Nil
      BY <1>2, GoneRightSame
    <3> HIDE DEF a, b
    <3>2. s.tree \in AnyTree
      BY <3>1, ResultsAre DEF Funs
    <3>3. moved \in AnyTree /\ moved # Nil
      BY <3>1, <3>2, TreesAreAny, AnySets, SetsAreNodes
    <3> HIDE DEF moved
    <3>4. fix_up(moved) \in AnyTree /\ Shown(t, moved) \in AnyTree
      BY <3>3, AnyFixed, AnyShown
    <3>5. Shown(t, a) \in AnyTree /\ Shown(t, b) \in AnyTree
      BY <3>1, TreesAreAny, AnyShown
    <3>6. ASSUME b.right # Nil PROVE fix_up(put) \in AnyTree
      <4>1. min.key \in Keys /\ min.data \in Data
        BY <3>1, <3>6, MinimumIs
      <4> HIDE DEF min
      <4>2. rb_set_key(b, min.key) \in AnyTree
        BY <3>1, <4>1, TreesAreAny, AnySets
      <4>3. rb_set_data(rb_set_key(b, min.key), min.data) \in AnyTree
        BY <4>1, <4>2, AnySets
      <4>4. delete_min_impl[b.right] \in AnyTree
        BY <3>1, DeleteMinAny
      <4> QED
        BY <4>3, <4>4, AnySets, AnyFixed
    <3> HIDE DEF put
    <3>7. ~(Cmp(k, a.key) = "same" /\ a.right = Nil) /\ Cmp(k, b.key) = "same" => b.right # Nil
      BY <3>1
    <3>8. /\ Done(Nil) \in Results /\ Escaped(Shown(t, a)) \in Results /\ Escaped(Shown(t, b)) \in Results
          /\ Done(fix_up(moved)) \in Results /\ Escaped(Shown(t, moved)) \in Results
          /\ b.right # Nil => Done(fix_up(put)) \in Results
      BY <1>0, <3>4, <3>5, <3>6, TreesAreAny
    <3>9. DeleteRight(f, k, t) =
            IF Cmp(k, a.key) = "reject" THEN Escaped(Shown(t, a))
            ELSE IF Cmp(k, a.key) = "same" /\ a.right = Nil THEN Done(Nil)
            ELSE IF Cmp(k, b.key) = "reject" THEN Escaped(Shown(t, b))
            ELSE IF Cmp(k, b.key) = "same" THEN Done(fix_up(put))
            ELSE IF IsDone(s) THEN Done(fix_up(moved)) ELSE Escaped(Shown(t, moved))
      BY DEF DeleteRight, a, b, moved, put
    <3> HIDE DEF s
    <3> QED
      BY <3>7, <3>8, <3>9
  <2>3. Escaped(t) \in Results
    BY <1>0, TreesAreAny
  <2> QED
    BY <1>2, <2>1, <2>2, <2>3 DEF DeleteStep
<1> QED
  BY <1>1, <1>2

\* delete-impl is what its recursive definition says.
LEMMA DeleteIs ==
    ASSUME cmp \in Comparators, NEW k \in Keys
    PROVE  \A t \in Tree : delete_impl(k)[t] = DeleteStep(delete_impl(k), k, t)
<1> DEFINE S == Results
           V(f, t) == DeleteStep(f, k, t)
           H == [f \in Funs(Tree, S) |-> [t \in Tree |-> V(f, t)]]
<1>9. Done(Nil) \in S
  BY TreesAreAny, ResultsAre
<1>1. H \in Funs(Funs(Tree, S), Funs(Tree, S))
  <2>1. ASSUME NEW f \in Funs(Tree, S), NEW t \in Tree PROVE V(f, t) \in S
    BY DeleteStepAny
  <2> HIDE DEF V, S
  <2> QED
    BY <2>1 DEF Funs
<1>2. ASSUME NEW f \in Funs(Tree, S), NEW g \in Funs(Tree, S), NEW t \in Tree,
             \A e \in Tree : nodes[e] < nodes[t] => f[e] = g[e]
      PROVE  H[f][t] = H[g][t]
  <2>1. V(f, t) = V(g, t)
    <3>1. CASE t = Nil
      BY <3>1 DEF DeleteStep
    <3>2. CASE t # Nil
      <4>1. f[GoneLeft(t).left] = g[GoneLeft(t).left]
        BY <1>2, <3>2, GoneLeftSame
      <4>2. f[GoneRight(Turned(t)).right] = g[GoneRight(Turned(t)).right]
        BY <1>2, <3>2, GoneRightSame
      <4>3. DeleteLeft(f, t) = DeleteLeft(g, t)
        BY <4>1 DEF DeleteLeft
      <4>4. DeleteRight(f, k, t) = DeleteRight(g, k, t)
        BY <4>2 DEF DeleteRight
      <4> QED
        BY <4>3, <4>4 DEF DeleteStep
    <3> QED
      BY <3>1, <3>2
  <2> HIDE DEF V, S
  <2> QED
    BY <2>1
<1>3. \E f \in Funs(Tree, S) : f = H[f]
  <2> HIDE DEF H, S
  <2> QED
    BY ONLY <1>1, <1>2, <1>9, TreeRecursion
<1>4. PICK f \in Funs(Tree, S) : f = [t \in Tree |-> V(f, t)]
  BY <1>3
<1>5. delete_impl(k) = CHOOSE g : g = [t \in Tree |-> V(g, t)]
  BY Zenon DEF delete_impl, DeleteStep, DeleteLeft, DeleteRight, GoneLeft, GoneRight, Turned, Null
<1> HIDE DEF V
<1> DEFINE g == delete_impl(k)
<1>6. g = [t \in Tree |-> V(g, t)]
  BY <1>4, <1>5
<1> HIDE DEF g
<1>7. ASSUME NEW t \in Tree PROVE g[t] = V(g, t)
  BY <1>6
<1> QED
  BY <1>7 DEF V, g

----------------------------------------------------------------------------
(* What a step of a deletion to the right keeps.                           *)

Ready(t, h) == Fed(t, h) \/ LeansRight(t, h)

\* A node y that is b but for its entry and its right subtree x.
Refilled(y, b, x) ==
    y \in Tree /\ y # Nil /\ y.left = b.left /\ y.right = x /\ y.color = b.color

\* Below b a deletion may go on, and what it makes of b replaces t.
CanGoRight(b, t, g, h) ==
    /\ Ready(b.right, g)
    /\ \A x, y : Replaces(x, b.right, g) /\ Refilled(y, b, x) => Replaces(fix_up(y), t, h)

LEMMA RefilledIs ==
    ASSUME NEW t \in Tree, NEW b \in Tree, b # Nil, nodes[b] = nodes[t],
           NEW g \in Nat, Sound(b.left, g), NEW x, Replaces(x, b.right, g), NEW y, Refilled(y, b, x)
    PROVE  /\ Balanced(y, g) /\ y.color = b.color /\ y.left = b.left /\ y.right = x
           /\ nodes[fix_up(y)] <= nodes[t]
<1>1. y \in Tree /\ y # Nil /\ y.left = b.left /\ y.right = x /\ y.color = b.color
  BY DEF Refilled
<1>2. x \in Tree /\ nodes[x] <= nodes[b.right] /\ Sound(x, g)
  BY DEF Replaces
<1>3. /\ nodes[b] = nodes[b.left] + nodes[b.right] + 1 /\ nodes[b.left] \in Nat /\ nodes[b.right] \in Nat
      /\ nodes[y] = nodes[b.left] + nodes[x] + 1 /\ nodes[x] \in Nat
  BY <1>1, <1>2, TreeParts, TreeIs
<1>4. Same(fix_up(y), y)
  BY <1>1, FixSame
<1>5. nodes[fix_up(y)] <= nodes[t]
  BY <1>2, <1>3, <1>4 DEF Same
<1> QED
  BY <1>1, <1>2, <1>5 DEF Balanced

LEMMA TurnedRight ==
    ASSUME NEW t \in Tree, t # Nil, NEW h \in Nat, Fed(t, h), IsRed(t.left)
    PROVE  LET a == Turned(t)
           IN /\ GoneRight(a) = a /\ a.right # Nil /\ a.right.key = t.key
              /\ \E g \in Nat : Fed(a.right, g) /\ CanGoRight(a, t, g, h)
<1> DEFINE l == t.left
           n == Make(l.right, t.right, "RED", t.key, t.data)
           a == Turned(t)
<1>1. /\ t.left \in Tree /\ t.right \in Tree /\ l \in Tree /\ l # Nil
      /\ t.key \in Keys /\ t.data \in Data /\ "RED" \in Colors
  BY TreeParts, NilIsSound DEF Colors
<1>2. PICK g \in Nat : Balanced(t, g) /\ h = Up(t.color, g)
  BY SoundParts DEF Fed
<1>3. t.color # "RED" /\ ~IsRed(t.right) /\ h = g + 1
  BY <1>2, SoundParts DEF Fed, Up
<1>4. Sound(l.left, g) /\ Sound(l.right, g) /\ ~IsRed(l.left) /\ ~IsRed(l.right)
  <2>1. Sound(l, g)
    BY <1>2 DEF Balanced
  <2>2. l.color = "RED"
    BY <1>1, RedIs
  <2>3. Balanced(l, g)
    BY <1>1, <2>1, <2>2, SoundParts DEF Up
  <2> QED
    BY <1>1, <2>1, <2>2, <2>3, SoundParts DEF Balanced
<1>5. a = Make(l.left, n, t.color, l.key, l.data) /\ Fits(l.right, t.right) /\ Same(a, t)
  <2>1. a = rotate_right(t)
    BY DEF Turned
  <2> QED
    BY <1>1, <2>1, RotatedRight
<1>6. a \in Tree /\ a # Nil /\ a.left = l.left /\ a.right = n /\ a.color = t.color /\ nodes[a] = nodes[t]
  BY <1>5, MakeReads DEF Same
<1>7. n \in Tree /\ n # Nil /\ n.left = l.right /\ n.right = t.right /\ n.color = "RED" /\ n.key = t.key
  BY <1>1, <1>5, MadeIs
<1> HIDE DEF n, a, l
<1>8. Sound(n, g) /\ IsRed(n)
  <2>1. Balanced(n, g)
    BY <1>2, <1>4, <1>7 DEF Balanced
  <2> QED
    BY <1>3, <1>4, <1>7, <2>1, SoundNode, RedIs DEF Up
<1>9. Fed(n, g)
  BY <1>8 DEF Fed
<1>10. GoneRight(a) = a
  BY <1>6, <1>8 DEF GoneRight, Poor
<1>11. ASSUME NEW x, NEW y, Replaces(x, a.right, g), Refilled(y, a, x)
       PROVE  Replaces(fix_up(y), t, h)
  <2>1. Sound(a.left, g)
    BY <1>4, <1>6
  <2>2. Balanced(y, g) /\ y.color # "RED" /\ y.left = l.left /\ y.right = x /\ nodes[fix_up(y)] <= nodes[t]
    BY <1>3, <1>6, <1>11, <2>1, RefilledIs
  <2>3. Sound(fix_up(y), h) /\ ~IsRed(fix_up(y))
    BY <1>3, <1>4, <2>2, FixBlack
  <2> QED
    BY <2>2, <2>3 DEF Replaces, Sound
<1>12. CanGoRight(a, t, g, h)
  BY <1>6, <1>9, <1>11 DEF CanGoRight, Ready
<1> QED
  BY <1>6, <1>7, <1>9, <1>10, <1>12 DEF a

LEMMA LeaningRight ==
    ASSUME NEW t \in Tree, t # Nil, NEW h \in Nat, LeansRight(t, h)
    PROVE  /\ Turned(t) = t /\ GoneRight(t) = t /\ t.right # Nil
           /\ \E g \in Nat : Fed(t.right, g) /\ CanGoRight(t, t, g, h)
<1> DEFINE g == h - 1
<1>1. g \in Nat /\ Balanced(t, g) /\ t.color # "RED" /\ ~IsRed(t.left) /\ IsRed(t.right) /\ h = g + 1
  BY DEF LeansRight
<1> HIDE DEF g
<1>2. Turned(t) = t /\ GoneRight(t) = t
  BY <1>1 DEF Turned, GoneRight, Poor
<1>3. Fed(t.right, g) /\ t.right # Nil
  BY <1>1, NilIsSound DEF Fed, Balanced
<1>4. ASSUME NEW x, NEW y, Replaces(x, t.right, g), Refilled(y, t, x)
      PROVE  Replaces(fix_up(y), t, h)
  <2>1. Sound(t.left, g)
    BY <1>1 DEF Balanced
  <2>2. Balanced(y, g) /\ y.color # "RED" /\ y.left = t.left /\ y.right = x /\ nodes[fix_up(y)] <= nodes[t]
    BY <1>1, <1>4, <2>1, RefilledIs
  <2>3. Sound(fix_up(y), h) /\ ~IsRed(fix_up(y))
    BY <1>1, <2>2, FixBlack
  <2> QED
    BY <2>2, <2>3 DEF Replaces, Sound
<1> QED
  BY <1>1, <1>2, <1>3, <1>4 DEF CanGoRight, Ready

LEMMA FromRed ==
    ASSUME NEW t \in Tree, t # Nil, NEW h \in Nat, Sound(t, h), IsRed(t), ~IsRed(t.left)
    PROVE  LET b == GoneRight(t)
           IN /\ Turned(t) = t
              /\ t.right = Nil => t.left = Nil /\ h = 1
              /\ \/ b.key = t.key /\ \E g \in Nat : Fed(b.right, g) /\ CanGoRight(b, t, g, h)
                 \/ /\ b.right # Nil /\ b.right.key = t.key
                    /\ \E g \in Nat : LeansRight(b.right, g) /\ CanGoRight(b, t, g, h)
<1> DEFINE b == GoneRight(t)
<1>1. t.color = "RED" /\ ~IsRed(t.right) /\ Balanced(t, h) /\ t.right \in Tree
  BY RedIs, SoundParts, TreeParts DEF Up
<1>2. Sound(t.left, h) /\ Sound(t.right, h)
  BY <1>1 DEF Balanced
<1>3. Turned(t) = t
  BY DEF Turned
<1>4. t.right = Nil => t.left = Nil /\ h = 1
  BY <1>2, NilIsSound, LowIsNil
<1>5. CASE ~Poor(t.right)
  <2>1. b = t
    BY <1>5 DEF GoneRight
  <2>2. Fed(t.right, h)
    <3>1. t.right # Nil => rb_left(t.right) = t.right.left
      BY <1>1, NodeIs
    <3> QED
      BY <1>2, <1>5, <3>1 DEF Fed, Poor, Null
  <2>3. ASSUME NEW x, NEW y, Replaces(x, t.right, h), Refilled(y, t, x)
        PROVE  Replaces(fix_up(y), t, h)
    <3>1. Balanced(y, h) /\ y.color = "RED" /\ y.left = t.left /\ y.right = x /\ nodes[fix_up(y)] <= nodes[t]
      BY <1>1, <1>2, <2>3, RefilledIs
    <3>2. Sound(fix_up(y), h)
      BY <1>1, <2>3, <3>1, FixRed DEF Replaces
    <3> QED
      BY <3>1, <3>2 DEF Replaces, Sound
  <2>4. CanGoRight(t, t, h, h)
    BY <2>2, <2>3 DEF CanGoRight, Ready
  <2> QED
    BY <1>3, <1>4, <2>1, <2>2, <2>4
<1>6. CASE Poor(t.right)
  <2>1. b = move_red_right(t)
    BY <1>6 DEF GoneRight
  <2>2. t.right # Nil /\ ~IsRed(t.right.left)
    <3>1. t.right # Nil
      BY <1>6 DEF Poor, Null
    <3>2. rb_left(t.right) = t.right.left
      BY <1>1, <3>1, NodeIs
    <3> QED
      BY <1>6, <3>1, <3>2 DEF Poor
  <2>3. Starved(t, h)
    BY <1>1, <2>2, StarvedIs
  <2>4. /\ b \in Tree /\ b # Nil /\ h - 1 \in Nat
        /\ \/ /\ b.color = "BLACK" /\ b.key = t.key
              /\ IsRed(b.left) /\ IsRed(b.right) /\ Balanced(b, h - 1)
           \/ /\ b.color = "RED" /\ ~IsRed(b.left) /\ Sound(b.left, h)
              /\ LeansRight(b.right, h) /\ b.right.key = t.key
    BY <2>1, <2>2, <2>3, MovedRight
  <2>5. nodes[b] = nodes[t]
    BY <2>1, MoveRightSame DEF Same
  <2> HIDE DEF b
  <2>6. CASE b.color = "BLACK"
    <3> DEFINE g == h - 1
    <3>1. g \in Nat /\ Balanced(b, g) /\ IsRed(b.right) /\ g + 1 = h /\ b.key = t.key
      BY <2>4, <2>6
    <3> HIDE DEF g
    <3>2. Fed(b.right, g)
      BY <3>1 DEF Fed, Balanced
    <3>3. ASSUME NEW x, NEW y, Replaces(x, b.right, g), Refilled(y, b, x)
          PROVE  Replaces(fix_up(y), t, h)
      <4>1. Sound(b.left, g)
        BY <3>1 DEF Balanced
      <4>2. Balanced(y, g) /\ y.color = "BLACK" /\ nodes[fix_up(y)] <= nodes[t]
        BY <2>4, <2>5, <2>6, <3>1, <3>3, <4>1, RefilledIs
      <4>3. Sound(fix_up(y), h)
        BY <3>1, <4>2, FixBlack
      <4> QED
        BY <4>2, <4>3 DEF Replaces, Sound
    <3>4. CanGoRight(b, t, g, h)
      BY <3>2, <3>3 DEF CanGoRight, Ready
    <3> QED
      BY <1>3, <1>4, <3>1, <3>2, <3>4 DEF b
  <2>7. CASE b.color = "RED"
    <3>1. ~IsRed(b.left) /\ Sound(b.left, h) /\ LeansRight(b.right, h) /\ b.right.key = t.key
      BY <2>4, <2>7
    <3>2. b.right # Nil /\ ~IsRed(b.right)
      BY <3>1, RedIs DEF LeansRight, Balanced
    <3>3. ASSUME NEW x, NEW y, Replaces(x, b.right, h), Refilled(y, b, x)
          PROVE  Replaces(fix_up(y), t, h)
      <4>1. Balanced(y, h) /\ y.color = "RED" /\ y.left = b.left /\ y.right = x /\ nodes[fix_up(y)] <= nodes[t]
        BY <2>4, <2>5, <2>7, <3>1, <3>3, RefilledIs
      <4>2. Sound(fix_up(y), h)
        BY <3>1, <3>2, <3>3, <4>1, FixRed DEF Replaces
      <4> QED
        BY <4>1, <4>2 DEF Replaces, Sound
    <3>4. CanGoRight(b, t, h, h)
      BY <3>1, <3>3 DEF CanGoRight, Ready
    <3> QED
      BY <1>3, <1>4, <3>1, <3>2, <3>4 DEF b
  <2> QED
    BY <2>4, <2>6, <2>7
<1> QED
  BY <1>5, <1>6

\* Down to the right there is a red link again, or the node has been turned
\* below its left child and the key is not to its left.
LEMMA WentRight ==
    ASSUME cmp \in Comparators, NEW t \in Tree, t # Nil, NEW h \in Nat, Ready(t, h), InOrder(t)
    PROVE  LET a == Turned(t)  b == GoneRight(a)
           IN /\ a.right = Nil => a = t /\ t.left = Nil /\ h = 1 /\ IsRed(t)
              /\ a.key = t.key \/ (Less(a.key, t.key) /\ b = a)
              /\ b.key = t.key \/ Less(b.key, t.key)
              /\ \E g \in Nat :
                   /\ CanGoRight(b, t, g, h)
                   /\ \/ Fed(b.right, g)
                      \/ LeansRight(b.right, g) /\ b.right.key = t.key /\ Less(b.key, t.key)
<1> DEFINE a == Turned(t)
           b == GoneRight(a)
<1>1. ASSUME NEW c, c \in Tree, c # Nil, Same(c, t), c.right # Nil, c.right.key = t.key
      PROVE  Less(c.key, t.key)
  <2>1. c.right \in Tree /\ InOrder(c)
    BY <1>1, TreeParts, SameEntries
  <2>2. <<c.right.key, c.right.data>> \in E(c.right)
    BY <1>1, <2>1, EntriesOf
  <2>3. \A e \in E(c.right) : Less(c.key, e[1])
    BY <1>1, <2>1, OrderOf
  <2> QED
    BY <1>1, <2>2, <2>3
<1>2. a \in Tree /\ a # Nil /\ Same(a, t) /\ b \in Tree /\ b # Nil /\ Same(b, t)
  BY GoneRightSame
<1>3. CASE Fed(t, h) /\ IsRed(t.left)
  <2>1. /\ b = a /\ a.right # Nil /\ a.right.key = t.key
        /\ \E g \in Nat : Fed(a.right, g) /\ CanGoRight(a, t, g, h)
    BY <1>3, TurnedRight
  <2>2. Less(a.key, t.key)
    BY <1>1, <1>2, <2>1
  <2> HIDE DEF a, b
  <2> QED
    BY <2>1, <2>2 DEF a, b
<1>4. CASE LeansRight(t, h)
  <2>1. /\ a = t /\ b = t /\ t.right # Nil
        /\ \E g \in Nat : Fed(t.right, g) /\ CanGoRight(t, t, g, h)
    BY <1>4, LeaningRight
  <2> HIDE DEF a, b
  <2> QED
    BY <2>1 DEF a, b
<1>5. CASE Fed(t, h) /\ ~IsRed(t.left)
  <2>1. Sound(t, h) /\ IsRed(t)
    BY <1>5 DEF Fed
  <2>2. /\ a = t
        /\ t.right = Nil => t.left = Nil /\ h = 1
        /\ \/ b.key = t.key /\ \E g \in Nat : Fed(b.right, g) /\ CanGoRight(b, t, g, h)
           \/ /\ b.right # Nil /\ b.right.key = t.key
              /\ \E g \in Nat : LeansRight(b.right, g) /\ CanGoRight(b, t, g, h)
    BY <1>5, <2>1, FromRed
  <2>3. b.right # Nil /\ b.right.key = t.key => Less(b.key, t.key)
    BY <1>1, <1>2
  <2> HIDE DEF a, b
  <2>4. b.key = t.key \/ Less(b.key, t.key)
    BY <2>2, <2>3
  <2>5. \E g \in Nat :
                   /\ CanGoRight(b, t, g, h)
                   /\ \/ Fed(b.right, g)
                      \/ LeansRight(b.right, g) /\ b.right.key = t.key /\ Less(b.key, t.key)
    BY <2>2, <2>3
  <2> QED
    BY <2>1, <2>2, <2>4, <2>5 DEF a, b
<1> QED
  BY <1>3, <1>4, <1>5 DEF Ready

\* A tree u holds some of what t held.
Lost(u, t) == u \in Tree /\ nodes[u] <= nodes[t] /\ E(u) \subseteq E(t)

\* A tree u holds what t held, but the entry of k.
Deleted(u, t, k, h) == Replaces(u, t, h) /\ InOrder(u) /\ E(u) = Drop(E(t), k)

Deletes(r, t, k, h) == IF IsDone(r) THEN Deleted(r.tree, t, k, h) ELSE Lost(r.tree, t)

CanDelete(t, k, h) == Fed(t, h) \/ (LeansRight(t, h) /\ ~Less(k, t.key))

\* What a link shows after a deletion has broken off lost entries at most.
LEMMA ShownIs ==
    ASSUME NEW t, NEW b \in Tree, b # Nil
    PROVE  Lost(Shown(t, b), b)
<1>1. Shown(t, b) \in {b, b.left, b.right}
  BY TreesAreAny, AnyShown
<1>2. /\ b.left \in Tree /\ b.right \in Tree /\ nodes[b] = nodes[b.left] + nodes[b.right] + 1
      /\ nodes[b.left] \in Nat /\ nodes[b.right] \in Nat
  BY TreeParts
<1>3. E(b) = E(b.left) \cup {<<b.key, b.data>>} \cup E(b.right)
  BY EntriesOf
<1>4. Lost(b, b) /\ Lost(b.left, b) /\ Lost(b.right, b)
  BY <1>2, <1>3 DEF Lost
<1> QED
  BY <1>1, <1>4

LEMMA LostIs ==
    ASSUME NEW t \in Tree, NEW a, Same(a, t), NEW b, Lost(b, a), NEW c, Lost(c, b)
    PROVE  Lost(c, t)
<1>1. nodes[c] \in Nat /\ nodes[b] \in Nat /\ nodes[a] = nodes[t] /\ nodes[t] \in Nat
  BY TreeIs, SameEntries DEF Lost
<1>2. E(a) = E(t)
  BY SameEntries
<1> QED
  BY <1>1, <1>2 DEF Lost

\* A step of a deletion to the left, if the deletion below is right.
LEMMA DeletedLeft ==
    ASSUME cmp \in Comparators, NEW k \in Keys, NEW t \in Tree, t # Nil, NEW h \in Nat,
           Fed(t, h), InOrder(t), Less(k, t.key), NEW f,
           \A n \in Nat : Fed(GoneLeft(t).left, n) /\ InOrder(GoneLeft(t).left)
                             => Deletes(f[GoneLeft(t).left], GoneLeft(t).left, k, n)
    PROVE  Deletes(DeleteLeft(f, t), t, k, h)
<1> DEFINE a == GoneLeft(t)
           s == f[a.left]
           b == rb_set_left(a, s.tree)
<1>1. a \in Tree /\ a # Nil /\ Same(a, t) /\ a.left \in Tree /\ a.right \in Tree
  BY GoneLeftSame
<1>2. PICK g \in Nat :
         /\ Fed(a.left, g)
         /\ \A x : Replaces(x, a.left, g) => Replaces(fix_up(rb_set_left(a, x)), t, h)
  BY WentLeft
<1>3. a.key = t.key \/ (a.left # Nil /\ a.left.key = t.key)
  BY WentLeft
<1>4. DeleteLeft(f, t) = IF IsDone(s) THEN Done(fix_up(b)) ELSE Escaped(Shown(t, b))
  BY DEF DeleteLeft
<1>5. InOrder(a) /\ E(a) = E(t) /\ nodes[a] = nodes[t]
  BY <1>1, SameEntries
<1>6. /\ InOrder(a.left)
      /\ \A e \in E(a.left) : Less(e[1], a.key)
      /\ \A e \in E(a.right) : Less(a.key, e[1])
  BY <1>1, <1>5, OrderOf
<1>7. Deletes(s, a.left, k, g)
  BY <1>2, <1>6
<1> HIDE DEF a, s
<1>8. s.tree \in Tree /\ nodes[s.tree] <= nodes[a.left] /\ E(s.tree) \subseteq E(a.left)
      /\ (IsDone(s) => InOrder(s.tree) /\ E(s.tree) = Drop(E(a.left), k) /\ Replaces(s.tree, a.left, g))
  BY <1>7 DEF Deletes, Deleted, Lost, Replaces, Drop
<1> DEFINE u == fix_up(b)
<1>9. /\ u \in Tree /\ u # Nil /\ b \in Tree /\ nodes[b] <= nodes[a] /\ E(b) = E(u)
      /\ E(u) = E(s.tree) \cup {<<a.key, a.data>>} \cup E(a.right)
      /\ InOrder(a) /\ InOrder(s.tree) => InOrder(u)
  BY <1>1, <1>8, LessLeft
<1>10. b # Nil
  BY <1>1, SetsAreNodes
<1>11. E(a) = E(a.left) \cup {<<a.key, a.data>>} \cup E(a.right)
  BY <1>1, EntriesOf
<1>12. CASE IsDone(s)
  <2>1. Replaces(u, t, h)
    BY <1>2, <1>8, <1>12
  <2> HIDE DEF u
  <2>2. Less(k, a.key)
    <3>1. ASSUME a.left # Nil, a.left.key = t.key PROVE Less(t.key, a.key)
      <4>1. <<a.left.key, a.left.data>> \in E(a.left)
        BY <1>1, <3>1, EntriesOf
      <4> QED
        BY <1>6, <3>1, <4>1
    <3>2. t.key \in Keys /\ a.key \in Keys
      BY <1>1, TreeParts
    <3> QED
      BY <1>3, <3>1, <3>2, OrderIs
  <2>3. k # a.key /\ \A e \in E(a.right) : e[1] # k
    <3>1. a.key \in Keys /\ \A e \in E(a.right) : e[1] \in Keys
      BY <1>1, TreeParts, EntriesOf DEF Entry
    <3> QED
      BY <1>6, <2>2, <3>1, OrderIs
  <2>4. E(u) = Drop(E(a), k)
    BY <1>8, <1>9, <1>11, <1>12, <2>3 DEF Drop
  <2>5. Deleted(u, t, k, h)
    BY <1>5, <1>8, <1>9, <1>12, <2>1, <2>4 DEF Deleted
  <2>6. IsDone(Done(u)) /\ Done(u).tree = u
    BY ResultsAre
  <2> QED
    BY <1>4, <1>12, <2>5, <2>6 DEF Deletes, u
<1>13. CASE ~IsDone(s)
  <2>1. Lost(b, a)
    BY <1>8, <1>9, <1>11 DEF Lost
  <2>2. Lost(Shown(t, b), b)
    BY <1>9, <1>10, ShownIs
  <2>3. Lost(Shown(t, b), t)
    BY <1>1, <2>1, <2>2, LostIs
  <2>4. ~IsDone(Escaped(Shown(t, b))) /\ Escaped(Shown(t, b)).tree = Shown(t, b)
    BY ResultsAre
  <2> QED
    BY <1>4, <1>13, <2>3, <2>4 DEF Deletes
<1> QED
  BY <1>12, <1>13

----------------------------------------------------------------------------
(* Deletion to the right: the key is here, or further on.                  *)

LEMMA AroundKey ==
    ASSUME cmp \in Comparators, NEW t \in Tree, t # Nil, InOrder(t), NEW k \in Keys
    PROVE  /\ t.key = k => Drop(E(t), k) = E(t.left) \cup E(t.right)
           /\ Less(t.key, k) => /\ t.key # k
                                /\ Drop(E(t), k) = E(t.left) \cup {<<t.key, t.data>>} \cup Drop(E(t.right), k)
<1>1. /\ \A e \in E(t.left) : Less(e[1], t.key)
      /\ \A e \in E(t.right) : Less(t.key, e[1])
  BY OrderOf
<1>2. E(t) = E(t.left) \cup {<<t.key, t.data>>} \cup E(t.right)
  BY EntriesOf
<1>3. t.left \in Tree /\ t.right \in Tree /\ t.key \in Keys
  BY TreeParts
<1>4. (\A e \in E(t.left) : e[1] \in Keys) /\ \A e \in E(t.right) : e[1] \in Keys
  BY <1>3, EntriesOf DEF Entry
<1>5. ASSUME t.key = k PROVE Drop(E(t), k) = E(t.left) \cup E(t.right)
  <2>1. (\A e \in E(t.left) : e[1] # k) /\ \A e \in E(t.right) : e[1] # k
    BY <1>1, <1>3, <1>4, <1>5, OrderIs
  <2> QED
    BY <1>2, <1>5, <2>1 DEF Drop
<1>6. ASSUME Less(t.key, k)
      PROVE  /\ t.key # k
             /\ Drop(E(t), k) = E(t.left) \cup {<<t.key, t.data>>} \cup Drop(E(t.right), k)
  <2>1. t.key # k /\ \A e \in E(t.left) : e[1] # k
    <3>1. ~Less(t.key, t.key)
      BY <1>3, OrderIs
    <3>2. \A e \in E(t.left) : Less(e[1], k) /\ ~Less(e[1], e[1])
      BY <1>1, <1>3, <1>4, <1>6, OrderIs
    <3> QED
      BY <1>6, <3>1, <3>2
  <2> QED
    BY <1>2, <2>1 DEF Drop
<1> QED
  BY <1>5, <1>6

\* The deletion of the entry at hand, whose place the least one to its right
\* takes.
LEMMA DeletedHere ==
    ASSUME cmp \in Comparators, NEW k \in Keys, NEW t \in Tree, InOrder(t),
           NEW b, b # Nil, Same(b, t), b.key = k, b.right # Nil,
           NEW g \in Nat, NEW h \in Nat, CanGoRight(b, t, g, h), Fed(b.right, g)
    PROVE  LET min == search_min[b.right]
           IN Deleted(fix_up(rb_set_right(rb_set_data(rb_set_key(b, min.key), min.data),
                                          delete_min_impl[b.right])), t, k, h)
<1> DEFINE min == search_min[b.right]
           z == rb_set_data(rb_set_key(b, min.key), min.data)
           x == delete_min_impl[b.right]
           y == rb_set_right(z, x)
           u == fix_up(y)
<1>1. b \in Tree /\ InOrder(b) /\ E(b) = E(t) /\ nodes[b] = nodes[t]
  BY SameEntries DEF Same
<1>2. /\ b.left \in Tree /\ b.right \in Tree /\ nodes[b] = nodes[b.left] + nodes[b.right] + 1
      /\ nodes[b.left] \in Nat /\ nodes[b.right] \in Nat /\ nodes[b] \in Nat /\ nodes[b] <= MaxNodes
  BY <1>1, TreeParts, TreeIs
<1>3. /\ InOrder(b.left) /\ InOrder(b.right)
      /\ \A e \in E(b.left) : Less(e[1], b.key)
      /\ \A e \in E(b.right) : Less(b.key, e[1])
  BY <1>1, OrderOf
<1>4. min.key \in Keys /\ min.data \in Data /\ IsLeast(<<min.key, min.data>>, E(b.right))
  BY <1>2, <1>3, MinimumIs
<1>5. Replaces(x, b.right, g) /\ Headless(x, b.right)
  BY <1>2, <1>3, DeleteMinSound
<1>6. x \in Tree /\ nodes[x] <= nodes[b.right] /\ nodes[x] \in Nat
  BY <1>5, TreeIs DEF Replaces
<1> HIDE DEF min, x
<1>7. /\ z \in Tree /\ z # Nil /\ z.left = b.left /\ z.right = b.right /\ z.color = b.color
      /\ z.key = min.key /\ z.data = min.data
  BY <1>1, <1>4, SetEntryIs
<1> HIDE DEF z
<1>8. nodes[z.left] + nodes[x] < MaxNodes
  BY <1>2, <1>6, <1>7, HandlesAssumption
<1>9. /\ y \in Tree /\ y # Nil /\ y.left = b.left /\ y.right = x /\ y.color = b.color
      /\ y.key = min.key
      /\ E(y) = E(b.left) \cup {<<min.key, min.data>>} \cup E(x)
  BY <1>6, <1>7, <1>8, SetRightIs
<1> HIDE DEF y
<1>10. Replaces(u, t, h)
  BY <1>5, <1>9 DEF CanGoRight, Refilled
<1>11. Same(u, y)
  BY <1>9, FixSame
<1>12. PICK m : IsLeast(m, E(b.right)) /\ E(x) = E(b.right) \ {m} /\ InOrder(x)
  BY <1>5 DEF Headless
<1>13. m = <<min.key, min.data>>
  BY <1>2, <1>4, <1>12, EntriesOf, LeastIsOne
<1>14. InOrder(y)
  <2>1. m \in E(b.right) /\ Less(b.key, min.key)
    BY <1>3, <1>12, <1>13 DEF IsLeast
  <2>2. b.key \in Keys /\ \A e \in E(b.left) : e[1] \in Keys
    BY <1>1, <1>2, TreeParts, EntriesOf DEF Entry
  <2>3. \A e \in E(b.left) : Less(e[1], min.key)
    BY <1>3, <1>4, <2>1, <2>2, OrderIs
  <2>4. \A e \in E(x) : Less(min.key, e[1])
    BY <1>12, <1>13 DEF IsLeast
  <2> QED
    BY <1>3, <1>9, <1>12, <2>3, <2>4, OrderOf
<1>15. E(y) = Drop(E(b), k)
  <2>1. Drop(E(b), k) = E(b.left) \cup E(b.right)
    BY <1>1, AroundKey
  <2>2. m \in E(b.right)
    BY <1>12 DEF IsLeast
  <2> QED
    BY <1>9, <1>12, <1>13, <2>1, <2>2
<1>16. InOrder(u) /\ E(u) = Drop(E(t), k)
  BY <1>1, <1>9, <1>11, <1>14, <1>15, SameEntries
<1> QED
  BY <1>10, <1>16 DEF Deleted, u, y, z, x, min

\* A step of a deletion to the right, if the deletion below is right.
LEMMA DeletedFurther ==
    ASSUME cmp \in Comparators, NEW k \in Keys, NEW t \in Tree, InOrder(t),
           NEW b, b # Nil, Same(b, t), Less(b.key, k),
           NEW g \in Nat, NEW h \in Nat, CanGoRight(b, t, g, h),
           NEW x, Deleted(x, b.right, k, g)
    PROVE  Deleted(fix_up(rb_set_right(b, x)), t, k, h)
<1> DEFINE y == rb_set_right(b, x)
           u == fix_up(y)
<1>1. b \in Tree /\ InOrder(b) /\ E(b) = E(t) /\ nodes[b] = nodes[t]
  BY SameEntries DEF Same
<1>2. /\ b.left \in Tree /\ b.right \in Tree /\ nodes[b] = nodes[b.left] + nodes[b.right] + 1
      /\ nodes[b.left] \in Nat /\ nodes[b.right] \in Nat /\ nodes[b] \in Nat /\ nodes[b] <= MaxNodes
  BY <1>1, TreeParts, TreeIs
<1>3. /\ Replaces(x, b.right, g) /\ InOrder(x) /\ E(x) = Drop(E(b.right), k)
      /\ x \in Tree /\ nodes[x] <= nodes[b.right] /\ nodes[x] \in Nat
  BY TreeIs DEF Deleted, Replaces
<1>4. nodes[b.left] + nodes[x] < MaxNodes
  BY <1>2, <1>3, HandlesAssumption
<1>5. /\ y \in Tree /\ y # Nil /\ y.left = b.left /\ y.right = x /\ y.color = b.color
      /\ E(y) = E(b.left) \cup {<<b.key, b.data>>} \cup E(x)
  BY <1>1, <1>3, <1>4, SetRightIs
<1>6. E(x) \subseteq E(b.right)
  BY <1>3 DEF Drop
<1>7. InOrder(u) /\ E(u) = E(y)
  BY <1>1, <1>3, <1>6, LessRight
<1> HIDE DEF y
<1>8. Replaces(u, t, h)
  BY <1>3, <1>5 DEF CanGoRight, Refilled
<1>9. E(u) = Drop(E(t), k)
  <2>1. Drop(E(b), k) = E(b.left) \cup {<<b.key, b.data>>} \cup Drop(E(b.right), k)
    BY <1>1, AroundKey
  <2> QED
    BY <1>1, <1>3, <1>5, <1>7, <2>1
<1> QED
  BY <1>7, <1>8, <1>9 DEF Deleted, u, y

\* A step of a deletion at the key or to its right, with every way it may
\* break off.
LEMMA DeletedRight ==
    ASSUME cmp \in Comparators, NEW k \in Keys, NEW t \in Tree, t # Nil, NEW h \in Nat,
           Ready(t, h), InOrder(t), ~Less(k, t.key), Cmp(k, t.key) # "reject", NEW f,
           \A n \in Nat : LET x == GoneRight(Turned(t)).right
                          IN CanDelete(x, k, n) /\ InOrder(x) => Deletes(f[x], x, k, n)
    PROVE  Deletes(DeleteRight(f, k, t), t, k, h)
<1> DEFINE a == Turned(t)
           b == GoneRight(a)
           min == search_min[b.right]
           s == f[b.right]
           v == rb_set_right(b, s.tree)
           cut == fix_up(rb_set_right(rb_set_data(rb_set_key(b, min.key), min.data), delete_min_impl[b.right]))
<1>1. /\ a \in Tree /\ a # Nil /\ Same(a, t)
      /\ b \in Tree /\ b # Nil /\ Same(b, t) /\ b.left \in Tree /\ b.right \in Tree
      /\ IF a.right = Nil THEN b = a ELSE b.right # Nil
  BY GoneRightSame
<1>2. PICK g \in Nat :
         /\ CanGoRight(b, t, g, h)
         /\ \/ Fed(b.right, g)
            \/ LeansRight(b.right, g) /\ b.right.key = t.key /\ Less(b.key, t.key)
  BY WentRight
<1>3. /\ a.right = Nil => a = t /\ t.left = Nil /\ h = 1 /\ IsRed(t)
      /\ b.key = t.key \/ Less(b.key, t.key)
  BY WentRight
<1>4. /\ DeleteRight(f, k, t) =
           IF Cmp(k, a.key) = "reject" THEN Escaped(Shown(t, a))
           ELSE IF Cmp(k, a.key) = "same" /\ a.right = Nil THEN Done(Nil)
           ELSE IF Cmp(k, b.key) = "reject" THEN Escaped(Shown(t, b))
           ELSE IF Cmp(k, b.key) = "same" THEN Done(cut)
           ELSE IF IsDone(s) THEN Done(fix_up(v)) ELSE Escaped(Shown(t, v))
  BY DEF DeleteRight
<1>5. InOrder(b) /\ E(b) = E(t) /\ nodes[b] = nodes[t]
  BY <1>1, SameEntries
<1>6. InOrder(b.right)
  BY <1>1, <1>5, OrderOf
<1>7. /\ \A n \in Nat : CanDelete(b.right, k, n) => Deletes(s, b.right, k, n)
  BY <1>6
<1> HIDE DEF a, b, s, min
<1>8. a.key \in Keys /\ b.key \in Keys /\ t.key \in Keys
  BY <1>1, TreeParts
<1>9. k = t.key \/ Less(t.key, k)
  BY <1>8, OrderIs DEF Less
<1>10. b.key = k \/ Less(b.key, k)
  BY <1>3, <1>8, <1>9, OrderIs
<1>11. ASSUME NEW w, Lost(w, t) PROVE Deletes(Escaped(w), t, k, h)
  BY <1>11, ResultsAre DEF Deletes
<1>12. ASSUME NEW w, Deleted(w, t, k, h) PROVE Deletes(Done(w), t, k, h)
  BY <1>12, ResultsAre DEF Deletes
<1>13. ASSUME NEW w, w \in Tree, w # Nil, Same(w, t) PROVE Lost(Shown(t, w), t)
  <2>1. Lost(w, w)
    BY <1>13, TreeIs DEF Lost
  <2>2. Lost(Shown(t, w), w)
    BY <1>13, ShownIs
  <2> QED
    BY <1>13, <2>1, <2>2, LostIs
<1>14. CASE Cmp(k, a.key) = "reject"
  BY <1>1, <1>4, <1>11, <1>13, <1>14
<1>15. CASE Cmp(k, a.key) = "same" /\ a.right = Nil
  <2>1. a = t /\ t.left = Nil /\ t.right = Nil /\ h = 1 /\ IsRed(t) /\ t.key = k
    BY <1>3, <1>8, <1>15, OrderIs
  <2>2. Replaces(Nil, t, h)
    BY <2>1, NilIsTree, NilIsSound, TreeIs DEF Replaces
  <2>3. Drop(E(t), k) = {}
    BY <2>1, AroundKey, NilIsInOrder
  <2>4. Deleted(Nil, t, k, h)
    BY <2>2, <2>3, NilIsInOrder DEF Deleted
  <2> QED
    BY <1>4, <1>12, <1>15, <2>4
<1>16. CASE /\ Cmp(k, a.key) # "reject" /\ ~(Cmp(k, a.key) = "same" /\ a.right = Nil)
            /\ Cmp(k, b.key) = "reject"
  BY <1>1, <1>4, <1>11, <1>13, <1>16
<1>17. CASE /\ Cmp(k, a.key) # "reject" /\ ~(Cmp(k, a.key) = "same" /\ a.right = Nil)
            /\ Cmp(k, b.key) = "same"
  <2>1. b.key = k
    BY <1>8, <1>17, OrderIs
  <2>2. ~Less(b.key, t.key)
    BY <1>8, <1>9, <2>1, OrderIs
  <2>3. Fed(b.right, g)
    BY <1>2, <2>2
  <2>4. b.right # Nil
    <3>1. a.right # Nil
      BY <1>1, <1>17
    <3> QED
      BY <1>1, <3>1
  <2>5. Deleted(cut, t, k, h)
    BY <1>1, <1>2, <2>1, <2>3, <2>4, DeletedHere DEF min
  <2> QED
    BY <1>4, <1>12, <1>17, <2>5
<1>18. CASE /\ Cmp(k, a.key) # "reject" /\ ~(Cmp(k, a.key) = "same" /\ a.right = Nil)
            /\ Cmp(k, b.key) # "reject" /\ Cmp(k, b.key) # "same"
  <2>1. Less(b.key, k)
    BY <1>8, <1>10, <1>18, OrderIs
  <2>2. CanDelete(b.right, k, g)
    BY <1>2 DEF CanDelete
  <2>3. Deletes(s, b.right, k, g)
    BY <1>7, <2>2
  <2>4. ASSUME IsDone(s) PROVE Deletes(DeleteRight(f, k, t), t, k, h)
    <3>1. Deleted(s.tree, b.right, k, g)
      BY <2>3, <2>4 DEF Deletes
    <3>2. Deleted(fix_up(v), t, k, h)
      BY <1>1, <1>2, <2>1, <3>1, DeletedFurther
    <3>3. DeleteRight(f, k, t) = Done(fix_up(v))
      BY <1>4, <1>18, <2>4
    <3> QED
      BY <1>12, <3>2, <3>3
  <2>5. ASSUME ~IsDone(s) PROVE Deletes(DeleteRight(f, k, t), t, k, h)
    <3>1. Lost(s.tree, b.right)
      BY <2>3, <2>5 DEF Deletes
    <3>2. v \in Tree /\ nodes[v] <= nodes[b] /\ E(v) = E(b.left) \cup {<<b.key, b.data>>} \cup E(s.tree)
      BY <1>1, <3>1, LessRight DEF Lost
    <3>3. E(b) = E(b.left) \cup {<<b.key, b.data>>} \cup E(b.right)
      BY <1>1, EntriesOf
    <3>4. Lost(v, b)
      BY <3>1, <3>2, <3>3 DEF Lost
    <3>5. v # Nil
      BY <1>1, SetsAreNodes
    <3>6. Lost(Shown(t, v), v)
      BY <3>2, <3>5, ShownIs
    <3>7. Lost(Shown(t, v), t)
      BY <1>1, <3>4, <3>6, LostIs
    <3>8. DeleteRight(f, k, t) = Escaped(Shown(t, v))
      BY <1>4, <1>18, <2>5
    <3> QED
      BY <1>11, <3>7, <3>8
  <2> QED
    BY <2>4, <2>5
<1> QED
  BY <1>14, <1>15, <1>16, <1>17, <1>18

\* A deletion with a red link at hand takes the entry of its key only, keeps
\* the order and the height, or breaks off and loses entries at most.
LEMMA DeleteSound ==
    ASSUME cmp \in Comparators, NEW k \in Keys
    PROVE  \A t \in Tree, h \in Nat :
              CanDelete(t, k, h) /\ InOrder(t) => Deletes(delete_impl(k)[t], t, k, h)
<1> DEFINE f == delete_impl(k)
           X == {t \in Tree : \A h \in Nat : CanDelete(t, k, h) /\ InOrder(t) => Deletes(f[t], t, k, h)}
<1>1. \A t \in Tree : f[t] = DeleteStep(f, k, t)
  BY DeleteIs
<1> HIDE DEF f
<1>2. ASSUME NEW t \in Tree, \A e \in Tree : nodes[e] < nodes[t] => e \in X,
             NEW h \in Nat, CanDelete(t, k, h), InOrder(t)
      PROVE  Deletes(f[t], t, k, h)
  <2>1. CASE t = Nil
    <3>1. f[t] = Done(Nil)
      BY <1>1, <2>1 DEF DeleteStep
    <3>2. h = 1
      BY <1>2, <2>1, NilIsSound DEF CanDelete, Fed, LeansRight, Balanced
    <3>3. Replaces(Nil, Nil, 1)
      BY NilIsTree, NilIsSound DEF Replaces
    <3>4. Drop(E(Nil), k) = {}
      BY NilIsInOrder DEF Drop
    <3>5. Deleted(Nil, t, k, h)
      BY <2>1, <3>2, <3>3, <3>4, NilIsInOrder DEF Deleted
    <3> QED
      BY <3>1, <3>5, ResultsAre DEF Deletes
  <2>2. CASE t # Nil /\ Cmp(k, t.key) = "reject"
    <3>1. f[t] = Escaped(t)
      BY <1>1, <2>2 DEF DeleteStep
    <3>2. Lost(t, t)
      BY TreeIs DEF Lost
    <3> QED
      BY <3>1, <3>2, ResultsAre DEF Deletes
  <2>3. CASE t # Nil /\ Cmp(k, t.key) = "less"
    <3>1. f[t] = DeleteLeft(f, t)
      BY <1>1, <2>3 DEF DeleteStep
    <3>2. Fed(t, h) /\ Less(k, t.key)
      BY <1>2, <2>3 DEF CanDelete, Less
    <3>3. GoneLeft(t).left \in Tree /\ nodes[GoneLeft(t).left] < nodes[t]
      BY <2>3, GoneLeftSame
    <3>4. GoneLeft(t).left \in X
      BY <1>2, <3>3
    <3>5. \A n \in Nat : Fed(GoneLeft(t).left, n) /\ InOrder(GoneLeft(t).left)
                             => Deletes(f[GoneLeft(t).left], GoneLeft(t).left, k, n)
      BY <3>4 DEF CanDelete
    <3>6. Deletes(DeleteLeft(f, t), t, k, h)
      BY <1>2, <2>3, <3>2, <3>5, DeletedLeft
    <3> QED
      BY <3>1, <3>6
  <2>4. CASE t # Nil /\ Cmp(k, t.key) # "reject" /\ Cmp(k, t.key) # "less"
    <3>1. f[t] = DeleteRight(f, k, t)
      BY <1>1, <2>4 DEF DeleteStep
    <3>2. Ready(t, h) /\ ~Less(k, t.key)
      BY <1>2, <2>4 DEF CanDelete, Less, Ready
    <3> DEFINE x == GoneRight(Turned(t)).right
    <3>3. x \in Tree /\ nodes[x] < nodes[t]
      BY <2>4, GoneRightSame
    <3>4. x \in X
      BY <1>2, <3>3
    <3>5. \A n \in Nat : CanDelete(x, k, n) /\ InOrder(x) => Deletes(f[x], x, k, n)
      BY <3>4
    <3>6. Deletes(DeleteRight(f, k, t), t, k, h)
      BY <1>2, <2>4, <3>2, <3>5, DeletedRight
    <3> QED
      BY <3>1, <3>6
  <2> QED
    BY <2>1, <2>2, <2>3, <2>4
<1>3. \A t \in Tree : (\A e \in Tree : nodes[e] < nodes[t] => e \in X) => t \in X
  BY <1>2
<1> HIDE DEF X
<1>4. Tree \subseteq X
  BY <1>3, TreeInduction
<1> QED
  BY <1>4 DEF X, f

----------------------------------------------------------------------------
(* The operations on the root.                                             *)

\* rb-delete gives the root a red link.
LEMMA BracketedIs ==
    ASSUME NEW t \in Tree, Good(t)
    PROVE  Same(Bracketed(t), t) /\ \E h \in Nat : Fed(Bracketed(t), h)
<1>1. PICK h \in Nat : Sound(t, h) /\ ~IsRed(t) /\ InOrder(t)
  BY DEF Good
<1>2. CASE t = Nil
  <2>1. Bracketed(t) = Nil
    BY <1>2 DEF Bracketed, rb_set_color, Null
  <2> QED
    BY <1>1, <1>2, <2>1 DEF Fed, Same
<1>3. CASE t # Nil
  <2>1. rb_left(t) = t.left /\ rb_right(t) = t.right /\ ~IsRed(t.right)
    BY <1>1, <1>3, NodeIs, SoundParts
  <2>2. CASE IsRed(t.left)
    <3>1. Bracketed(t) = t
      BY <2>1, <2>2 DEF Bracketed
    <3> QED
      BY <1>1, <2>2, <3>1 DEF Fed, Same
  <2>3. CASE ~IsRed(t.left)
    <3>1. Bracketed(t) = rb_set_color(t, "RED")
      BY <2>1, <2>3 DEF Bracketed
    <3>2. /\ h - 1 \in Nat /\ Sound(Bracketed(t), h - 1) /\ IsRed(Bracketed(t))
          /\ Same(Bracketed(t), t)
      BY <1>1, <1>3, <2>3, <3>1, PaintedRed
    <3> QED
      BY <3>2 DEF Fed
  <2> QED
    BY <2>2, <2>3
<1> QED
  BY <1>2, <1>3

\* What replaces the root, painted black.
LEMMA PaintedGood ==
    ASSUME NEW u, NEW y, NEW h \in Nat, Replaces(u, y, h), InOrder(u)
    PROVE  LET r == rb_set_color(u, "BLACK")
           IN r \in Tree /\ Good(r) /\ E(r) = E(u) /\ nodes[r] <= nodes[y]
<1> DEFINE r == rb_set_color(u, "BLACK")
<1>1. Sound(u, h) /\ nodes[u] <= nodes[y]
  BY DEF Replaces
<1>2. Sound(r, IF IsRed(u) THEN h + 1 ELSE h) /\ ~IsRed(r) /\ Same(r, u)
  BY <1>1, PaintedBlack
<1> HIDE DEF r
<1>3. E(r) = E(u) /\ InOrder(r) /\ nodes[r] = nodes[u] /\ r \in Tree
  BY <1>2, SameEntries
<1>4. \E n \in Nat : Sound(r, n)
  BY <1>2 DEF Sound
<1> QED
  BY <1>1, <1>2, <1>3, <1>4 DEF Good, r

\* rb-delete makes a good tree of a good one, without the key, or loses
\* entries at most.
LEMMA DeleteGood ==
    ASSUME cmp \in Comparators, NEW k \in Keys, NEW t \in Tree, Good(t)
    PROVE  LET r == rb_delete(t, k)
           IN IF IsDone(r) THEN r.tree \in Tree /\ Good(r.tree) /\ E(r.tree) = Drop(E(t), k)
              ELSE Lost(r.tree, t)
<1> DEFINE b == Bracketed(t)
           s == delete_impl(k)[b]
           r == rb_delete(t, k)
<1>1. Same(b, t) /\ b \in Tree
  BY BracketedIs DEF Same
<1>2. PICK h \in Nat : Fed(b, h)
  BY BracketedIs
<1>3. InOrder(b) /\ E(b) = E(t) /\ nodes[b] = nodes[t]
  BY <1>1, SameEntries DEF Good
<1>4. Deletes(s, b, k, h)
  BY <1>1, <1>2, <1>3, DeleteSound DEF CanDelete
<1>5. r = IF IsDone(s) THEN Done(rb_set_color(s.tree, "BLACK")) ELSE s
  BY DEF rb_delete
<1> HIDE DEF s, b, r
<1>6. CASE IsDone(s)
  <2>1. Deleted(s.tree, b, k, h)
    BY <1>4, <1>6 DEF Deletes
  <2>2. IsDone(r) /\ r.tree = rb_set_color(s.tree, "BLACK")
    BY <1>5, <1>6, ResultsAre
  <2>3. r.tree \in Tree /\ Good(r.tree) /\ E(r.tree) = E(s.tree)
    BY <2>1, <2>2, PaintedGood DEF Deleted
  <2>4. E(s.tree) = Drop(E(t), k)
    BY <1>3, <2>1 DEF Deleted
  <2> QED
    BY <2>2, <2>3, <2>4 DEF r
<1>7. CASE ~IsDone(s)
  <2>1. ~IsDone(r) /\ Lost(r.tree, b)
    BY <1>4, <1>5, <1>7 DEF Deletes
  <2>2. Lost(r.tree, t)
    BY <1>3, <2>1 DEF Lost
  <2> QED
    BY <2>1, <2>2 DEF r
<1> QED
  BY <1>6, <1>7

\* rb-delete-min makes a good tree of a good one, without its least entry.
LEMMA DeleteMinGood ==
    ASSUME cmp \in Comparators, NEW t \in Tree, Good(t)
    PROVE  LET u == rb_delete_min(t)
           IN u \in Tree /\ Good(u) /\ (t = Nil => u = Nil) /\ (t # Nil => Headless(u, t))
<1> DEFINE b == Bracketed(t)
           s == delete_min_impl[b]
           u == rb_delete_min(t)
<1>1. Same(b, t) /\ b \in Tree
  BY BracketedIs DEF Same
<1>2. PICK h \in Nat : Fed(b, h)
  BY BracketedIs
<1>3. InOrder(b) /\ E(b) = E(t) /\ nodes[b] = nodes[t]
  BY <1>1, SameEntries DEF Good
<1>4. Replaces(s, b, h) /\ (b # Nil => Headless(s, b))
  BY <1>1, <1>2, <1>3, DeleteMinSound
<1>5. b = Nil <=> t = Nil
  BY <1>1, <1>3, NilNodes
<1>6. u = rb_set_color(s, "BLACK")
  BY DEF rb_delete_min
<1>7. b = Nil => s = Nil
  BY <1>1, DeleteMinIs
<1> HIDE DEF s, b, u
<1>8. InOrder(s)
  BY <1>4, <1>7, NilIsInOrder DEF Headless
<1>9. u \in Tree /\ Good(u) /\ E(u) = E(s)
  BY <1>4, <1>6, <1>8, PaintedGood
<1>10. t = Nil => u = Nil
  BY <1>5, <1>6, <1>7 DEF rb_set_color, Null
<1>11. t # Nil => Headless(u, t)
  BY <1>3, <1>4, <1>5, <1>9 DEF Headless, Good
<1> QED
  BY <1>9, <1>10, <1>11 DEF u

----------------------------------------------------------------------------
(* Searches.                                                               *)

SearchStep(f, k, t) ==
    IF Null(t) \/ Cmp(k, t.key) \in {"same", "reject"} THEN t
    ELSE f[IF Cmp(k, t.key) = "less" THEN t.left ELSE t.right]

\* search is what its recursive definition says.
LEMMA SearchIs ==
    ASSUME NEW k
    PROVE  \A t \in Shape : search(k)[t] = SearchStep(search(k), k, t)
<1> DEFINE V(f, t) == SearchStep(f, k, t)
           S == Shape
           H == [f \in Funs(Shape, S) |-> [t \in Shape |-> V(f, t)]]
<1>1. H \in Funs(Funs(Shape, S), Funs(Shape, S))
  <2>1. ASSUME NEW f \in Funs(Shape, S), NEW x \in Shape PROVE V(f, x) \in S
    <3>1. x # Nil => x.left \in Shape /\ x.right \in Shape
      BY PartsOf
    <3> QED
      BY <3>1 DEF Funs, Null, SearchStep
  <2> HIDE DEF V, S
  <2> QED
    BY <2>1 DEF Funs
<1>2. ASSUME NEW f \in Funs(Shape, S), NEW g \in Funs(Shape, S), NEW x \in Shape,
             x # Nil => f[x.left] = g[x.left] /\ f[x.right] = g[x.right]
      PROVE  H[f][x] = H[g][x]
  <2>1. V(f, x) = V(g, x)
    BY <1>2 DEF Null, SearchStep
  <2> HIDE DEF V, S
  <2> QED
    BY <2>1
<1>3. \E f \in Funs(Shape, S) : f = H[f]
  <2>1. Nil \in S
    BY NilIsTree
  <2> HIDE DEF H, S
  <2> QED
    BY ONLY <1>1, <1>2, <2>1, ShapeRecursion
<1>4. PICK f \in Funs(Shape, S) : f = [x \in Shape |-> V(f, x)]
  BY <1>3
<1>5. search(k) = CHOOSE g : g = [x \in Shape |-> V(g, x)]
  BY Zenon DEF search, SearchStep
<1> HIDE DEF V
<1> DEFINE g == search(k)
<1>6. g = [x \in Shape |-> V(g, x)]
  BY <1>4, <1>5
<1> HIDE DEF g
<1>7. ASSUME NEW x \in Shape PROVE g[x] = V(g, x)
  BY <1>6
<1> QED
  BY <1>7 DEF V, g

\* A search ends at the entry of the key, or where there is none, or at a
\* key the comparator does not take.
Finds(n, k, t) ==
    \/ n = Nil /\ \A e \in E(t) : e[1] # k
    \/ n # Nil /\ Cmp(k, n.key) = "reject"
    \/ n # Nil /\ Cmp(k, n.key) # "reject" /\ <<k, n.data>> \in E(t)

\* A search of a tree in order finds the entry of the key if there is one.
LEMMA SearchFinds ==
    ASSUME cmp \in Comparators, NEW k \in Keys
    PROVE  \A t \in Tree : InOrder(t) => Finds(search(k)[t], k, t)
<1> DEFINE f == search(k)
           X == {t \in Tree : InOrder(t) => Finds(f[t], k, t)}
<1>1. \A t \in Shape : f[t] = SearchStep(f, k, t)
  BY SearchIs
<1> HIDE DEF f
<1>2. ASSUME NEW t \in Tree, \A e \in Tree : nodes[e] < nodes[t] => e \in X, InOrder(t)
      PROVE  Finds(f[t], k, t)
  <2>0. f[t] = SearchStep(f, k, t)
    BY <1>1, TreeIs
  <2>1. CASE t = Nil
    BY <2>0, <2>1, NilIsInOrder DEF SearchStep, Finds, Null
  <2>2. CASE t # Nil
    <3>1. /\ t.left \in Tree /\ t.right \in Tree /\ t.key \in Keys
          /\ nodes[t.left] < nodes[t] /\ nodes[t.right] < nodes[t]
      BY <2>2, TreeParts
    <3>2. E(t) = E(t.left) \cup {<<t.key, t.data>>} \cup E(t.right)
      BY <2>2, EntriesOf
    <3>3. /\ InOrder(t.left) /\ InOrder(t.right)
          /\ \A e \in E(t.left) : Less(e[1], t.key)
          /\ \A e \in E(t.right) : Less(t.key, e[1])
      BY <1>2, <2>2, OrderOf
    <3>4. (\A e \in E(t.left) : e[1] \in Keys) /\ \A e \in E(t.right) : e[1] \in Keys
      BY <3>1, EntriesOf DEF Entry
    <3>5. CASE Cmp(k, t.key) \in {"same", "reject"}
      <4>1. f[t] = t
        BY <2>0, <3>5 DEF SearchStep
      <4>2. Cmp(k, t.key) = "same" => k = t.key
        BY <3>1, OrderIs
      <4> QED
        BY <2>2, <3>2, <3>5, <4>1, <4>2 DEF Finds
    <3>6. CASE Cmp(k, t.key) = "less"
      <4>1. f[t] = f[t.left]
        BY <2>0, <2>2, <3>6 DEF SearchStep, Null
      <4>2. Finds(f[t.left], k, t.left)
        BY <1>2, <3>1, <3>3
      <4>3. k # t.key /\ \A e \in E(t.right) : e[1] # k
        BY <3>1, <3>3, <3>4, <3>6, OrderIs DEF Less
      <4> QED
        BY <3>2, <4>1, <4>2, <4>3 DEF Finds
    <3>7. CASE Cmp(k, t.key) = "greater"
      <4>1. f[t] = f[t.right]
        BY <2>0, <2>2, <3>7 DEF SearchStep, Null
      <4>2. Finds(f[t.right], k, t.right)
        BY <1>2, <3>1, <3>3
      <4>3. Less(t.key, k)
        BY <3>1, <3>7, OrderIs
      <4>4. k # t.key /\ \A e \in E(t.left) : e[1] # k
        BY <3>1, <3>3, <3>4, <4>3, OrderIs
      <4> QED
        BY <3>2, <4>1, <4>2, <4>4 DEF Finds
    <3> QED
      BY <3>1, <3>5, <3>6, <3>7, OrderIs
  <2> QED
    BY <2>1, <2>2
<1>3. \A t \in Tree : (\A e \in Tree : nodes[e] < nodes[t] => e \in X) => t \in X
  BY <1>2
<1> HIDE DEF X
<1>4. Tree \subseteq X
  BY <1>3, TreeInduction
<1> QED
  BY <1>4 DEF X, f

----------------------------------------------------------------------------
(* The invariant of a handle.                                              *)

\* A tree that a comparator has broken is a tree still, but not a good one;
\* no operation goes on with it.
IInv ==
    /\ root \in Tree /\ cmp \in Comparators /\ broken \in BOOLEAN
    /\ broken \/ Good(root)

LEMMA NilIsGood == Good(Nil)
  BY NilIsSound, NilIsInOrder DEF Good

\* What holds of a tree under a comparator holds under the same one.
LEMMA GoodStays ==
    ASSUME cmp' = cmp, Good(root')
    PROVE  Good(root)'
  BY DEF Good, InOrder, Sorted, Less, Cmp

LEMMA InitInv == TreeInit => IInv
  BY NilIsGood, NilIsTree DEF TreeInit, IInv

\* Every operation keeps the invariant.
LEMMA InvKept == IInv /\ [TreeNext]_treeVars => IInv'
<1> SUFFICES ASSUME IInv, [TreeNext]_treeVars PROVE IInv'
  OBVIOUS
<1>0. root \in Tree /\ cmp \in Comparators
  BY DEF IInv
<1>1. ASSUME UNCHANGED <<root, cmp, broken>> PROVE IInv'
  <2>1. Good(root) => Good(root)'
    BY <1>1, GoodStays
  <2> QED
    BY <1>1, <2>1 DEF IInv
<1>2. ASSUME ~broken, cmp' = cmp, broken' = broken, root' \in Tree, Good(root') PROVE IInv'
  BY <1>2, GoodStays DEF IInv
<1>3. ASSUME NEW k \in Keys, NEW d \in Data, db_insert(k, d) PROVE IInv'
  <2> DEFINE r == rb_insert(root, k, d)
  <2>1. ~broken /\ Good(root) /\ nodes[root] < MaxNodes /\ root' = r.tree /\ UNCHANGED <<cmp, broken>>
    BY <1>3 DEF db_insert, IInv
  <2>2. IF IsDone(r) THEN r.tree \in Tree /\ Good(r.tree) ELSE r.tree = root
    BY <1>0, <2>1, InsertGood
  <2> HIDE DEF r
  <2> QED
    BY <1>0, <1>2, <2>1, <2>2
<1>4. ASSUME NEW k \in Keys, db_delete(k) PROVE IInv'
  <2> DEFINE r == rb_delete(root, k)
  <2>1. ~broken /\ Good(root) /\ root' = r.tree /\ broken' = ~IsDone(r) /\ cmp' = cmp
    BY <1>4 DEF db_delete, IInv
  <2>2. IF IsDone(r) THEN r.tree \in Tree /\ Good(r.tree) ELSE Lost(r.tree, root)
    BY <1>0, <2>1, DeleteGood
  <2> HIDE DEF r
  <2>3. CASE IsDone(r)
    <3>1. Good(root)'
      BY <2>1, <2>2, <2>3, GoodStays
    <3> QED
      BY <1>0, <2>1, <2>2, <2>3, <3>1 DEF IInv
  <2>4. CASE ~IsDone(r)
    BY <1>0, <2>1, <2>2, <2>4 DEF IInv, Lost
  <2> QED
    BY <2>3, <2>4
<1>5. ASSUME db_delete_min PROVE IInv'
  <2>1. ~broken /\ Good(root) /\ root' = rb_delete_min(root) /\ UNCHANGED <<cmp, broken>>
    BY <1>5 DEF db_delete_min, IInv
  <2>2. root' \in Tree /\ Good(root')
    BY <1>0, <2>1, DeleteMinGood
  <2> QED
    BY <1>2, <2>1, <2>2
<1>6. ASSUME NEW k \in Keys, db_search(k) \/ db_contains(k) \/ db_reject(k) PROVE IInv'
  BY <1>1, <1>6 DEF db_search, db_contains, db_reject
<1>7. ASSUME UNCHANGED treeVars PROVE IInv'
  BY <1>1, <1>7 DEF treeVars
<1> QED
  BY <1>3, <1>4, <1>5, <1>6, <1>7 DEF TreeNext

LEMMA Invariant == TreeSpec => []IInv
  BY InitInv, InvKept, PTL DEF TreeSpec

LEMMA GoodIsValid == root \in Tree /\ Good(root) => db_valid
<1> SUFFICES ASSUME root \in Tree, Good(root) PROVE db_valid
  OBVIOUS
<1>1. ~IsRed(root) /\ Height[root] # -1
  BY DEF Good, Sound
<1>2. walk[root] \in Seq(Entry) /\ Sorted(walk[root])
  BY TreeIs DEF Good, InOrder
<1>3. Increasing(walk[root])
  <2> DEFINE w == walk[root]
  <2>1. w \in Seq(Entry) /\ Sorted(w)
    BY <1>2
  <2> HIDE DEF w
  <2>2. Increasing(w)
    <3>1. Len(w) \in Nat
      BY <2>1
    <3>2. ASSUME NEW n \in 1..Len(w) - 1 PROVE Cmp(w[n][1], w[n + 1][1]) = "less"
      <4>1. n \in 1..Len(w) /\ n + 1 \in 1..Len(w) /\ n < n + 1
        BY <3>1, <3>2
      <4> QED
        BY <2>1, <4>1 DEF Sorted, Less
    <3> QED
      BY <3>2 DEF Increasing
  <2> QED
    BY <2>2 DEF w
<1> QED
  BY <1>1, <1>3 DEF db_valid

\* A tree keeps the colors, the black height and the order of its keys that
\* rb-db-valid? asks for, whatever is inserted and deleted, unless a
\* comparator fails inside a deletion.
THEOREM TreesStayValid == TreeSpec => []TreeStaysValid
<1>1. IInv => TreeStaysValid
  BY GoodIsValid DEF IInv, TreeStaysValid
<1> QED
  BY <1>1, Invariant, PTL

----------------------------------------------------------------------------
(* The entries of a tree as a map.                                         *)

MapOf(t) ==
    LET w == walk[t]
    IN [k \in {w[n][1] : n \in 1..Len(w)} |-> w[CHOOSE n \in 1..Len(w) : w[n][1] = k][2]]

\* A function m that holds the entries S.
Holds(m, S) ==
    /\ m = [k \in {e[1] : e \in S} |-> m[k]]
    /\ \A e \in S : m[e[1]] = e[2]

\* A tree in order has one entry for a key.
LEMMA UniqueEntries ==
    ASSUME cmp \in Comparators, NEW t \in Tree, InOrder(t), NEW e \in E(t), NEW f \in E(t), e[1] = f[1]
    PROVE  e = f
<1> DEFINE w == walk[t]
<1>1. w \in Seq(Entry) /\ Sorted(w) /\ e \in Ents(w) /\ f \in Ents(w)
  BY TreeIs DEF InOrder, E
<1> HIDE DEF w
<1>2. PICK m \in 1..Len(w), n \in 1..Len(w) : e = w[m] /\ f = w[n]
  BY <1>1 DEF Ents
<1>3. Len(w) \in Nat /\ e[1] \in Keys
  BY <1>1, <1>2 DEF Entry
<1>4. ~Less(e[1], e[1])
  BY <1>3, OrderIs
<1>5. ~(m < n) /\ ~(n < m)
  BY <1>1, <1>2, <1>4 DEF Sorted
<1> QED
  BY <1>2, <1>3, <1>5

\* Content is the map that holds the entries of the tree.
LEMMA MapIs ==
    ASSUME cmp \in Comparators, NEW t \in Tree
    PROVE  LET m == MapOf(t)
           IN /\ m = [k \in {e[1] : e \in E(t)} |-> m[k]]
              /\ \A k \in {e[1] : e \in E(t)} : <<k, m[k]>> \in E(t)
              /\ InOrder(t) => Holds(m, E(t))
<1> DEFINE w == walk[t]
           m == MapOf(t)
<1>1. w \in Seq(Entry) /\ Len(w) \in Nat
  BY TreeIs
<1>2. E(t) = {w[n] : n \in 1..Len(w)}
  BY DEF E, Ents
<1>3. m = [k \in {w[n][1] : n \in 1..Len(w)} |-> w[CHOOSE n \in 1..Len(w) : w[n][1] = k][2]]
  BY DEF MapOf
<1> HIDE DEF w, m
<1>4. {w[n][1] : n \in 1..Len(w)} = {e[1] : e \in E(t)}
  BY <1>2
<1>5. m = [k \in {e[1] : e \in E(t)} |-> w[CHOOSE n \in 1..Len(w) : w[n][1] = k][2]]
  BY <1>3, <1>4
<1>6. ASSUME NEW k \in {e[1] : e \in E(t)} PROVE <<k, m[k]>> \in E(t)
  <2>1. m[k] = w[CHOOSE n \in 1..Len(w) : w[n][1] = k][2]
    BY <1>5
  <2>2. \E n \in 1..Len(w) : w[n][1] = k
    BY <1>4
  <2>3. PICK n \in 1..Len(w) : w[n][1] = k /\ m[k] = w[n][2]
    BY <2>1, <2>2
  <2>4. w[n] \in Entry
    BY <1>1
  <2>5. w[n] = <<k, m[k]>>
    BY <2>3, <2>4 DEF Entry
  <2> QED
    BY <1>2, <2>5
<1>7. m = [k \in {e[1] : e \in E(t)} |-> m[k]]
  BY <1>5
<1>8. ASSUME InOrder(t), NEW e \in E(t) PROVE m[e[1]] = e[2]
  <2>1. <<e[1], m[e[1]]>> \in E(t)
    BY <1>6
  <2>2. <<e[1], m[e[1]]>> = e
    BY <1>8, <2>1, UniqueEntries
  <2> QED
    BY <2>2
<1> QED
  BY <1>6, <1>7, <1>8 DEF Holds, m

\* Two functions that hold the same entries are one.
LEMMA HoldsOne ==
    ASSUME NEW S, NEW m, NEW n, Holds(m, S), Holds(n, S)
    PROVE  m = n
<1>1. \A k \in {e[1] : e \in S} : m[k] = n[k]
  BY DEF Holds
<1> QED
  BY <1>1 DEF Holds

LEMMA HoldsIs ==
    ASSUME NEW m, NEW S, Holds(m, S)
    PROVE  DOMAIN m = {e[1] : e \in S}
  BY DEF Holds

LEMMA HoldsWith ==
    ASSUME NEW m, NEW S, S \subseteq Entry, Holds(m, S), NEW k, NEW d
    PROVE  Holds(Map!With(m, k, d), Drop(S, k) \cup {<<k, d>>})
<1> DEFINE T == Drop(S, k) \cup {<<k, d>>}
           n == Map!With(m, k, d)
<1>1. n = [x \in {e[1] : e \in S} \cup {k} |-> IF x = k THEN d ELSE m[x]]
  BY HoldsIs DEF Map!With
<1>0. <<k, d>>[1] = k /\ <<k, d>>[2] = d
  OBVIOUS
<1>2. {e[1] : e \in T} = {e[1] : e \in S} \cup {k}
  <2>1. ASSUME NEW x \in {e[1] : e \in T} PROVE x \in {e[1] : e \in S} \cup {k}
    BY <1>0 DEF Drop
  <2>2. ASSUME NEW e \in S PROVE e[1] \in {f[1] : f \in T} \cup {k}
    BY DEF Drop
  <2>3. k \in {e[1] : e \in T}
    BY <1>0
  <2> HIDE DEF T
  <2> QED
    BY <2>1, <2>2, <2>3
<1>3. ASSUME NEW e \in T PROVE n[e[1]] = e[2]
  <2>1. CASE e \in Drop(S, k)
    <3>1. e \in S /\ e[1] # k
      BY <2>1 DEF Drop
    <3>2. m[e[1]] = e[2]
      BY <3>1 DEF Holds
    <3> HIDE DEF n, T
    <3> QED
      BY <1>1, <3>1, <3>2
  <2>2. CASE e = <<k, d>>
    <3> HIDE DEF n, T
    <3> QED
      BY <1>1, <1>0, <2>2
  <2> QED
    BY <2>1, <2>2
<1> QED
  BY <1>1, <1>2, <1>3 DEF Holds

LEMMA HoldsWithout ==
    ASSUME NEW m, NEW S, Holds(m, S), NEW k
    PROVE  Holds(Map!Without(m, k), Drop(S, k))
<1>1. Map!Without(m, k) = [x \in {e[1] : e \in S} \ {k} |-> m[x]]
  BY HoldsIs DEF Map!Without
<1>2. {e[1] : e \in Drop(S, k)} = {e[1] : e \in S} \ {k}
  BY DEF Drop
<1> QED
  BY <1>1, <1>2 DEF Holds, Drop

----------------------------------------------------------------------------
(* Every operation on the tree is one on the map.                          *)

\* The order of a handle agrees with the one order of OrderedMap.
LEMMA LessIsBefore ==
    ASSUME cmp \in Comparators, NEW a \in Keys, NEW b \in Keys, Less(a, b)
    PROVE  Before(a, b)
<1>1. a[1] \in {"number", "string", "symbol"} /\ b[1] \in {"number", "string", "symbol"}
  BY KeyIs
<1>2. cmp \in {"number", "string", "mixed", "caller"}
  BY HandlesAssumption
<1> QED
  BY <1>1, <1>2 DEF Less, Cmp, cmp_number, cmp_string, cmp_mixed, cmp_caller, Before, Order

LEMMA ContentIs ==
    /\ Content = MapOf(root)
    /\ Content' = MapOf(root')
  BY DEF Content, MapOf

\* An insertion is Put, or an error that leaves the map.
LEMMA InsertIsPut ==
    ASSUME IInv, NEW k \in Keys, NEW d \in Data, db_insert(k, d)
    PROVE  Map!Put(k, d) \/ Map!Refuse("insert", k)
<1> DEFINE r == rb_insert(root, k, d)
<1>1. root \in Tree /\ cmp \in Comparators /\ Good(root) /\ nodes[root] < MaxNodes
  BY DEF IInv, db_insert
<1>2. root' = r.tree /\ found' = Reply(<<"insert", k>>, IF IsDone(r) THEN "db" ELSE "error")
  BY DEF db_insert
<1>3. IF IsDone(r) THEN r.tree \in Tree /\ Good(r.tree) /\ E(r.tree) = Drop(E(root), k) \cup {<<k, d>>}
      ELSE r.tree = root
  BY <1>1, InsertGood
<1> HIDE DEF r
<1>4. CASE IsDone(r)
  <2>1. Holds(MapOf(root), E(root)) /\ E(root) \subseteq Entry
    BY <1>1, MapIs, EntriesOf DEF Good
  <2>2. Holds(MapOf(root'), Drop(E(root), k) \cup {<<k, d>>})
    <3>1. root' \in Tree /\ InOrder(root') /\ E(root') = Drop(E(root), k) \cup {<<k, d>>}
      BY <1>2, <1>3, <1>4 DEF Good
    <3>2. Holds(MapOf(root'), E(root'))
      BY <1>1, <3>1, MapIs
    <3> QED
      BY <3>1, <3>2
  <2>3. Holds(Map!With(MapOf(root), k, d), Drop(E(root), k) \cup {<<k, d>>})
    BY <2>1, HoldsWith
  <2>4. MapOf(root') = Map!With(MapOf(root), k, d)
    BY <2>2, <2>3, HoldsOne
  <2>5. found' = Map!Said(<<"insert", k>>, "db")
    BY <1>2, <1>4 DEF Reply, Map!Said
  <2> QED
    BY <2>4, <2>5, ContentIs DEF Map!Put
<1>5. CASE ~IsDone(r)
  <2>1. Content' = Content
    BY <1>2, <1>3, <1>5, ContentIs
  <2>2. found' = Map!Said(<<"insert", k>>, "error")
    BY <1>2, <1>5 DEF Reply, Map!Said
  <2> QED
    BY <2>1, <2>2 DEF Map!Refuse
<1> QED
  BY <1>4, <1>5

\* A deletion is Drop, or an error that loses entries at most.
LEMMA DeleteIsDrop ==
    ASSUME IInv, NEW k \in Keys, db_delete(k)
    PROVE  Map!Drop(k) \/ Map!Lose(k)
<1> DEFINE r == rb_delete(root, k)
<1>1. root \in Tree /\ cmp \in Comparators /\ Good(root)
  BY DEF IInv, db_delete
<1>2. root' = r.tree /\ found' = Reply(<<"delete", k>>, IF IsDone(r) THEN "db" ELSE "error")
  BY DEF db_delete
<1>3. IF IsDone(r) THEN r.tree \in Tree /\ Good(r.tree) /\ E(r.tree) = Drop(E(root), k)
      ELSE Lost(r.tree, root)
  BY <1>1, DeleteGood
<1> HIDE DEF r
<1>4. Holds(MapOf(root), E(root))
  BY <1>1, MapIs DEF Good
<1>5. CASE IsDone(r)
  <2>1. Holds(MapOf(root'), Drop(E(root), k))
    <3>1. root' \in Tree /\ InOrder(root') /\ E(root') = Drop(E(root), k)
      BY <1>2, <1>3, <1>5 DEF Good
    <3>2. Holds(MapOf(root'), E(root'))
      BY <1>1, <3>1, MapIs
    <3> QED
      BY <3>1, <3>2
  <2>2. MapOf(root') = Map!Without(MapOf(root), k)
    BY <1>4, <2>1, HoldsWithout, HoldsOne
  <2>3. found' = Map!Said(<<"delete", k>>, "db")
    BY <1>2, <1>5 DEF Reply, Map!Said
  <2> QED
    BY <2>2, <2>3, ContentIs DEF Map!Drop
<1>6. CASE ~IsDone(r)
  <2> DEFINE u == root'
             kept == {e[1] : e \in E(u)}
             m == MapOf(root)
             n == MapOf(u)
  <2>1. u \in Tree /\ E(u) \subseteq E(root)
    BY <1>2, <1>3, <1>6 DEF Lost
  <2>2. n = [x \in kept |-> n[x]] /\ \A x \in kept : <<x, n[x]>> \in E(u)
    BY <1>1, <2>1, MapIs
  <2>3. kept \subseteq DOMAIN m
    <3>1. DOMAIN m = {e[1] : e \in E(root)}
      BY <1>4, HoldsIs
    <3> QED
      BY <2>1, <3>1
  <2> HIDE DEF m, n
  <2>4. ASSUME NEW x \in kept PROVE n[x] = m[x]
    <3>1. <<x, n[x]>> \in E(root)
      BY <2>1, <2>2
    <3>2. m[<<x, n[x]>>[1]] = <<x, n[x]>>[2]
      BY <1>4, <3>1 DEF Holds, m
    <3> QED
      BY <3>2
  <2> HIDE DEF kept
  <2>5. n = [x \in kept |-> m[x]]
    BY <2>2, <2>4
  <2>6. found' = Map!Said(<<"delete", k>>, "error")
    BY <1>2, <1>6 DEF Reply, Map!Said
  <2>7. kept \in SUBSET DOMAIN Content /\ Content' = [x \in kept |-> Content[x]]
    BY <2>3, <2>5, ContentIs DEF m, n
  <2> QED
    BY <2>6, <2>7 DEF Map!Lose
<1> QED
  BY <1>5, <1>6

\* A deletion of the minimum is DropLeast.
LEMMA DeleteMinIsDropLeast ==
    ASSUME IInv, db_delete_min
    PROVE  Map!DropLeast
<1>1. root \in Tree /\ cmp \in Comparators /\ Good(root)
  BY DEF IInv, db_delete_min
<1> DEFINE u == rb_delete_min(root)
<1>2. root' = u /\ found' = Reply(<<"delete-min">>, "db")
  BY DEF db_delete_min
<1>3. u \in Tree /\ Good(u) /\ (root = Nil => u = Nil) /\ (root # Nil => Headless(u, root))
  BY <1>1, DeleteMinGood
<1> HIDE DEF u
<1>4. Holds(MapOf(root), E(root)) /\ Holds(MapOf(u), E(u))
  BY <1>1, <1>3, MapIs DEF Good
<1>5. found' = Map!Said(<<"delete-min">>, "db")
  BY <1>2 DEF Reply, Map!Said
<1>6. DOMAIN MapOf(root) = {e[1] : e \in E(root)}
  BY <1>4, HoldsIs
<1>7. CASE root = Nil
  <2>1. DOMAIN Content = {}
    BY <1>6, <1>7, NilIsInOrder, ContentIs
  <2>2. Content' = Content
    BY <1>2, <1>3, <1>7, ContentIs
  <2> QED
    BY <1>5, <2>1, <2>2 DEF Map!DropLeast
<1>8. CASE root # Nil
  <2>1. PICK m : IsLeast(m, E(root)) /\ E(u) = E(root) \ {m}
    BY <1>3, <1>8 DEF Headless
  <2>2. E(root) \subseteq Entry /\ m \in E(root)
    BY <1>1, <2>1, EntriesOf DEF IsLeast
  <2>3. E(u) = Drop(E(root), m[1])
    <3>1. \A e \in E(root) : e[1] = m[1] => e = m
      BY <1>1, <2>2, UniqueEntries DEF Good
    <3> QED
      BY <2>1, <3>1 DEF Drop
  <2>4. MapOf(u) = Map!Without(MapOf(root), m[1])
    BY <1>4, <2>3, HoldsWithout, HoldsOne
  <2>5. ASSUME NEW x \in DOMAIN Content \ {m[1]} PROVE Before(m[1], x)
    <3>1. PICK e \in E(root) : x = e[1]
      BY <1>6, ContentIs
    <3>2. Less(m[1], x)
      BY <2>1, <2>5, <3>1 DEF IsLeast
    <3>3. m[1] \in Keys /\ x \in Keys
      BY <2>2, <3>1 DEF Entry
    <3> QED
      BY <1>1, <3>2, <3>3, LessIsBefore
  <2>6. m[1] \in DOMAIN Content
    BY <1>6, <2>2, ContentIs
  <2>7. Content' = Map!Without(Content, m[1])
    BY <1>2, <2>4, ContentIs
  <2> QED
    BY <1>5, <2>5, <2>6, <2>7 DEF Map!DropLeast
<1> QED
  BY <1>7, <1>8

\* What a search finds is what the map has.
LEMMA FoundIsThere ==
    ASSUME IInv, ~broken, NEW k \in Keys
    PROVE  LET n == search(k)[root]
           IN \/ n = Nil /\ k \notin DOMAIN Content
              \/ n # Nil /\ Cmp(k, n.key) = "reject"
              \/ n # Nil /\ Cmp(k, n.key) # "reject" /\ k \in DOMAIN Content /\ Content[k] = n.data
<1> DEFINE n == search(k)[root]
<1>1. root \in Tree /\ cmp \in Comparators /\ Good(root)
  BY DEF IInv
<1>2. Finds(n, k, root)
  BY <1>1, SearchFinds DEF Good
<1>3. Holds(Content, E(root))
  BY <1>1, MapIs, ContentIs DEF Good
<1>4. DOMAIN Content = {e[1] : e \in E(root)}
  BY <1>3, HoldsIs
<1> HIDE DEF n
<1>5. ASSUME <<k, n.data>> \in E(root) PROVE k \in DOMAIN Content /\ Content[k] = n.data
  <2>1. Content[<<k, n.data>>[1]] = <<k, n.data>>[2]
    BY <1>3, <1>5 DEF Holds
  <2> QED
    BY <1>4, <1>5, <2>1
<1> QED
  BY <1>2, <1>4, <1>5 DEF Finds, n

\* A search is Get, and a test of membership (below) is Has.
LEMMA SearchIsGet ==
    ASSUME IInv, NEW k \in Keys, db_search(k)
    PROVE  Map!Get(k) \/ Map!Refuse("search", k)
<1> DEFINE n == search(k)[root]
<1>1. ~broken /\ root' = root
  BY DEF db_search
<1>2. found' = Reply(<<"search", k>>, IF n = Nil THEN "false"
                                      ELSE IF Cmp(k, n.key) = "reject" THEN "error" ELSE n.data)
  BY DEF db_search, Null
<1>3. \/ n = Nil /\ k \notin DOMAIN Content
      \/ n # Nil /\ Cmp(k, n.key) = "reject"
      \/ n # Nil /\ Cmp(k, n.key) # "reject" /\ k \in DOMAIN Content /\ Content[k] = n.data
  BY <1>1, FoundIsThere
<1> HIDE DEF n
<1>4. Content' = Content
  BY <1>1, ContentIs
<1>5. CASE n # Nil /\ Cmp(k, n.key) = "reject"
  BY <1>2, <1>4, <1>5 DEF Reply, Map!Refuse, Map!Said
<1>6. CASE n = Nil /\ k \notin DOMAIN Content
  BY <1>2, <1>4, <1>6 DEF Reply, Map!Get, Map!Said
<1>7. CASE n # Nil /\ Cmp(k, n.key) # "reject" /\ k \in DOMAIN Content /\ Content[k] = n.data
  BY <1>2, <1>4, <1>7 DEF Reply, Map!Get, Map!Said
<1> QED
  BY <1>3, <1>5, <1>6, <1>7

LEMMA ContainsIsHas ==
    ASSUME IInv, NEW k \in Keys, db_contains(k)
    PROVE  Map!Has(k) \/ Map!Refuse("contains", k)
<1> DEFINE n == search(k)[root]
<1>1. ~broken /\ root' = root
  BY DEF db_contains
<1>2. found' = Reply(<<"contains", k>>, IF n = Nil THEN "false"
                                        ELSE IF Cmp(k, n.key) = "reject" THEN "error" ELSE "true")
  BY DEF db_contains, Null
<1>3. \/ n = Nil /\ k \notin DOMAIN Content
      \/ n # Nil /\ Cmp(k, n.key) = "reject"
      \/ n # Nil /\ Cmp(k, n.key) # "reject" /\ k \in DOMAIN Content
  BY <1>1, FoundIsThere
<1> HIDE DEF n
<1>4. Content' = Content
  BY <1>1, ContentIs
<1>5. CASE n # Nil /\ Cmp(k, n.key) = "reject"
  BY <1>2, <1>4, <1>5 DEF Reply, Map!Refuse, Map!Said
<1>6. CASE n = Nil /\ k \notin DOMAIN Content
  BY <1>2, <1>4, <1>6 DEF Reply, Map!Has, Map!Said
<1>7. CASE n # Nil /\ Cmp(k, n.key) # "reject" /\ k \in DOMAIN Content
  BY <1>2, <1>4, <1>7 DEF Reply, Map!Has, Map!Said
<1> QED
  BY <1>3, <1>5, <1>6, <1>7

LEMMA RejectIsRefuse ==
    ASSUME NEW k \in Keys, db_reject(k)
    PROVE  Map!Refuse("check", k)
<1>1. Content' = Content
  BY ContentIs DEF db_reject
<1> QED
  BY <1>1 DEF db_reject, Reply, Map!Refuse, Map!Said

LEMMA InitIsMap == TreeInit => Map!Init
<1> SUFFICES ASSUME TreeInit PROVE Map!Init
  OBVIOUS
<1>1. root = Nil /\ cmp \in Comparators /\ found = Map!Said(<<"new">>, "db")
  BY DEF TreeInit, Reply, Map!Said
<1>2. Holds(MapOf(Nil), {})
  BY <1>1, MapIs, NilIsInOrder, NilIsTree
<1>3. Holds(Map!Nothing, {})
  BY DEF Holds, Map!Nothing
<1>4. Content = Map!Nothing
  BY <1>1, <1>2, <1>3, HoldsOne, ContentIs
<1> QED
  BY <1>1, <1>4 DEF Map!Init

\* Every step of a handle is one of the map, or none.
LEMMA NextIsMap == IInv /\ [TreeNext]_treeVars => [Map!Next]_<<Content, found>>
<1> SUFFICES ASSUME IInv, [TreeNext]_treeVars PROVE [Map!Next]_<<Content, found>>
  OBVIOUS
<1>1. ASSUME NEW k \in Keys, NEW d \in Data, db_insert(k, d) PROVE Map!Next
  BY <1>1, InsertIsPut DEF Map!Next
<1>2. ASSUME NEW k \in Keys, db_delete(k) PROVE Map!Next
  BY <1>2, DeleteIsDrop DEF Map!Next
<1>3. ASSUME NEW k \in Keys, db_search(k) PROVE Map!Next
  BY <1>3, SearchIsGet DEF Map!Next
<1>4. ASSUME NEW k \in Keys, db_contains(k) PROVE Map!Next
  BY <1>4, ContainsIsHas DEF Map!Next
<1>5. ASSUME NEW k \in Keys, db_reject(k) PROVE Map!Next
  BY <1>5, RejectIsRefuse DEF Map!Next
<1>6. ASSUME db_delete_min PROVE Map!Next
  BY <1>6, DeleteMinIsDropLeast DEF Map!Next
<1>7. ASSUME UNCHANGED treeVars PROVE UNCHANGED <<Content, found>>
  BY <1>7, ContentIs DEF treeVars
<1> QED
  BY <1>1, <1>2, <1>3, <1>4, <1>5, <1>6, <1>7 DEF TreeNext

\* A handle is an ordered map: what a search, a replacement and a deletion
\* answer and leave are those of a map, although a deletion moves keys and
\* data between nodes, and one that a comparator breaks off loses entries at
\* most.
THEOREM TreesAreMaps == TreeSpec => ImplementsOrderedMap
  BY InitIsMap, NextIsMap, Invariant, PTL DEF TreeSpec, ImplementsOrderedMap, Map!Spec
=============================================================================
