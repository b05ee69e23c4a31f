------------------------------- MODULE RBTree -------------------------------
(***************************************************************************)
(* The red-black trees of src/rbtree_lib_improved.scm, through a database  *)
(* handle (root and comparator). Nodes are changed in place and each is    *)
(* reached by one link, so a tree is a value; only where an error escapes  *)
(* from the middle of a deletion does it matter which node an old link     *)
(* still shows, and Shown says which.                                      *)
(***************************************************************************)
EXTENDS Integers, Sequences

CONSTANTS
    Numbers, Strings,       \* how many keys of each kind
    Data,                   \* what is stored; "false" is a value too
    Comparators,            \* the handles: number, string, mixed, caller
    MaxNodes                    \* bound: how many nodes a tree has

ASSUME HandlesAssumption ==
    /\ Numbers \in Nat /\ Strings \in Nat /\ MaxNodes \in Nat
    /\ Comparators \subseteq {"number", "string", "mixed", "caller"}

VARIABLES
    root, cmp,              \* the handle
    found,                  \* what the last operation returned
    broken                  \* a comparator failed inside a deletion

treeVars == <<root, cmp, found, broken>>

----------------------------------------------------------------------------
(* Keys and comparators. A symbol is a key no comparator takes.            *)

Keys == {<<"number", n>> : n \in 1..Numbers} \cup {<<"string", n>> : n \in 1..Strings}
          \cup {<<"symbol", 1>>}

Order(a, b) == IF a[2] < b[2] THEN "less" ELSE IF a[2] > b[2] THEN "greater" ELSE "same"

cmp_number(a, b) == IF a[1] = "number" /\ b[1] = "number" THEN Order(a, b) ELSE "reject"
cmp_string(a, b) == IF a[1] = "string" /\ b[1] = "string" THEN Order(a, b) ELSE "reject"
cmp_mixed(a, b) ==
    CASE a[1] = b[1] /\ a[1] # "symbol"            -> Order(a, b)
      [] a[1] = "number" /\ b[1] = "string"        -> "less"
      [] a[1] = "string" /\ b[1] = "number"        -> "greater"
      [] OTHER                                     -> "reject"

\* A caller's comparator that first asks whether the keys are the same one.
cmp_caller(a, b) == IF a = b THEN "same" ELSE cmp_number(a, b)

Cmp(a, b) ==
    CASE cmp = "number" -> cmp_number(a, b)
      [] cmp = "string" -> cmp_string(a, b)
      [] cmp = "mixed"  -> cmp_mixed(a, b)
      [] cmp = "caller" -> cmp_caller(a, b)

----------------------------------------------------------------------------
(* Nodes.                                                                  *)

Nil == [null |-> TRUE]
Null(t) == t = Nil
Node(k, d) == [left |-> Nil, right |-> Nil, color |-> "RED", key |-> k, data |-> d]

\* The trees of up to n levels, and those among them of up to MaxNodes nodes.
TreesOf[n \in Nat] ==
    IF n = 0 THEN {Nil}
    ELSE LET sub == TreesOf[n - 1]
         IN {Nil} \cup [left : sub, right : sub, color : {"RED", "BLACK"}, key : Keys, data : Data]

Shape == TreesOf[MaxNodes]

nodes[t \in Shape] == IF Null(t) THEN 0 ELSE nodes[t.left] + nodes[t.right] + 1

Tree == {t \in Shape : nodes[t] <= MaxNodes}

rb_left(t)  == IF Null(t) THEN Nil ELSE t.left
rb_right(t) == IF Null(t) THEN Nil ELSE t.right
rb_color(t) == IF Null(t) THEN "BLACK" ELSE t.color
IsRed(t)    == rb_color(t) = "RED"

rb_set_left(t, l)  == IF Null(t) THEN t ELSE [t EXCEPT !.left = l]
rb_set_right(t, r) == IF Null(t) THEN t ELSE [t EXCEPT !.right = r]
rb_set_color(t, c) == IF Null(t) THEN t ELSE [t EXCEPT !.color = c]
rb_set_key(t, k)   == IF Null(t) THEN t ELSE [t EXCEPT !.key = k]
rb_set_data(t, d)  == IF Null(t) THEN t ELSE [t EXCEPT !.data = d]

rotate_right(t) ==
    IF Null(t) \/ Null(rb_left(t)) THEN t
    ELSE LET below == rb_set_color(rb_set_left(t, t.left.right), "RED")
         IN rb_set_color(rb_set_right(t.left, below), t.color)

\* Mutant: the middle subtree is lost.
rotate_left_losing(t) ==
    IF Null(t) \/ Null(rb_right(t)) THEN t
    ELSE LET below == rb_set_color(rb_set_right(t, Nil), "RED")
         IN rb_set_color(rb_set_left(t.right, below), t.color)

rotate_left(t) ==
    IF Null(t) \/ Null(rb_right(t)) THEN t
    ELSE LET below == rb_set_color(rb_set_right(t, t.right.left), "RED")
         IN rb_set_color(rb_set_left(t.right, below), t.color)

\* A node of color c over children of colors l and r.
Colored(t, c, l, r) ==
    rb_set_color(rb_set_left(rb_set_right(t, rb_set_color(rb_right(t), r)),
                             rb_set_color(rb_left(t), l)), c)

flip_colors(t) == Colored(t, "RED", "BLACK", "BLACK")

\* Mutant: as flip_colors, which is meant for insertions.
flip_colors_insert(t) == flip_colors(t)

Flipped(t) == IF IsRed(t) THEN "BLACK" ELSE "RED"

flip_colors_delete(t) == Colored(t, Flipped(t), Flipped(rb_left(t)), Flipped(rb_right(t)))

fix_up(t) ==
    LET a == IF IsRed(rb_right(t)) /\ ~IsRed(rb_left(t)) THEN rotate_left(t) ELSE t
        b == IF IsRed(rb_left(a)) /\ IsRed(rb_left(rb_left(a))) THEN rotate_right(a) ELSE a
    IN IF IsRed(rb_left(b)) /\ IsRed(rb_right(b)) THEN flip_colors(b) ELSE b

move_red_left(t) ==
    LET a == flip_colors_delete(t)
    IN IF IsRed(rb_left(rb_right(a)))
       THEN flip_colors_delete(rotate_left(rb_set_right(a, rotate_right(a.right))))
       ELSE a

move_red_right(t) ==
    LET a == flip_colors_delete(t)
    IN IF IsRed(rb_left(rb_left(a))) THEN flip_colors_delete(rotate_right(a)) ELSE a

\* Neither the child nor its left child is red: the descent must bring a red
\* link along.
Poor(child) == ~Null(child) /\ ~IsRed(child) /\ ~IsRed(rb_left(child))

----------------------------------------------------------------------------
(* The operations on nodes. A result is a tree and whether it came about;  *)
(* if an error escaped, the tree is what the caller's link now shows.      *)

Done(t)    == [tree |-> t, end |-> "done"]
Escaped(t) == [tree |-> t, end |-> "error"]
IsDone(r)  == r.end = "done"

search_min[t \in Shape] == IF Null(rb_left(t)) THEN t ELSE search_min[t.left]

insert_impl(k, d) ==
    LET into[t \in Tree] ==
            IF Null(t) THEN Done(Node(k, d))
            ELSE LET c   == Cmp(k, t.key)
                     sub == into[IF c = "less" THEN t.left ELSE t.right]
                 IN CASE c = "reject" -> Escaped(t)
                      [] c = "same"   -> Done(fix_up(rb_set_data(t, d)))
                      [] OTHER ->
                           IF ~IsDone(sub) THEN Escaped(t)
                           ELSE Done(fix_up(IF c = "less" THEN rb_set_left(t, sub.tree)
                                                          ELSE rb_set_right(t, sub.tree)))
    IN into

delete_min_impl[t \in Tree] ==
    IF Null(t) \/ Null(rb_left(t)) THEN Nil
    ELSE LET a == IF Poor(t.left) THEN move_red_left(t) ELSE t
         IN fix_up(rb_set_left(a, delete_min_impl[a.left]))

\* The node that stood at the link, after the one under the cursor has been
\* changed to a: itself, or below a if a rotation has put a above it.
Shown(t, a) ==
    CASE a.key = t.key        -> a
      [] rb_left(a) # Nil /\ rb_left(a).key = t.key   -> a.left
      [] OTHER                -> a.right

delete_impl(k) ==
    LET from[t \in Tree] ==
            IF Null(t) THEN Done(Nil)
            ELSE IF Cmp(k, t.key) = "reject" THEN Escaped(t)
            ELSE IF Cmp(k, t.key) = "less"
            THEN LET a   == IF Poor(t.left) THEN move_red_left(t) ELSE t
                     sub == from[a.left]
                     b   == rb_set_left(a, sub.tree)
                 IN IF IsDone(sub) THEN Done(fix_up(b)) ELSE Escaped(Shown(t, b))
            ELSE LET a == IF IsRed(t.left) THEN rotate_right(t) ELSE t
                     b == IF Poor(a.right) THEN move_red_right(a) ELSE a
                     min == search_min[b.right]
                     sub == from[b.right]
                     moved == rb_set_right(b, sub.tree)
                 IN IF Cmp(k, a.key) = "reject" THEN Escaped(Shown(t, a))
                    ELSE IF Cmp(k, a.key) = "same" /\ Null(a.right) THEN Done(Nil)
                    ELSE IF Cmp(k, b.key) = "reject" THEN Escaped(Shown(t, b))
                    ELSE IF Cmp(k, b.key) = "same"
                    THEN Done(fix_up(rb_set_right(rb_set_data(rb_set_key(b, min.key), min.data),
                                                  delete_min_impl[b.right])))
                    ELSE IF IsDone(sub) THEN Done(fix_up(moved)) ELSE Escaped(Shown(t, moved))
    IN from

\* The descent of a deletion needs a red link at the root to begin with.
Bracketed(t) == IF IsRed(rb_left(t)) \/ IsRed(rb_right(t)) THEN t ELSE rb_set_color(t, "RED")

rb_insert(t, k, d) ==
    LET r == insert_impl(k, d)[t] IN IF IsDone(r) THEN Done(rb_set_color(r.tree, "BLACK")) ELSE r

rb_delete(t, k) ==
    LET r == delete_impl(k)[Bracketed(t)] IN IF IsDone(r) THEN Done(rb_set_color(r.tree, "BLACK")) ELSE r

rb_delete_min(t) == rb_set_color(delete_min_impl[Bracketed(t)], "BLACK")

\* The node, or none; searches begin after check_key.
search(k) ==
    LET at[t \in Shape] ==
            IF Null(t) \/ Cmp(k, t.key) \in {"same", "reject"} THEN t
            ELSE at[IF Cmp(k, t.key) = "less" THEN t.left ELSE t.right]
    IN at

----------------------------------------------------------------------------
(* A handle.                                                               *)

Reply(what, v) == [of |-> what, is |-> v]

TreeInit ==
    /\ root = Nil /\ found = Reply(<<"new">>, "db") /\ broken = FALSE
    /\ cmp \in Comparators

check_key(k) == Cmp(k, k) # "reject"

db_insert(k, d) ==
    LET r == rb_insert(root, k, d) IN
    /\ ~broken /\ check_key(k)
    /\ nodes[root] < MaxNodes
    /\ root' = r.tree
    /\ found' = Reply(<<"insert", k>>, IF IsDone(r) THEN "db" ELSE "error")
    /\ UNCHANGED <<cmp, broken>>

db_delete(k) ==
    LET r == rb_delete(root, k) IN
    /\ ~broken /\ check_key(k)
    /\ root' = r.tree
    /\ found' = Reply(<<"delete", k>>, IF IsDone(r) THEN "db" ELSE "error")
    /\ broken' = ~IsDone(r)
    /\ UNCHANGED cmp

db_delete_min ==
    /\ ~broken
    /\ root' = rb_delete_min(root) /\ found' = Reply(<<"delete-min">>, "db")
    /\ UNCHANGED <<cmp, broken>>

db_search(k) ==
    LET n == search(k)[root] IN
    /\ ~broken /\ check_key(k)
    /\ found' = Reply(<<"search", k>>, IF Null(n) THEN "false"
                                       ELSE IF Cmp(k, n.key) = "reject" THEN "error" ELSE n.data)
    /\ UNCHANGED <<root, cmp, broken>>

db_contains(k) ==
    LET n == search(k)[root] IN
    /\ ~broken /\ check_key(k)
    /\ found' = Reply(<<"contains", k>>, IF Null(n) THEN "false"
                                         ELSE IF Cmp(k, n.key) = "reject" THEN "error" ELSE "true")
    /\ UNCHANGED <<root, cmp, broken>>

db_reject(k) ==
    /\ ~broken /\ ~check_key(k)
    /\ found' = Reply(<<"check", k>>, "error")
    /\ UNCHANGED <<root, cmp, broken>>

TreeNext ==
    \/ \E k \in Keys, d \in Data : db_insert(k, d)
    \/ \E k \in Keys : db_delete(k) \/ db_search(k) \/ db_contains(k) \/ db_reject(k)
    \/ db_delete_min

TreeSpec == TreeInit /\ [][TreeNext]_treeVars

----------------------------------------------------------------------------
(* Properties.                                                             *)

\* rb-check-property: the black height, or -1.
Height[t \in Shape] ==
    IF Null(t) THEN 1
    ELSE LET l == Height[t.left]  r == Height[t.right]
         IN IF \/ IsRed(t.right)
               \/ IsRed(t) /\ IsRed(t.left)
               \/ l = -1 \/ r = -1 \/ l # r
            THEN -1
            ELSE IF IsRed(t) THEN l ELSE l + 1

\* The entries from left to right, as rb-check-order-cmp walks over them.
walk[t \in Shape] == IF Null(t) THEN <<>> ELSE walk[t.left] \o <<<<t.key, t.data>>>> \o walk[t.right]

Increasing(w) == \A n \in 1..Len(w) - 1 : Cmp(w[n][1], w[n + 1][1]) = "less"

db_valid == ~IsRed(root) /\ Height[root] # -1 /\ Increasing(walk[root])

\* rb-db-valid? answers true whatever was inserted and deleted, in whatever
\* order, also after an insertion that a comparator broke off; only a
\* comparator that fails inside a deletion can leave a tree it rejects.
TreeStaysValid == broken \/ db_valid

\* The entries of the tree, as a map.
Content ==
    LET w == walk[root]
    IN [k \in {w[n][1] : n \in 1..Len(w)} |-> w[CHOOSE n \in 1..Len(w) : w[n][1] = k][2]]

Before(a, b) == cmp_mixed(a, b) = "less"
Map == INSTANCE OrderedMap WITH map <- Content, answer <- found, Key <- Keys, Value <- Data, Less <- Before

\* A handle is an ordered map: an insertion, a replacement, a deletion of a
\* key that is or is not there and every found are those of a map, although
\* a deletion moves keys and data between nodes (rb-set-key!, rb-set-data!).
ImplementsOrderedMap == Map!Spec
=============================================================================
