----------------------------- MODULE OrderedMap -----------------------------
(***************************************************************************)
(* What src/rbtree_lib_improved.scm promises of a handle: a finite map     *)
(* with an order on its keys (its header, 3-14), seen through the answers  *)
(* of the operations.                                                      *)
(***************************************************************************)
EXTENDS Maps

CONSTANTS
    Key, Value,
    Less(_, _)      \* the order of the keys

VARIABLES
    map,            \* the entries
    answer          \* what the last operation was asked and returned

Said(what, v) == [of |-> what, is |-> v]

Init == map = Nothing /\ answer = Said(<<"new">>, "db")

Put(k, v) == answer' = Said(<<"insert", k>>, "db") /\ map' = With(map, k, v)

Drop(k) == answer' = Said(<<"delete", k>>, "db") /\ map' = Without(map, k)

DropLeast ==
    /\ answer' = Said(<<"delete-min">>, "db")
    /\ \/ DOMAIN map = {} /\ UNCHANGED map
       \/ \E k \in DOMAIN map :
             /\ \A x \in DOMAIN map \ {k} : Less(k, x)
             /\ map' = Without(map, k)

Get(k) ==
    /\ answer' = Said(<<"search", k>>, IF k \in DOMAIN map THEN map[k] ELSE "false")
    /\ UNCHANGED map

Has(k) ==
    /\ answer' = Said(<<"contains", k>>, IF k \in DOMAIN map THEN "true" ELSE "false")
    /\ UNCHANGED map

\* A key the comparator rejects: an error, and the map as it was.
Refuse(what, k) == answer' = Said(<<what, k>>, "error") /\ UNCHANGED map

\* A comparator that fails in the middle of a deletion: entries may be lost,
\* none is changed and none appears.
Lose(k) ==
    /\ answer' = Said(<<"delete", k>>, "error")
    /\ \E kept \in SUBSET DOMAIN map : map' = [x \in kept |-> map[x]]

Next ==
    \/ \E k \in Key, v \in Value : Put(k, v)
    \/ \E k \in Key : Drop(k) \/ Get(k) \/ Has(k) \/ Lose(k)
    \/ \E what \in {"insert", "search", "contains", "check"}, k \in Key : Refuse(what, k)
    \/ DropLeast

Spec == Init /\ [][Next]_<<map, answer>>
=============================================================================
