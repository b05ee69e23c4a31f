----------------------------- MODULE Dictionary -----------------------------
(***************************************************************************)
(* What src/hashtable_lib.scm promises of a table: a map from keys to      *)
(* values, and of an iteration over it: every key there was when it began  *)
(* is visited once, with the value it has by then, or, if the callback has *)
(* deleted it since, with the value it had last.                           *)
(***************************************************************************)
EXTENDS FiniteSets, Maps

CONSTANTS Key, Value

VARIABLES
    map,            \* the entries
    rest,           \* the keys the iteration has still to visit: there, or gone
    answer          \* what the last operation was asked and returned

Said(what, v) == [of |-> what, is |-> v]

There     == [live |-> TRUE]
Gone(v)   == [was |-> v]

IsThere(k) == k \in DOMAIN rest /\ rest[k] = There

Init == map = Nothing /\ rest = Nothing /\ answer = Said(<<"new">>, "table")

Put(k, v) ==
    /\ answer' = Said(<<"set", k>>, v) /\ map' = With(map, k, v)
    /\ UNCHANGED rest

Drop(k) ==
    \/ /\ k \in DOMAIN map
       /\ answer' = Said(<<"delete", k>>, "true") /\ map' = Without(map, k)
       /\ rest' = [x \in DOMAIN rest |-> IF x = k /\ IsThere(x) THEN Gone(map[x]) ELSE rest[x]]
    \/ /\ k \notin DOMAIN map
       /\ answer' = Said(<<"delete", k>>, "false")
       /\ UNCHANGED <<map, rest>>

Clear ==
    /\ answer' = Said(<<"clear">>, "table") /\ map' = Nothing
    /\ rest' = [x \in DOMAIN rest |-> IF IsThere(x) THEN Gone(map[x]) ELSE rest[x]]

Get(k) ==
    /\ answer' = Said(<<"get", k>>, IF k \in DOMAIN map THEN map[k] ELSE "false")
    /\ UNCHANGED <<map, rest>>

Has(k) ==
    /\ answer' = Said(<<"has", k>>, IF k \in DOMAIN map THEN "true" ELSE "false")
    /\ UNCHANGED <<map, rest>>

Size ==
    /\ answer' = [of |-> <<"size">>, size |-> Cardinality(DOMAIN map)]
    /\ UNCHANGED <<map, rest>>

Begin ==
    /\ rest' = [k \in DOMAIN map |-> There]
    /\ UNCHANGED <<map, answer>>

Visit(k) ==
    /\ k \in DOMAIN rest
    /\ answer' = Said(<<"visit", k>>, IF rest[k] = There THEN map[k] ELSE rest[k].was)
    /\ rest' = Without(rest, k)
    /\ UNCHANGED map

\* A key that cannot be hashed: an error, and the table as it was.
Refuse(k) == answer' = Said(<<"refuse", k>>, "error") /\ UNCHANGED <<map, rest>>

Next ==
    \/ \E k \in Key, v \in Value : Put(k, v)
    \/ \E k \in Key : Drop(k) \/ Get(k) \/ Has(k) \/ Visit(k) \/ Refuse(k)
    \/ Clear \/ Size \/ Begin

Spec == Init /\ [][Next]_<<map, rest, answer>>
=============================================================================
