------------------------------ MODULE HashTable ------------------------------
(***************************************************************************)
(* The hash tables of src/hashtable_lib.scm: buckets of entries in a red-  *)
(* black tree under the hash of their keys, and a counter. The tree is a   *)
(* map here (RBTree shows that it is one). Entries are pairs that are      *)
(* changed in place, and an iteration runs over a list of them made when   *)
(* it began while its callback changes the table.                          *)
(***************************************************************************)
EXTENDS Naturals, Sequences, SequencesExt, FiniteSets, Maps

CONSTANTS
    Key,            \* <<kind, what>>: number, float, string, boolean, other
    Value,
    Modulus,        \* of the hash: 2147483647 in the code
    StringHash      \* of the strings, and of "unknown"

VARIABLES
    tree,           \* hash -> bucket, a sequence of entries
    size,           \* the counter
    value,          \* the value of every entry in use
    todo,           \* the entries an iteration has still to visit
    answer          \* what the last operation was asked and returned

tableVars == <<tree, size, value, todo, answer>>

-----------------------------------------------------------------------------
(* Keys and buckets. An entry is named by its key and a number that tells   *)
(* it from one deleted before and still held by the iteration.              *)

Entry == Key \X {1, 2}

Hashable(k) == k[1] # "float"       \* modulo takes no flonum
hash_value(k) ==
    CASE k[1] = "number"  -> k[2] % Modulus
      [] k[1] = "string"  -> StringHash[k[2]]
      [] k[1] = "boolean" -> k[2]
      [] OTHER            -> StringHash["unknown"]

Bucket(k) == IF hash_value(k) \in DOMAIN tree THEN tree[hash_value(k)] ELSE <<>>

\* The place of the first entry for a key; keys are equal when they are the
\* same one, there being no flonum among them.
\* Mutant: only the head of the bucket is looked at.
PlacesAtHead(b, k) == {i \in 1..Len(b) : i = 1 /\ b[i][1] = k}

Places(b, k) == {i \in 1..Len(b) : b[i][1] = k}
Place(b, k)  == CHOOSE i \in Places(b, k) : \A j \in Places(b, k) : i <= j

bucket_find(b, k)   == b[Place(b, k)]
bucket_add(b, e)    == Append(b, e)
\* Mutant: the head of the bucket, whichever key it has.
bucket_remove_head(b, k) == Tail(b)

bucket_remove(b, k) == RemoveAt(b, Place(b, k))

\* ht-tree-to-entries, as a set: the order of an iteration is left open.
EntriesIn(t) == UNION {{t[h][i] : i \in 1..Len(t[h])} : h \in DOMAIN t}
Entries      == EntriesIn(tree)

\* An entry nobody holds any more has no value.
Held(v, es) == [e \in es |-> v[e]]

Said(what, v) == [of |-> what, is |-> v]

-----------------------------------------------------------------------------
TableInit ==
    /\ tree = Nothing /\ size = 0 /\ value = Nothing
    /\ todo = {}
    /\ answer = Said(<<"new">>, "table")

SetEntry(k, v) ==
    /\ Places(Bucket(k), k) # {}
    /\ value' = [value EXCEPT ![bucket_find(Bucket(k), k)] = v]
    /\ UNCHANGED <<tree, size>>

AddEntry(k, v) ==
    LET e == <<k, IF <<k, 1>> \in todo THEN 2 ELSE 1>> IN
    /\ Places(Bucket(k), k) = {}
    /\ tree' = With(tree, hash_value(k), bucket_add(Bucket(k), e))
    /\ value' = With(value, e, v)
    /\ size' = size + 1

\* update! is a get, whatever its procedure does, and a set.
set(k, v) ==
    /\ Hashable(k)
    /\ SetEntry(k, v) \/ AddEntry(k, v)
    /\ answer' = Said(<<"set", k>>, v)
    /\ UNCHANGED todo

Current(k) ==
    IF Places(Bucket(k), k) # {} THEN value[bucket_find(Bucket(k), k)] ELSE "false"

get(k) ==
    /\ Hashable(k)
    /\ answer' = Said(<<"get", k>>, Current(k))
    /\ UNCHANGED <<tree, size, value, todo>>

has_key(k) ==
    /\ Hashable(k)
    /\ answer' = Said(<<"has", k>>, IF Places(Bucket(k), k) # {} THEN "true" ELSE "false")
    /\ UNCHANGED <<tree, size, value, todo>>

delete(k) ==
    LET h == hash_value(k)
        b == bucket_remove(Bucket(k), k)
    IN /\ Hashable(k)
       /\ \/ /\ Places(Bucket(k), k) # {}
             /\ tree' = IF b = <<>> THEN Without(tree, h) ELSE With(tree, h, b)
             /\ value' = Held(value, EntriesIn(tree') \cup todo)
             /\ size' = size - 1
             /\ answer' = Said(<<"delete", k>>, "true")
          \/ /\ Places(Bucket(k), k) = {}
             /\ answer' = Said(<<"delete", k>>, "false")
             /\ UNCHANGED <<tree, value, size>>
       /\ UNCHANGED todo

clear ==
    /\ tree' = Nothing /\ size' = 0
    /\ value' = Held(value, todo)
    /\ answer' = Said(<<"clear">>, "table")
    /\ UNCHANGED todo

count ==
    /\ answer' = [of |-> <<"size">>, size |-> size]
    /\ UNCHANGED <<tree, size, value, todo>>

\* for-each, map, fold: a list of the entries, then one call for each.
for_each ==
    /\ todo' = Entries
    /\ value' = Held(value, Entries)
    /\ UNCHANGED <<tree, size, answer>>

visit(e) ==
    /\ e \in todo
    /\ todo' = todo \ {e}
    /\ value' = Held(value, Entries \cup todo')
    /\ answer' = Said(<<"visit", e[1]>>, value[e])
    /\ UNCHANGED <<tree, size>>

refuse(k) ==
    /\ ~Hashable(k)
    /\ answer' = Said(<<"refuse", k>>, "error")
    /\ UNCHANGED <<tree, size, value, todo>>

TableNext ==
    \/ \E k \in Key, v \in Value : set(k, v)
    \/ \E k \in Key : get(k) \/ has_key(k) \/ delete(k) \/ refuse(k)
    \/ \E e \in Entry : visit(e)
    \/ clear \/ count \/ for_each

TableSpec == TableInit /\ [][TableNext]_tableVars

-----------------------------------------------------------------------------
(* Properties.                                                             *)

\* Types, as far as the other properties build on them.
TableTypeOK ==
    /\ size \in Nat
    /\ \A h \in DOMAIN tree : tree[h] \in Seq(Entry)
    /\ todo \subseteq Entry
    /\ DOMAIN value = Entries \cup todo

\* No bucket is empty, every entry is in the bucket of its hash, and no key
\* has two entries in use: the table finds, changes and deletes the one there
\* is. hash-table-validate checks none of this.
WellFiled ==
    /\ \A h \in DOMAIN tree :
          /\ tree[h] # <<>>
          /\ \A i \in 1..Len(tree[h]) : Hashable(tree[h][i][1]) /\ hash_value(tree[h][i][1]) = h
          /\ \A i, j \in 1..Len(tree[h]) : tree[h][i][1] = tree[h][j][1] => i = j
    /\ \A d, e \in todo : d[1] = e[1] => d = e

\* The counter counts the entries (what hash-table-validate compares).
SizeExact == size = Cardinality(Entries)

Contents   == [k \in {e[1] : e \in Entries} |-> value[CHOOSE e \in Entries : e[1] = k]]
Remaining  ==
    [k \in {e[1] : e \in todo} |->
        LET e == CHOOSE x \in todo : x[1] = k
        IN IF e \in Entries THEN [live |-> TRUE] ELSE [was |-> value[e]]]

D == INSTANCE Dictionary WITH map <- Contents, rest <- Remaining

\* The table is a dictionary, whatever keys collide, and an iteration sees
\* what its callback does to the table as Dictionary says.
ImplementsDictionary == D!Spec
=============================================================================
