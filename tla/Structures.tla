----------------------------- MODULE Structures -----------------------------
(***************************************************************************)
(* Pairs and vectors that set-car!, set-cdr! and vector-set! tie into any  *)
(* shape, and what walks over them: the writer, equal?, list?. All three   *)
(* must end on circular data and tell it from data that is only shared.    *)
(***************************************************************************)
EXTENDS FiniteSets, Integers

CONSTANTS
    Pairs, Vectors,     \* the objects; a vector has one element
    Atoms,              \* what is neither, apart from the empty list
    Changes             \* bound: how many slots differ from the empty list

\* There are finitely many objects, and their tags tell them apart.
ASSUME ObjectsAssumption ==
    /\ IsFiniteSet(Pairs) /\ IsFiniteSet(Vectors) /\ IsFiniteSet(Atoms)
    /\ Pairs \cap Vectors = {} /\ (Pairs \cup Vectors) \cap (Atoms \cup {"nil"}) = {}

VARIABLES heap          \* <<object, slot>> -> datum
heapVars == <<heap>>

Slots == (Pairs \X {"car", "cdr"}) \cup (Vectors \X {"element"})
Datum == Pairs \cup Vectors \cup Atoms \cup {"nil"}

car(p) == heap[<<p, "car">>]
cdr(p) == heap[<<p, "cdr">>]
element(v) == heap[<<v, "element">>]

HeapInit == heap = [s \in Slots |-> "nil"]

store(s, v) ==
    /\ heap' = [heap EXCEPT ![s] = v]
    /\ Cardinality({x \in Slots : heap'[x] # "nil"}) <= Changes

set_car(p, v)    == store(<<p, "car">>, v)
set_cdr(p, v)    == store(<<p, "cdr">>, v)
vector_set(o, v) == store(<<o, "element">>, v)

HeapNext ==
    \/ \E p \in Pairs, v \in Datum : set_car(p, v) \/ set_cdr(p, v)
    \/ \E o \in Vectors, v \in Datum : vector_set(o, v)

HeapSpec == HeapInit /\ [][HeapNext]_heapVars

-----------------------------------------------------------------------------
(* The walks. A list is walked along its cdrs in a loop, which does with   *)
(* each further pair what it did with the first.                           *)

\* Mutant: vectors are not looked into.
into_pairs(v) == IF v \in Pairs THEN {car(v), cdr(v)} ELSE {}

\* What write_list and write_vector go on with.
into(v) ==
    IF v \in Pairs THEN {car(v), cdr(v)} ELSE IF v \in Vectors THEN {element(v)} ELSE {}

\* Whether a circularity mark is written. path is what the writer is inside of.
writes_mark[v \in Datum] == [path \in SUBSET Datum |->
    /\ v \in Pairs \cup Vectors
    /\ v \in path \/ \E x \in into(v) : writes_mark[x][path \cup {v}]]

\* seen pairs what equal? is inside of on the left with what it met it with.
\* Mutant: what is met again is taken for equal to anything.
met_anything(a, b, seen) == TRUE

met(a, b, seen) == <<a, b>> \in seen

equal_values[a \in Datum] == [b \in Datum |-> [seen \in SUBSET (Datum \X Datum) |->
    LET inside == \E p \in seen : p[1] = a
        s      == seen \cup {<<a, b>>}
    IN \/ a = b
       \/ /\ a \in Pairs /\ b \in Pairs
          /\ IF inside THEN met(a, b, seen)
             ELSE equal_values[car(a)][car(b)][s] /\ equal_values[cdr(a)][cdr(b)][s]
       \/ /\ a \in Vectors /\ b \in Vectors
          /\ IF inside THEN met(a, b, seen) ELSE equal_values[element(a)][element(b)][s]]]

equal(a, b) == equal_values[a][b][{}]

\* Mutant: whatever is no pair ends a list.
ends_improper(v) == TRUE

ends(v) == v = "nil"

\* Floyd's two pointers. fast is a pair only where slow has been one.
tortoise[slow \in Datum] == [fast \in Datum |->
    IF fast \notin Pairs THEN ends(fast)
    ELSE IF cdr(fast) \notin Pairs THEN ends(cdr(fast))
    ELSE LET next == IF slow \in Pairs THEN cdr(slow) ELSE slow IN
         next # cdr(cdr(fast)) /\ tortoise[next][cdr(cdr(fast))]]

is_proper_list(v) == tortoise[v][v]

-----------------------------------------------------------------------------
(* Properties.                                                             *)

Parts(v) == {heap[s] : s \in {x \in Slots : x[1] = v}}

Grow[S \in SUBSET Datum] ==
    LET T == S \cup UNION {Parts(v) : v \in S} IN IF T = S THEN S ELSE Grow[T]
Inside(v) == Grow[Parts(v)]         \* everything v leads to

Circular(v) == \E x \in Inside(v) \cup {v} : x \in Inside(x)

\* The writer marks a value as circular just when it is: data that is only
\* shared is written in full, and a cycle anywhere in it, through car, cdr or
\* a vector, is cut.
MarksJustCycles == \A v \in Pairs \cup Vectors : writes_mark[v][{}] = Circular(v)

\* The largest relation that respects atoms and slots: what equal? means on
\* data that may be circular.
Matches(R, a, b) ==
    \/ a = b
    \/ /\ a \in Pairs /\ b \in Pairs
       /\ <<car(a), car(b)>> \in R /\ <<cdr(a), cdr(b)>> \in R
    \/ a \in Vectors /\ b \in Vectors /\ <<element(a), element(b)>> \in R

Shrink[R \in SUBSET (Datum \X Datum)] ==
    LET S == {p \in R : Matches(R, p[1], p[2])} IN IF S = R THEN R ELSE Shrink[S]
Same == Shrink[Datum \X Datum]

\* equal? answers true only for values no walk can tell apart, although it
\* takes a pair it is inside of for equal to what it met it with; and when
\* its first argument is not circular it answers true for all of those. (When
\* it is circular the answer can be false, and depend on the order of the
\* arguments.)
EqualIsSame ==
    \E R \in {Same} : \A a, b \in Pairs \cup Vectors :
        /\ equal(a, b) => <<a, b>> \in R
        /\ (<<a, b>> \in R /\ ~Circular(a)) => equal(a, b)

\* What a walk along cdr comes to.
spine[v \in Datum] == [n \in Nat |->
    IF n = 0 THEN v
    ELSE IF spine[v][n - 1] \in Pairs THEN cdr(spine[v][n - 1]) ELSE spine[v][n - 1]]

\* list? is true just of what a walk along cdr finds the end of, and it ends.
ListIsFinite == \A v \in Datum : is_proper_list(v) = (spine[v][Cardinality(Pairs)] = "nil")
=============================================================================
