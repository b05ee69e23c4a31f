------------------------------- MODULE MCData -------------------------------
(***************************************************************************)
(* The data the library and the primitives keep and compute: red-black     *)
(* trees, hash tables, structures made of pairs and vectors, numbers,      *)
(* templates, input ports. They share nothing, so that a behaviour uses    *)
(* one of them, its part, and the others stay as they begin.               *)
(***************************************************************************)
EXTENDS Arithmetic, HashTable, Ports, Quasiquote, RBTree, Structures

VARIABLES part

numberVars == vars
allVars    == <<part, vars, treeVars, tableVars, heapVars, templateVars, portVars>>

\* Two keys that collide and one that has no hash.
MCKey        == {<<"number", 4>>, <<"boolean", 1>>, <<"float", 1>>}
MCStringHash == [unknown |-> 0]

\* A hole for an atom and one for a list, and an unquote outside a form; all
\* templates of them up to three levels of forms, lists and vectors.
MCSymbols == Kinds \cup {"x", "l", "b", "c"}
MCBound   == [x |-> Sym("b"), l |-> Pair(Sym("c"), Empty)]

Form(k, t)    == Pair(Sym(k), Pair(t, Empty))
Forms(ts)     == {Form(k, t) : k \in Kinds, t \in ts}
Lists(ss, ts) == {"pair"} \X ss \X ts
Vecs(ts)      == {Vec(Pair(t, Empty)) : t \in ts}
MCTemplates ==
    LET atoms == {Sym("x"), Sym("l"), Sym("unquote"), Empty}
        one   == atoms \cup Forms(atoms) \cup Lists(atoms, atoms) \cup Vecs(atoms)
        two   == one \cup Forms(one) \cup Lists(one, one) \cup Vecs(one)
    IN two \cup Forms(two) \cup Vecs(two) \cup Lists(two, atoms) \cup Lists(one, two)

\* Lines that end in CR before a character, before the end, and in CR LF.
MCFile  == <<"CR", "b", "CR">>
MCTyped == <<"CR", "LF">>

\* Around zero, both ends of the fixnums (-4..3), and beyond.
MCArguments ==
    UNION {[1..n -> {make_int(k) : k \in {-5, -4, -3, -2, -1, 0, 1, 2, 3, 4, 7}} \cup {Flonum, Other}] :
              n \in 0..3}

MCInit ==
    /\ part \in {"trees", "tables", "shapes", "numbers", "templates", "ports"}
    /\ args \in (IF part = "numbers" THEN Arguments ELSE {<<>>})
    /\ op \in (IF part = "numbers" THEN {"+", "-", "*"} ELSE {"+"})
    /\ Init
    /\ TreeInit /\ (part # "trees" => cmp = "number")
    /\ TableInit /\ HeapInit
    /\ template \in (IF part = "templates" THEN Templates ELSE {Empty})
    /\ expansion = Unexpanded
    /\ PortsInit

MCNext ==
    /\ UNCHANGED part
    /\ \/ part = "numbers" /\ Next /\ UNCHANGED <<treeVars, tableVars, heapVars, templateVars, portVars>>
       \/ part = "trees"   /\ TreeNext /\ UNCHANGED <<numberVars, tableVars, heapVars, templateVars, portVars>>
       \/ part = "tables"  /\ TableNext /\ UNCHANGED <<numberVars, treeVars, heapVars, templateVars, portVars>>
       \/ part = "shapes"  /\ HeapNext /\ UNCHANGED <<numberVars, treeVars, tableVars, templateVars, portVars>>
       \/ part = "ports"   /\ PortsNext /\ UNCHANGED <<numberVars, treeVars, tableVars, heapVars, templateVars>>
       \/ part = "templates" /\ expand_quasiquote /\ UNCHANGED <<numberVars, treeVars, tableVars, heapVars, portVars>>

MCSpec == MCInit /\ [][MCNext]_allVars
=============================================================================
