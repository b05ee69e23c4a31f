------------------------------ MODULE Extents -------------------------------
(***************************************************************************)
(* What dynamic-wind promises (lib14.scm 416-436, scheme14.cpp 2643-2681), *)
(* seen from the console of a program whose before thunks write "+n",      *)
(* whose after thunks write "-n" and whose bodies write "n": an extent is  *)
(* entered from the one around it and left to it, innermost first, and a   *)
(* body only ever runs directly inside its own extent. Jumps in and out    *)
(* by continuations, errors and exit make no difference.                   *)
(***************************************************************************)
EXTENDS Naturals, Sequences

CONSTANT Extent     \* the names n

VARIABLES
    inside,         \* the extents entered, outermost first
    home,           \* where each extent lies: the extents around it
    console         \* what has been written

Nowhere == <<"nowhere">>

Init == inside = <<>> /\ home = [n \in Extent |-> Nowhere] /\ console = <<>>

\* before has run: an extent is always entered at the same place.
Enter(n) ==
    /\ console' = Append(console, "+" \o n)
    /\ home[n] \in {Nowhere, inside}
    /\ home' = [m \in Extent |-> IF m = n THEN inside ELSE home[m]]
    /\ inside' = Append(inside, n)

\* after has run, for the innermost extent.
Leave(n) ==
    /\ console' = Append(console, "-" \o n)
    /\ inside # <<>> /\ n = inside[Len(inside)]
    /\ inside' = SubSeq(inside, 1, Len(inside) - 1)
    /\ UNCHANGED home

Body(n) ==
    /\ console' = Append(console, n)
    /\ inside # <<>> /\ n = inside[Len(inside)]
    /\ UNCHANGED <<inside, home>>

Next == \E n \in Extent : Enter(n) \/ Leave(n) \/ Body(n)

Spec == Init /\ [][Next]_<<console, inside, home>>
=============================================================================
