-------------------------------- MODULE Maps --------------------------------
(* Finite maps as functions on their keys. *)

Nothing          == [x \in {} |-> x]
With(m, k, v)    == [x \in DOMAIN m \cup {k} |-> IF x = k THEN v ELSE m[x]]
Without(m, k)    == [x \in DOMAIN m \ {k} |-> m[x]]
=============================================================================
