----------------------------- MODULE KeyValueMap ------------------------------
(***************************************************************************)
(* What a map promises: a partial function from keys to values, and what   *)
(* each of its calls returns.                                              *)
(***************************************************************************)
EXTENDS Functions

CONSTANTS Keys, Values

VARIABLES
    map,  \* the values of the keys that have one
    out   \* what the last call returned: a sequence of at most one value

vars == <<map, out>>

At(k) == IF k \in DOMAIN map THEN <<map[k]>> ELSE <<>>
With(k, v) == [x \in DOMAIN map \cup {k} |-> IF x = k THEN v ELSE map[x]]

Init == map = <<>> /\ out = <<>>

Put(k, v) == map' = With(k, v) /\ out' = At(k)
OrPut(k, v) == map' = (IF k \in DOMAIN map THEN map ELSE With(k, v)) /\ out' = (IF k \in DOMAIN map THEN At(k) ELSE <<v>>)
Modify(k, v) == map' = (IF k \in DOMAIN map THEN With(k, v) ELSE map) /\ out' = At(k)
Look(k) == map' = map /\ out' = At(k)
Delete(k) == map' = Restrict(map, DOMAIN map \ {k}) /\ out' = At(k)
Clear == map' = <<>> /\ out' = <<>>
Fails == map' = map /\ out' \in {<<"AllocError">>, <<"ok">>}

Next ==
    \/ \E k \in Keys : Look(k) \/ Delete(k) \/ \E v \in Values : Put(k, v) \/ OrPut(k, v) \/ Modify(k, v)
    \/ Clear \/ Fails

Spec == Init /\ [][Next]_vars
===============================================================================
