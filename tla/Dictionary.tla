----------------------------- MODULE Dictionary -----------------------------
(***************************************************************************)
(* What a search tree promises: a function from keys to values that        *)
(* changes at one key at a time.                                           *)
(***************************************************************************)
CONSTANTS Keys, Values

VARIABLE dict

Init == \E present \in SUBSET Keys : dict \in [present -> Values]

Put(key, value) ==
    dict' = [k \in DOMAIN dict \cup {key} |-> IF k = key THEN value ELSE dict[k]]

Erase(key) ==
    /\ key \in DOMAIN dict
    /\ dict' = [k \in DOMAIN dict \ {key} |-> dict[k]]

Next == \E key \in Keys : Erase(key) \/ \E value \in Values : Put(key, value)

Spec == Init /\ [][Next]_dict
=============================================================================
