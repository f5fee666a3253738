------------------------------- MODULE Dictionary ------------------------------
(*****************************************************************************)
(* What a table promises: a map from keys to values.                         *)
(*****************************************************************************)
CONSTANTS Key, Val

VARIABLE dict

Empty == [x \in {} |-> x]

Init == dict = Empty

Assign(k, v) ==
  dict' = [x \in DOMAIN dict \cup {k} |-> IF x = k THEN v ELSE dict[x]]

Remove(k) == dict' = [x \in DOMAIN dict \ {k} |-> dict[x]]

Clear == dict' = Empty

Next ==
  \/ \E k \in Key : Remove(k) \/ \E v \in Val : Assign(k, v)
  \/ Clear

Spec == Init /\ [][Next]_dict
================================================================================
