-------------------------------- MODULE Maps --------------------------------
(***************************************************************************)
(* std::map as a function on the keys it holds.                            *)
(***************************************************************************)

\* map[key] = value
Update(map, key, value) ==
  [k \in DOMAIN map \cup {key} |-> IF k = key THEN value ELSE map[k]]
=============================================================================
