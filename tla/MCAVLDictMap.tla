---------------------------- MODULE MCAVLDictMap ----------------------------
(* AVLDictMap<K, V, std::less<>, size_type> for a 3-bit size_type       *)
(* (max_capacity() = 7): keys 1..3 stand for the order of any key type K, *)
(* and V has two values, V{} = v0, and a non-trivial destructor (a       *)
(* std::string, say), so the node is not trivially destructible.         *)
EXTENDS AVLDictMap

CONSTANTS v0, v1

MCMaxCap == 7
MCKeys == 1..3
MCValues == {v0, v1}
MCInitReserve == {1}
MCConditions == {{1, 3}}
MCReserveArgs == {7}
(* Every alteration between distinct keys, and one onto itself.          *)
MCAlterArgs == {<<a, b>> \in MCKeys \X MCKeys : a # b} \cup {<<2, 2>>}

(* Four keys, one value: the heights of the tree do not depend on the   *)
(* values.                                                                 *)
MCHeightKeys == 1..4
MCHeightValues == {v0}
MCHeightAlterArgs == {<<a, b>> \in MCHeightKeys \X MCHeightKeys : a # b}
=============================================================================
