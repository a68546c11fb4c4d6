--------------------------- MODULE MCAVLDictMultimap ---------------------------
(* AVLDictMultimap<K, V>, keys 1..3 standing for the order of any key   *)
(* type and V with two values and a non-trivial destructor, for a 2-bit  *)
(* size_type                                                              *)
(* (max_capacity() = 3, so at most two entries): emplace and alter_key   *)
(* meet the full pool, and three keys let alter_key move an entry past   *)
(* another one as well as onto an equal key.                              *)
EXTENDS AVLDictMultimap

CONSTANTS v0, v1

MCMaxCap == 3
MCKeys == 1..3
MCValues == {v0, v1}
MCInitReserve == {1}
MCReserveArgs == {3}
MCAlterArgs == {a \in MCKeys \X MCKeys : a[1] # a[2]}
=============================================================================
