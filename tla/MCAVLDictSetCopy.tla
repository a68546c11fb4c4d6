-------------------------- MODULE MCAVLDictSetCopy --------------------------
(* AVLDictSet<K> with copies, K not trivially destructible (integers    *)
(* stand for its order), for a 2-bit size_type (max_capacity() = 3)      *)
(* and uninitialised bytes that happen to hold 0 or 1.                     *)
EXTENDS AVLDictSetCopy

MCMaxCap == 3
MCKeys == 1..3
MCInitReserve == {1}
MCGarbage == {0, 1}
MCConditions == {{1, 2}}
MCReserveArgs == {3}
=============================================================================
