--------------------------- MODULE MCAVLDictMultiset ---------------------------
(* AVLDictMultiset<K>, K a key type that is not trivially destructible    *)
(* (a std::string, say; integers stand for its order), for a 3-bit      *)
(* size_type (max_capacity() = 7) and a                                   *)
(* 2-bit one (max_capacity() = 3).  Two keys are enough for duplicates;  *)
(* the tree is bounded to five nodes below.                              *)
EXTENDS AVLDictMultiset

MCMaxCap == 7
MCKeys == 1..2
MCInitReserve == {1}
MCReserveArgs == {7}
(* A bound on the nodes in the tree (size_): five nodes give trees of   *)
(* height 3, with single and double rotations among equal keys, and an  *)
(* erase that splices a predecessor with a left kid.                     *)
MCMaxSize == 5
SizeBound == size_ <= MCMaxSize
=============================================================================
