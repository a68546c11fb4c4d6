---------------------------- MODULE MCAVLDictSet ----------------------------
(* AVLDictSet<K, std::less<>, size_type>, integers standing for the      *)
(* order of K.  The cfgs with TrivialNode = FALSE take a K that is not   *)
(* trivially destructible (a std::string, whose copy may also throw);     *)
(* the _trivial cfg takes K = int.  A 3-bit size_type:                    *)
(* max_capacity() = 7, so the pool grows 1 -> 2 -> 4 -> 7.                 *)
EXTENDS AVLDictSet

MCMaxCap == 7
MCKeys == 1..4
MCInitReserve == {1}
(* One key, two apart, three adjacent: filter erases one node or resumes *)
(* after each erase.                                                       *)
MCConditions == {{2}, {1, 3}, {2, 3, 4}}
(* 3: grows a 1- or 2-slot pool to 3 slots, a no-op from 4 on; 7: grows *)
(* to max_capacity(), or throws once there.                               *)
MCReserveArgs == {3, 7}

(* A 2-bit size_type: max_capacity() = 3, the pool jumps 1 -> 3, and    *)
(* three keys are one more than the pool can hold besides nil.            *)
MCSmallCap == 3
MCSmallKeys == 1..3
MCSmallConditions == {{1, 2}, {2, 3}}
MCSmallReserveArgs == {2, 3}
=============================================================================
