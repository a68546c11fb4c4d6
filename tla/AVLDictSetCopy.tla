---------------------------- MODULE AVLDictSetCopy ----------------------------
(***************************************************************************)
(* AVLDictSet with its copy operations: AVLDictionary(const&) = default  *)
(* and operator=(const&) = default copy the pool with                     *)
(* AVLPoolAllocator(const AVLPoolAllocator&).  The set then goes on with  *)
(* the copy.  new Elem[capacity] runs Elem() {}, which leaves the array   *)
(* uninitialised; the bytes nil's kid[R] and h are read from are         *)
(* therefore any value the allocation held, chosen from Garbage.         *)
(***************************************************************************)
EXTENDS AVLDictSet

CONSTANT Garbage    \* values an uninitialised size_type / height may hold

ASSUME Garbage \subseteq 0..MaxCap-1

(* s = AVLDictSet(s) or s = s2 with s2 == s: the dictionary state is    *)
(* copied member by member (root, size_, compare), the pool through its  *)
(* copy constructor.                                                      *)
SetCopy(gR, gH) ==
    Commit(CopyPool(D, gR, gH), Ret("copy", {}, NoRet))

NextWithCopy ==
    \/ Next
    \/ \E gR, gH \in Garbage : SetCopy(gR, gH)

SpecWithCopy == Init /\ [][NextWithCopy]_vars

=============================================================================
