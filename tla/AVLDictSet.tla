------------------------------ MODULE AVLDictSet ------------------------------
(***************************************************************************)
(* AVLDictSet<Value, std::less<>, size_type> of avl_dict.hh: the unique-  *)
(* key set built from AVLSetNode, AVLDictContainer and the AVLDictionary  *)
(* engine.  One action per public member function that changes state.   *)
(***************************************************************************)
EXTENDS AVLDictContainer

(* x = insert_if_not_exists(new_node) (r, at the root): a duplicate's    *)
(* new node is deallocated and emplace returns false.                     *)
EmplaceResult(r, new, k) ==
    IF r.res # new
    THEN Commit(DeallocateNode([r.d EXCEPT !.root = r.x], new), Ret("emplace", {k}, FALSE))
    ELSE Commit([r.d EXCEPT !.root = r.x], Ret("emplace", {k}, TRUE))

EmplaceNode(a, k) == EmplaceResult(InsertIfNotExists(a.d, a.d.root, a.res), a.res, k)

(* emplace(v) / insert(v): allocate_node first (it may throw), then       *)
(* insert_if_not_exists.                                                   *)
SetEmplace(k) ==
    IF ~CanAllocate(D) THEN Unchanged(Ret("emplace", {k}, Exhausted))
    ELSE EmplaceNode(AllocateNode(D, k, NoVal), k)

Next ==
    \/ \E k \in Keys : SetEmplace(k) \/ ContainerErase(k)
    \/ \E P \in Conditions : ContainerFilter(P)
    \/ ContainerClear
    \/ \E n \in ReserveArgs : ContainerReserveFor(n)

Spec == Init /\ [][Next]_vars

-----------------------------------------------------------------------------
(* Properties                                                              *)

(* The set is what OrderedSet says: every call returns what the abstract *)
(* set operation returns, and the keys in the tree follow the abstract   *)
(* set.                                                                    *)
Abs == INSTANCE OrderedSet WITH elems <- Elems

SetRefinesOrderedSet == Abs!Spec

(* Spec 5: "duplicate insertion into a Set/Map returns false rather than *)
(* failing"; AllocatorExhausted is raised only when a new allocation is  *)
(* requested.  So an emplace that throws was given a key not in the set. *)
(* emplace() calls allocate_node before insert_if_not_exists looks for   *)
(* the key.                                                                *)
DuplicateEmplaceNeverThrows ==
    [][ret'.op = "emplace" /\ ret'.res = Exhausted => ret'.arg \cap Elems = {}]_vars

(* The const member functions answer from the set, for every argument:  *)
(* find, lower_bound, upper_bound, front, back, size and the visits of   *)
(* for_each, foreach_since_lower_bound and foreach_since_upper_bound.     *)
(* A pointer is compared by the key it points to.                          *)
KeyOr(x)    == IF x = Nil THEN None ELSE Key(D, x)
KeysOf(seq) == [i \in DOMAIN seq |-> Key(D, seq[i])]

QueriesAnswerFromTheSet ==
    /\ size_ = Cardinality(Elems)
    /\ KeyOr(Dirmost(D, root, L)) = Abs!Least(Elems)
    /\ KeyOr(Dirmost(D, root, R)) = Abs!Greatest(Elems)
    /\ KeysOf(InOrder(D, root)) = Abs!Sorted(Elems)
    /\ \A k \in Keys :
          /\ KeyOr(Find(D, k))       = Abs!FindResult(k)
          /\ KeyOr(LowerBound(D, k)) = Abs!LowerBoundResult(k)
          /\ KeyOr(UpperBound(D, k)) = Abs!UpperBoundResult(k)
          /\ KeysOf(SinceLowerBound(D, root, k)) = Abs!SinceLowerResult(k)
          /\ KeysOf(SinceUpperBound(D, root, k)) = Abs!SinceUpperResult(k)

(* Spec 4.1, copy construction: AVLDictSet(const AVLDictSet&) = default  *)
(* copies the pool with AVLPoolAllocator(const&).  The copy has the same *)
(* keys in the same order and a well-formed free list over the other     *)
(* slots.  A key whose copy may throw (a std::string's bad_alloc) can    *)
(* make any slot's copy fail; the unwinding then destructs exactly the   *)
(* keys copied before it (the occupied slots above it), never a free     *)
(* slot and never the failed one.  nil's kid[R] and h, which the copy    *)
(* reads from its own fresh array, are taken as 0 here; the set_copy run *)
(* shows what other bytes do.                                             *)
CopyIsDeepAndTransactional ==
    /\ LET c == CopyPool(D, Nil, 0)
       IN  /\ [i \in 1..Len(InOrder(c, root)) |-> Key(c, InOrder(c, root)[i])]
                = KeysOf(InOrder(D, root))
           /\ FreeListWellFormed(c) /\ SlotsPartitioned(c)
    /\ \A f \in Nodes(D) : CopyFailureUnwind(D, f) = {j \in Nodes(D) : j > f}

=============================================================================
