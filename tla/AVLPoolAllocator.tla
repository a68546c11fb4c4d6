-------------------------- MODULE AVLPoolAllocator --------------------------
(***************************************************************************)
(* AVLPoolAllocator<T, size_type> of avl_dict.hh: a growable array of     *)
(* slots addressed by integer handles.  A slot is the C++ union           *)
(*   union Elem { size_type ptr; T val; }                                  *)
(* so a free slot's "next free" index (ptr) occupies the same storage as  *)
(* the first member of the node, its left kid.  The model keeps that     *)
(* aliasing: a slot is one node record and ptr(i) is data[i].kid[L].      *)
(*                                                                         *)
(* The operators below act on any record p with the fields               *)
(*   data  -- [0..cap-1 -> slot]     (std::unique_ptr<Elem[]> data)        *)
(*   cap   -- capacity_                                                    *)
(*   head  -- head of the free list; head = cap means "no free slot"      *)
(* and leave every other field of p alone, so the dictionary passes its  *)
(* whole state through them.                                              *)
(***************************************************************************)
EXTENDS Naturals, Sequences

CONSTANTS
    MaxCap,     \* max_capacity() = std::numeric_limits<size_type>::max()
    NoKey,      \* payload of a slot that holds no constructed key
    NoVal       \* payload of a slot that holds no constructed value

ASSUME MaxCap \in Nat /\ MaxCap >= 1

L == 0          \* AVLNodeBase::L
R == 1          \* AVLNodeBase::R

(* A slot with the node fields of AVLNodeBase (kid, h) and the payload   *)
(* of AVLSetNode / AVLMapNode (key, val).                                 *)
Slot(key, val, left, right, h) ==
    [key |-> key, val |-> val, h |-> h,
     kid |-> [dir \in {L, R} |-> IF dir = L THEN left ELSE right]]

(* A free slot: only ptr (= kid[L]) is meaningful; the other bytes are   *)
(* never read and are kept canonical.                                     *)
FreeSlot(next) == Slot(NoKey, NoVal, next, 0, 0)

Ptr(p, i) == p.data[i].kid[L]

MetaMax(a, b) == IF a >= b THEN a ELSE b

(* Mutant: the growth computed without the max_capacity() >> 1 test.     *)
GrownCapacityUnclamped(c) == 2 * c

(* The growth rule shared by allocate() and reserve_for():               *)
(*   capacity() < (max_capacity() >> 1) ? capacity() << 1 : max_capacity() *)
GrownCapacity(c) == IF c < MaxCap \div 2 THEN 2 * c ELSE MaxCap

(* explicit AVLPoolAllocator(size_type reserve_size): every slot free,   *)
(* ptr(i) = i + 1, head = 0.                                              *)
PoolInit(n) ==
    LET c == MetaMax(1, n)
    IN  [data |-> [i \in 0..c-1 |-> FreeSlot(i + 1)], cap |-> c, head |-> 0]

(* The array after growing from p.cap to newcap slots: old slots keep    *)
(* their contents (moved node or copied ptr), new slot i gets ptr i + 1. *)
Regrown(p, newcap) ==
    [i \in 0..newcap-1 |-> IF i < p.cap THEN p.data[i] ELSE FreeSlot(i + 1)]

(* allocate() throws "The AVLPool is full" exactly when the free list is *)
(* empty and the pool is already at max_capacity().                       *)
CanAllocate(p) == ~(p.head = p.cap /\ p.cap = MaxCap)

(* allocate(): grow when the free list is empty, then pop the head.      *)
(* Result: [p |-> new pool, res |-> allocated index].                    *)
Allocate(p) ==
    LET g == IF p.head = p.cap
               THEN [p EXCEPT !.data = Regrown(p, GrownCapacity(p.cap)),
                              !.cap  = GrownCapacity(p.cap)]
               ELSE p
    IN  [p |-> [g EXCEPT !.head = Ptr(g, g.head)], res |-> g.head]

(* Mutant: deallocate(n) that links n to the list but forgets head = n.   *)
DeallocateNoPush(p, n) == [p EXCEPT !.data[n] = FreeSlot(p.head)]

(* deallocate(n) / destruct_and_deallocate(n): push n on the free list.  *)
(* The destructor ends the payload's lifetime, so the slot's payload     *)
(* becomes FreeSlot garbage.                                              *)
Deallocate(p, n) == [p EXCEPT !.data[n] = FreeSlot(p.head), !.head = n]

(* reserve_for(n) throws when n >= capacity() and the pool is full-size. *)
CanReserve(p, n) == n < p.cap \/ p.cap # MaxCap

(* reserve_for(n): no-op when n < capacity(), otherwise a new array of   *)
(* max(n, grown capacity) slots; free slots keep their ptr (the old      *)
(* free list ends at the old capacity, which is now the first new slot), *)
(* occupied slots are moved, new slots are chained i -> i + 1.           *)
ReserveFor(p, n) ==
    IF n < p.cap THEN p
    ELSE LET nc == MetaMax(n, GrownCapacity(p.cap))
         IN  [p EXCEPT !.data = Regrown(p, nc), !.cap = nc]

(* The free list followed from head: the slots it visits before it      *)
(* reaches the end marker cap (fuel bounds the walk on a corrupt list).  *)
RECURSIVE FreeChain(_, _, _)
FreeChain(p, i, fuel) ==
    IF i >= p.cap \/ fuel = 0 THEN <<>>
    ELSE <<i>> \o FreeChain(p, Ptr(p, i), fuel - 1)

FreeList(p) == FreeChain(p, p.head, p.cap + 1)

FreeSet(p) == {FreeList(p)[i] : i \in 1..Len(FreeList(p))}

(* AVLPoolAllocator(const AVLPoolAllocator& apa): the free slots of apa  *)
(* are re-threaded in increasing index order, occupied slots 1.. are     *)
(* copy-constructed from apa.  Slot 0 (nil, when occupied) is copied     *)
(* with ::new (&elem(0)) AVLNB(reinterpret_cast<AVLNB&>(data[0])), i.e.  *)
(* from the new array itself: its kid[L] is the ptr 0 written just       *)
(* before, its kid[R] (gR) and h (gH) are whatever the fresh allocation  *)
(* holds.                                                                  *)
CopyPool(p, gR, gH) ==
    LET free       == FreeSet(p)
        NextFree(i) == LET up == {j \in free : j > i}
                       IN  IF up = {} THEN p.cap
                           ELSE CHOOSE j \in up : \A k \in up : j <= k
    IN  [p EXCEPT
           !.data = [i \in 0..p.cap-1 |->
                       IF i \in free THEN FreeSlot(NextFree(i))
                       ELSE IF i = 0 THEN Slot(NoKey, NoVal, 0, gR, gH)
                       ELSE p.data[i]],
           !.head = IF 0 \in free THEN 0 ELSE NextFree(0)]

(* The failure path of the copy constructor.  After the two marking      *)
(* loops the new array's ptr is max_capacity() for the slots on apa's    *)
(* free list and 0 for the others.                                        *)
MarkedPtrs(p) == [i \in 0..p.cap-1 |-> IF i \in FreeSet(p) THEN MaxCap ELSE 0]

(* for (i = capacity() - 1; i > 0; --i) from head = capacity(): a free   *)
(* slot is pushed on the new free list, an occupied one copy-constructed *)
(* (built), until T(apa.elem(f)) throws at the occupied slot f.           *)
RECURSIVE CopyDownFrom(_, _, _)
CopyDownFrom(st, i, f) ==
    IF i = 0 \/ i = f THEN st
    ELSE IF st.ptr[i] = MaxCap
         THEN CopyDownFrom([st EXCEPT !.ptr[i] = st.head, !.head = i], i - 1, f)
         ELSE CopyDownFrom([st EXCEPT !.built = @ \cup {i}], i - 1, f)

CopyUntilThrow(p, f) ==
    CopyDownFrom([ptr |-> MarkedPtrs(p), head |-> p.cap, built |-> {}], p.cap - 1, f)

(* emergency_destruct(beg): for i from beg up, a slot equal to head is   *)
(* unallocated (head = ptr(i)), any other has its payload destructed.    *)
(* Result: the slots destructed.                                           *)
RECURSIVE EmergencyDestructFrom(_, _, _)
EmergencyDestructFrom(st, i, cap) ==
    IF i >= cap THEN {}
    ELSE IF i = st.head
         THEN EmergencyDestructFrom([st EXCEPT !.head = st.ptr[i]], i + 1, cap)
         ELSE {i} \cup EmergencyDestructFrom(st, i + 1, cap)

(* Mutant: the catch unwinds from the slot that failed, not above it.   *)
CopyFailureUnwindFromFailed(p, f) ==
    EmergencyDestructFrom(CopyUntilThrow(p, f), f, p.cap)

(* catch (...) { emergency_destruct(i + 1); throw; } for the slot f.     *)
CopyFailureUnwind(p, f) ==
    EmergencyDestructFrom(CopyUntilThrow(p, f), f + 1, p.cap)

=============================================================================
