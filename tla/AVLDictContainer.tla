--------------------------- MODULE AVLDictContainer ---------------------------
(***************************************************************************)
(* The state every container of avl_dict.hh has (AVLDictContainer over   *)
(* AVLDictionary): the pool, root and size_, plus the value the last     *)
(* call returned; the constructor; the member functions the containers   *)
(* share (erase, filter, clear, reserve_for); and the invariants of the  *)
(* engine.  AVLDictSet and AVLDictMap extend it with their insertions.   *)
(***************************************************************************)
EXTENDS AVLDictionary

CONSTANTS
    Keys,          \* the keys inserted (an integer type)
    Values,        \* the mapped values of a map node ({} for a set)
    InitReserve,   \* reserve_n arguments the constructor may be given
    Conditions,    \* filter conditions, each as the set of keys it holds for
    ReserveArgs,   \* arguments given to reserve_for
    None,          \* nullptr returned by find / lower_bound / ...
    NoRet,         \* a void member function returned
    Exhausted      \* THROW("The AVLPool is full")

ASSUME Keys \subseteq Int /\ NoVal \notin Values /\ InitReserve \subseteq 1..MaxCap /\ Conditions \subseteq SUBSET Keys
       /\ ReserveArgs \subseteq 0..MaxCap

VARIABLES
    data, capacity_, head,   \* AVLPoolAllocator pool
    root, size_,             \* AVLDictionary
    assertOk,                \* no assert in rebalance_and_seth has failed
    ret                      \* value returned by the last call

vars == <<data, capacity_, head, root, size_, assertOk, ret>>

D == [data |-> data, cap |-> capacity_, head |-> head,
      root |-> root, size |-> size_, ok |-> assertOk]

Commit(d, r) ==
    /\ data' = d.data /\ capacity_' = d.cap /\ head' = d.head
    /\ root' = d.root /\ size_' = d.size /\ assertOk' = d.ok
    /\ ret' = r

Unchanged(r) == ret' = r /\ UNCHANGED <<data, capacity_, head, root, size_, assertOk>>

(* The last call: which member function, its arguments (as a set: the  *)
(* keys, the keys the condition holds for, or reserve_for's n) and what  *)
(* it returned.                                                            *)
Ret(op, arg, res) == [op |-> op, arg |-> arg, res |-> res]

-----------------------------------------------------------------------------
(* explicit AVLDictionary(size_type reserve_n): pool(reserve_n), then     *)
(* nil = pool.allocate() (= 0) with both kids nil and height 0.           *)
Init ==
    \E n \in InitReserve :
        LET a == Allocate(PoolInit(n))
        IN  /\ data = [a.p.data EXCEPT ![Nil] = Slot(NoKey, NoVal, Nil, Nil, 0)]
            /\ capacity_ = a.p.cap
            /\ head = a.p.head
            /\ root = Nil /\ size_ = 0 /\ assertOk = TRUE
            /\ ret = Ret("constructor", {}, NoRet)

-----------------------------------------------------------------------------
(* Member functions shared by the containers                              *)

(* erase(key)                                                              *)
ContainerErased(e, k) == Commit(e.d, Ret("erase", {k}, e.res))

ContainerErase(k) == ContainerErased(Erase(D, k), k)

(* filter(condition), condition(data) = data's key \in P (Set and Map    *)
(* only: AVLDictContainer::filter is protected, both make it public).    *)
ContainerFilter(P) == Commit(Filter(D, P), Ret("filter", P, NoRet))

(* clear()                                                                 *)
ContainerClear == Commit(Clear(D), Ret("clear", {}, NoRet))

(* reserve_for(n)                                                          *)
ContainerReserveFor(n) ==
    IF ~CanReserve(D, n) THEN Unchanged(Ret("reserve_for", {n}, Exhausted))
    ELSE Commit(ReserveFor(D, n), Ret("reserve_for", {n}, NoRet))

(* pool[x].real_data().first = new_key: alter_key of Map and Multimap    *)
(* writes the key of the node it pulled out.                              *)
Rekey(d, x, k) == [d EXCEPT !.data[x].key = k]

-----------------------------------------------------------------------------
(* Invariants of the engine                                                *)

SX == INSTANCE SequencesExt

Slots == [key : Keys \cup {NoKey}, val : Values \cup {NoVal}, h : 0..255,
          kid : [{L, R} -> 0..MaxCap]]

TypeOK ==
    /\ capacity_ \in 1..MaxCap
    /\ data \in [0..capacity_-1 -> Slots]
    /\ head \in 0..capacity_
    /\ root \in 0..capacity_-1
    /\ size_ \in 0..MaxCap
    /\ assertOk \in BOOLEAN

(* The pool accounts for every slot after every call: the free list is a  *)
(* chain of distinct slots ending at capacity_, every slot but nil is     *)
(* either on it or a node of the tree, and size_ counts the tree's nodes. *)
(* Broken by a node leaked or freed twice on any path of the insertions, *)
(* erase, filter, clear, allocate's growth or reserve_for's re-threading. *)
PoolAccountsForEverySlot ==
    /\ FreeListWellFormed(D)
    /\ SlotsPartitioned(D)
    /\ size_ = Cardinality(Nodes(D))

(* An in-order traversal yields strictly increasing keys: insert, erase, *)
(* pull-out of the predecessor and every rotation preserve search order. *)
SearchTreeOrdered == SX!IsSorted(KeySeq(D), Less)

(* The heights stored in the nodes are those rebalance_and_seth relies  *)
(* on: an inner node's h is 1 + the larger kid's h, a leaf's h is 0       *)
(* (fresh from allocate_node) or 1 (set by seth), the kids' stored        *)
(* heights differ by at most 1, and assert(-1 <= b and b <= 1) never     *)
(* failed.                                                                 *)
StoredHeightsBalanced ==
    /\ assertOk
    /\ \A x \in Nodes(D) :
          LET hl == H(D, Kid(D, x, L))
              hr == H(D, Kid(D, x, R))
          IN  /\ hl - hr \in -1..1
              /\ IF Kid(D, x, L) = Nil /\ Kid(D, x, R) = Nil
                 THEN H(D, x) \in {0, 1}
                 ELSE H(D, x) = 1 + MetaMax(hl, hr)

(* Slot 0 stays the sentinel: both kids nil and height 0 (spec 3: "must  *)
(* hold for the lifetime of every dictionary instance").  A rotation of  *)
(* nil or a seth(nil) would break it.                                     *)
NilSentinel == data[Nil] = Slot(NoKey, NoVal, Nil, Nil, 0)

(* Spec 3, AVL balance: for every node the true heights of its two       *)
(* subtrees differ by at most 1 (nil has height 0, a leaf 1).  The      *)
(* engine balances on the stored h, and allocate_node stores 0 for a new *)
(* leaf, the height of nil.                                              *)
AVLBalanced ==
    \A x \in Nodes(D) : TH(D, Kid(D, x, L)) - TH(D, Kid(D, x, R)) \in -1..1


(* Spec 8: "erase(key) on a key not present returns false and leaves the *)
(* tree, size, and traversal order unchanged".  erase_impl calls          *)
(* rebalance_and_seth on every node of the search path whatever the      *)
(* outcome, so the question is whether the links can change.             *)
EraseOfAbsentKeyLeavesTree ==
    [][ret'.op = "erase" /\ ret'.res = FALSE =>
          /\ root' = root /\ size_' = size_
          /\ \A x \in Nodes(D) : data'[x].kid = data[x].kid]_vars

(* The keys in the tree.                                                   *)
Elems == {Key(D, x) : x \in Nodes(D)}

(* The (key, value) pairs of a sequence of nodes, e.g. for_each's visits. *)
EntriesOf(seq) == [i \in DOMAIN seq |-> <<Key(D, seq[i]), data[seq[i]].val>>]

=============================================================================
