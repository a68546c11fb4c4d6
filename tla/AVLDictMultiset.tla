--------------------------- MODULE AVLDictMultiset ---------------------------
(***************************************************************************)
(* AVLDictMultiset<Value, std::less<>, size_type> of avl_dict.hh:         *)
(* AVLSetNode keys where equal keys may coexist.  As for the multimap,    *)
(* filter is not public.                                                  *)
(***************************************************************************)
EXTENDS AVLDictContainer

(* Mutant: the Set's insert_if_not_exists used for the multiset (the      *)
(* duplicate's node is dropped from the tree).                            *)
MultisetInsertedIfNotExists(a, k) ==
    LET r == InsertIfNotExists(a.d, a.d.root, a.res)
    IN  Commit([r.d EXCEPT !.root = r.x], Ret("emplace", {k}, NoRet))

(* insert(allocate_node(Value{k}, nil, nil, 0)) at the root.             *)
MultisetInserted(a, k) ==
    LET r == Insert(a.d, a.d.root, a.res)
    IN  Commit([r.d EXCEPT !.root = r.x], Ret("emplace", {k}, NoRet))

(* emplace(v) / insert(v): allocate_node (it may throw), then insert.    *)
MultisetEmplace(k) ==
    IF ~CanAllocate(D) THEN Unchanged(Ret("emplace", {k}, Exhausted))
    ELSE MultisetInserted(AllocateNode(D, k, NoVal), k)

Next ==
    \/ \E k \in Keys : MultisetEmplace(k) \/ ContainerErase(k)
    \/ ContainerClear
    \/ \E n \in ReserveArgs : ContainerReserveFor(n)

Spec == Init /\ [][Next]_vars

-----------------------------------------------------------------------------
(* Properties                                                              *)

(* The multiset is what OrderedMultimap says with no values: the bag of  *)
(* keys in the tree follows the abstract bag; each emplace adds one.     *)
Abs == INSTANCE OrderedMultimap WITH entries <- SX!ToBag(EntriesOf(InOrder(D, root))),
                                     Values <- {NoVal}

MultisetRefinesOrderedMultimap == Abs!Spec

(* The nodes a step adds, and whether x is the last node with its key   *)
(* in the in-order traversal of d.                                         *)
NewNodes == Nodes(D') \ Nodes(D)

LastOfItsKey(d, x) ==
    LET s == InOrder(d, d.root)
    IN  \A i, j \in DOMAIN s : s[i] = x /\ j > i => Key(d, s[j]) # Key(d, x)

(* Spec 3, BST order: "duplicates adjacent, ordered by insertion for     *)
(* multi-containers".  So the node an emplace adds comes after every     *)
(* node with an equal key in the in-order traversal.  insert() sends a   *)
(* key equal to x's into kid[L] (dir = compare(key(x), key(inserted))).  *)
DuplicatesInInsertionOrder ==
    [][ret'.op = "emplace" => \A x \in NewNodes : LastOfItsKey(D', x)]_vars

=============================================================================
