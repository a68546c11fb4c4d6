--------------------------- MODULE AVLDictMultimap ---------------------------
(***************************************************************************)
(* AVLDictMultimap<Key, Value, std::less<>, size_type> of avl_dict.hh:    *)
(* AVLMapNode entries where equal keys may coexist.  filter is not        *)
(* public here (AVLDictContainer::filter is protected and the multimap    *)
(* does not re-export it), so it is no action of this module.            *)
(***************************************************************************)
EXTENDS AVLDictContainer

CONSTANT AlterArgs     \* the (old_key, new_key) pairs given to alter_key

ASSUME AlterArgs \subseteq Keys \X Keys

(* insert(new_node) at the root; emplace returns &pool[new_node].data().  *)
MultimapInserted(r, k) == Commit([r.d EXCEPT !.root = r.x], Ret("emplace", {k}, NoRet))

MultimapEmplaceNode(a, k) == MultimapInserted(Insert(a.d, a.d.root, a.res), k)

(* emplace(key, val) / insert(kvp) / insert(key, val): allocate_node (it  *)
(* may throw), then the unconditional insert.                             *)
MultimapEmplace(k, v) ==
    IF ~CanAllocate(D) THEN Unchanged(Ret("emplace", {k}, Exhausted))
    ELSE MultimapEmplaceNode(AllocateNode(D, k, v), k)

MultimapReinserted(r, old) == Commit([r.d EXCEPT !.root = r.x], Ret("alter_key", {old}, TRUE))

(* Mutant: Map's alter_key, insert_or_replace, used for the multimap.     *)
MultimapPulledReplacing(p, old, new) ==
    IF p.res = Nil THEN Commit(p.d, Ret("alter_key", {old}, FALSE))
    ELSE MultimapReinserted(InsertOrReplace(Rekey(p.d, p.res, new), p.d.root, p.res), old)

(* Mutant: the key written after reinsertion instead of before.         *)
MultimapPulledRekeyAfter(p, old, new) ==
    IF p.res = Nil THEN Commit(p.d, Ret("alter_key", {old}, FALSE))
    ELSE LET r == Insert(p.d, p.d.root, p.res)
         IN  MultimapReinserted([r EXCEPT !.d = Rekey(r.d, p.res, new)], old)

(* x = pull_out(root, old_key) (p); if x == nil return false; otherwise  *)
(* pool[x].real_data().first = new_key; insert(x); return true.           *)
MultimapPulled(p, old, new) ==
    IF p.res = Nil THEN Commit(p.d, Ret("alter_key", {old}, FALSE))
    ELSE MultimapReinserted(Insert(Rekey(p.d, p.res, new), p.d.root, p.res), old)

(* alter_key(old_key, new_key)                                            *)
MultimapAlterKey(old, new) == MultimapPulled(PullOut(D, old), old, new)

Next ==
    \/ \E k \in Keys, v \in Values : MultimapEmplace(k, v)
    \/ \E k \in Keys : ContainerErase(k)
    \/ \E a \in AlterArgs : MultimapAlterKey(a[1], a[2])
    \/ ContainerClear
    \/ \E n \in ReserveArgs : ContainerReserveFor(n)

Spec == Init /\ [][Next]_vars

-----------------------------------------------------------------------------
(* Properties                                                              *)

(* The multimap is what OrderedMultimap says: the bag of entries the      *)
(* tree holds follows the abstract bag, and every call returns what the *)
(* abstract operation returns.  A duplicate that alter_key or emplace    *)
(* brings in must survive: only Map's insert_or_replace discards.        *)
Abs == INSTANCE OrderedMultimap WITH entries <- SX!ToBag(EntriesOf(InOrder(D, root)))

MultimapRefinesOrderedMultimap == Abs!Spec

(* An in-order traversal yields non-decreasing keys: the unconditional  *)
(* insert, the reinsertion of alter_key, erase among equal keys and the *)
(* rotations keep every key between its neighbours.                      *)
KeysInOrder == SX!IsSorted(KeySeq(D), LAMBDA a, b : ~Less(b, a))

=============================================================================
