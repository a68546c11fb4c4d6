------------------------------ MODULE AVLDictMap ------------------------------
(***************************************************************************)
(* AVLDictMap<Key, Value, std::less<>, size_type> of avl_dict.hh: the     *)
(* unique-key map built from AVLMapNode, AVLDictContainer and the engine. *)
(* A slot's key and val are the node's real_data() pair.  One action per  *)
(* public member function that changes state; operator[] is split into   *)
(* a plain access and an assignment through the returned reference.      *)
(***************************************************************************)
EXTENDS AVLDictContainer

CONSTANTS
    ValueInit,     \* Value{}: the value operator[] constructs for a new key
    AlterArgs      \* the (old_key, new_key) pairs given to alter_key

ASSUME ValueInit \in Values /\ AlterArgs \subseteq Keys \X Keys

(* x = insert_or_replace(new_node) at the root; emplace returns whether   *)
(* the key was new.                                                       *)
MapInserted(r, k) == Commit([r.d EXCEPT !.root = r.x], Ret("emplace", {k}, r.res))

MapEmplaceNode(a, k) == MapInserted(InsertOrReplace(a.d, a.d.root, a.res), k)

(* emplace(key, val) / insert(kvp) / insert(key, val): allocate_node (it  *)
(* may throw), then insert_or_replace.  allocate() throws on a full pool. *)
(* A value copy that throws does so while RealData is built, before      *)
(* allocate_node, and changes nothing; the node constructor is noexcept.  *)
MapEmplace(k, v) ==
    IF ~CanAllocate(D) THEN Unchanged(Ret("emplace", {k}, Exhausted))
    ELSE MapEmplaceNode(AllocateNode(D, k, v), k)

(* operator[](key): pool[emplace_if_not_exists(key)].value().  Nothing is *)
(* changed when the allocation at the leaf throws.                        *)
MapSubscriptRead(k) ==
    IF EmplaceThrows(D, k) THEN Unchanged(Ret("subscript", {k}, Exhausted))
    ELSE LET e == EmplaceIfNotExists(D, k, ValueInit)
         IN  Commit(e.d, Ret("subscript", {k}, e.d.data[e.res].val))

(* operator[](key) = v: the returned reference is assigned.               *)
MapSubscriptAssign(k, v) ==
    IF EmplaceThrows(D, k) THEN Unchanged(Ret("subscript_assign", {k}, Exhausted))
    ELSE LET e == EmplaceIfNotExists(D, k, ValueInit)
         IN  Commit([e.d EXCEPT !.data[e.res].val = v], Ret("subscript_assign", {k}, NoRet))

(* alter_key's std::pair<bool, bool> result {changed, replaced}.           *)
AlterRet(old, changed, replaced) ==
    [op |-> "alter_key", arg |-> {old}, changed |-> changed, replaced |-> replaced]

(* pool[x].real_data().first = new_key (Rekey), then                     *)
(* insert_or_replace(x) at the root: {true, not was-new}.                 *)
(* Mutant: alter_key() that reports insert_or_replace's was-new as       *)
(* "replaced" without the negation.                                       *)
MapReinsertedNotNegated(r, old) ==
    Commit([r.d EXCEPT !.root = r.x], AlterRet(old, TRUE, r.res))

MapReinserted(r, old) ==
    Commit([r.d EXCEPT !.root = r.x], AlterRet(old, TRUE, ~r.res))

(* Mutant: the key written after reinsertion instead of before.         *)
MapPulledRekeyAfter(p, old, new) ==
    IF p.res = Nil THEN Commit(p.d, AlterRet(old, FALSE, FALSE))
    ELSE LET r == InsertOrReplace(p.d, p.d.root, p.res)
         IN  MapReinserted([r EXCEPT !.d = Rekey(r.d, p.res, new)], old)

(* Mutant: the pulled node rekeyed without the x == nil early return.   *)
MapPulledNoNilCheck(p, old, new) ==
    IF p.res = Nil THEN Commit(Rekey(p.d, p.res, new), AlterRet(old, FALSE, FALSE))
    ELSE MapReinserted(InsertOrReplace(Rekey(p.d, p.res, new), p.d.root, p.res), old)

(* x = pull_out(root, old_key) (p); if x == nil return {false, false}.    *)
(* pull_out rebalances the search path even when the key is absent.       *)
MapPulled(p, old, new) ==
    IF p.res = Nil THEN Commit(p.d, AlterRet(old, FALSE, FALSE))
    ELSE MapReinserted(InsertOrReplace(Rekey(p.d, p.res, new), p.d.root, p.res), old)

(* alter_key(old_key, new_key)                                            *)
MapAlterKey(old, new) == MapPulled(PullOut(D, old), old, new)

Next ==
    \/ \E k \in Keys, v \in Values : MapEmplace(k, v) \/ MapSubscriptAssign(k, v)
    \/ \E k \in Keys : MapSubscriptRead(k) \/ ContainerErase(k)
    \/ \E a \in AlterArgs : MapAlterKey(a[1], a[2])
    \/ \E P \in Conditions : ContainerFilter(P)
    \/ ContainerClear
    \/ \E n \in ReserveArgs : ContainerReserveFor(n)

Spec == Init /\ [][Next]_vars

-----------------------------------------------------------------------------
(* Properties                                                              *)

(* The map the tree stores: each key with the value of its node.          *)
MapOf == [k \in Elems |-> data[Find(D, k)].val]

(* The map is what OrderedMap says: every call returns what the abstract *)
(* map operation returns (emplace's was-new, operator[]'s value,         *)
(* alter_key's (changed, replaced), erase's result, exhaustion only when *)
(* full) and the entries follow the abstract map.                        *)
Abs == INSTANCE OrderedMap WITH map <- MapOf

MapRefinesOrderedMap == Abs!Spec

(* The assertion in rebalance_and_seth, assert(-1 <= b and b <= 1), never *)
(* fails.  Its b is computed from the stored heights of x's kids.         *)
AssertNeverFails == assertOk

=============================================================================
