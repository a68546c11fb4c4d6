--------------------------- MODULE OrderedMultimap ---------------------------
(***************************************************************************)
(* What AVLDictMultimap and AVLDictMultiset promise, with no tree and no  *)
(* pool: a bag of (key, value) entries (a multiset's value is NoVal) and  *)
(* the value the last call returned.  erase and alter_key act on one of   *)
(* the entries with the key; which one is the tree's business.           *)
(* AllocatorExhausted only when every slot but nil is taken.             *)
(***************************************************************************)
EXTENDS Integers, Bags, BagsExt

CONSTANTS Keys, Values, MaxCap, NoRet, Exhausted

VARIABLES entries, ret

Ret(op, arg, res) == [op |-> op, arg |-> arg, res |-> res]

Full == BagCardinality(entries) = MaxCap - 1

(* The entries with key k.                                                 *)
WithKey(k) == {e \in DOMAIN entries : e[1] = k}

Init == entries = EmptyBag /\ ret = Ret("constructor", {}, NoRet)

(* emplace(k, v) / insert: always adds an entry, unless the pool is full. *)
Insert(k, v) ==
    \/ ret' = Ret("emplace", {k}, NoRet) /\ entries' = BagAdd(entries, <<k, v>>)
    \/ Full /\ ret' = Ret("emplace", {k}, Exhausted) /\ UNCHANGED entries

(* erase(k): removes one entry with key k.                                 *)
Erase(k) ==
    IF WithKey(k) = {}
    THEN ret' = Ret("erase", {k}, FALSE) /\ UNCHANGED entries
    ELSE \E e \in WithKey(k) :
            ret' = Ret("erase", {k}, TRUE) /\ entries' = BagRemove(entries, e)

(* alter_key(old, new) (spec 4, 6): one entry with key old gets key new, *)
(* its value kept; entries already at new stay.                          *)
AlterKey(old, new) ==
    IF WithKey(old) = {}
    THEN ret' = Ret("alter_key", {old}, FALSE) /\ UNCHANGED entries
    ELSE \E e \in WithKey(old) :
            /\ ret' = Ret("alter_key", {old}, TRUE)
            /\ entries' = BagAdd(BagRemove(entries, e), <<new, e[2]>>)

Clear == ret' = Ret("clear", {}, NoRet) /\ entries' = EmptyBag

ReserveFor(n) ==
    /\ ret' \in {Ret("reserve_for", {n}, r) :
                   r \in IF n = MaxCap THEN {NoRet, Exhausted} ELSE {NoRet}}
    /\ UNCHANGED entries

Next ==
    \/ \E k \in Keys, v \in Values : Insert(k, v)
    \/ \E k \in Keys : Erase(k)
    \/ \E old, new \in Keys : AlterKey(old, new)
    \/ Clear
    \/ \E n \in 0..MaxCap : ReserveFor(n)

Spec == Init /\ [][Next]_<<entries, ret>>

=============================================================================
