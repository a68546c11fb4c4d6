----------------------------- MODULE OrderedMap -----------------------------
(***************************************************************************)
(* What AVLDictMap promises, with no tree and no pool: a finite function  *)
(* from keys to values and the value the last call returned.  As for the *)
(* set, AllocatorExhausted may only be reported when the map already     *)
(* holds MaxCap - 1 entries (every slot but nil), and then the map is    *)
(* unchanged; every other outcome is an ordinary return value (spec 5).  *)
(***************************************************************************)
EXTENDS Integers, FiniteSets

CONSTANTS Keys, Values, ValueInit, MaxCap, None, NoRet, Exhausted

VARIABLES map, ret

Ret(op, arg, res) == [op |-> op, arg |-> arg, res |-> res]

(* alter_key's std::pair<bool, bool> result: its own record shape, so    *)
(* that it is never compared with the bool or pointer of another call.    *)
AlterRet(old, changed, replaced) ==
    [op |-> "alter_key", arg |-> {old}, changed |-> changed, replaced |-> replaced]

SX == INSTANCE SequencesExt

(* The entries in increasing key order, as for_each visits them.          *)
SortedEntries ==
    [i \in 1..Cardinality(DOMAIN map) |->
        LET k == SX!SetToSortSeq(DOMAIN map, <)[i] IN <<k, map[k]>>]

FindResult(k) == IF k \in DOMAIN map THEN map[k] ELSE None

Full == Cardinality(DOMAIN map) = MaxCap - 1

(* map with the entry k |-> v added or overwritten.                       *)
Put(k, v) == [x \in DOMAIN map \cup {k} |-> IF x = k THEN v ELSE map[x]]

Without(S) == [x \in DOMAIN map \ S |-> map[x]]

(* A call that needs a new node and finds the pool full.                  *)
Exhaust(op, k) == Full /\ ret' = Ret(op, {k}, Exhausted) /\ UNCHANGED map

Init == map = << >> /\ ret = Ret("constructor", {}, NoRet)

(* emplace(k, v): was-new, or false when an existing value was replaced. *)
Emplace(k, v) ==
    \/ ret' = Ret("emplace", {k}, k \notin DOMAIN map) /\ map' = Put(k, v)
    \/ Exhaust("emplace", k)

(* operator[](k) read: the stored value, a value-initialised one when k  *)
(* was absent.                                                            *)
SubscriptRead(k) ==
    \/ /\ k \in DOMAIN map
       /\ ret' = Ret("subscript", {k}, map[k]) /\ UNCHANGED map
    \/ /\ k \notin DOMAIN map
       /\ \/ ret' = Ret("subscript", {k}, ValueInit) /\ map' = Put(k, ValueInit)
          \/ Exhaust("subscript", k)

(* operator[](k) = v.                                                     *)
SubscriptAssign(k, v) ==
    \/ ret' = Ret("subscript_assign", {k}, NoRet) /\ map' = Put(k, v)
    \/ k \notin DOMAIN map /\ Exhaust("subscript_assign", k)

Erase(k) == ret' = Ret("erase", {k}, k \in DOMAIN map) /\ map' = Without({k})

Filter(P) == ret' = Ret("filter", P, NoRet) /\ map' = Without(P)

Clear == ret' = Ret("clear", {}, NoRet) /\ map' = << >>

ReserveFor(n) ==
    /\ ret' \in {Ret("reserve_for", {n}, r) :
                   r \in IF n = MaxCap THEN {NoRet, Exhausted} ELSE {NoRet}}
    /\ UNCHANGED map

(* alter_key(old, new) (spec 4, 6): no-op with (false, false) when old   *)
(* is absent; otherwise the value stored at old moves to new, and an     *)
(* entry already at new (other than old itself) is discarded.           *)
AlterKey(old, new) ==
    IF old \notin DOMAIN map
    THEN ret' = AlterRet(old, FALSE, FALSE) /\ UNCHANGED map
    ELSE /\ ret' = AlterRet(old, TRUE, new \in DOMAIN map \ {old})
         /\ map' = [x \in (DOMAIN map \ {old}) \cup {new} |->
                       IF x = new THEN map[old] ELSE map[x]]

Next ==
    \/ \E k \in Keys, v \in Values : Emplace(k, v) \/ SubscriptAssign(k, v)
    \/ \E k \in Keys : SubscriptRead(k) \/ Erase(k)
    \/ \E old, new \in Keys : AlterKey(old, new)
    \/ \E P \in SUBSET Keys : Filter(P)
    \/ Clear
    \/ \E n \in 0..MaxCap : ReserveFor(n)

Spec == Init /\ [][Next]_<<map, ret>>

=============================================================================
