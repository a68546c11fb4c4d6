----------------------------- MODULE OrderedSet -----------------------------
(***************************************************************************)
(* What AVLDictSet promises, with no tree and no pool: a set of keys and  *)
(* the value the last operation returned.  Pointers returned by find,     *)
(* lower_bound, upper_bound, front and back are represented by the key   *)
(* they point to, nullptr by None.  AllocatorExhausted may only be       *)
(* reported when the set already fills every slot a size_type can index *)
(* besides nil (MaxCap - 1 elements), and then the set is unchanged.     *)
(***************************************************************************)
EXTENDS Integers, FiniteSets

CONSTANTS Keys, MaxCap, None, NoRet, Exhausted

VARIABLES elems, ret

(* The last call: which member function, its arguments (as a set: the  *)
(* key, the keys the condition holds for, or reserve_for's n) and what   *)
(* it returned.                                                            *)
Ret(op, arg, res) == [op |-> op, arg |-> arg, res |-> res]

SX == INSTANCE SequencesExt

(* What the const member functions return: find, lower_bound,           *)
(* upper_bound, front and back a pointer (here: the key, or None), the  *)
(* traversals the keys they visit, in increasing order.                  *)
Least(S)    == IF S = {} THEN None ELSE CHOOSE x \in S : \A y \in S : x <= y
Greatest(S) == IF S = {} THEN None ELSE CHOOSE x \in S : \A y \in S : x >= y
Sorted(S)   == SX!SetToSortSeq(S, <)

FindResult(k)       == IF k \in elems THEN k ELSE None
LowerBoundResult(k) == Least({e \in elems : e >= k})
UpperBoundResult(k) == Least({e \in elems : e > k})
SinceLowerResult(k) == Sorted({e \in elems : e >= k})
SinceUpperResult(k) == Sorted({e \in elems : e > k})

Full == Cardinality(elems) = MaxCap - 1

Init == elems = {} /\ ret = Ret("constructor", {}, NoRet)

Insert(k) ==
    \/ /\ ret' = Ret("emplace", {k}, k \notin elems)
       /\ elems' = elems \cup {k}
    \/ /\ Full
       /\ ret' = Ret("emplace", {k}, Exhausted)
       /\ UNCHANGED elems

Erase(k) == ret' = Ret("erase", {k}, k \in elems) /\ elems' = elems \ {k}

Filter(P) == elems' = elems \ P /\ ret' = Ret("filter", P, NoRet)

Clear == elems' = {} /\ ret' = Ret("clear", {}, NoRet)

ReserveFor(n) ==
    /\ ret' \in {Ret("reserve_for", {n}, r) :
                   r \in IF n = MaxCap THEN {NoRet, Exhausted} ELSE {NoRet}}
    /\ UNCHANGED elems

Next ==
    \/ \E k \in Keys : Insert(k) \/ Erase(k)
    \/ \E P \in SUBSET Keys : Filter(P)
    \/ Clear
    \/ \E n \in 0..MaxCap : ReserveFor(n)

Spec == Init /\ [][Next]_<<elems, ret>>

=============================================================================
