---------------------------- MODULE AVLDictionary ----------------------------
(***************************************************************************)
(* The AVL engine AVLDictionary<NodeT, Comp, size_type> of avl_dict.hh.   *)
(* Every public operation runs to completion on one thread, so each is    *)
(* modelled as a pure operator from the dictionary state d to the next:   *)
(*   d = [data, cap, head   (the pool, see AVLPoolAllocator),             *)
(*        root, size        (root, size_),                                 *)
(*        ok]               (FALSE once assert(-1 <= b and b <= 1) fails) *)
(* A C++ function that takes "size_type& x" and overwrites it returns     *)
(* here the record [d |-> state, x |-> new value of x, res |-> result];   *)
(* the caller stores x where the reference pointed.                       *)
(* Comp is std::less<> on integer keys; nil is slot 0.                     *)
(***************************************************************************)
EXTENDS AVLPoolAllocator, Integers, FiniteSets

CONSTANT TrivialNode   \* std::is_trivially_destructible_v<Node>

ASSUME TrivialNode \in BOOLEAN

Nil == 0

Kid(d, x, dir) == d.data[x].kid[dir]
H(d, x)        == d.data[x].h
Key(d, x)      == d.data[x].key

Less(a, b) == a < b                      \* compare(a, b), Comp = std::less<>

(* The child a descent from x towards key k takes: compare(key(x), k).   *)
Dir(d, x, k) == IF Less(Key(d, x), k) THEN R ELSE L

(* Neither key is less than the other: "we have a match".                *)
Match(d, x, k) == ~Less(Key(d, x), k) /\ ~Less(k, Key(d, x))

SetKid(d, x, dir, y) == [d EXCEPT !.data[x].kid[dir] = y]

(* C++ integer division truncates towards zero.                           *)
CDiv2(a) == IF a >= 0 THEN a \div 2 ELSE -((-a) \div 2)

-----------------------------------------------------------------------------
(* Node allocation: allocate_node / deallocate_node                       *)

(* Mutant: allocate_node() that forgets ++size_.                          *)
AllocateNodeNoCount(d, key, val) ==
    LET a == Allocate(d)
    IN  [d |-> [a.p EXCEPT !.data[a.res] = Slot(key, val, Nil, Nil, 0)], res |-> a.res]

(* allocate_node(data, nil, nil, 0): pool.allocate(), construct the node *)
(* with height 0, ++size_.                                                 *)
AllocateNode(d, key, val) ==
    LET a == Allocate(d)
    IN  [d   |-> [a.p EXCEPT !.data[a.res] = Slot(key, val, Nil, Nil, 0),
                             !.size = @ + 1],
         res |-> a.res]

(* deallocate_node(x): destruct_and_deallocate(x), --size_.               *)
DeallocateNode(d, x) == [Deallocate(d, x) EXCEPT !.size = @ - 1]

-----------------------------------------------------------------------------
(* Heights and rotations                                                  *)

(* seth(x): h = 1 + max(h(kid[L]), h(kid[R])).                            *)
Seth(d, x) ==
    [d EXCEPT !.data[x].h = 1 + MetaMax(H(d, Kid(d, x, L)), H(d, Kid(d, x, R)))]

(* A recursive step's result [d, x, res] with a new d and x, same res.   *)
WithRes(r, res) == [d |-> r.d, x |-> r.x, res |-> res]

(* Mutant: rotate() hands x the wrong grandchild of res.                 *)
RotateWrongGrandkid(d, x, dir) ==
    LET res == Kid(d, x, 1 - dir)
    IN  [d |-> Seth(SetKid(SetKid(d, x, 1 - dir, Kid(d, res, 1 - dir)), res, dir, x), x),
         x |-> res]

(* rotate(x, dir): res = kid[revdir] comes up, x takes res's kid[dir]    *)
(* as its kid[revdir] and becomes res's kid[dir]; seth(x).               *)
Rotate(d, x, dir) ==
    LET res == Kid(d, x, 1 - dir)
    IN  [d |-> Seth(SetKid(SetKid(d, x, 1 - dir, Kid(d, res, dir)), res, dir, x), x),
         x |-> res]

(* rotate_and_seth(x, dir): rotate, then seth(res).                       *)
SethRoot(r) == [d |-> Seth(r.d, r.x), x |-> r.x]

RotateAndSeth(d, x, dir) == SethRoot(Rotate(d, x, dir))

(* b = (h(kid[L]) - h(kid[R])) / 2, truncated as C++ int division.       *)
Balance(d, x) == CDiv2(H(d, Kid(d, x, L)) - H(d, Kid(d, x, R)))

(* assert(-1 <= b and b <= 1): a failure is recorded in ok; the model    *)
(* then goes on with sign(b), the only values the code's branches use.   *)
AssertBalance(d, b) == IF b \in -1..1 THEN d ELSE [d EXCEPT !.ok = FALSE]

Sign(b) == IF b > 0 THEN 1 ELSE IF b < 0 THEN -1 ELSE 0

(* The double rotation of rebalance_and_seth, B = kid[revdir] of x and  *)
(* C = kid[dir] of B:                                                     *)
(*   x.kid[revdir] = C.kid[dir]; seth(x);                                 *)
(*   B.kid[dir] = C.kid[revdir]; seth(B);                                 *)
(*   C.kid[dir] = x; C.kid[revdir] = B; seth(C); return C.               *)
LiftC(d, x, dir, auxB, auxC) ==
    SethRoot([d |-> SetKid(SetKid(d, auxC, dir, x), auxC, 1 - dir, auxB), x |-> auxC])

DoubleRotation(d, x, dir, auxB, auxC) ==
    LiftC(Seth(SetKid(Seth(SetKid(d, x, 1 - dir, Kid(d, auxC, dir)), x),
                      auxB, dir, Kid(d, auxC, 1 - dir)), auxB),
          x, dir, auxB, auxC)

(* The b # 0 branch: dir = (b + 1) >> 1; a double rotation when the      *)
(* heavy kid B leans the other way (h(B.R) - h(B.L) = b), a single one   *)
(* otherwise.                                                              *)
RotateHeavy(d, x, b, dir, auxB) ==
    IF H(d, Kid(d, auxB, R)) - H(d, Kid(d, auxB, L)) = b
    THEN DoubleRotation(d, x, dir, auxB, Kid(d, auxB, dir))
    ELSE RotateAndSeth(d, x, dir)

RebalanceSigned(d, x, b) ==
    IF b = 0 THEN [d |-> Seth(d, x), x |-> x]
    ELSE RotateHeavy(d, x, b, (b + 1) \div 2, Kid(d, x, 1 - (b + 1) \div 2))

(* Mutant: rebalance_and_seth() without the double-rotation case.        *)
RebalanceAndSethSingleOnly(d, x) ==
    IF Sign(Balance(d, x)) = 0
    THEN [d |-> Seth(AssertBalance(d, Balance(d, x)), x), x |-> x]
    ELSE RotateAndSeth(AssertBalance(d, Balance(d, x)), x, (Sign(Balance(d, x)) + 1) \div 2)

(* rebalance_and_seth(x)                                                   *)
RebalanceAndSeth(d, x) ==
    RebalanceSigned(AssertBalance(d, Balance(d, x)), x, Sign(Balance(d, x)))

(* Store the result of a recursive call into kid[dir] of x, then         *)
(* x = rebalance_and_seth(x): the tail every recursive descent shares.   *)
Ascend(r, x, dir) == WithRes(RebalanceAndSeth(SetKid(r.d, x, dir, r.x), x), r.res)

-----------------------------------------------------------------------------
(* Insertion                                                              *)

(* insert(x, inserted): descend by compare(key(x), key(inserted)); equal *)
(* keys go left; link at the nil leaf; rebalance on the way back.         *)
RECURSIVE Insert(_, _, _)
Insert(d, x, ins) ==
    IF x = Nil THEN [d |-> d, x |-> ins, res |-> ins]
    ELSE LET dir == Dir(d, x, Key(d, ins))
         IN  Ascend(Insert(d, Kid(d, x, dir), ins), x, dir)

(* insert_if_not_exists(x, inserted): res is inserted, or the node with  *)
(* an equal key (then nothing is linked).                                 *)
RECURSIVE InsertIfNotExists(_, _, _)
InsertIfNotExists(d, x, ins) ==
    IF x = Nil THEN [d |-> d, x |-> ins, res |-> ins]
    ELSE IF Match(d, x, Key(d, ins)) THEN [d |-> d, x |-> x, res |-> x]
    ELSE LET dir == Dir(d, x, Key(d, ins))
         IN  Ascend(InsertIfNotExists(d, Kid(d, x, dir), ins), x, dir)

(* Mutant: the duplicate's place taken without its kids.                  *)
TakeOverNoKids(d, x, ins) == [d EXCEPT !.data[ins].h = d.data[x].h]

(* pool[inserted].kid = pool[x].kid; pool[inserted].h = pool[x].h.       *)
TakeOver(d, x, ins) == [d EXCEPT !.data[ins].kid = d.data[x].kid,
                                 !.data[ins].h   = d.data[x].h]

(* Mutant: the replaced node is never deallocated.                         *)
ReplaceNoDeallocate(d, x, ins) == TakeOver(d, x, ins)

(* inserted replaces x: TakeOver, then deallocate_node(x).               *)
Replace(d, x, ins) == DeallocateNode(TakeOver(d, x, ins), x)

(* insert_or_replace(x, inserted): on an equal key, inserted takes x's   *)
(* place (Replace); res = TRUE iff there was no equal key.                *)
RECURSIVE InsertOrReplace(_, _, _)
InsertOrReplace(d, x, ins) ==
    IF x = Nil THEN [d |-> d, x |-> ins, res |-> TRUE]
    ELSE IF Match(d, x, Key(d, ins))
         THEN [d |-> Replace(d, x, ins), x |-> ins, res |-> FALSE]
    ELSE LET dir == Dir(d, x, Key(d, ins))
         IN  Ascend(InsertOrReplace(d, Kid(d, x, dir), ins), x, dir)

-----------------------------------------------------------------------------
(* Removal                                                                *)

(* pull_out_rightmost(x): res is the rightmost node of the subtree, x    *)
(* its replacement.                                                       *)
RECURSIVE PullOutRightmost(_, _)
PullOutRightmost(d, x) ==
    IF Kid(d, x, R) = Nil THEN [d |-> d, x |-> Kid(d, x, L), res |-> x]
    ELSE Ascend(PullOutRightmost(d, Kid(d, x, R)), x, R)

(* The to_ret_val functor of erase() ("erase") and pull_out() ("pull"):  *)
(* called with no node when the key is absent, with the matched node x   *)
(* otherwise.                                                              *)
NotFound(mode) == IF mode = "erase" THEN FALSE ELSE Nil

ToRetVal(d, x, mode) ==
    IF mode = "erase"
    THEN [d |-> DeallocateNode(d, x), res |-> TRUE]
    ELSE [d |-> [d EXCEPT !.data[x].kid = [dir \in {L, R} |-> Nil]], res |-> x]

(* Mutant: erase_impl() without the new_x != nil test, so a matched leaf  *)
(* is replaced by rebalance_and_seth(nil).                                 *)
ReplaceByRightNoNilTest(t, newX) == WithRes(RebalanceAndSeth(t.d, newX), t.res)

(* The matched node has no left kid: new_x = its right kid, read before  *)
(* to_ret_val(x) (t); x = rebalance_and_seth(new_x) unless new_x is nil. *)
ReplaceByRight(t, newX) ==
    IF newX # Nil THEN WithRes(RebalanceAndSeth(t.d, newX), t.res)
    ELSE [d |-> t.d, x |-> newX, res |-> t.res]

(* pulled = pull_out_rightmost(x_left) (p) replaces x: its kids become  *)
(* x_left and x's kid[R]; then to_ret_val(x) (t), and                     *)
(* x = rebalance_and_seth(pulled).                                        *)
Splice(p, x) == SetKid(SetKid(p.d, p.res, L, p.x), p.res, R, Kid(p.d, x, R))

ReplaceByPulled(t, pulled) == WithRes(RebalanceAndSeth(t.d, pulled), t.res)

ReplaceByPulledOf(p, x, mode) == ReplaceByPulled(ToRetVal(Splice(p, x), x, mode), p.res)

EraseMatched(d, x, mode) ==
    IF Kid(d, x, L) = Nil
    THEN ReplaceByRight(ToRetVal(d, x, mode), Kid(d, x, R))
    ELSE ReplaceByPulledOf(PullOutRightmost(d, Kid(d, x, L)), x, mode)

(* erase_impl(x, key, to_ret_val): descend to the matched node; the      *)
(* ancestors are rebalanced on the way back.                              *)
RECURSIVE EraseImpl(_, _, _, _)
EraseImpl(d, x, k, mode) ==
    IF x = Nil THEN [d |-> d, x |-> x, res |-> NotFound(mode)]
    ELSE IF Match(d, x, k) THEN EraseMatched(d, x, mode)
    ELSE LET dir == Dir(d, x, k)
         IN  Ascend(EraseImpl(d, Kid(d, x, dir), k, mode), x, dir)

(* erase(key) / pull_out(root, key) on the whole tree.                    *)
AtRoot(r) == [d |-> [r.d EXCEPT !.root = r.x], res |-> r.res]

Erase(d, k)   == AtRoot(EraseImpl(d, d.root, k, "erase"))
PullOut(d, k) == AtRoot(EraseImpl(d, d.root, k, "pull"))

(* delete_subtree(x): returns at once for a trivially destructible Node, *)
(* otherwise deallocates the subtree in post-order.  x's kid[R] is read  *)
(* after the left subtree is gone; x's own slot is untouched by then.    *)
RECURSIVE DeleteSubtree(_, _)
DeleteSubtree(d, x) ==
    IF TrivialNode \/ x = Nil THEN d
    ELSE DeallocateNode(DeleteSubtree(DeleteSubtree(d, Kid(d, x, L)), Kid(d, x, R)), x)

(* clear(): delete_subtree(root); root = nil.                              *)
Clear(d) == [DeleteSubtree(d, d.root) EXCEPT !.root = Nil]

-----------------------------------------------------------------------------
(* emplace_if_not_exists(key): descend as find(); at the nil leaf         *)
(* allocate the node (key, val) there.  x is passed by value because      *)
(* allocation may move the pool; the caller stores the returned x after  *)
(* the recursive call.  Callers check EmplaceThrows first: allocate()    *)
(* throwing at the leaf leaves every slot untouched.                      *)
RECURSIVE EmplaceIfNotExistsImpl(_, _, _, _)
EmplaceIfNotExistsImpl(d, x, k, val) ==
    IF x = Nil
    THEN LET a == AllocateNode(d, k, val) IN [d |-> a.d, x |-> a.res, res |-> a.res]
    ELSE IF Match(d, x, k) THEN [d |-> d, x |-> x, res |-> x]
    ELSE LET dir == Dir(d, x, k)
         IN  Ascend(EmplaceIfNotExistsImpl(d, Kid(d, x, dir), k, val), x, dir)

EmplaceIfNotExists(d, k, val) == AtRoot(EmplaceIfNotExistsImpl(d, d.root, k, val))

-----------------------------------------------------------------------------
(* Queries and traversals (no state change)                               *)

(* find(key): the matched node, or nil.                                    *)
RECURSIVE FindFrom(_, _, _)
FindFrom(d, x, k) ==
    IF x = Nil \/ Match(d, x, k) THEN x ELSE FindFrom(d, Kid(d, x, Dir(d, x, k)), k)

Find(d, k) == FindFrom(d, d.root, k)

EmplaceThrows(d, k) == Find(d, k) = Nil /\ ~CanAllocate(d)

(* Mutant: lower_bound() that also walks right past an equal key.        *)
RECURSIVE LowerBoundFromNonStrict(_, _, _, _)
LowerBoundFromNonStrict(d, x, k, res) ==
    IF x = Nil THEN res
    ELSE IF ~Less(k, Key(d, x)) THEN LowerBoundFromNonStrict(d, Kid(d, x, R), k, res)
    ELSE LowerBoundFromNonStrict(d, Kid(d, x, L), k, x)

(* lower_bound(key) / upper_bound(key): the last node where the descent  *)
(* turned left, or nil.                                                   *)
RECURSIVE LowerBoundFrom(_, _, _, _)
LowerBoundFrom(d, x, k, res) ==
    IF x = Nil THEN res
    ELSE IF Less(Key(d, x), k) THEN LowerBoundFrom(d, Kid(d, x, R), k, res)
    ELSE LowerBoundFrom(d, Kid(d, x, L), k, x)

RECURSIVE UpperBoundFrom(_, _, _, _)
UpperBoundFrom(d, x, k, res) ==
    IF x = Nil THEN res
    ELSE IF Less(k, Key(d, x)) THEN UpperBoundFrom(d, Kid(d, x, L), k, x)
    ELSE UpperBoundFrom(d, Kid(d, x, R), k, res)

LowerBound(d, k) == LowerBoundFrom(d, d.root, k, Nil)
UpperBound(d, k) == UpperBoundFrom(d, d.root, k, Nil)

(* dirmost(root, L) = front(), dirmost(root, R) = back(); nil when empty. *)
RECURSIVE Dirmost(_, _, _)
Dirmost(d, x, dir) ==
    IF x = Nil \/ Kid(d, x, dir) = Nil THEN x ELSE Dirmost(d, Kid(d, x, dir), dir)

(* The nodes for_each(x, func) visits, in order, when func never stops.  *)
(* fuel bounds the walk on a corrupted tree.                              *)
RECURSIVE InOrderFrom(_, _, _)
InOrderFrom(d, x, fuel) ==
    IF x = Nil \/ fuel = 0 THEN <<>>
    ELSE InOrderFrom(d, Kid(d, x, L), fuel - 1) \o <<x>>
           \o InOrderFrom(d, Kid(d, x, R), fuel - 1)

InOrder(d, x) == InOrderFrom(d, x, d.cap)

(* foreach_since_upper_bound(x, key, callback): the nodes visited.        *)
RECURSIVE SinceUpperBound(_, _, _)
SinceUpperBound(d, x, k) ==
    IF x = Nil THEN <<>>
    ELSE IF Less(k, Key(d, x))
         THEN SinceUpperBound(d, Kid(d, x, L), k) \o <<x>> \o InOrder(d, Kid(d, x, R))
         ELSE SinceUpperBound(d, Kid(d, x, R), k)

(* foreach_since_lower_bound(x, key, callback): the nodes visited.        *)
RECURSIVE SinceLowerBound(_, _, _)
SinceLowerBound(d, x, k) ==
    IF x = Nil THEN <<>>
    ELSE IF Less(Key(d, x), k)
         THEN SinceLowerBound(d, Kid(d, x, R), k)
         ELSE SinceLowerBound(d, Kid(d, x, L), k) \o <<x>> \o InOrder(d, Kid(d, x, R))

(* The node processor stops at: the first visited node whose key        *)
(* satisfies the condition (here: lies in P), or nil when none does.      *)
FirstMatch(d, P, visited) ==
    LET hits == SelectSeq(visited, LAMBDA x : Key(d, x) \in P)
    IN  IF hits = <<>> THEN Nil ELSE Head(hits)

(* Mutant: filter() that erases the first match and does not resume.     *)
FilterLoopNoResume(d, P, x) == IF x = Nil THEN d ELSE Erase(d, Key(d, x)).d

(* filter(condition): while processor has remembered a key:             *)
(*   erase(key); foreach_since_upper_bound(key, processor).               *)
(* x is the node processor stopped at (nil: key_opt is empty).           *)
RECURSIVE FilterLoop(_, _, _)

FilterResume(e, P, key) == FilterLoop(e, P, FirstMatch(e, P, SinceUpperBound(e, e.root, key)))

FilterLoop(d, P, x) ==
    IF x = Nil THEN d ELSE FilterResume(Erase(d, Key(d, x)).d, P, Key(d, x))

(* for_each(processor) first, over the whole tree.                       *)
Filter(d, P) == FilterLoop(d, P, FirstMatch(d, P, InOrder(d, d.root)))

-----------------------------------------------------------------------------
(* State predicates shared by the containers' invariants                  *)

Nodes(d) == {InOrder(d, d.root)[i] : i \in 1..Len(InOrder(d, d.root))}

KeySeq(d) == [i \in 1..Len(InOrder(d, d.root)) |-> Key(d, InOrder(d, d.root)[i])]

(* The free list is a chain of distinct slots that ends at capacity.      *)
FreeListWellFormed(d) ==
    LET fl == FreeList(d)
    IN  /\ Len(fl) = Cardinality(FreeSet(d))
        /\ IF fl = <<>> THEN d.head = d.cap ELSE Ptr(d, fl[Len(fl)]) = d.cap

(* Every slot is exactly one of: nil, a node of the tree, a free slot.    *)
SlotsPartitioned(d) ==
    /\ Nil \notin Nodes(d) \cup FreeSet(d)
    /\ Nodes(d) \cap FreeSet(d) = {}
    /\ Nodes(d) \cup FreeSet(d) \cup {Nil} = 0..d.cap-1

(* The height a node really has (a leaf has 1, nil 0).                    *)
RECURSIVE TrueHeight(_, _, _)
TrueHeight(d, x, fuel) ==
    IF x = Nil \/ fuel = 0 THEN 0
    ELSE 1 + MetaMax(TrueHeight(d, Kid(d, x, L), fuel - 1),
                     TrueHeight(d, Kid(d, x, R), fuel - 1))

TH(d, x) == TrueHeight(d, x, d.cap)

=============================================================================
