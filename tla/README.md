# TLA+ model of simlib's AVL dictionary, string predicates and compiler driver

This directory is the model-checking project for the ordered containers in
`src/unnamed/part_000` (`avl_dict.hh`). Those containers are an AVL tree whose
nodes live in a growable pool and are addressed by integer handles. The modules
are translated from the C++ source. The TLC configurations instantiate them
with small key sets and narrow `size_type`s, so that the pool reaches
`max_capacity()`. The string predicates of `src/unnamed/part_001` are
modelled as operators and checked against reference definitions. The
compiler driver of `src/src/sim/compile.cc` (`sim::compile`, `Spawner::run`,
`receive_error_message`) is modelled as a parent process that interleaves with
the child it forks, a real-time Timer and the clock.

## The system

| Part | Source | What it does |
|---|---|---|
| `AVLPoolAllocator` | part_000:24-322 | A slot array. A free slot is a union whose `ptr` (next free) aliases the node's `kid[L]`. It provides `allocate` (grows 1→2→4…, then jumps to `max_capacity()`), `deallocate`, `reserve_for`, and a copy constructor that re-threads the free list. |
| `AVLNodeBase`, `AVLSetNode`, `AVLMapNode` | 11-22, 1388-1417, 1475-1542 | A node is two kid handles, a `uint8_t` height, and a key or a key/value payload. |
| `AVLDictionary` | 324-1237 | The engine: insert (three variants), `emplace_if_not_exists`, `erase`/`pull_out` via `erase_impl`, `rebalance_and_seth`, bound queries, traversals, `filter`, `clear`. Slot 0 is the `nil` sentinel. |
| `AVLDictContainer` | 1239-1386 | Forwards the engine's node operations with `node.data()`. |
| `AVLDictSet`, `AVLDictMultiset`, `AVLDictMap`, `AVLDictMultimap` | 1418-1688 | Insert semantics differ by container: reject duplicates, allow them, or replace. Map and Multimap also have `alter_key`. |
| `MemberComparator`, `concat` | 1690-1731 | Compile-time comparator adapter; string concatenation. |
| string predicates | part_001 | `has_prefix`, `is_digit`, `is_integer`, `is_real`, … |
| `sim::compile`, `Spawner::run`, `receive_error_message` | src/src/sim/compile.cc | Forks the compiler, waits for it to stop itself, arms a real-time Timer, sends SIGCONT, waits for the exit, reaps, stops the Timer, and turns the exit status into 0 / 2 and `*c_errors`. |
| `spawn`, `getCWD`, `getExec`, `findProcessesByExec`, `chdirToExecDir` | part_002 | Older fork/exec helper and `/proc` lookups (POSIX I/O). The readlink handling of `getExec` and `findProcessesByExec` is modelled (`ProcessPaths`). |
| tests, build | part_003-005, meson.build | gtest tests of other parts; build files. |

The containers run on one thread and every call runs to completion (spec §4).
Their hard behaviours are therefore not interleavings. They are long sequences of
legal calls, and the boundaries where those sequences go wrong:

- the pool reaching `max_capacity()`;
- growth and the re-threading of the free list;
- the order in which `erase_impl` reads a node and frees it;
- `filter`'s erase-then-resume protocol;
- the heights that rebalancing trusts.

## Modules

| Module | Models | State / actions |
|---|---|---|
| `AVLPoolAllocator` | the pool | Operators on a record `[data, cap, head]`. `Allocate`, `Deallocate`, `ReserveFor`, `CopyPool`, `PoolInit`, `GrownCapacity`, and the copy constructor's failure path (`CopyUntilThrow`, `EmergencyDestructFrom`, `CopyFailureUnwind`). A slot is `[key, val, kid, h]`; a free slot's `ptr` is `kid[L]`, as in the union. |
| `AVLDictionary` | the engine | Pure operators from the dictionary record `d = [data, cap, head, root, size, ok]` to the next. A C++ function taking `size_type& x` returns `[d, x, res]`, and the caller stores `x`, as the reference would. `RECURSIVE` operators follow the recursion of `insert`, `erase_impl`, `pull_out_rightmost`, `delete_subtree`, the traversals and `filter`'s loop. `ok` turns FALSE when `assert(-1 <= b and b <= 1)` would fail. |
| `AVLDictContainer` | the state every container shares (`AVLDictContainer` over `AVLDictionary`) | Variables `data, capacity_, head, root, size_, assertOk, ret`. `Init` is the constructor. Shared actions `ContainerErase`, `ContainerFilter`, `ContainerClear`, `ContainerReserveFor`. The engine invariants: `TypeOK`, `PoolAccountsForEverySlot`, `SearchTreeOrdered`, `StoredHeightsBalanced`, `NilSentinel`, `AVLBalanced`, `EraseOfAbsentKeyLeavesTree`. |
| `OrderedSet` | what a Set promises (spec §4-5) | `elems` plus the last call's `ret = [op, arg, res]`. Exhaustion is allowed only when the set holds `MaxCap - 1` keys, or from `reserve_for(max_capacity())`. |
| `AVLDictSet` | `AVLDictSet<K>` | Action `SetEmplace`, plus the shared ones. Refinement `Abs == INSTANCE OrderedSet WITH elems <- Elems`. |
| `OrderedMap` | what a Map promises (spec §4-6, §8) | `map`, a function from keys to values, plus `ret`. `alter_key` moves the value stored at `old` to `new` and discards an entry already at `new`. |
| `AVLDictMap` | `AVLDictMap<K, V>` | Actions `MapEmplace` (`insert_or_replace`), `MapSubscriptRead` and `MapSubscriptAssign` (`operator[]`, then optionally an assignment through the reference), `MapAlterKey` (`pull_out`, key write, `insert_or_replace`), plus the shared ones. Refinement to `OrderedMap` through `MapOf`. |
| `OrderedMultimap` | what Multiset and Multimap promise | `entries`, a bag of `<<key, value>>`, plus `ret`. `erase` and `alter_key` act on some entry with the key. |
| `AVLDictMultiset`, `AVLDictMultimap` | the multi-containers | `MultisetEmplace` and `MultimapEmplace` (the unconditional `insert`), and `MultimapAlterKey` (`pull_out`, key write, `insert`). There is no filter action, because `filter` is protected there. Each refines `OrderedMultimap` through the bag of in-order entries. |
| `AVLDictSetCopy` | copy construction/assignment | `SetCopy(gR, gH)`: the set goes on with `CopyPool`. `gR, gH` are the uninitialised bytes nil is built from. |
| `StringPredicates` | part_001 | `has_prefix`, `has_suffix`, `has_one_of_*`, the character classes and their string versions, `is_integer`, `is_real`: one operator per function, over sequences of ASCII codes. `StringView::compare` gets `std::basic_string_view` semantics (`string_view.hh` is not in the repository). The state is the arguments of a call (`str`, `pat`), and `Next` is a call with any arguments. The references are the C-locale classes, the grammars `-?[0-9]+` and `-?[0-9]+(\.[0-9]+)?` generated from their parts, and SequencesExt `IsPrefix`/`IsSuffix`. |
| `SimCompile` | `compile.cc` | Variables: the parent's `pc`, the arguments `tl` (time_limit) and `want` (`c_errors != nullptr`), the parent's open descriptors `fds`, the `child` process and its `cstatus`, `pipeMsg` (the child wrote an error), the `timer` and `elapsed` time, `pidReused`/`strayKill`, and compile's `returned`/`cerr`. One parent action per step of the code (`Begin`, `Pipe`, `Fork`, `WaitReady`, `Arm`, `ChildDied`, `Reap`, `Stop`), each with its failure disjunct; environment actions `ChildSetup`, `ChildExec`, `ChildExits`, `Tick`, `TimerFires`, `PidReuse`. `run_child`, `Timer` and `FileDescriptor` are not in the repository: the child sets up and stops or reports an error through the pipe and exits; the Timer SIGKILLs `cpid` once the limit has elapsed since its construction, until `stop_and_get_runtime()`, which returns the time elapsed up to that call; a `FileDescriptor` closes on destruction. |
| `ProcessPaths` | part_002 | `getExec` and one `/proc` entry of `findProcessesByExec` as pure operators on the link target: `Readlink(t, n)` is the first min(\|t\|, n) bytes with no NUL, `GetExec` retries a full 4096-byte buffer with 65536 bytes and throws on a full second one, `ProcessMatches` reads into `exec + " (deleted)"` plus one byte, skips a full buffer and compares with both names. It extends `StringPredicates` and takes its `str` as the link target and `pat` as the (already absolute) exec. Buffer sizes and the suffix are constants. |
| `MCSimCompile`, `MCStringPredicates`, `MCAVLDictSet`, `MCAVLDictSetCopy`, `MCAVLDictMap`, `MCAVLDictMultiset`, `MCAVLDictMultimap` | TLC instances | Constant definitions for the cfgs. |

Read-only member functions (`find`, `lower_bound`, `upper_bound`, `front`,
`back`, `size`, `for_each`, `foreach_since_*`) do not change state. Rather than
actions, they are one invariant, `QueriesAnswerFromTheSet`, which evaluates each
of them on every reachable state, for every key.

## Runs

| Run | cfg | Expect | What it shows |
|---|---|---|---|
| `set` | `MCAVLDictSet.cfg` | pass | 3-bit `size_type` (`max_capacity()` 7), keys 1..4, filter conditions {2}, {1,3}, {2,3,4}, `reserve_for(3)`, `reserve_for(7)`. Results below. |
| `set_avl_balance` | `MCAVLDictSet_balance.cfg` | violation | `AVLBalanced` (spec §3) fails after emplace 1, 2, 3. |
| `set_trivial_clear` | `MCAVLDictSet_trivial.cfg` | violation | `TrivialNode = TRUE` (`AVLDictSet<int>` really is trivially destructible). `clear()` leaks every slot, so a later emplace into the empty set throws. |
| `set_copy` | `MCAVLDictSetCopy.cfg` | violation | A copy leaves nil with garbage `kid[R]`/`h`. |
| `map` | `MCAVLDictMap.cfg` | pass | Keys 1..3, values `v0` (= `V{}`) and `v1`, every `alter_key` between distinct keys plus `alter_key(2, 2)`. The map keeps the pool, search order and nil, and refines `OrderedMap`: was-new, `operator[]`'s value, `alter_key`'s (changed, replaced), and the value surviving a collision (spec §8). The map is not copyable (`AVLMapNode`'s copy constructor is deleted, part_000:1509), so copy construction is checked on the set. A value copy that throws does so while `RealData` is built, before `allocate_node`, and changes nothing; it is not an action. |
| `map_alter_key_height` | `MCAVLDictMap_heights.cfg` | violation | Keys 1..4. `alter_key` reinserts the pulled node with its old height. After emplace 1, 2, 3, `alter_key(1, 4)`, `alter_key(3, 1)`, the leaf 1 has `h = 2`. |
| `multiset` | `MCAVLDictMultiset.cfg` | pass | Keys 1..2, up to 5 nodes. Heights stay consistent with duplicates, and the multiset refines the bag. |
| `strings` | `MCStringPredicates.cfg` | pass | Every string of up to 2 characters over the class boundaries (`/0 9: @A Z[ `a z{`, `-`, `.`, `_`, `^`): `is_digit`, `is_alpha`, `is_alnum` and `is_word` accept exactly the non-empty strings of their class (`ClassesMatchCLocale`). Every string of up to 4 characters over `-`, `.`, `0`, `9`, `a`: `is_integer` and `is_real` accept exactly their grammars (`NumbersMatchGrammar`: lone sign, leading or trailing dot, two dots, sign after the dot). `has_prefix`, `has_suffix` and their folds agree with `IsPrefix`/`IsSuffix` for patterns of up to 2 characters over `0`, `a`, including patterns longer than the string (`AffixesMatchSequences`). With buffers of 2 and 3 bytes and the suffix `.`, the same strings as exe link targets: `getExec` returns the whole target or throws, and throws only when it does not fit the second buffer (`GetExecReturnsWholeLink`); `findProcessesByExec` reports the process exactly when the target is `exec` or `exec.` (`ProcessMatchedExactly`). |
| `multimap` | `MCAVLDictMultimap.cfg` | pass | 2-bit `size_type` (pool 1→3, two entries), keys 1..3, values `v0`, `v1`. `emplace` and `reserve_for(3)` reach the full pool; exhaustion leaves the multimap unchanged and happens only when it is full. `alter_key` keeps every entry with its value, also onto a present key, and the keys stay non-decreasing. |
| `compile` | `MCSimCompile.cfg` | pass | `time_limit` none, 0 or 2 ticks, with and without `c_errors`; every failure of the error file, `pipe2`, `fork`, the Timer, `stop_and_get_runtime`, the child's setup and exec; a compiler that exits 0, fails, or runs forever. However compile ends, its child has been reaped (`NoChildOutlivesCompile`); a child that failed in its setup or `execve` wrote its error to the pipe, and compile then throws that message rather than returning 0 or 2, whether the ready-wait or the final wait sees the exit (`ChildErrorThrown`); with a limit, compile always returns (`TimeLimitedCompileEnds`); with or without one, it returns once the compiler process has exited (`CompileEndsOnceCompilerExits`). |
| `compile_fd_leak` | `MCSimCompile_fds.cfg` | violation | `fork()` fails after `pipe2`: run throws with both pipe descriptors open (`DescriptorsReleased`). |
| `compile_stray_kill` | `MCSimCompile_stray.cfg` | violation | The child fails, is reaped at line 157, its pid is reused, and the Timer expires before line 158 stops it: SIGKILL reaches the other process (`SigKillOnlyToOwnChild`). |

Further checks, run by hand and kept out of the routine runs (each shows a
disagreement with the spec or a misleading result, with the cfg that shows it):

| cfg | Property | What TLC finds |
|---|---|---|
| `MCAVLDictSet_duplicate.cfg` | `DuplicateEmplaceNeverThrows` | A duplicate emplace into a full set throws instead of returning false (spec §5), because `emplace` allocates before it looks for the key (part_000:1435). |
| `MCAVLDictSet_eraseabsent.cfg` | `EraseOfAbsentKeyLeavesTree` | Spec §8: erase of an absent key leaves the tree unchanged. After emplace 1, 2, 3, `erase(4)` returns false and rotates 2 to the root (part_000:909). |
| `MCAVLDictMultiset_order.cfg` | `DuplicatesInInsertionOrder` | Spec §3: duplicates are ordered by insertion. A second `emplace(1)` lands before the first (part_000:694). |
| `MCSimCompile_tle.cfg` | `TimeLimitReportedOnlyOnKill` | A compiler that fails at tick 0 with limit 2: two ticks pass in the parent between the exit-wait and `stop_and_get_runtime()`, so `es.runtime >= time_limit` and `*c_errors` says "Compilation time limit exceeded" instead of the compiler's diagnostics (compile.cc:52). |

What the `set` run checks, for every sequence of calls it reaches:

- the pool accounts for every slot (`PoolAccountsForEverySlot`);
- in-order keys are strictly increasing (`SearchTreeOrdered`);
- stored heights are consistent and balanced, and the assert never fires (`StoredHeightsBalanced`);
- nil stays the sentinel (`NilSentinel`);
- every query answers from the set (`QueriesAnswerFromTheSet`);
- the set refines `OrderedSet` (`SetRefinesOrderedSet`);
- copy construction, evaluated as an operator on every reachable set
  (`CopyIsDeepAndTransactional`, spec §4.1): the copy has the same keys and
  a well-formed free list, and when copying any node's key throws (a
  `std::string` key's `bad_alloc`), `emergency_destruct` destructs exactly
  the keys already copied (the occupied slots above it).

The set's keys are integers standing for the order of a key type that is not
trivially destructible (`TrivialNode = FALSE`); only `set_trivial_clear`
takes `K = int`.

`StoredHeightsBalanced` accepts a leaf with `h` 0 or 1. That is exactly the
code's convention: a fresh leaf has 0, and a leaf that was rebalanced has 1.
`AVLBalanced` measures true heights, which is what spec §3 asks for, and it
fails.

Every property of a passing run has a mutant in `PROJECT.json`. Each mutant is
an operator next to the definition it replaces, marked `Mutant:`, that changes
it the way a plausible bug would:

- growth without the clamp;
- `deallocate` without `head = n`;
- a rotation that moves the wrong grandchild;
- no double rotation;
- erase without the `new_x != nil` test;
- a non-strict `lower_bound`;
- `filter` without resume;
- `allocate_node` without `++size_`;
- `insert_or_replace` that does not deallocate the replaced node, or does not hand over its kids;
- `alter_key` that writes the key after reinserting, skips the `x == nil` return, or drops the `not` on `was-new`;
- a multiset that inserts with `insert_if_not_exists`;
- a multimap `alter_key` that uses `insert_or_replace`;
- the copy constructor's catch calling `emergency_destruct(i)` instead of `emergency_destruct(i + 1)`;
- `is_digit(int)` with `c < '9'`;
- `is_real` taking the fraction as `substring(dot_pos)`;
- `has_suffix` comparing one position too far right;
- `getExec` retrying only when `rc > buff.size()`;
- `findProcessesByExec`'s `buff_size` without the `+ 1` for the NUL;
- compile returning 1 for a failure;
- the ready-wait without `WEXITED`;
- the Timer constructed before the kill-and-wait guard;
- the early return after the ready-wait built without `receive_error_message`;
- the Timer given the (empty) CPU-time limit.

TLC finds each one violating its property.

## Bounds

The exhaustive `set` run keeps 4 keys in a pool of at most 7 slots. That is
enough for trees of height 3, for both single and double rotations, for erase
by predecessor splicing, and for all three pool growth steps (1→2→4→7).
`reserve_for(3)` grows to a capacity that is not a power of two.

The map run keeps 3 keys and two values. A four-key, one-value run of the same
properties, checked once, found 148,375 states and no violation in 3 minutes.
That is too slow for the routine runs. The height violation needs four keys, so
`map_alter_key_height` uses them with one value. The assert in
`rebalance_and_seth` (`AssertNeverFails`) held over all 1,171,487 states of
four keys and two values. It is not a routine run.

The multiset run bounds `size_` to 5 nodes with a state constraint
(`SizeBound`). Two keys are enough for duplicates, and 5 nodes for the single
and double rotations among them. With `reserve_for(7)` the pool still reaches
`max_capacity()`. Six nodes, which would fill the pool, took 8.5 minutes.

The multimap run uses a 2-bit `size_type` instead: two entries fill the pool,
so `emplace` meets `AllocatorExhausted`, and three keys let `alter_key` move
an entry past another and onto an equal key. The three-node rotations of
`pull_out` and `insert` are exercised by the multiset and map runs.

A 2-bit `size_type` is the smallest pool that `emplace` can fill.

`filter`'s conditions are limited to three sets:

- one key: a single erase;
- two separated keys: resume skips a node;
- three adjacent keys: repeated resume.

Enumerating all 16 subsets, and all 8 `reserve_for` arguments, tripled the
state space without reaching new code paths.

The string runs enumerate every string up to their length. Four characters
reach every shape the number grammar tells apart: `-0.9` (accepted), `-`,
`0.`, `.0`, `-.0`, `0..`, `0.-0` and `--0` (rejected). Patterns of length
two against strings of length up to four cover a pattern longer than the
string, equal to it and shorter than it. As exe link targets, lengths up
to four put a target below, at and above each of the 2- and 3-byte
buffers, and `exec.` as well as a longer target cut to its length occur
(for `exec` = `0`: `0.` and `0.0a`).

## Fairness and liveness

The containers have none: nothing in them waits, retries or runs
concurrently. Every operation is a single atomic step of the model, and termination of the
recursions is bounded by the tree height. A `fuel` argument bounds the walks
the properties take over possibly corrupt trees.

`SimCompile` is a system of processes and states its fairness:
`WF_vars(Parent)` (the parent thread runs; its only blocking steps are the
waits, enabled once the child has stopped or exited), `WF_vars(ChildSetup)`
and `WF_vars(ChildExec)` (`run_child` finishes its setup and `execve` returns
or replaces the image), `WF_vars(Tick)` (time passes while the Timer runs) and
`WF_vars(TimerFires)` (the kernel delivers an expired timer). `ChildExits` has
no fairness: the compiler may run forever, which is exactly the case the time
limit is for. `PidReuse` has none either. Under this fairness
`TimeLimitedCompileEnds` holds. Without a limit compile may rightly wait
forever for a compiler that never exits; `CompileEndsOnceCompilerExits`
covers that case from the other side: once the child has exited, each of
the three waits is satisfied and compile returns. The terminated state
stutters (`Terminated`), so deadlock checking stays on and finds none.

The compile bounds: a limit of 2 ticks and a clock that stops at 3 let the
compiler exit before the limit, at it, and after the parent's window has
passed it; time is counted from the Timer's construction, the only clock the
code reads. Limit 0 covers the `time_limit <= 0ns` exception.

## Not modelled (yet) and plan

1. Non-ASCII `char`s (negative when `char` is signed) are not in the string
   alphabets; every predicate compares with ASCII ranges only, so they fall
   outside every class like any other non-member.
2. Not modelled, by nature:
   - the pool's move constructor and `move_assign` (the containers' move
     operations, which no modelled call uses); copy assignment's move
     assignment is covered by `SetCopy`'s result;
   - `print`/`cerr_info` (debug output);
   - `MemberComparator` (compile time);
   - `concat`, and `spawn`, `getCWD`, `abspath`, `chdirToExecDir`, the
     `/proc` scan and readlink errors of part_002: their callers are
     outside the repository, so the option combinations they meet are
     unknown, and the rest is formatting or system state. Their two hazards (the order of
     the child's redirections, the unchecked `waitpid`) are listed in
     `PROJECT.json` with that note;
   - `compile`'s argument vector and proot options (data no decision depends
     on), the CPU-time monitor (compile passes no CPU limit) and the
     `clock_getcpuclockid` reading (it feeds no decision);
   - a failing `waitid` (compile.cc:127, 146, 157): the model's waits succeed;
   - tests and build files;
   - throwing key or value copies in emplace: they throw while the
     argument is built, before `allocate_node`, and change nothing; the
     node constructor only moves the built key or value, and
     `allocate()` requires nothrow moves (the `static_assert` at
     part_000:261), so `allocate_node`'s catch (398-403) is never reached. A throwing key
     copy is modelled in the set's copy constructor.
3. Map `filter` conditions see only the key. The code's condition also sees
   the value, but no code path depends on it.
