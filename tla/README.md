# nova-nix in TLA+

A verification project for nova-nix, an implementation of Nix in Haskell with a
C99 data layer. It models two halves of the program. One is the store, whose
correctness depends on order: several processes share it, each runs one command,
any of them may be interrupted or die anywhere, and a garbage collector removes
what the others no longer need. The other is the C data layer under the
evaluator, whose correctness depends on memory: arenas that only grow, counts of
a fixed width, allocations that may be refused half-way, and cells whose owner
changes while exceptions unwind. TLC checks the models on small instances; TLAPS
proves the central invariants for every value of the constants.

`PROJECT.json` lists the components, the runs, the lines of code each
definition stands for, the hazards and the theorems. To reproduce a run:
`tlc -config X.cfg MX.tla`; to check proofs: `tlapm M.tla`.

## Inventory

Paths are below `src/src/Nix` unless they start with `app` or `cbits`.

| component | state | operations | talks to |
|---|---|---|---|
| Store database (`Store/DB`) | tables `ValidPaths`, `Refs`, in SQLite with foreign keys and WAL | `registerPaths`, `unregisterPathRow(s)`, validity and reference queries | every producer and the collector, one transaction a call |
| Store handle (`Store/Handle`, `Store/Lock`) | shared lease on one lock file, in an `MVar`; the connection | `openStore`, `closeStore`, `withCollectorLock`; lock files beside paths | the collector swaps the lease for the exclusive lock |
| Store (`Store`) | trees on disk, a lock file beside each | restore sources, register what evaluation wrote, write `.drv`s, delete a path | database, locks, live set |
| Collector (`Store/GC`) | `gcroots`, `gcroots/auto` records, out-links | `addOutLinkRoot`, `findRoots`, `collectGarbage`, `withLiveSet` | handle, database, trees |
| Builder (`Builder`) | output locks, scratch trees, `committed` flag | build one derivation, substitute a batch, walk the dependencies | store, database, substituter, realisation |
| Substituter (`Substituter`, `Http`) | caches in order, retries, the tree it streams to | `trySubstitute`, narinfo and NAR fetches, sink | store path under its lock |
| Realisation (`Realise`, `DependencyGraph`) | graph of derivations | substitute closures, else build, references first | builder through an effects record |
| Push (`Push`) | what the server has | closure, plan, upload, signed round trip | database, trees, HTTP |
| Build log, archives (`Builder/Log`, `Builder/Unpack`) | pending line and cursor; entries seen | feed, filter; unpack | builder |
| Evaluator (`Eval*`, `Expr*`) | the stack of forces, calls and `tryEval`s; the call depth | force, apply, select, merge | the C data layer, evaluation's store access |
| Thunks (`cbits/nn_thunk`, `nn_arena`) | cells in blocks; StablePtrs into the Haskell heap | allocate, mark, restore, memoize, collect StablePtrs | `forceThunk` in `Eval/IO` |
| Symbols (`cbits/nn_symbol`) | entries, hash slots, one block of text | intern, look up | every name and path of evaluation |
| Attribute sets (`cbits/nn_attrset`) | arrays of keys, positions, values | insert, freeze, search, union, remove | `Eval/CAttrSet`, `Eval/Types` |
| Environments (`cbits/nn_env`) | pages cut by a bump allocator | make, push a scope, look up by level and index | resolved variables, trimmed closures |
| Lists, lambdas, contexts (`cbits/nn_list`, `nn_lambda`, `nn_ctxstr`) | `malloc`ed blocks and tracking arrays | make, drop, fill, free all | items lie in the pages |
| Bytecode (`cbits/nn_bytecode`, `Eval/Compile`, `Eval/CBytecode`) | instructions and operand words | emit, read | thunks and lambdas name code by index |
| Evaluation's store access (`Eval/IO`, `Eval/Policy`) | maps of sources, writes and derivations to materialise | `writeToStore`, `addPath`, fetches | trees directly, before the store is open |
| Parser, configuration, encodings | none shared | text to data | |
| Command line (`app/Main`) | none | open, materialise, write `.drv`s, build, root, close | all of the above |

What is hard in each, and what makes it correct:

* **Database.** Long histories: a path registered again with other references,
  removed and registered anew, a batch refused half-way. Correct when every
  edge joins two rows and each row has the references it last declared.
* **Handle and lease.** A lease upgraded by giving it up, waited for without a
  limit, renewed or not. Correct when a collection runs alone, nothing is
  stranded, and waiting ends.
* **Trees, rows and locks.** The tree is made before the row, the row removed
  before the tree, and both sides cross a lock, an exception handler and a
  transaction. Correct when a row always has its whole tree; when a tree under
  a lock is the holder's; when what a process relied on stays.
* **Roots.** Two files that must agree, made and read in several calls, beside
  users who remove links. Correct when an added root survives.
* **Realisation.** Two recursions that remember what they visited, over caches
  that disagree, fail and declare cycles, beside processes that register paths
  meanwhile. Correct when a build finds its inputs valid, nothing is built that
  can be had, a failure stops exactly what it must, success means valid
  outputs, and the walk ends.
* **Transfers.** Partial failure and order: bytes are written before they can
  be checked, each of many steps may fail in several classes, several caches
  disagree. Correct when a tree is whole or gone, when a row is only over what a
  trusted key signed, when what is reported is what was met, and when retries,
  caches and waits end.
* **Push.** Nothing is published before its references. Planned.
* **Thunks.** A cell is claimed, evaluated, restored when an exception passes
  and memoized otherwise, in steps an interrupt may come between; what its
  payload is, and who frees it, changes on the way. Correct when a blackhole is
  a recursion, a thunk has one answer, and each StablePtr is freed once, by its
  one owner, and never before the last read.
* **C arenas.** Tables, pages and arrays that double until a 32-bit count would
  wrap, with `realloc` refusing anywhere. Correct when what was put in is what
  is read, whatever grew or was refused since, and when every block is owned
  once and freed once.
* **Attribute sets.** Loops over arrays in place: two sorts, a deduplication, a
  search by halves, merges. Correct when they implement maps in which the last
  insertion and the right side win, positions included.

## Modules

    StoreDB ──── StoreDBHistory ── MCStoreDB ────┐
       ├──────── StorePaths ────── MCStorePaths ─┴─ StoreProofs
       └──────── Realise ───────── MCRealise        RealiseProofs
    WholeOrGone ◄───────── Transfer ── MCTransfer   TransferProofs
    CollectorExclusion ◄── GcLease ── MCGcLease     GcLeaseProofs
    GcRoots ── MCGcRoots                            GcRootsProofs
    Thunks ── MCThunks                              ThunksProofs
    AttrMaps ◄──────────── AttrSets ── MCAttrSets   AttrSetsProofs
    CMemory ── SymbolTable ───────────┐
       ├────── Bytecode ──────────────┼ EvalArena ── MCEvalArena
       └────── Environments ─ Objects ┘             EvalArenaProofs

**`StoreDB`** has the two tables and the transactions on them: `registerPaths`
(insert every row, then replace the edges of each registration, throw when an
edge has no target), `unregisterPathRow` and `unregisterPathRows`. A
transaction is atomic because SQLite makes it so, and one action of the model.
A batch is a function from positions to registrations, since the code sorts it
by path with a stable sort and a path may occur twice. `StoreDBHistory` runs
the transactions in any order with a history variable, `declared`.

**`GcLease`** is `Store/Handle.hs` step by step: a process takes the shared
lease, opens the database, works, and to collect empties the `MVar`, releases
the lease, waits for the exclusive lock, collects, drops it and takes a new
shared lease. Every place where an exception can leave is an action
(`OpenFails`, `InterruptWait`, `RenewFails`). `CollectorExclusion` is what the
protocol promises, without locks: processes that use the store, and at most one
that collects, alone. `GcLease` implements it under a refinement mapping
(`ImplementsPromise`).

**`StorePaths`** composes the database with the trees, the lock files, the
lease and the roots, and runs the jobs of the code against each other. Its
places are those between two effects another process could see. The lease is
taken as `GcLease` shows it to behave: granted and exchanged in single steps.
`Put` changes trees; `Rely` is history. The correspondence:

| actions | code |
|---|---|
| `openStore`, `closeStore`, `StartJob`, `EndJob` | `app/Main.hs` commands, `withOutputLocks`'s `finally` |
| `LockOutput` … `NoteCommitted` | `buildDerivationInner`, `buildUnderLock`, `runPlannedBuild`, `registerOutputs` |
| `LockNext` … `Miss`, `LoopDone`, `RegisterBatch` | `substitutePaths`, `trySubstituteWith`, `streamNarIntoStore`, `materializeNarFromSource` |
| `AdoptTree`, `RegisterSource` | `materializeEvalSources` |
| `SkipWrite`, `RefuseWrite`, `PrepareWrite` | `materializeEvalStoreWrites` |
| `OpenDrv`, `FinishDrv`, `DrvsDone` | `writeDrvAterm`, `writeDrvClosure` |
| `TakeCollectorLock` … `RenewLease` | `withCollectorLock`, `collectGarbage`, `deleteStorePathChecked` |
| `Interrupt` | the exception handlers between a job and the command |
| `Crash` | nothing runs; the system closes the descriptors |

The constant `InterruptHitsCommit` is the one place where the model can be told
to leave something out: whether an asynchronous exception can arrive between
the return of the transaction of `registerOutputs` and `writeIORef committed
True`. It can; the run `commit_window` says so and shows what follows. The run
`store_paths` leaves it out to say that nothing else goes wrong, and so do its
jobs with the two other weaknesses the code has: evaluation writes a path that
no other process substitutes (see `eval_writes`), and no `.drv` is written
(`writeDrvAterm` truncates and writes it without a lock, whether or not it is
registered; only `store_liveness` runs it).

**`GcRoots`** goes below one step of `StorePaths`, `AddRoot`: the calls of
`addOutLinkRoot` and `publishRecord` against those of `findRoots`, record by
record, with users who remove links. A file being written is `torn`; a process
that writes keeps its descriptor when the file is renamed (`MoveWriters`). An
out-link is classified and read in two steps (`FollowLink`, `ReadTarget`), since
it may be gone in between. `doubled`, `watched` and `undisturbed` are history:
which additions met another of their link or a listing, and which links were
added by one that did neither.

**`Realise`** is one command that realises a graph of derivations, with the
database as `StoreDB` has it. The two recursions of the code are two stacks,
`nodes` for the calls of `realiseNode` and `closures` for the calls of
`closureOf` under the innermost of them; the sets that the code threads through
them, `seenDrvs` and `seenPaths`, only grow within one recursion and are one
variable each. A cache holds some paths (`holds`) and declares references for
each (`Declares`), which need not be those that a build would find (`Embeds`).
Each query chooses which caches cannot be asked just then, each transfer from
which cache a path arrives or how it fails, and `OtherRegisters` lets other
processes register paths at any time. `trouble` is history: what did not go
smoothly, which the properties tell apart. The correspondence:

| actions | code |
|---|---|
| `SubstituteClosure`, `LookUp`, `NothingMissing`, `Query` | `substituteClosure`, `closureOf`, `offeredReferences` |
| `Decisive`, `QueryFails`, `OfferedReferences` | `queryReferencesWith` |
| `NextReference`, `Return`, `OfReference` | `referencesFirst` |
| `Fetch`, `Holders` | `fetchedClosure`, `substitutePaths`, `tryCachesWith` |
| `AlreadyValid` … `NotSubstituted` | `realiseNode`, `substitutionStop`, `allOutputsValid` |
| `NextInput` | `realiseAll` |
| `Build`, `InputClosure`, `BuildFails` | `reBuild`: `buildDerivation`, `inputClosure`, `scanOutput` |

Left out: the retries of one request, the checks of a narinfo and of a NAR
(both end in "offered", "not offered" or "failed" here; `Transfer` has them),
and what is printed.

**`Transfer`** is what `Realise` and `StorePaths` have as one or a few steps:
one path fetched by several processes, each asking the caches in order under
the path's lock. What a cache answers is chosen anew at each request, so a
narinfo may validate or not, name another path, be signed by a key that the
cache is not trusted under, and differ from one attempt to the next. A NAR is
one of a few archives, standing for digest and size together; what the file
system makes of it on disk is again a choice, which the read-back compares. A
failure is transient or fatal as `Nix.Http` classifies it, and counts against
the budget of its own request. `WholeOrGone` is what the rest of the store
relies on: a tree that is whole, absent or a leftover of an earlier process,
written by the holder of its lock only, valid only when whole. The jobs of
`StorePaths` that make a path keep it (`JobsKeepPromise`), and `Transfer`
implements it with the tree seen through `SeenTree`, which calls unfinished
whatever has not been checked. The correspondence:

| actions | code |
|---|---|
| `acquirePathLock`, `AlreadyValid`, `NotValid` | `trySubstituteWith` |
| `NextCache`, `Before`, `CacheMisses`, `CacheFails`, `NoteError`, `ScanEnds` | `sortCaches`, `tryCachesWith`, `tryOneCache` |
| `AttemptFails` | `retryTransient` |
| `QueryFails`, `QueryMisses`, `NarInfoArrives`, `Judgement` | `fetchNarInfoOnce`, `judgeNarInfo`, `substituteFromCache` |
| `MetadataFails`, `ClearStaleDestination`, `ClearingFails`, `RequestFails`, `NarGone` | `streamNarIntoStore`, `unservedNar`, `transferFailureHandlers` |
| `StreamBegins`, `StreamFails`, `StreamEnds`, `TreeAgrees`, `ReadBackFails`, `CleanupFails` | `materializeNarFromSource`, `consumeNarStream`, the sink of `Nix.Store` |
| `Register`, `Drop` | `substitutePaths`, its transaction and its `finally` |
| `Interrupt`, `InterruptLost`, `Crash` | `onException`, `catchSync`; nothing runs |

`RemovalCanFail` says whether the file system can refuse to remove a tree. The
run `transfer` lets it, since all the promises but one survive that; the one
that does not is `InterruptEndsTransfer`, which is proved for file systems that
never refuse.

**`Thunks`** is the memoization cell and everything that may happen around one.
The evaluation is a stack of frames: a force, a call, a `tryEval`. What the code
of a thunk computes is a free choice of allocating, forcing, calling, throwing or
answering, so that any program is a behaviour. A force has four phases, one for
each gap between the statements of `forceThunk` that an asynchronous exception
may hit: the cell is marked, the handler stands, the value is stored, the handler
is gone. A StablePtr is `unused`, `live` or `freed`, and `freed twice` if the
code frees it again; `lost` is history. The correspondence:

| definitions | code |
|---|---|
| `arena_alloc`, `NextSlot`, `Used`, `nn_thunk_*` | the functions of `nn_thunk.c` they are named after; the inline kinds (int, float, bool, null, attributes, path, string, list, lambda) are the set `Inline` |
| `nn_thunk_new`, `nn_thunk_new_bc`, `nn_thunk_new_computed` | `newBcThunkPtr`, `newComputedThunkPtr` and the C calls under them |
| `ForceComputed`, `ForceBlackhole`, `ForcePending`, `RunThunk`, `LeaveHandler`, `FreePendingEnv` | `forceThunk`, statement by statement |
| `StoreInline`, `StoreBoxed` | `storeComputed` |
| `withCallFrame`, `catchEvalError`, `Answer` | the same in `Eval/IO`, over `enterCallFrame` |
| `UnwindForce`, `UnwindCall`, `UnwindTry` | `onException`, `local`, `catchEvalError` when an exception passes |
| `runEvalIO`, `arenaInit`, `arenaDestroy` | the top level, and the life of the arena with `cleanupStablePtrs` |

**`AttrSets`** runs the loops of `nn_attrset.c` on the very arrays, an iteration a
step: keys and positions share one block, positions after as many keys as there
is room for, so that growing moves them. `op` is the call in progress with its
locals. Sets below a size are sorted in place, larger ones by `qsort` over tagged
entries, or in place when its memory is refused. `AttrMaps` is what the header
promises: maps from keys to a position and a value. `AttrSets` implements it under
the mapping `Bindings`, which reads a map off a set that is being sorted or
deduplicated too, so that a freeze is a stutter and a search, a union or a removal
one step.

| definitions | code |
|---|---|
| `nn_attrset_new`, `nn_attrset_insert`, `grow`, `WithRoom` | the same |
| `Freeze`, `Sort…`, `qsort`, `Dedup…` | `nn_attrset_freeze` |
| `Search…`, `Return` | `bsearch_key` under `nn_attrset_lookup` and `nn_attrset_index` |
| `nn_attrset_union`, `Merge…`, `nn_attrset_remove_keys`, `Remove…`, `Copy…` | the same, with the set of a refused union left to the teardown |
| `Building` | the callers in `Eval/Types`, which fill a set from new to freeze |

**`EvalArena`** composes the other stores of one evaluation: opened by
`arenaInit`, used from one thread, torn down by `arenaDestroy` in the code's
order, and called too early and too late as well. `CMemory` is what they share:
blocks of memory as functions from an interval, counts modulo `MaxUInt + 1`.

* `SymbolTable`: linear probing over slots, one block of text, and the rebuild at
  twice the size, a slot a step. Each of the three reallocations of an insertion
  may be refused after the ones before it were granted (`RefuseEntries`,
  `RefuseSlots`).
* `Bytecode`: two buffers and the compiler above them as a stack of tasks.
  Variables, applications and lists stand for the three ways an expression keeps
  its operands: in the instruction, as indices of instructions, and as counted
  words in the buffer.
* `Environments`: pages of words. What callers put into an environment or an
  array is kept beside the memory (`envs`, `arrays`) and never read by the code;
  the properties compare the two. `CaptureSlot` and `TrimEnv` are closure trimming
  (`buildCSlots`, `withScopesForCapture`), `fillCSlots` is the knot of `let` and
  `rec`.
* `Objects`: lists, lambdas and contexts; a constructor is a step for each
  allocation it makes, then the tracking, and `Refuse` frees what it has.

## Runs

| run | instance | question | answer |
|---|---|---|---|
| `store_db` | 3 paths, batches of 2 | do edges and rows stay in step, whatever the history? | yes |
| `gc_lease` | 3 processes | is a collection alone, is nothing stranded, does waiting end, is the promise kept? | yes |
| `store_paths` | 2 processes, 3 paths, 6 jobs | is the invariant of the proofs one, and can any interleaving, interrupt or crash leave a row without its tree, take a path somebody relies on, or touch a tree under another's lock? | no |
| `store_liveness` | 2 processes, 2 paths, 4 jobs | does every job end? | yes |
| `gc_roots` | 3 processes, 1 link | does an addition that met nobody last, does a collection see it, and is a record torn only where two additions met? | yes |
| `transfer` | 2 processes, 3 caches, 2 archives, 2 attempts | is a row only over the signed tree it describes, is the report what the scan met, does it end, is the promise to `StorePaths` kept? | yes |
| `realise` | 3 derivations, 6 paths, 2 caches | are inputs valid before a build, is nothing built that can be had, does a failure stop what it must, does success mean valid outputs, does it end? | yes |
| `commit_window` | 1 process, 1 path | what if an interrupt hits the end of the commit? | a row without a tree |
| `eval_writes` | 2 processes, 1 path | may an evaluation's write be registered after its lock is gone? | a row over a cleared tree |
| `thunks` | 4 cells, 3 StablePtrs, 4 frames | is a blackhole a recursion, has a thunk one answer, is each StablePtr freed once, is the depth what the stack says? | yes |
| `attrsets` | 4 keys, 3 sets of up to 3 entries | do the loops stay in their bounds, and are sets maps? | yes |
| `eval_arena` | 4-bit counts, 6 texts, 7 expressions, 2 pages, 4 objects | is what was put in read back, and is memory owned once, whatever is refused? | yes |

Bounds. Three paths are the fewest with a chain, a cycle and a bystander, and
path 1 referring to 2 and 3 gives registrations that are refused and deletes
that meet a referrer. Two outputs are the fewest that two processes can lock in
opposite order. Two processes are enough for every pairwise race of the jobs;
the lease needs three (two that wait to collect, one that still works). The
database is symmetric in its paths; in `StorePaths` the order of the paths is
the lock order, so no symmetry is used. `GcRoots` needs a third process so that
one walks, one adds and one has already added.

`Realise` runs over the graph 3 → 1, 2 and 2 → 1, so that an input is met twice.
Two derivations have two outputs, the fewest with which only some are valid;
one path is nobody's output, a hole only a cache can fill; the first cache wants
that hole for one output and not for the other, and what the second declares
closes a cycle between the two outputs of one derivation. What each cache holds is chosen from four selections, from
nothing to everything, so that they disagree; a path may be held by the second
only, and by none.

`Transfer` has three caches: the second comes first, the others have equal
priorities and keep their order, and one has a key that does not parse. Two
archives make it possible to serve what is not signed for that cache, or to
find the other one on disk. Two attempts are the fewest that tell a retry from
the last failure; two processes, that one finds valid, or clears, what the
other left.
`Thunks` has two blocks of two cells, so that an allocation opens a block and
another is refused; one inline, one shared and one boxed value, so that a second
evaluation could answer differently; three StablePtrs, for an environment, a value
and one that is lost; four frames, the fewest with a force in a call in a
`tryEval` in a force; and a ceiling that the second call exceeds. Three StablePtrs
are never handed out again, which bounds the behaviours; a reused one would hide a
second `free`, not cause one.

`AttrSets`: a set starts with room for one entry, doubles to two, then stops at
the ceiling of three instead of four, so that positions move to every kind of new
capacity and an insertion is refused; three entries are the fewest that `qsort`
sorts here and a search halves twice; four insertions allow any three keys and a
repetition, and a union of four keys that does not fit.

`EvalArena` scales the widths down and leaves the algorithms alone: counts have
four bits, so that symbols reach the arena's limit of 16 bytes, operand buffers
the doubling that wraps, and slot arrays the largest request. The hashes make two
texts collide, two probe round the end of the table, and others change their order
in a rebuild; one text is empty. Pages of 9 words hold an environment (6 words)
and an array of 2 but not another environment, and an array of 15 words has a
page of its own. Four arrays and environments give a chain of two parents and a
trimmed closure. Symbols and code share nothing with each other or with the pages,
so a behaviour uses one of them (`Uses`); lists take their items from the pages, in
the behaviours of objects too.

Fairness. A process that can take the next step of its job takes it (`WF`): the
code has no scheduler of its own and never gives up a job. `closeStore` has
strong fairness because a command has finitely many jobs, so it is not put off
for ever by starting another. `Arrive` or `Miss` has strong fairness because a
path has finitely many caches and attempts. Builders and transfers are assumed
to end, one way or the other; that is not the code's to give. Realisation is
one thread, and assumed only to take its next step (`WF`), so that `RealiseEnds`
is about the visited sets and the single retry, not about scheduling. The same
weak fairness is enough for `Transfer`: a process waits for a lock whose holder
comes to an end and has then done its one job, and that a request is answered or
fails in the end is the network's part (the code sets no limit on a body's
time). Nothing is assumed of opening, starting, failing, interrupting or
crashing. For the lease: a blocked lock is granted if it is free again and again
(`SF`), as the kernel's wait queue does.

The C data layer runs in one thread and its calls return; nothing is claimed of
it that needs fairness.

## Findings

`commit_window` and `eval_writes` are behaviours of the code that its comments
exclude; `PROJECT.json` quotes the lines. Three more were met while modelling,
and have no run of their own:

* An interrupt can be lost (`Substituter.hs:815`): a partial tree is removed
  under `onException`, which raises what the removal throws in place of the
  interrupt; an `IOException` there is read as a failure of the attempt, and the
  next cache is asked, against the comment at `Substituter.hs:307-310`. `Transfer`
  has the step (`InterruptLost`), and a theorem says that it is the only one.
* A listing of the roots may remove the record of a link that an addition beside
  it is making (`GC.hs:369`), against the comment at `GC.hs:300-303`: the addition
  removes the old link first and leaves an existing record alone.
* Two additions of one link share a staging file (`GC.hs:441`), so that a record
  can be torn, against the comment at `GC.hs:397-399`. `TornMeansDoubled` says
  that nothing else tears one, and `UndisturbedKeepsRecord` that what meets
  neither of the two is kept.

## Proofs

`StoreProofs` has the theorems of the database and of the shared store. Of
the database: type correctness, `RefsClosed` and `EdgesAsDeclared` of
`StoreDBHistory`, for any set of paths and any batch size. The inductive
invariant is the conjunction of the three: an edge survives a removal only if
its target does, which needs the referrer query to be over rows that are there,
and a removed path leaves no edges only because all edges had been closed
before. The lemmas are about the transactions, one for each.

Of the shared store: `ValidHasTree`, `RefsClosed`, `ReliedStaysValid`,
`LockedTreeIsPrivate` and `RootedSurvives`, for any number of processes, paths,
outputs and jobs. The theorems carry one hypothesis, `KeepToLocks`: no
interrupt at the end of a commit, no job that writes `.drv`s again, and no path
that evaluation writes and another job builds or substitutes. These are the three
ways in which the invariant breaks: `commit_window` and `eval_writes` show two,
the third is one step of `writeDrvAterm`, which leaves a registered `.drv` half
written. The proof shows that the model has no fourth. The inductive
invariant says, place by place, which locks and lease a process holds and which
trees it answers for. Its steps are proved for the process that moves; one
lemma (`OthersAgree`) carries what the others say over any step that leaves
their locks, their trees and their rows alone (`Apart`). `RootedSurvives` needs
more: the collector takes the closure of the roots long before it removes the
last row, so the second half of the invariant says that what it found dead
stays unreachable while it runs, because it runs alone and rows and edges only
go (`LiveShrinks`).

The last theorem, `JobsKeepPromise`, is about a path as everybody else sees it:
builds, substitutions and copies of sources keep `WholeOrGone`, the promise that
`Transfer` is proved to keep too, so that a transfer among the jobs of
`StorePaths` meets nothing it does not meet among other transfers. Its tree is
unfinished while a builder or a transfer is at it and a leftover when torn
otherwise (`SeenTree`), and once it is valid its lock says nothing more
(`SeenHolder`). With the invariant above, what a step may do to such a path fits
in four lines (`Moves`), from which each case is a step of the promise or a
stutter. The hypothesis `MadeUnderLock` leaves out what takes rows away, which the
promise does not speak of: collections, and deletions of that path. Deletions of
others may run, and keep to the paths they were asked for (`DeletesOwn`). The
theorem states no property of a run, since every run of `StorePaths` collects,
writes outside the locks, or is interrupted at a commit.

`GcLeaseProofs`: an inductive invariant `LeaseInv` that says, place by place, which
lock a process has, what its `MVar` holds and whether its connection is open,
and that locks of different processes are compatible. `CollectionRunsAlone`
and `DoneHoldsNothing` follow from it, and with it every step of `GcLease` is a
step of `CollectorExclusion` or leaves its state alone
(`LeaseImplementsPromise`). Assumed: only that `NoProc` is no process.

`GcRootsProofs`: type correctness, `UndisturbedKeepsRecord`, `CollectionSpares`
and `TornMeansDoubled`, for any processes, links and targets. An addition that
met no other of its link has that link and its staging file to itself
(`AloneUnlessMet`), so that what it renames into place is whole
(`StagingIsItsOwn`), though processes that write keep their descriptor when
others rename or truncate the file, and though a crash may have left a torn file
under the staging name: this is `TornMeansDoubled`. From there on the record is safe from other
additions because none of them has come past removing the old link
(`NotYetReplaced`), and from walks because a walk still has the link before it,
in its hand, or found, and never takes it for stale (`WalkMisses`).

`RealiseProofs`: `CallsNest`, `BuildsOnInputs`, `FailureIsFinal`,
`RealisedMeansValid`, `RefusalMeansCycle` and `NeverBuildsWhatCachesHold`, for any
acyclic graph, any outputs, any caches and
whatever they hold, declare and fail at, beside any other process. The
inductive invariant is in two halves. `NodesInv` is about the calls of
`realiseNode`: they descend the graph in every numbering that puts inputs first
(`StackDescends`), what was visited is valid or on the stack (`SeenIsDone`), and
inputs that are no longer listed are valid or the call just above
(`InputsByPlace`). The first two are why passing over a visited input is sound:
it cannot be on the stack, since the stack descends, so it is valid
(`SeenInputIsValid`). `ClosuresInv` is about the calls of `closureOf`: they
share no path, all they cover has been seen, and the outermost covers what its
derivation lacks (`OutputsCovered`).

Two more layers stand on these. `ReferencesInv` says how the calls of `closureOf`
hang together: each but the outermost was asked for a single path, which one of
the caches declares a reference of something the call around it misses; whatever
was visited is valid or asked for by a call under way; and what a call misses
refers only to what it misses, has still to visit, or has visited. When the
database then refuses a batch, a reference of it that is neither valid nor in it
was asked for by a call further out, and the paths of the calls from there to
the batch refer to each other in a cycle (`RefusalIsCycle`). The outputs of the
derivation count as one in it, because they are asked for together; that the
property had to say so was found by this proof, and the run's second cache
declares such a cycle. For `NeverBuildsWhatCachesHold`, `OutcomeKnown` and
`KnownTries` say what the outcomes of the first and the second try tell about
the caches: every set of paths that has what the outputs need has what the
innermost call misses (`MissingIsNeeded`), so a path of it that no cache holds is
a reason to build. That lemma goes down the stack from the outermost call; the
library's induction theorems cannot be used, but its theorem on well-founded
minima can, since it is about sets (`GreatestUpTo`).

Assumed: a finite acyclic graph, as
`topoSort` grants, and that no cache and no world has anything but paths.

`TransferProofs`: `RowDescribesTree`, `ReportMatchesScan`, `ImplementsPromise`
and, where a removal cannot fail, `InterruptEndsTransfer`, for any processes,
caches, priorities, archives and retry budget. The inductive invariant is in two
halves. `PathInv` says that a lock is held exactly in the places under it and
what lies at the path in each: nothing where a request is sent, a part where a
stream arrives, an archive where it is read back, the declared one where it
arrived; and that what is offered is signed for its cache, which is all that
`RowDescribesTree` needs when the row is written. `ScanInv` says that the caches
tried are a beginning of the list and that the error kept is the first. An
action is proved for the process that moves, which leaves the state of the others
alone (`Untouched`); what the invariant says of them is carried over because
they hold no lock (`LockedStep`, `LeavingStep`) and because a scan is local
(`ScanUntouched`). With it, every step is a step of `WholeOrGone` or a stutter, the
interrupts and crashes as a release with whatever the tree was left as.

`ThunksProofs`: type correctness, `DepthIsFrames`, `BlackholeMeansRecursion`,
`OneAnswer` and `StablePtrsAccounted`, for any values, StablePtrs, arena, ceiling
and stack. It goes up in layers, each proved from those below. `CoreInv`: the
payload of a cell is what its state calls for, each frame keeps the number of
calls below it as the depth around it (`DepthInv`, over the four things a step
may do to the stack, `FrameStep`), and a force knows the StablePtr it found.
`ForcingInv`: unused slots are free (`ArenaInv`), only the innermost force can
be between its own steps, and not when an error comes from the code it runs
(`StackInv`), and each force owns its thunk until its value is stored
(`ForceInv`). `StackInv` is what makes the gaps of `forceThunk` harmless for
errors and not for interrupts: an error finds the force inside its handler.
`AnswerInv` follows because a computed cell is not written again (`Settled`) and
its pointer is never handed out anew (`PointsKept`). `OwnInv` names the owner of
each StablePtr: a cell, the innermost force about to release it, or nobody; one
lemma says for each kind of step which owner it changes. Assumed: sizes are
numbers and kinds of values are distinct, as the tags make them.

`AttrSetsProofs`: `SetsInv`, and that `AttrSets` implements `AttrMaps`,
for any keys, values, sizes and limits. `SetsInv` is inductive as the run checks it,
once the type invariant says how arrays and counts go together (`WellFormed`)
and which locals a call can have (`Calls`); without that, a set without
capacity would be a state, and such a set could not grow. The lemmas are in
terms of an array and an interval of it: `Put`, `grow` and the copying of one
entry change one place or none, and keep `Sorted` and `Strictly` elsewhere. The
two halves that are more than bookkeeping are insertion sort with an entry in
its hand (`SiftInv` has a gap at `j`, beyond which all keys are larger) and
`qsort`, whose choice among `Sorting` is an order by key and then by position.

That a set stands for the same map all through its freeze is the other
argument. The map is the last entry of each key among those that are still
there (`LastOf`), and one lemma serves every step of both sorts: entries may
move as long as those of one key keep their order (`Moved`, `MovedLast`). A
shift past a strictly larger key does, a permutation by key and then position
does (it reaches every place because a strictly ordered choice is one to one,
and a one-to-one map of a finite set is onto, `SortingOnto`), and a
deduplication only drops what a later entry hides (`DroppedLast`). Unions and
removals need `SetsInv` and one invariant more, `MergeInv`: the result so far is
what was passed of the right side, and of the left side without the keys of the
whole right side; the order of both sides is what makes the comparison of two
heads decide that.

`EvalArenaProofs`: `FoundAgain` and `TextsKept`, for any strings, any hash
function, capacities, load limit and width of counts. The inductive invariant
`SymbolInv` says that texts lie apart below `textUsed` and differ (`TextInv`),
that the table has an empty slot and the probe for each symbol's hash comes to it
before any (`TableInv`), and of a rebuild in progress that the new table, twice as
large, has so far exactly what the slots passed over held, in the same sense
(`RebuildInv`). An empty slot is there by the pigeonhole principle, since no
symbol has two slots (`EmptySlot`); a probe of as many slots as there are reaches
each of them (`ProbeReaches`), so it ends; and filling the first empty slot of one
probe leaves every other symbol's probe as it was, because it only takes empty
slots away (`TablePut`). That the doubling of the arena ends above what is asked
for is `DoubledEnough`.

`EvalArenaProofs` goes on with `ReadsBack` and `HeapAccounted`. The invariant of
the pages (`MemoryOK`) gives every array and every environment a region of words
below the mark of its page (`Inside`), apart from the arrays made before or after
it (`Apart`), and says what lies there (`Lies`). An allocation is granted only
where nothing lies yet (`IsNew`) and leaves what was there (`Grows`): with the
request compared against what is left of the page, the mark cannot wrap
(`NoWrap`). The regions of with-scopes are shared by the environments made from
one another, so they are only kept clear of the arrays, which are the words that
are written a second time (`fillCSlots`). That environments refer to
older ones alone is what makes the chain of parents end, and with it the search
for the root scope (`ChainExists`, `RootReads`).

Of the heap (`HeapOK`) the invariant says that the formals of a lambda belong to
it alone, that a block is tracked in one place of one class or in the hands of
the constructor, and not both, and of lists (`ListsOK`) that a header covers
what is left of its array from where it starts. `ReadsBack` of lists needs both
invariants: a list drop reads the header of another list, and `ListItems` makes
an array. Before the layer is open there are no pages, so no list can be waiting
for the arrays that `arenaInit` starts anew (`NoMemory`). Assumed: sizes are
natural numbers, a page and an environment fit into what a `uint32_t` counts, and
NULL is no address, no count and no block.

Last, `CodeDecodes`, for any expressions and capacities and wherever the limit of
the short count lies. What an index decodes to depends on its instruction, on the
instructions before it and on its operand words. An append changes none of these
for an index that is there already, however the block grows (`AppendTo`,
`DoubledSize`), so a decoding extends those before it (`DecodingKept`). This is
not inductive without the compiler, which `CompileOK` describes as a stack
machine: each task left takes what its children left on the stack and puts its
expression there, so the tasks lead to the expression asked for (`Ends`); what is
on the stack now decodes already (`Starts`); and the words sent so far are the
beginning of the payload and the end of the buffer (`Sent`), which is why one
compilation at a time is enough for a payload to be contiguous. An instruction
over children that decode then decodes to its expression (`EncodedMeans`), and
abandoning a compilation only drops this. Assumed besides the sizes: the
expressions are trees of the three shapes, and the parts of each are among them
(`ExprsAreTrees`).

Every other theorem assumes nothing but the named assumptions of its modules.
Out of the prover's reach, and with TLC only: liveness
(`WaitingCollectorMovesOn`, `OpenerGetsIn`, `JobEnds`, `RealiseEnds`,
`EveryTransferEnds`), and what recursive definitions compute on all inputs.

## Not modelled

* Hashes, sizes and times in the database: no step decides on them.
* What is in a tree: `whole` stands for the bytes the registration describes,
  `torn` for any other.
* A refused sweep or a refused registration of a build's outputs: neither can
  be reached, since the dead set is closed under referrers while the collector
  is alone, and outputs refer to each other and their inputs' closure. TLC
  would report a deadlock where they could.
* Of transfers: the growth and jitter of the pause between attempts, the
  codecs, the arithmetic of signatures and of body limits, the names the sink
  gives to entries, and the whole-buffer pipeline (`unpackAndVerify`) beside the
  streaming one.
* The deletion of lock files by the collector, and operator-made roots.
* Of the C data layer: the functions that only read a field of a lambda or a
  context, counters for diagnostics, and `nn_winfs.c`, `nn_darwinfs.c`, which are
  calls of the operating system. A second `arenaInit` is not modelled, since
  `Eval/Arena.hs` rules it out. Threads are not, since the layer has one.
* Of evaluation: what code computes, the builtins, source positions, and the
  sixteen expressions whose encoding repeats one of the three modelled.
* The order that `topoSort` computes: its only caller (`buildWithDeps`) keeps
  none of it and asks only whether the graph is acyclic, which `Realise` assumes.
* The parser, encodings and configuration: text to data, which a model value
  replaces.

## Plan

1. `StoreDB`, `GcLease`, `StorePaths`, `GcRoots`, `Realise`, `Transfer`: done.
2. The C data layer, `Thunks`, `AttrSets`, `EvalArena`: done.
3. Proofs: done for the modules of the store and of the C data layer, but for
   liveness.
4. `OutputOrder`: the order in which outputs that refer to each other are
   registered, and the closure a push uploads, against "every path after what it
   refers to".
5. `EvalStore`: writes during evaluation beside a collection; `Push`;
   `BuildLog`; the NAR sink's names (case hack, collisions, links).
