------------------------------- MODULE Thunks -------------------------------
(***************************************************************************)
(* The memoization cells of the evaluator (cbits/nn_thunk.c) and the force *)
(* protocol over them (forceThunk in Nix/Eval/IO.hs): a cell is PENDING,   *)
(* BLACKHOLE while its force is in progress, and COMPUTED for good.        *)
(*                                                                         *)
(* An evaluation is the stack of what it is in the middle of: forces, call *)
(* frames (withCallFrame) and tryEvals (catchEvalError).  What the code of *)
(* a thunk does is a free choice: allocate, force, call, try, throw,       *)
(* return.  Exceptions unwind the stack a frame at a time; an asynchronous *)
(* one may arrive anywhere, the gaps of forceThunk included.               *)
(*                                                                         *)
(* A StablePtr of the GHC runtime is what keeps the environment of a       *)
(* pending cell, and the value of a boxed one, from being collected: each  *)
(* has to be freed once, and never while a cell may still be read through  *)
(* it.                                                                     *)
(***************************************************************************)
EXTENDS Naturals, Sequences, FiniteSets

CONSTANTS Inline,         \* values a cell holds itself (NN_VALUE_INT .. LAMBDA)
          Statics,        \* null, true and false: shared cells outside the arena
          Boxed,          \* values kept behind a StablePtr (NN_VALUE_PTR)
          StablePtrs,     \* the StablePtrs the runtime can hand out
          BlockCapacity,  \* thunks in a block of the arena
          MaxBlocks,      \* blocks malloc can give
          MaxCallDepth,   \* the ceiling of max-call-depth
          MaxStack,       \* bound of the model: frames on the stack
          Env,            \* what the StablePtr of a pending cell points at
          None

ASSUME SizesAreNat == /\ BlockCapacity \in Nat \ {0}
                      /\ MaxBlocks \in Nat \ {0}
                      /\ MaxCallDepth \in Nat
                      /\ MaxStack \in Nat

ASSUME KindsAreDistinct == /\ (Inline \cup Boxed) \cap StablePtrs = {}
                           /\ Inline \cap Boxed = {}
                           /\ Statics \subseteq Inline
                           /\ Env \notin Inline \cup Boxed
                           /\ None \notin Inline \cup Boxed \cup StablePtrs
                           /\ Statics \cap ((1 .. MaxBlocks) \X (1 .. BlockCapacity)) = {}

VARIABLES
  arena,   \* "none" before nn_thunk_init, "live", "gone" after the teardown
  current, \* the newest block ...
  count,   \* ... and the slots used in it; the blocks before it are full
  cells,   \* the thunks, by address; state "free" where none was allocated
  stable,  \* what became of each StablePtr ...
  points,  \* ... and what it points at
  frames,  \* what the evaluation is in the middle of, innermost last
  depth,   \* cdActive: the call frames counted around the evaluation
  raised,  \* the exception that is unwinding the stack
  lost,    \* history: StablePtrs whose owner was refused or interrupted
  answers  \* history: the values that forces of each thunk answered

vars == <<arena, current, count, cells, stable, points, frames, depth,
          raised, lost, answers>>

-----------------------------------------------------------------------------
Values  == Inline \cup Boxed
Addrs   == (1 .. MaxBlocks) \X (1 .. BlockCapacity)
Places  == Addrs \cup Statics     \* a shared cell is named by its value
States  == {"free", "pending", "blackhole", "computed"}
Errors  == {"thrown", "error", "abort"}
Phases  == {"marked", "running", "stored", "leaving"}

\* A cell: its payload is a StablePtr unless it is COMPUTED with an inline tag.
Cell == [state : States, payload : Inline \cup StablePtrs \cup {None}]
Free == [state |-> "free", payload |-> None]

\* The file-scope cells of null, true and false: no arena, no StablePtr.
Untouched == [a \in Places |-> IF a \in Statics
                              THEN [state |-> "computed", payload |-> a] ELSE Free]

Frame == [kind : {"force", "call", "try"}, thunk : Places \cup {None},
          env : StablePtrs \cup {None}, phase : Phases, outer : Nat]

Top == frames[Len(frames)]
Pop(s) == SubSeq(s, 1, Len(s) - 1)

\* Every frame keeps the reader's call depth around it: leaving the frame, by
\* a result or by an exception, puts that depth back (local, runReaderT).
Push(kind, thunk, env, inner) ==
  /\ Len(frames) < MaxStack
  /\ frames' = Append(frames, [kind |-> kind, thunk |-> thunk, env |-> env,
                               phase |-> "marked", outer |-> depth])
  /\ depth' = inner

Leave == /\ frames' = Pop(frames)
         /\ depth' = Top.outer

SetPhase(p) == frames' = [frames EXCEPT ![Len(frames)].phase = p]

\* Code is being evaluated: no exception, and no force between its own steps.
Evaluating ==
  /\ raised = "none"
  /\ frames # << >> => (Top.kind = "force" => Top.phase = "running")

-----------------------------------------------------------------------------
(* The cells and their transitions (cbits/nn_thunk.c).                      *)

\* The slot arena_alloc hands out; none without an arena or without memory.
NextSlot == IF count < BlockCapacity THEN <<current, count + 1>>
                                     ELSE <<current + 1, 1>>
CanAlloc == arena = "live" /\ NextSlot \in Addrs

arena_alloc(cell) ==
  /\ cells' = [cells EXCEPT ![NextSlot] = cell]
  /\ current' = NextSlot[1]
  /\ count' = NextSlot[2]

\* Every walk of the arena goes through the blocks, and through the slots each
\* has in use: all blocks but the newest are full.
Used(a) == a[1] < current \/ (a[1] = current /\ a[2] <= count)

nn_thunk_mark_blackhole(a) ==
  cells' = [cells EXCEPT ![a].state = IF @ = "pending" THEN "blackhole" ELSE @]

\* Never restored: the first exception leaves the thunk a blackhole.
nn_thunk_mark_pending_Never(a) == cells' = cells

nn_thunk_mark_pending(a) ==
  cells' = [cells EXCEPT ![a].state = IF @ = "blackhole" THEN "pending" ELSE @]

\* The force ends like one that threw, and nothing is memoized.
nn_thunk_set_computed_Restored(a, payload) ==
  /\ cells[a].state # "computed"
  /\ cells' = [cells EXCEPT ![a].state = "pending"]

nn_thunk_set_computed(a, payload) ==
  /\ cells[a].state # "computed"
  /\ cells' = [cells EXCEPT ![a] = [state |-> "computed", payload |-> payload]]

\* What a cell owns in the GHC runtime: its payload, unless that is inline.
HoldsStablePtr(cell) ==
  \/ cell.state \in {"pending", "blackhole"}
  \/ cell.state = "computed" /\ cell.payload \in StablePtrs

nn_thunk_collect_stableptrs == {a \in Addrs : Used(a) /\ HoldsStablePtr(cells[a])}

\* The StablePtr the runtime hands out next.
Fresh == CHOOSE p \in StablePtrs : stable[p] = "unused"

newStablePtr(target) ==
  /\ \E p \in StablePtrs : stable[p] = "unused"
  /\ points' = [points EXCEPT ![Fresh] = target]
  /\ stable' = [stable EXCEPT ![Fresh] = "live"]

\* freeStablePtr: a second release of one pointer frees somebody else's.
Freed(p) == IF stable[p] = "live" THEN "freed" ELSE "freed twice"

readComputed(a) == IF cells[a].payload \in StablePtrs THEN points[cells[a].payload]
                                                      ELSE cells[a].payload

-----------------------------------------------------------------------------
(* Allocation: newBcThunkPtr and newComputedThunkPtr make the StablePtr     *)
(* first, and only then ask C for a cell.                                   *)

nn_thunk_new(target) ==
  /\ Evaluating
  /\ newStablePtr(target)
  /\ IF CanAlloc
     THEN /\ arena_alloc([state |-> IF target = Env THEN "pending" ELSE "computed",
                          payload |-> Fresh])
          /\ UNCHANGED <<raised, lost>>
     ELSE /\ raised' = "error"
          /\ lost' = lost \cup {Fresh}
          /\ UNCHANGED <<cells, current, count>>
  /\ UNCHANGED <<arena, frames, depth, answers>>

nn_thunk_new_bc == nn_thunk_new(Env)
nn_thunk_new_computed == \E v \in Boxed : nn_thunk_new(v)

nn_thunk_new_inline(v) ==
  /\ Evaluating
  /\ IF CanAlloc
     THEN /\ arena_alloc([state |-> "computed", payload |-> v])
          /\ UNCHANGED raised
     ELSE /\ raised' = "error"
          /\ UNCHANGED <<cells, current, count>>
  /\ UNCHANGED <<arena, stable, points, frames, depth, lost, answers>>

-----------------------------------------------------------------------------
(* The force protocol (forceThunk).                                         *)

ForceComputed(a) ==
  /\ Evaluating
  /\ cells[a].state = "computed"
  /\ answers' = [answers EXCEPT ![a] = @ \cup {readComputed(a)}]
  /\ UNCHANGED <<arena, current, count, cells, stable, points, frames, depth,
                 raised, lost>>

\* A thunk that is being forced depends on itself: not caught by tryEval.
ForceBlackhole(a) ==
  /\ Evaluating
  /\ cells[a].state = "blackhole"
  /\ raised' = "abort"
  /\ UNCHANGED <<arena, current, count, cells, stable, points, frames, depth,
                 lost, answers>>

ForcePending(a) ==
  /\ Evaluating
  /\ cells[a].state = "pending"
  /\ Push("force", a, cells[a].payload, depth)
  /\ nn_thunk_mark_blackhole(a)
  /\ UNCHANGED <<arena, current, count, stable, points, raised, lost, answers>>

\* Only now does `onException` cthunkMarkPending stand around the evaluation.
RunThunk ==
  /\ raised = "none" /\ frames # << >>
  /\ Top.kind = "force" /\ Top.phase = "marked"
  /\ SetPhase("running")
  /\ UNCHANGED <<arena, current, count, cells, stable, points, depth, raised,
                 lost, answers>>

\* storeComputed, still inside the handler.  A setter that refused would leave
\* the force here for good: it never does (BlackholeMeansRecursion).
StoreInline(v) ==
  /\ Evaluating /\ frames # << >> /\ Top.kind = "force"
  /\ nn_thunk_set_computed(Top.thunk, v)
  /\ answers' = [answers EXCEPT ![Top.thunk] = @ \cup {v}]
  /\ SetPhase("stored")
  /\ UNCHANGED <<arena, current, count, stable, points, depth, raised, lost>>

StoreBoxed(v) ==
  /\ Evaluating /\ frames # << >> /\ Top.kind = "force"
  /\ newStablePtr(v)
  /\ nn_thunk_set_computed(Top.thunk, Fresh)
  /\ answers' = [answers EXCEPT ![Top.thunk] = @ \cup {v}]
  /\ SetPhase("stored")
  /\ UNCHANGED <<arena, current, count, depth, raised, lost>>

\* The handler is gone, the pending environment not yet released.
LeaveHandler ==
  /\ raised = "none" /\ frames # << >>
  /\ Top.kind = "force" /\ Top.phase = "stored"
  /\ SetPhase("leaving")
  /\ UNCHANGED <<arena, current, count, cells, stable, points, depth, raised,
                 lost, answers>>

FreePendingEnv ==
  /\ raised = "none" /\ frames # << >>
  /\ Top.kind = "force" /\ Top.phase = "leaving"
  /\ stable' = [stable EXCEPT ![Top.env] = Freed(Top.env)]
  /\ Leave
  /\ UNCHANGED <<arena, current, count, cells, points, raised, lost, answers>>

-----------------------------------------------------------------------------
(* Calls and tryEval.                                                       *)

withCallFrame ==
  /\ Evaluating
  /\ IF depth > MaxCallDepth
     THEN /\ raised' = "error"
          /\ UNCHANGED <<frames, depth>>
     ELSE /\ Push("call", None, None, depth + 1)
          /\ UNCHANGED raised
  /\ UNCHANGED <<arena, current, count, cells, stable, points, lost, answers>>

catchEvalError ==
  /\ Evaluating
  /\ Push("try", None, None, depth)
  /\ UNCHANGED <<arena, current, count, cells, stable, points, raised, lost,
                 answers>>

\* The call, or the argument of the tryEval, gave its result.
Answer ==
  /\ Evaluating /\ frames # << >> /\ Top.kind # "force"
  /\ Leave
  /\ UNCHANGED <<arena, current, count, cells, stable, points, raised, lost,
                 answers>>

Throw(kind) ==
  /\ Evaluating
  /\ raised' = kind
  /\ UNCHANGED <<arena, current, count, cells, stable, points, frames, depth,
                 lost, answers>>

\* An asynchronous exception between making a StablePtr and giving it to a cell.
InterruptAllocation(target) ==
  /\ Evaluating /\ frames # << >>
  /\ newStablePtr(target)
  /\ lost' = lost \cup {Fresh}
  /\ raised' = "interrupt"
  /\ UNCHANGED <<arena, current, count, cells, frames, depth, answers>>

\* An asynchronous exception, also between the steps of a force.
Interrupt ==
  /\ raised = "none" /\ frames # << >>
  /\ raised' = "interrupt"
  /\ UNCHANGED <<arena, current, count, cells, stable, points, frames, depth,
                 lost, answers>>

-----------------------------------------------------------------------------
(* Unwinding.                                                               *)

\* The environment freed on the way out as well, as a bracket would.
UnwindForce_FreesEnv ==
  /\ raised # "none" /\ frames # << >> /\ Top.kind = "force"
  /\ IF Top.phase \in {"running", "stored"} THEN nn_thunk_mark_pending(Top.thunk)
                                            ELSE UNCHANGED cells
  /\ stable' = [stable EXCEPT ![Top.env] = Freed(Top.env)]
  /\ Leave
  /\ UNCHANGED <<arena, current, count, points, raised, lost, answers>>

\* Inside its handler a force restores the cell.  Before it, the cell stays
\* as it is, and once the value is stored the environment is never freed.
UnwindForce ==
  /\ raised # "none" /\ frames # << >> /\ Top.kind = "force"
  /\ IF Top.phase \in {"running", "stored"} THEN nn_thunk_mark_pending(Top.thunk)
                                            ELSE UNCHANGED cells
  /\ lost' = IF Top.phase \in {"stored", "leaving"} THEN lost \cup {Top.env} ELSE lost
  /\ Leave
  /\ UNCHANGED <<arena, current, count, stable, points, raised, answers>>

\* A counter that only a returning call lowers.
UnwindCall_KeepsDepth ==
  /\ raised # "none" /\ frames # << >> /\ Top.kind = "call"
  /\ frames' = Pop(frames)
  /\ UNCHANGED <<arena, current, count, cells, stable, points, depth, raised,
                 lost, answers>>

UnwindCall ==
  /\ raised # "none" /\ frames # << >> /\ Top.kind = "call"
  /\ Leave
  /\ UNCHANGED <<arena, current, count, cells, stable, points, raised, lost,
                 answers>>

\* tryEval recovers from a throw or a failed assert, and from nothing else.
UnwindTry ==
  /\ raised # "none" /\ frames # << >> /\ Top.kind = "try"
  /\ raised' = IF raised = "thrown" THEN "none" ELSE raised
  /\ Leave
  /\ UNCHANGED <<arena, current, count, cells, stable, points, lost, answers>>

\* runEvalIO reports an error and may evaluate again; an interrupt goes on.
runEvalIO ==
  /\ frames = << >> /\ raised \in Errors
  /\ raised' = "none"
  /\ UNCHANGED <<arena, current, count, cells, stable, points, frames, depth,
                 lost, answers>>

-----------------------------------------------------------------------------
(* The life of the arena.                                                   *)

arenaInit ==
  /\ arena = "none" /\ raised = "none" /\ frames = << >>
  /\ arena' = "live"
  /\ UNCHANGED <<current, count, cells, stable, points, frames, depth, raised,
                 lost, answers>>

\* cleanupStablePtrs frees what the cells hold, then the blocks go.
arenaDestroy ==
  /\ arena = "live" /\ frames = << >> /\ raised \in {"none", "interrupt"}
  /\ stable' = [p \in StablePtrs |->
       LET holders == {a \in nn_thunk_collect_stableptrs : cells[a].payload = p}
       IN  IF holders = {} THEN stable[p]
           ELSE IF Cardinality(holders) = 1 THEN Freed(p) ELSE "freed twice"]
  /\ arena' = "gone"
  /\ cells' = Untouched
  /\ current' = 1
  /\ count' = 0
  /\ UNCHANGED <<points, frames, depth, raised, lost, answers>>

Init ==
  /\ arena = "none" /\ current = 1 /\ count = 0
  /\ cells = Untouched
  /\ stable = [p \in StablePtrs |-> "unused"]
  /\ points = [p \in StablePtrs |-> None]
  /\ frames = << >> /\ depth = 0 /\ raised = "none"
  /\ lost = {}
  /\ answers = [a \in Places |-> {}]

Next ==
  \/ arenaInit \/ arenaDestroy
  \/ nn_thunk_new_bc \/ nn_thunk_new_computed
  \/ \E v \in Inline \ Statics : nn_thunk_new_inline(v)
  \/ \E v \in Inline : StoreInline(v)
  \/ \E v \in Boxed : StoreBoxed(v)
  \/ \E a \in Places : ForceComputed(a) \/ ForceBlackhole(a) \/ ForcePending(a)
  \/ RunThunk \/ LeaveHandler \/ FreePendingEnv
  \/ withCallFrame \/ catchEvalError \/ Answer
  \/ \E kind \in Errors : Throw(kind)
  \/ Interrupt \/ \E t \in Boxed \cup {Env} : InterruptAllocation(t)
  \/ UnwindForce \/ UnwindCall \/ UnwindTry \/ runEvalIO

Spec == Init /\ [][Next]_vars

-----------------------------------------------------------------------------
TypeOK ==
  /\ arena \in {"none", "live", "gone"}
  /\ current \in 1 .. MaxBlocks /\ count \in 0 .. BlockCapacity
  /\ cells \in [Places -> Cell]
  /\ stable \in [StablePtrs -> {"unused", "live", "freed", "freed twice"}]
  /\ points \in [StablePtrs -> Values \cup {Env, None}]
  /\ frames \in Seq(Frame) /\ Len(frames) <= MaxStack
  /\ depth \in Nat
  /\ raised \in Errors \cup {"none", "interrupt"}
  /\ lost \subseteq StablePtrs
  /\ answers \in [Places -> SUBSET Values]

\* The force of frame i has not stored its value.
Forcing(i) == frames[i].kind = "force" /\ frames[i].phase \in {"marked", "running"}

\* "infinite recursion encountered" is true: a thunk is a blackhole just while
\* a force of it is on the stack, and only one is, whatever was thrown and
\* caught before.  After an interrupt, which nothing catches, one may stay.
BlackholeMeansRecursion ==
  /\ \A i \in DOMAIN frames : Forcing(i) => cells[frames[i].thunk].state = "blackhole"
  /\ \A i, j \in DOMAIN frames :
       Forcing(i) /\ Forcing(j) /\ frames[i].thunk = frames[j].thunk => i = j
  /\ \A a \in Places : cells[a].state = "blackhole" /\ raised # "interrupt" =>
       \E i \in DOMAIN frames : Forcing(i) /\ frames[i].thunk = a

\* Memoization: however often a thunk is forced, and whatever its code would
\* yield the next time, one value is ever answered for it.
OneAnswer == \A a \in Places : \A v, w \in answers[a] : v = w

\* Who answers for StablePtr p: a cell, a force about to free it, or nobody.
CellsOwning(p)  == {a \in Places : HoldsStablePtr(cells[a]) /\ cells[a].payload = p}
ForcesOwning(p) == {i \in DOMAIN frames : /\ frames[i].kind = "force"
                                          /\ frames[i].phase \in {"stored", "leaving"}
                                          /\ frames[i].env = p}
Owners(p) == ({"cell"} \X CellsOwning(p)) \cup ({"force"} \X ForcesOwning(p))
               \cup (IF p \in lost THEN {<<"nobody">>} ELSE {})

\* No StablePtr is freed twice, read through a cell after it was freed, or
\* forgotten: the live ones are those with one owner, and after the teardown
\* only those are left whose allocation C refused or whose force an
\* interrupt took away.
StablePtrsAccounted ==
  /\ \A p \in StablePtrs : stable[p] # "freed twice"
  /\ \A p \in StablePtrs : stable[p] = "live" <=> Cardinality(Owners(p)) = 1
  /\ \A p \in StablePtrs : stable[p] # "live" => Owners(p) = {}
  /\ arena = "gone" /\ frames = << >> => \A p \in StablePtrs : stable[p] = "live" <=> p \in lost

\* The count behind "max-call-depth exceeded" is the number of calls the
\* evaluation is in, whichever of them ended by an exception that a tryEval
\* recovered from.
DepthIsFrames == depth = Cardinality({i \in DOMAIN frames : frames[i].kind = "call"})

=============================================================================
