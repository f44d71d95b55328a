----------------------------- MODULE StorePaths -----------------------------
(***************************************************************************)
(* The store as its processes share it: the rows of the database, the      *)
(* trees on disk, the lock file beside each path and the lease on the      *)
(* collector lock.  Every process runs one command: it opens the store,    *)
(* does jobs one after another and closes it.  The jobs are those of the   *)
(* code that produce, register or remove store paths:                      *)
(*                                                                         *)
(*   build       Nix.Builder: outputs of one derivation, built in place    *)
(*   substitute  Nix.Builder.substitutePaths over Nix.Substituter          *)
(*   sources     Nix.Store.materializeEvalSources                          *)
(*   writes      Nix.Store.materializeEvalStoreWrites                      *)
(*   drvs        Nix.Store.writeDrvClosure                                 *)
(*   delete      Nix.Store.deleteStorePathChecked, under withLiveSet       *)
(*   collect     Nix.Store.GC.collectGarbage                               *)
(*                                                                         *)
(* A tree is "absent", "torn" (some of it, or the wrong bytes) or "whole". *)
(* The collector lock appears as GcLease proves it to behave.  A process   *)
(* may be interrupted (its handlers run) or crash (they do not).           *)
(***************************************************************************)
EXTENDS StoreDB

CONSTANTS
  Procs,               \* The processes.
  NoProc,              \* Stands for no process.
  Jobs,                \* Records [kind, paths, inputs]: the jobs there are to do.
  NoJob,               \* Stands for no job.
  References,          \* The references a registration of each path declares.
  OutLinks,            \* The paths that users make out-links to.
  InterruptHitsCommit  \* Whether an interrupt can be delivered after the
                       \* registration of a build committed and before the
                       \* build notes that it did.

Kinds == {"build", "substitute", "sources", "writes", "drvs", "delete", "collect"}

ASSUME PathsAssumption == Paths \subseteq Nat
ASSUME ProcsAssumption == NoProc \notin Procs
ASSUME JobsAssumption ==
  /\ Jobs \subseteq [kind : Kinds, paths : SUBSET Paths, inputs : SUBSET Paths]
  /\ NoJob \notin Jobs
ASSUME ReferencesAssumption == References \in [Paths -> SUBSET Paths]
ASSUME OutLinksAssumption == OutLinks \subseteq Paths
ASSUME InterruptAssumption == InterruptHitsCommit \in BOOLEAN

VARIABLES
  tree,      \* What is on disk at each store path.
  holder,    \* The process that holds each path's lock file, or NoProc.
  roots,     \* The paths that garbage-collector roots name.
  lease,     \* Each process's hold on the collector lock.
  pc, job,   \* Where each process is, and in which job.
  todo,      \* The paths of the job it has not come to yet.
  made,      \* The paths whose trees it placed and has still to register.
  missed,    \* Whether a path of its substitution did not arrive.
  relied     \* History: the paths it saw valid or registered since it
             \* opened the store, or since its own last collection.

fileVars == <<tree, holder, roots>>
procVars == <<lease, pc, job, todo, made, missed, relied>>
vars == <<validPaths, refsTable, tree, holder, roots, lease, pc, job, todo, made, missed, relied>>

Places == {"out", "idle", "gone", "release",
           "lockOutputs", "runBuilder", "builderRuns", "registerOutputs", "committed",
           "lockNext", "recheck", "stream", "unpack", "registerOne",
           "writeDrv", "drvOpen", "registerBatch",
           "swap", "collector", "marked", "sweep", "renew"}

TypeOK ==
  /\ DBTypeOK
  /\ tree \in [Paths -> {"absent", "torn", "whole"}]
  /\ holder \in [Paths -> Procs \cup {NoProc}]
  /\ roots \subseteq Paths
  /\ lease \in [Procs -> {"none", "shared", "exclusive"}]
  /\ pc \in [Procs -> Places]
  /\ job \in [Procs -> Jobs \cup {NoJob}]
  /\ todo \in [Procs -> SUBSET Paths]
  /\ made \in [Procs -> SUBSET Paths]
  /\ missed \in [Procs -> BOOLEAN]
  /\ relied \in [Procs -> SUBSET Paths]

\* An earlier run may have left any tree behind without a row.
Init ==
  /\ openStoreDB
  /\ tree \in [Paths -> {"absent", "torn", "whole"}]
  /\ holder = [path \in Paths |-> NoProc]
  /\ roots = {}
  /\ lease = [p \in Procs |-> "none"]
  /\ pc = [p \in Procs |-> "out"]
  /\ job = [p \in Procs |-> NoJob]
  /\ todo = [p \in Procs |-> {}]
  /\ made = [p \in Procs |-> {}]
  /\ missed = [p \in Procs |-> FALSE]
  /\ relied = [p \in Procs |-> {}]

-----------------------------------------------------------------------------
(* Common parts.                                                           *)

Goto(p, from, to) == pc[p] = from /\ pc' = [pc EXCEPT ![p] = to]

\* Mutant: paths are taken in each caller's own order.
NextInOrder_Any(path, paths) == path \in paths

\* lockOrder: locks are taken in ascending order of the paths.
NextInOrder(path, paths) == path \in paths /\ \A other \in paths : path <= other

Put(paths, state) == tree' = [path \in Paths |-> IF path \in paths THEN state ELSE tree[path]]

\* Mutant: a lock file that is there is taken for a stale one.
TakeLock_NoWait(p, path) == path \in Paths /\ holder' = [holder EXCEPT ![path] = p]

\* acquirePathLock: waits without a limit.
TakeLock(p, path) == holder[path] = NoProc /\ holder' = [holder EXCEPT ![path] = p]

Unlock(paths) == holder' = [path \in Paths |-> IF path \in paths THEN NoProc ELSE holder[path]]

Held(p) == {path \in Paths : holder[path] = p}

\* One registration for each path, with the references it declares.
Registrations(paths) == [path \in paths |-> [prPath |-> path, prReferences |-> References[path]]]

Rely(p, paths) == relied' = [relied EXCEPT ![p] = @ \cup paths]

OutputsOf(p) == job[p].paths

-----------------------------------------------------------------------------
(* The command: open, jobs, close (openStore, closeStore; GcLease has the  *)
(* steps of both).                                                         *)

openStore(p) ==
  /\ Goto(p, "out", "idle")
  /\ \A other \in Procs : lease[other] # "exclusive"
  /\ lease' = [lease EXCEPT ![p] = "shared"]
  /\ UNCHANGED <<dbVars, fileVars, job, todo, made, missed, relied>>

closeStore(p) ==
  /\ Goto(p, "idle", "gone")
  /\ lease' = [lease EXCEPT ![p] = "none"]
  /\ relied' = [relied EXCEPT ![p] = {}]
  /\ UNCHANGED <<dbVars, fileVars, job, todo, made, missed>>

FirstPlace(kind) ==
  CASE kind = "build" -> "lockOutputs"
    [] kind \in {"substitute", "sources", "writes"} -> "lockNext"
    [] kind = "drvs" -> "writeDrv"
    [] OTHER -> "swap"

StartJob(p, j) ==
  /\ Goto(p, "idle", FirstPlace(j.kind))
  /\ job' = [job EXCEPT ![p] = j]
  /\ todo' = [todo EXCEPT ![p] = j.paths]
  /\ lease' = [lease EXCEPT ![p] = IF FirstPlace(j.kind) = "swap" THEN "none" ELSE @]
  /\ relied' = [relied EXCEPT ![p] = IF FirstPlace(j.kind) = "swap" THEN {} ELSE @]
  /\ UNCHANGED <<dbVars, fileVars, made, missed>>

\* The finally of the job: every lock it still holds is released.
EndJob(p) ==
  /\ Goto(p, "release", "idle")
  /\ Unlock(Held(p))
  /\ job' = [job EXCEPT ![p] = NoJob]
  /\ todo' = [todo EXCEPT ![p] = {}]
  /\ made' = [made EXCEPT ![p] = {}]
  /\ missed' = [missed EXCEPT ![p] = FALSE]
  /\ UNCHANGED <<dbVars, tree, roots, lease, relied>>

\* addOutLinkRoot of a path the open handle built or found; GcRoots has the
\* steps.  The operator may drop a root at any time.
AddRoot(p, path) ==
  /\ pc[p] = "idle"
  /\ path \in OutLinks \cap relied[p]
  /\ roots' = roots \cup {path}
  /\ UNCHANGED <<dbVars, tree, holder, procVars>>

DropRoot(path) ==
  /\ roots' = roots \ {path}
  /\ path \in roots
  /\ UNCHANGED <<dbVars, tree, holder, procVars>>

-----------------------------------------------------------------------------
(* build: buildDerivationInner.                                            *)

\* withOutputLocks: every output's lock, in lockOrder.
LockOutput(p, path) ==
  /\ pc[p] = "lockOutputs"
  /\ NextInOrder(path, todo[p])
  /\ TakeLock(p, path)
  /\ todo' = [todo EXCEPT ![p] = @ \ {path}]
  /\ UNCHANGED <<dbVars, tree, roots, lease, pc, job, made, missed, relied>>

\* allOutputsValid, asked again under the locks: another process finished
\* the derivation, whose outputs are adopted.
AdoptOutputs(p) ==
  /\ Goto(p, "lockOutputs", "release")
  /\ todo[p] = {}
  /\ OutputsOf(p) \subseteq validPaths
  /\ Rely(p, OutputsOf(p))
  /\ UNCHANGED <<dbVars, fileVars, lease, job, todo, made, missed>>

\* validateInputs: an input without a row fails the build.
RefuseInputs(p) ==
  /\ Goto(p, "lockOutputs", "release")
  /\ todo[p] = {}
  /\ ~ OutputsOf(p) \subseteq validPaths
  /\ ~ job[p].inputs \subseteq validPaths
  /\ UNCHANGED <<dbVars, fileVars, lease, job, todo, made, missed, relied>>

\* outputPlan and clearScratch: a valid output is built at a scratch path of
\* its own and left alone; what an earlier run left at the others goes.
PlanBuild(p) ==
  LET missing == OutputsOf(p) \ validPaths IN
  /\ Goto(p, "lockOutputs", "runBuilder")
  /\ todo[p] = {}
  /\ missing # {}
  /\ job[p].inputs \subseteq validPaths
  /\ made' = [made EXCEPT ![p] = missing]
  /\ Put(missing, "absent")
  /\ Rely(p, job[p].inputs)
  /\ UNCHANGED <<dbVars, holder, roots, lease, job, todo, missed>>

\* The builder writes some of the outputs; todo keeps those it omits.
RunBuilder(p) ==
  /\ Goto(p, "runBuilder", "builderRuns")
  /\ \E written \in SUBSET made[p] :
       /\ Put(written, "torn")
       /\ todo' = [todo EXCEPT ![p] = made[p] \ written]
  /\ UNCHANGED <<dbVars, holder, roots, lease, job, made, missed, relied>>

BuilderSucceeds(p) ==
  /\ Goto(p, "builderRuns", "registerOutputs")
  /\ todo[p] = {}
  /\ Put(made[p], "whole")
  /\ UNCHANGED <<dbVars, holder, roots, lease, job, todo, made, missed, relied>>

\* A failed builder, a missing output, a reference cycle or a fixed output
\* with other content: clearScratch.
BuildFails(p) ==
  /\ \/ Goto(p, "builderRuns", "release")
     \/ Goto(p, "registerOutputs", "release")
  /\ Put(made[p], "absent")
  /\ made' = [made EXCEPT ![p] = {}]
  /\ UNCHANGED <<dbVars, holder, roots, lease, job, todo, missed, relied>>

\* All outputs in one transaction.
RegisterOutputs(p) ==
  /\ Goto(p, "registerOutputs", "committed")
  /\ registerPaths(Registrations(made[p]))
  /\ Rely(p, made[p])
  /\ UNCHANGED <<fileVars, lease, job, todo, made, missed>>

\* committed := True; only the redirected copies of valid outputs go.
NoteCommitted(p) ==
  /\ Goto(p, "committed", "release")
  /\ made' = [made EXCEPT ![p] = {}]
  /\ UNCHANGED <<dbVars, fileVars, lease, job, todo, missed, relied>>

-----------------------------------------------------------------------------
(* substitute, sources, writes: one path at a time under its lock.         *)

LockNext(p, path) ==
  /\ Goto(p, "lockNext", "recheck")
  /\ NextInOrder(path, todo[p])
  /\ TakeLock(p, path)
  /\ UNCHANGED <<dbVars, tree, roots, lease, job, todo, made, missed, relied>>

\* The path of the loop that p is at.
At(p, path) == path \in todo[p] /\ holder[path] = p

\* Done with a path: release its lock and go to the next.
PassOver(p, path) ==
  /\ Unlock({path})
  /\ todo' = [todo EXCEPT ![p] = @ \ {path}]

\* Valid by the time the lock was granted: adopted, never redone.
AdoptPath(p, path) ==
  /\ Goto(p, "recheck", "lockNext")
  /\ At(p, path)
  /\ path \in validPaths
  /\ PassOver(p, path)
  /\ Rely(p, {path})
  /\ UNCHANGED <<dbVars, tree, roots, lease, job, made, missed>>

\* Mutant: validity was checked before the lock was waited for.
ClearStale_Unchecked(p, path) ==
  /\ Goto(p, "recheck", "stream")
  /\ At(p, path)
  /\ job[p].kind \in {"substitute", "sources"}
  /\ Put({path}, "absent")
  /\ UNCHANGED <<dbVars, holder, roots, lease, job, todo, made, missed, relied>>

\* clearStaleDestination, and the removal of a source tree that does not
\* reproduce its path.
ClearStale(p, path) ==
  /\ Goto(p, "recheck", "stream")
  /\ At(p, path)
  /\ path \notin validPaths
  /\ \/ job[p].kind = "substitute"
     \/ job[p].kind = "sources" /\ tree[path] # "whole"
  /\ Put({path}, "absent")
  /\ UNCHANGED <<dbVars, holder, roots, lease, job, todo, made, missed, relied>>

\* No cache offers the path: nothing on disk is touched.
NotOffered(p, path) ==
  /\ Goto(p, "recheck", "lockNext")
  /\ At(p, path)
  /\ job[p].kind = "substitute"
  /\ path \notin validPaths
  /\ PassOver(p, path)
  /\ missed' = [missed EXCEPT ![p] = TRUE]
  /\ UNCHANGED <<dbVars, tree, roots, lease, job, made, relied>>

\* The NAR streams into the store path.
Stream(p, path) ==
  /\ Goto(p, "stream", "unpack")
  /\ At(p, path)
  /\ Put({path}, "torn")
  /\ UNCHANGED <<dbVars, holder, roots, lease, job, todo, made, missed, relied>>

\* A transfer or a check failed, and another attempt or cache is left.
AttemptFails(p, path) ==
  /\ Goto(p, "unpack", "stream")
  /\ job[p].kind = "substitute"
  /\ At(p, path)
  /\ Put({path}, "absent")
  /\ UNCHANGED <<dbVars, holder, roots, lease, job, todo, made, missed, relied>>

\* Unpacked, sealed and checked again on disk.  A substituted path keeps its
\* lock until the batch registers.
Arrive(p, path) ==
  /\ At(p, path)
  /\ Put({path}, "whole")
  /\ made' = [made EXCEPT ![p] = @ \cup {path}]
  /\ \/ /\ job[p].kind = "substitute"
        /\ Goto(p, "unpack", "lockNext")
        /\ todo' = [todo EXCEPT ![p] = @ \ {path}]
     \/ /\ job[p].kind = "sources"
        /\ Goto(p, "unpack", "registerOne")
        /\ UNCHANGED todo
  /\ UNCHANGED <<dbVars, holder, roots, lease, job, missed, relied>>

\* The last attempt failed: the tree is removed and the lock released.  The
\* other paths of a substitution are still tried.
Miss(p, path) ==
  /\ pc[p] = "unpack"
  /\ At(p, path)
  /\ Put({path}, "absent")
  /\ PassOver(p, path)
  /\ pc' = [pc EXCEPT ![p] = IF job[p].kind = "substitute" THEN "lockNext" ELSE "release"]
  /\ missed' = [missed EXCEPT ![p] = TRUE]
  /\ UNCHANGED <<dbVars, roots, lease, job, made, relied>>

\* A source tree found on disk that reproduces its path is adopted as it is.
AdoptTree(p, path) ==
  /\ Goto(p, "recheck", "registerOne")
  /\ At(p, path)
  /\ job[p].kind = "sources"
  /\ path \notin validPaths
  /\ tree[path] = "whole"
  /\ made' = [made EXCEPT ![p] = {path}]
  /\ UNCHANGED <<dbVars, fileVars, lease, job, todo, missed, relied>>

\* A source registers at once, its lock still held.
RegisterSource(p, path) ==
  /\ Goto(p, "registerOne", "lockNext")
  /\ At(p, path)
  /\ registerPaths([i \in {path} |-> [prPath |-> path, prReferences |-> {}]])
  /\ PassOver(p, path)
  /\ made' = [made EXCEPT ![p] = {}]
  /\ Rely(p, {path})
  /\ UNCHANGED <<tree, roots, lease, job, missed>>

\* prepare, for what evaluation wrote: nothing on disk is skipped, other
\* bytes than the path names are refused, and the lock is released before
\* the batch registers.
SkipWrite(p, path) ==
  /\ Goto(p, "recheck", "lockNext")
  /\ At(p, path)
  /\ job[p].kind = "writes"
  /\ path \notin validPaths
  /\ tree[path] = "absent"
  /\ PassOver(p, path)
  /\ UNCHANGED <<dbVars, tree, roots, lease, job, made, missed, relied>>

RefuseWrite(p, path) ==
  /\ Goto(p, "recheck", "release")
  /\ At(p, path)
  /\ job[p].kind = "writes"
  /\ path \notin validPaths
  /\ tree[path] = "torn"
  /\ UNCHANGED <<dbVars, fileVars, lease, job, todo, made, missed, relied>>

PrepareWrite(p, path) ==
  /\ Goto(p, "recheck", "lockNext")
  /\ At(p, path)
  /\ job[p].kind = "writes"
  /\ path \notin validPaths
  /\ tree[path] = "whole"
  /\ PassOver(p, path)
  /\ made' = [made EXCEPT ![p] = @ \cup {path}]
  /\ UNCHANGED <<dbVars, tree, roots, lease, job, missed, relied>>

\* Every path was tried.  A substitution one path of which did not arrive
\* registers nothing, and a source is registered by now.
LoopDone(p) ==
  /\ Goto(p, "lockNext", IF missed[p] \/ job[p].kind = "sources" THEN "release" ELSE "registerBatch")
  /\ todo[p] = {}
  /\ UNCHANGED <<dbVars, fileVars, lease, job, todo, made, missed, relied>>

RegisterBatch(p) ==
  /\ Goto(p, "registerBatch", "release")
  /\ registerPaths(Registrations(made[p]))
  /\ Rely(p, made[p])
  /\ UNCHANGED <<fileVars, lease, job, todo, made, missed>>

\* The batch names a reference that has no row: nothing is recorded, the
\* trees stay on disk without one.  (A build cannot get here: its outputs
\* refer to each other and to the closure of its inputs.)
RegisterRefused(p) ==
  /\ Goto(p, "registerBatch", "release")
  /\ registerPathsRefused(Registrations(made[p]))
  /\ UNCHANGED <<fileVars, lease, job, todo, made, missed, relied>>

-----------------------------------------------------------------------------
(* drvs: writeDrvClosure, without a lock and without asking for validity.  *)

OpenDrv(p, path) ==
  /\ Goto(p, "writeDrv", "drvOpen")
  /\ NextInOrder(path, todo[p])
  /\ Put({path}, "torn")
  /\ UNCHANGED <<dbVars, holder, roots, lease, job, todo, made, missed, relied>>

FinishDrv(p, path) ==
  /\ Goto(p, "drvOpen", "writeDrv")
  /\ NextInOrder(path, todo[p])
  /\ Put({path}, "whole")
  /\ made' = [made EXCEPT ![p] = @ \cup {path}]
  /\ todo' = [todo EXCEPT ![p] = @ \ {path}]
  /\ UNCHANGED <<dbVars, holder, roots, lease, job, missed, relied>>

DrvsDone(p) ==
  /\ Goto(p, "writeDrv", "registerBatch")
  /\ todo[p] = {}
  /\ UNCHANGED <<dbVars, fileVars, lease, job, todo, made, missed, relied>>

-----------------------------------------------------------------------------
(* delete, collect: under the exclusive collector lock.                    *)

\* reachableFrom: the least set with the roots in it and closed under the
\* references of its members.
ClosedUnderRefs(paths) == \A path \in paths : queryReferences(path) \subseteq paths

Live ==
  {path \in Paths :
     \A closed \in SUBSET Paths :
       roots \cap validPaths \subseteq closed /\ ClosedUnderRefs(closed) => path \in closed}

\* Mutant: the exclusive lock is granted beside a shared lease.
TakeCollectorLock_Shared(p) ==
  /\ Goto(p, "swap", "collector")
  /\ \A other \in Procs : lease[other] # "exclusive"
  /\ lease' = [lease EXCEPT ![p] = "exclusive"]
  /\ UNCHANGED <<dbVars, fileVars, job, todo, made, missed, relied>>

TakeCollectorLock(p) ==
  /\ Goto(p, "swap", "collector")
  /\ \A other \in Procs : lease[other] = "none"
  /\ lease' = [lease EXCEPT ![p] = "exclusive"]
  /\ UNCHANGED <<dbVars, fileVars, job, todo, made, missed, relied>>

\* findRoots, queryAllReferences: what is dead at this moment, of the whole
\* store or of the paths to delete.
MarkDead(p) ==
  /\ Goto(p, "collector", "marked")
  /\ todo' = [todo EXCEPT ![p] = (IF job[p].kind = "collect" THEN Paths ELSE job[p].paths) \ Live]
  /\ UNCHANGED <<dbVars, fileVars, lease, job, made, missed, relied>>

\* unregisterPathRows: every dead row at once.  Its referrer check never
\* refuses here, or the collector would be stuck.
UnregisterDead(p) ==
  /\ Goto(p, "marked", "sweep")
  /\ job[p].kind = "collect"
  /\ unregisterPathRows(validPaths \cap todo[p])
  /\ UNCHANGED <<fileVars, lease, job, todo, made, missed, relied>>

\* deleteStorePathChecked: the row first, under the path's lock, then the
\* tree.  A tree without a row is deleted too.
DeleteRow(p, path) ==
  /\ Goto(p, "marked", "sweep")
  /\ job[p].kind = "delete"
  /\ path \in todo[p]
  /\ TakeLock(p, path)
  /\ \/ unregisterPathRow(path)
     \/ path \notin validPaths /\ UNCHANGED dbVars
  /\ UNCHANGED <<tree, roots, lease, job, todo, made, missed, relied>>

\* RowReferenced: another valid path refers to it.
DeleteRefused(p, path) ==
  /\ pc[p] = "marked"
  /\ job[p].kind = "delete"
  /\ path \in todo[p] \cap validPaths
  /\ unregisterPathRowRefused(path)
  /\ todo' = [todo EXCEPT ![p] = @ \ {path}]
  /\ UNCHANGED <<fileVars, lease, pc, job, made, missed, relied>>

\* The path whose tree is being removed.
Doomed(p, path) ==
  /\ pc[p] = "sweep"
  /\ IF job[p].kind = "collect" THEN NextInOrder(path, todo[p]) ELSE holder[path] = p

\* removePathForcibly takes a tree apart before it is gone.
TearTree(p, path) ==
  /\ Doomed(p, path)
  /\ tree[path] = "whole"
  /\ Put({path}, "torn")
  /\ UNCHANGED <<dbVars, holder, roots, procVars>>

RemoveTree(p, path) ==
  /\ Doomed(p, path)
  /\ tree[path] # "whole"
  /\ Put({path}, "absent")
  /\ PassOver(p, path)
  /\ pc' = [pc EXCEPT ![p] = IF job[p].kind = "collect" THEN "sweep" ELSE "marked"]
  /\ UNCHANGED <<dbVars, roots, lease, job, made, missed, relied>>

SweepDone(p) ==
  /\ pc[p] \in {"marked", "sweep"}
  /\ pc[p] = "sweep" <=> job[p].kind = "collect"
  /\ todo[p] = {}
  /\ pc' = [pc EXCEPT ![p] = "renew"]
  /\ UNCHANGED <<dbVars, fileVars, lease, job, todo, made, missed, relied>>

\* The exclusive lock goes, and a fresh shared lease is taken.
DropCollectorLock(p) ==
  /\ pc[p] = "renew"
  /\ lease[p] = "exclusive"
  /\ lease' = [lease EXCEPT ![p] = "none"]
  /\ UNCHANGED <<dbVars, fileVars, pc, job, todo, made, missed, relied>>

RenewLease(p) ==
  /\ Goto(p, "renew", "release")
  /\ lease[p] = "none"
  /\ \A other \in Procs : lease[other] # "exclusive"
  /\ lease' = [lease EXCEPT ![p] = "shared"]
  /\ UNCHANGED <<dbVars, fileVars, job, todo, made, missed, relied>>

-----------------------------------------------------------------------------
(* Interrupts and crashes.                                                 *)

\* What the exception handlers on the way out remove: cleanupUnlessCommitted
\* of a build, the destination of a transfer or of a restore.
Discarded(p) ==
  CASE pc[p] \in {"runBuilder", "builderRuns", "registerOutputs"} -> made[p]
    [] pc[p] = "committed" -> IF InterruptHitsCommit THEN made[p] ELSE {}
    [] pc[p] \in {"stream", "unpack"} -> {path \in Paths : At(p, path)}
    [] OTHER -> {}

UnderCollectorLock == {"swap", "collector", "marked", "sweep"}

Interruptible == {"lockOutputs", "runBuilder", "builderRuns", "registerOutputs", "committed",
                  "lockNext", "recheck", "stream", "unpack", "registerOne", "registerBatch",
                  "writeDrv", "drvOpen"} \cup UnderCollectorLock

\* The job ends early: its handlers run, its brackets release what it holds.
Interrupt(p) ==
  /\ pc[p] \in Interruptible
  /\ pc' = [pc EXCEPT ![p] = IF pc[p] \in UnderCollectorLock THEN "renew" ELSE "release"]
  /\ Put(Discarded(p), "absent")
  /\ IF pc[p] \in UnderCollectorLock THEN Unlock(Held(p)) ELSE UNCHANGED holder
  /\ made' = [made EXCEPT ![p] = {}]
  /\ UNCHANGED <<dbVars, roots, lease, job, todo, missed, relied>>

\* The process ends at once: its descriptors close, nothing else is undone.
Crash(p) ==
  /\ pc[p] \notin {"out", "gone"}
  /\ pc' = [pc EXCEPT ![p] = "gone"]
  /\ lease' = [lease EXCEPT ![p] = "none"]
  /\ Unlock(Held(p))
  /\ job' = [job EXCEPT ![p] = NoJob]
  /\ todo' = [todo EXCEPT ![p] = {}]
  /\ made' = [made EXCEPT ![p] = {}]
  /\ missed' = [missed EXCEPT ![p] = FALSE]
  /\ relied' = [relied EXCEPT ![p] = {}]
  /\ UNCHANGED <<dbVars, tree, roots>>

AllGone == (\A p \in Procs : pc[p] = "gone") /\ UNCHANGED vars

-----------------------------------------------------------------------------
BuildStep(p) ==
  \/ \E path \in Paths : LockOutput(p, path)
  \/ AdoptOutputs(p) \/ RefuseInputs(p) \/ PlanBuild(p)
  \/ RunBuilder(p) \/ BuilderSucceeds(p) \/ BuildFails(p)
  \/ RegisterOutputs(p) \/ NoteCommitted(p)

LoopStep(p) ==
  \/ \E path \in Paths :
       \/ LockNext(p, path) \/ AdoptPath(p, path)
       \/ NotOffered(p, path) \/ ClearStale(p, path) \/ Stream(p, path)
       \/ AttemptFails(p, path) \/ Arrive(p, path) \/ Miss(p, path)
       \/ AdoptTree(p, path) \/ RegisterSource(p, path)
       \/ SkipWrite(p, path) \/ RefuseWrite(p, path) \/ PrepareWrite(p, path)
  \/ LoopDone(p) \/ RegisterBatch(p) \/ RegisterRefused(p)

DrvStep(p) ==
  \/ \E path \in Paths : OpenDrv(p, path) \/ FinishDrv(p, path)
  \/ DrvsDone(p)

CollectorStep(p) ==
  \/ TakeCollectorLock(p) \/ MarkDead(p) \/ UnregisterDead(p)
  \/ \E path \in Paths :
       DeleteRow(p, path) \/ DeleteRefused(p, path) \/ TearTree(p, path) \/ RemoveTree(p, path)
  \/ SweepDone(p) \/ DropCollectorLock(p) \/ RenewLease(p)

\* A step of p's own thread, with a job under way.
JobStep(p) == BuildStep(p) \/ LoopStep(p) \/ DrvStep(p) \/ CollectorStep(p) \/ EndJob(p)

Next ==
  \/ \E p \in Procs :
       \/ openStore(p) \/ closeStore(p) \/ JobStep(p)
       \/ \E j \in Jobs : StartJob(p, j)
       \/ \E path \in Paths : AddRoot(p, path)
       \/ Interrupt(p) \/ Crash(p)
  \/ \E path \in Paths : DropRoot(path)
  \/ AllGone

Spec == Init /\ [][Next]_vars

(***************************************************************************)
(* A process goes on while it can, a builder and a transfer end, one way   *)
(* or the other.  A command has finitely many jobs, so that it closes the  *)
(* store if it can again and again, and a substitution has finitely many   *)
(* caches and attempts.  Opening, starting, failing, interrupting and      *)
(* crashing are never forced.                                              *)
(***************************************************************************)
Fairness ==
  \A p \in Procs :
    /\ WF_vars(JobStep(p))
    /\ SF_vars(closeStore(p))
    /\ SF_vars(\E path \in Paths : Arrive(p, path) \/ Miss(p, path))

FairSpec == Spec /\ Fairness

-----------------------------------------------------------------------------
(* What each place of a process implies, over every kind of job that keeps *)
(* to the locks: the inductive invariant of StoreProofs.                   *)

BuildPlaces == {"lockOutputs", "runBuilder", "builderRuns", "registerOutputs", "committed"}

LoopPlaces == {"lockNext", "recheck", "stream", "unpack", "registerOne", "registerBatch"}

JobByPlace(p) ==
  /\ pc[p] \notin {"writeDrv", "drvOpen"}
  /\ pc[p] \in BuildPlaces \cup LoopPlaces \cup UnderCollectorLock => job[p] \in Jobs
  /\ pc[p] \in BuildPlaces => job[p].kind = "build"
  /\ pc[p] \in {"lockNext", "recheck"} => job[p].kind \in {"substitute", "sources", "writes"}
  /\ pc[p] \in {"stream", "unpack"} => job[p].kind \in {"substitute", "sources"}
  /\ pc[p] = "registerOne" => job[p].kind = "sources"
  /\ pc[p] = "registerBatch" => job[p].kind \in {"substitute", "writes"}
  /\ pc[p] \in UnderCollectorLock => job[p].kind \in {"delete", "collect"}
  /\ pc[p] \in BuildPlaces \cup LoopPlaces => todo[p] \cup made[p] \subseteq job[p].paths
  /\ pc[p] \in {"out", "idle"} => made[p] = {}

LeaseByPlace(p) ==
  /\ pc[p] \in {"out", "gone", "swap"} => lease[p] = "none"
  /\ pc[p] \in {"collector", "marked", "sweep"} => lease[p] = "exclusive"
  /\ pc[p] = "renew" => lease[p] \in {"none", "exclusive"}
  /\ pc[p] \notin {"out", "gone", "renew"} \cup UnderCollectorLock => lease[p] = "shared"
  /\ lease[p] # "shared" => relied[p] = {}

\* The path locks a process has.
LocksByPlace(p) ==
  /\ pc[p] = "lockOutputs" => job[p].paths \ todo[p] \subseteq Held(p)
  /\ pc[p] \in BuildPlaces \ {"lockOutputs"} => job[p].paths \subseteq Held(p)
  /\ pc[p] = "lockNext" => Held(p) \cap todo[p] = {}
  /\ pc[p] \in LoopPlaces => \A a, b \in Held(p) \cap todo[p] : a = b
  /\ pc[p] \in LoopPlaces /\ job[p].kind = "substitute" => made[p] \subseteq Held(p) \ todo[p]
  /\ pc[p] \in LoopPlaces /\ job[p].kind = "sources" =>
       made[p] \subseteq (IF pc[p] = "registerOne" THEN Held(p) ELSE {})
  /\ pc[p] \notin BuildPlaces \cup LoopPlaces \cup {"sweep", "release"} => Held(p) = {}
  /\ pc[p] = "sweep" /\ job[p].kind = "collect" => Held(p) = {}
  /\ pc[p] = "sweep" => \A a, b \in Held(p) : a = b

\* What is on disk, and without a row, at the paths it is making or removing.
TreesByPlace(p) ==
  /\ pc[p] \in {"runBuilder", "builderRuns", "registerOutputs"} => made[p] \cap validPaths = {}
  /\ pc[p] \in {"stream", "unpack"} =>
       \A path \in Held(p) \cap todo[p] : path \notin validPaths /\ tree[path] # "whole"
  /\ pc[p] \in {"registerOutputs"} \cup LoopPlaces => \A path \in made[p] : tree[path] = "whole"
  /\ pc[p] = "registerOne" => Held(p) \cap todo[p] \subseteq made[p]
  /\ pc[p] = "sweep" /\ job[p].kind = "collect" => todo[p] \cap validPaths = {}
  /\ pc[p] = "sweep" /\ job[p].kind = "delete" => Held(p) \cap validPaths = {}

PlaceAgrees(p) == JobByPlace(p) /\ LeaseByPlace(p) /\ LocksByPlace(p) /\ TreesByPlace(p)

\* What the collector has still to remove is not reachable.
DeadStaysDead(p) ==
  pc[p] = "marked" \/ (pc[p] = "sweep" /\ job[p].kind = "delete") => todo[p] \cap Live = {}

CollectorIsAlone == \A p, q \in Procs : lease[p] = "exclusive" /\ p # q => lease[q] = "none"

-----------------------------------------------------------------------------
(* What a row promises: a path the database calls valid has its tree on    *)
(* disk, complete and with the bytes its registration describes, whoever   *)
(* else builds, substitutes, deletes, is interrupted or crashes            *)
(* (withOutputLocks, substitutePaths, materializeEvalSources, and the row  *)
(* before tree order of deleteStorePathChecked and collectGarbage).        *)
ValidHasTree == \A path \in validPaths : tree[path] = "whole"

(* What a process saw valid, an output it adopted or an input it builds    *)
(* from, stays valid until it closes the store or collects itself: a       *)
(* collection never runs beside it (openStore's lease).                    *)
ReliedStaysValid == \A p \in Procs : relied[p] \subseteq validPaths

(* No step takes the row of a path that a root reaches at that step,       *)
(* though the collector took the roots' closure steps before               *)
(* (withLiveSet, collectGarbage).                                          *)
RootedSurvives == [][Live \cap validPaths \subseteq validPaths']_vars

(* While a process holds a path's lock, no step of another changes that    *)
(* path's tree.                                                            *)
LockedTreeIsPrivate ==
  [][\A p \in Procs, path \in Paths :
       holder[path] = p /\ tree'[path] # tree[path] => pc'[p] # pc[p] \/ pc[p] = "sweep"]_vars

(* Every job ends, whoever holds the locks it waits for: no two processes  *)
(* wait for each other's path locks or for each other's leases.            *)
JobEnds == \A p \in Procs : pc[p] \notin {"out", "idle", "gone"} ~> pc[p] \in {"idle", "gone"}

(* The strengthening of the invariants that steps preserve: the locks and  *)
(* the lease a process has, what its job is, and the trees it answers for, *)
(* place by place (withOutputLocks, substitutePaths, withCollectorLock).   *)
SafeInv ==
  /\ TypeOK /\ ValidHasTree /\ RefsClosed /\ ReliedStaysValid
  /\ CollectorIsAlone
  /\ \A p \in Procs : PlaceAgrees(p)

(* With it, what a collector found dead stays dead while it sweeps: roots  *)
(* may go meanwhile, and none comes (withLiveSet).                         *)
StoreInv == SafeInv /\ \A p \in Procs : DeadStaysDead(p)
=============================================================================
