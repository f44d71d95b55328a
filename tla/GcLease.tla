------------------------------ MODULE GcLease ------------------------------
(***************************************************************************)
(* The lease on the store-wide garbage-collector lock (Nix.Store.Handle,   *)
(* over Nix.Store.Lock): every open handle holds gc.lock shared, and       *)
(* withCollectorLock trades that lease for the exclusive lock and back.    *)
(*                                                                         *)
(* A process runs one command: it opens the store, works, collects any     *)
(* number of times, closes the store and ends.  Two of its threads matter, *)
(* the main one, whose place is pc, and one that may call closeStore while *)
(* the main one is inside withCollectorLock, whose place is closing.       *)
(*                                                                         *)
(* gc.lock is an flock: descriptors in shared hold it together, one in     *)
(* exclusive holds it alone, and a descriptor that closes gives it up, so  *)
(* a process that dies holds nothing.                                      *)
(***************************************************************************)
CONSTANTS
  Procs,     \* The processes that open this store.
  NoProc     \* Stands for no process.
ASSUME NoProcAssumption == NoProc \notin Procs

VARIABLES
  shared,    \* flock: the processes whose descriptor holds gc.lock shared.
  exclusive, \* flock: the process holding it exclusively, or NoProc.
  db,        \* The processes whose database connection is open.
  lease,     \* stGcLease, the MVar: "none" before it is made, "held", "spent"
             \* (a PathLock whose descriptor is surrendered) or "empty" (taken).
  pc,        \* The main thread of each process.
  closing    \* The processes whose database a closeStore closed already.

vars == <<shared, exclusive, db, lease, pc, closing>>

Places == {"arriving", "opening", "stuck", "open", "swapping", "waiting",
           "collecting", "renewing", "done"}

TypeOK ==
  /\ shared \subseteq Procs
  /\ exclusive \in Procs \cup {NoProc}
  /\ db \subseteq Procs
  /\ lease \in [Procs -> {"none", "held", "spent", "empty"}]
  /\ pc \in [Procs -> Places]
  /\ closing \subseteq Procs

Init ==
  /\ shared = {}
  /\ exclusive = NoProc
  /\ db = {}
  /\ lease = [p \in Procs |-> "none"]
  /\ pc = [p \in Procs |-> "arriving"]
  /\ closing = {}

Goto(p, from, to) == pc[p] = from /\ pc' = [pc EXCEPT ![p] = to]

-----------------------------------------------------------------------------
(* The flock (acquireLockFileWith, releasePathLock).                       *)

LockShared(p) ==
  /\ exclusive = NoProc
  /\ shared' = shared \cup {p}
  /\ UNCHANGED exclusive

LockExclusive(p) ==
  /\ exclusive = NoProc
  /\ shared = {}
  /\ exclusive' = p
  /\ UNCHANGED shared

-----------------------------------------------------------------------------
(* openStore: the lease first, then the database.                          *)

\* Mutant: the connection is opened before the lease is granted.
OpenAcquire_DatabaseFirst(p) ==
  /\ Goto(p, "arriving", "opening")
  /\ db' = db \cup {p}
  /\ lease' = [lease EXCEPT ![p] = "held"]
  /\ UNCHANGED <<shared, exclusive, closing>>

OpenAcquire(p) ==
  /\ Goto(p, "arriving", "opening")
  /\ LockShared(p)
  /\ UNCHANGED <<db, lease, closing>>

OpenDatabase(p) ==
  /\ Goto(p, "opening", "open")
  /\ db' = db \cup {p}
  /\ lease' = [lease EXCEPT ![p] = "held"]
  /\ UNCHANGED <<shared, exclusive, closing>>

\* openStoreDB or the case probe throws.  Nothing releases the lease that
\* was just taken: its descriptor lives until the process ends.
OpenFails(p) ==
  /\ Goto(p, "opening", "stuck")
  /\ UNCHANGED <<shared, exclusive, db, lease, closing>>

-----------------------------------------------------------------------------
(* withCollectorLock.                                                      *)

\* takeMVar.  A handle that is being closed is not handed to a collection.
TakeLease(p) ==
  /\ Goto(p, "open", "swapping")
  /\ p \notin closing
  /\ lease[p] # "empty"
  /\ lease' = [lease EXCEPT ![p] = "empty"]
  /\ UNCHANGED <<shared, exclusive, db, closing>>

\* Mutant: the shared lease is kept while the exclusive lock is asked for.
SurrenderLease_Kept(p) ==
  /\ Goto(p, "swapping", "waiting")
  /\ UNCHANGED <<shared, exclusive, db, lease, closing>>

\* releasePathLock; a lease that was spent before has nothing to release.
SurrenderLease(p) ==
  /\ Goto(p, "swapping", "waiting")
  /\ shared' = shared \ {p}
  /\ UNCHANGED <<exclusive, db, lease, closing>>

AcquireExclusive(p) ==
  /\ Goto(p, "waiting", "collecting")
  /\ LockExclusive(p)
  /\ UNCHANGED <<db, lease, closing>>

\* An asynchronous exception in the restored part, before the grant.
InterruptWait(p) ==
  /\ Goto(p, "waiting", "renewing")
  /\ UNCHANGED <<shared, exclusive, db, lease, closing>>

\* Mutant: an action that throws leaves the exclusive lock held.
FinishCollection_Kept(p) ==
  /\ Goto(p, "collecting", "renewing")
  /\ UNCHANGED <<shared, exclusive, db, lease, closing>>

\* The action returned or threw: the bracket releases the exclusive lock.
FinishCollection(p) ==
  /\ Goto(p, "collecting", "renewing")
  /\ exclusive' = NoProc
  /\ UNCHANGED <<shared, db, lease, closing>>

\* Mutant: the renewed lock is taken, but the old lease goes back.
RenewLease_OldLeaseBack(p) ==
  /\ Goto(p, "renewing", "open")
  /\ LockShared(p)
  /\ lease' = [lease EXCEPT ![p] = "spent"]
  /\ UNCHANGED <<db, closing>>

RenewLease(p) ==
  /\ Goto(p, "renewing", "open")
  /\ LockShared(p)
  /\ lease' = [lease EXCEPT ![p] = "held"]
  /\ UNCHANGED <<db, closing>>

\* The lock file cannot be opened again: the surrendered lease goes back.
RenewFails(p) ==
  /\ Goto(p, "renewing", "open")
  /\ lease' = [lease EXCEPT ![p] = "spent"]
  /\ UNCHANGED <<shared, exclusive, db, closing>>

-----------------------------------------------------------------------------
(* closeStore: the database first, then the lease once its MVar is full.   *)

\* Mutant: the lease goes with the first step, before the connection.
CloseDatabase_LeaseFirst(p) ==
  /\ lease[p] # "none"
  /\ p \notin closing
  /\ closing' = closing \cup {p}
  /\ shared' = shared \ {p}
  /\ UNCHANGED <<exclusive, db, lease, pc>>

CloseDatabase(p) ==
  /\ lease[p] # "none"
  /\ p \notin closing
  /\ closing' = closing \cup {p}
  /\ db' = db \ {p}
  /\ UNCHANGED <<shared, exclusive, lease, pc>>

CloseLease(p) ==
  /\ p \in closing
  /\ lease[p] \in {"held", "spent"}
  /\ Goto(p, "open", "done")
  /\ shared' = IF lease[p] = "held" THEN shared \ {p} ELSE shared
  /\ lease' = [lease EXCEPT ![p] = "none"]
  /\ UNCHANGED <<exclusive, db, closing>>

\* A crash, a kill, or the exit after a failed open: every descriptor of
\* the process closes, whatever it was doing.
Die(p) ==
  /\ pc[p] # "done"
  /\ pc' = [pc EXCEPT ![p] = "done"]
  /\ shared' = shared \ {p}
  /\ exclusive' = IF exclusive = p THEN NoProc ELSE exclusive
  /\ db' = db \ {p}
  /\ lease' = [lease EXCEPT ![p] = "none"]
  /\ UNCHANGED closing

AllDone == (\A p \in Procs : pc[p] = "done") /\ UNCHANGED vars

Step(p) ==
  \/ OpenAcquire(p) \/ OpenDatabase(p) \/ OpenFails(p)
  \/ TakeLease(p) \/ SurrenderLease(p) \/ AcquireExclusive(p) \/ InterruptWait(p)
  \/ FinishCollection(p) \/ RenewLease(p) \/ RenewFails(p)
  \/ CloseDatabase(p) \/ CloseLease(p)
  \/ Die(p)

Next == (\E p \in Procs : Step(p)) \/ AllDone

(***************************************************************************)
(* Each thread goes on while it can: a running step is taken, a lock file  *)
(* that stays free is granted to whoever waits for it, the work of a       *)
(* collection ends, an open handle is closed at the end of its command,    *)
(* and a process whose open failed exits.  Collecting, failing, being      *)
(* interrupted and crashing are never forced.                              *)
(***************************************************************************)
Fairness ==
  \A p \in Procs :
    /\ WF_vars(OpenAcquire(p))
    /\ WF_vars(OpenDatabase(p) \/ OpenFails(p))
    /\ WF_vars(SurrenderLease(p))
    /\ WF_vars(AcquireExclusive(p))
    /\ WF_vars(FinishCollection(p))
    /\ WF_vars(RenewLease(p))
    /\ WF_vars(CloseDatabase(p))
    /\ WF_vars(CloseLease(p))
    /\ WF_vars(pc[p] = "stuck" /\ Die(p))

Spec == Init /\ [][Next]_vars

FairSpec == Spec /\ Fairness

-----------------------------------------------------------------------------
\* A handle in normal use: connection open, lease in its place.
Using == {p \in db : lease[p] = "held"}

Collecting == {p \in Procs : pc[p] = "collecting"}

\* What makes the protocol work, place by place: who holds the lock, what
\* the MVar holds and whether the connection can be open.
LockMatchesPlace ==
  /\ exclusive # NoProc => shared = {}
  /\ \A p \in Procs :
       /\ exclusive = p <=> pc[p] = "collecting"
       /\ p \in shared => pc[p] \in {"opening", "stuck", "open", "swapping"}
       /\ pc[p] \in {"opening", "stuck"} => p \in shared

LeaseMatchesPlace ==
  \A p \in Procs :
    /\ lease[p] = "none" <=> pc[p] \in {"arriving", "opening", "stuck", "done"}
    /\ lease[p] \in {"held", "spent"} <=> pc[p] = "open"
    /\ pc[p] = "open" => (lease[p] = "held" <=> p \in shared)
    /\ p \in db => lease[p] # "none" /\ p \notin closing
    /\ p \in closing => pc[p] \notin {"arriving", "opening", "stuck"}

(* The strengthening the theorems rest on: a lease is in its MVar exactly  *)
(* while its descriptor is locked, a descriptor is locked exclusively      *)
(* exactly while its process collects, and no connection outlives both.    *)
LeaseInv == TypeOK /\ LockMatchesPlace /\ LeaseMatchesPlace

(* While a collection runs, no handle is in use: of the handles whose      *)
(* connection is open, each is itself inside withCollectorLock, waiting or *)
(* renewing, or is one whose renewal failed, the exception the comment on  *)
(* withCollectorLock names.  Two collections never run at once.            *)
CollectionRunsAlone ==
  \A p \in Collecting :
    /\ Using = {}
    /\ Collecting = {p}
    /\ \A q \in db \ {p} : pc[q] \in {"swapping", "waiting", "renewing"} \/ lease[q] = "spent"

(* Nothing is left locked by a process that is done, whichever thread      *)
(* closed the store and wherever a swap or a crash stood at the time: a    *)
(* collector can only ever be kept waiting by a live process               *)
(* (closeStore's wait for the MVar, releasePathLock on every exit).        *)
DoneHoldsNothing ==
  \A p \in Procs :
    pc[p] = "done" => p \notin shared /\ exclusive # p /\ p \notin db

(* Every collector that waits gets the lock or is interrupted, and every   *)
(* process in its way ends: two collectors that wait for each other's      *)
(* lease would break this, and the swap is there to prevent it.            *)
WaitingCollectorMovesOn == \A p \in Procs : pc[p] = "waiting" ~> pc[p] # "waiting"

(* A process that opens the store while a collection runs gets in.         *)
OpenerGetsIn == \A p \in Procs : pc[p] = "arriving" ~> pc[p] # "arriving"

\* The promise of the lock, with the handles in normal use as its users.
Promise ==
  INSTANCE CollectorExclusion WITH using <- Using, collector <- exclusive

(* The lease protocol implements collector exclusion (header of            *)
(* Nix.Store.Handle).                                                      *)
ImplementsPromise == Promise!Spec
=============================================================================
