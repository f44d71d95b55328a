------------------------------ MODULE GcRoots ------------------------------
(***************************************************************************)
(* The indirect roots of the collector (Nix.Store.GC): an out-link is a    *)
(* symlink the user sees, a record under gcroots/auto names it, and the    *)
(* two together keep a store path alive.  addOutLinkRoot makes both in     *)
(* several file system calls; a roots walk (findRoots) reads them in       *)
(* several more, and removes the records whose link is gone.               *)
(*                                                                         *)
(* Adding and listing run under the shared lease, collecting under the     *)
(* exclusive lock, and the user of a link under neither.  The place of a   *)
(* process is between two file system calls.                               *)
(***************************************************************************)
EXTENDS FiniteSets

CONSTANTS
  Procs,     \* Processes; each adds, lists and collects any number of times.
  Links,     \* The out-links.
  LinkOf,    \* The link each process adds: --out-link of its command.
  Targets,   \* The valid store paths a link can point to.
  Absent,    \* No file.
  Foreign,   \* A file that is not a symlink into the store.
  Listing    \* Whether store gc --print-roots is run.

ASSUME LinkOfAssumption == LinkOf \in [Procs -> Links]
ASSUME TargetsAssumption == Absent \notin Targets /\ Foreign \notin Targets
ASSUME ListingAssumption == Listing \in BOOLEAN

VARIABLES
  link,      \* What is at each out-link.
  record,    \* The record of each link under gcroots/auto.
  staging,   \* The record of each link while it is written, before its rename.
  lease,     \* Each process's hold on the collector lock.
  pc,
  writing,   \* Where the file is now that the process is writing.
  todo,      \* Records a walk has not come to.
  at,        \* The record a walk is at.
  found,     \* The links a walk found to be roots.
  doubled,   \* History: the processes whose addition ran beside another one of
             \* the same link,
  watched,   \* and those whose addition ran beside a listing.
  undisturbed\* History: the links whose addition returned and did neither, and
             \* that nobody removed or began to replace since.

history == <<doubled, watched, undisturbed>>
vars == <<link, record, staging, lease, pc, writing, todo, at, found, history>>
walkVars == <<todo, at, found>>

Contents == {"absent", "torn", "whole"}
Places == {"idle", "classify", "removeOld", "create", "publish", "stage", "write", "rename",
           "readRecord", "follow", "target", "stale", "swept"}

TypeOK ==
  /\ link \in [Links -> Targets \cup {Absent, Foreign}]
  /\ record \in [Links -> Contents]
  /\ staging \in [Links -> Contents]
  /\ lease \in [Procs -> {"none", "shared", "exclusive"}]
  /\ pc \in [Procs -> Places]
  /\ writing \in [Procs -> {"nothing", "staging", "record", "unlinked"}]
  /\ todo \in [Procs -> SUBSET Links]
  /\ at \in [Procs -> Links]
  /\ found \in [Procs -> SUBSET Links]
  /\ doubled \subseteq Procs
  /\ watched \subseteq Procs
  /\ undisturbed \subseteq Links

Init ==
  /\ link = [l \in Links |-> Absent]
  /\ record = [l \in Links |-> "absent"]
  /\ staging = [l \in Links |-> "absent"]
  /\ lease = [p \in Procs |-> "none"]
  /\ pc = [p \in Procs |-> "idle"]
  /\ writing = [p \in Procs |-> "nothing"]
  /\ todo = [p \in Procs |-> {}]
  /\ at = LinkOf
  /\ found = [p \in Procs |-> {}]
  /\ doubled = {}
  /\ watched = {}
  /\ undisturbed = {}

Goto(p, from, to) == pc[p] = from /\ pc' = [pc EXCEPT ![p] = to]

SetLink(l, to) == link' = [link EXCEPT ![l] = to]

\* A process opens the store for one operation.
TakeShared(p) ==
  /\ \A q \in Procs : lease[q] # "exclusive"
  /\ lease' = [lease EXCEPT ![p] = "shared"]

TakeExclusive(p) ==
  /\ \A q \in Procs : lease[q] = "none"
  /\ lease' = [lease EXCEPT ![p] = "exclusive"]

Close(p) == lease' = [lease EXCEPT ![p] = "none"]

AddPlaces == {"classify", "removeOld", "create", "publish", "stage", "write", "rename"}

Adding == {p \in Procs : pc[p] \in AddPlaces}

Walking == {p \in Procs : pc[p] \notin AddPlaces \cup {"idle"}}

\* A link that is removed or replaced is no root until it is added again.
Unroot(l) ==
  /\ undisturbed' = undisturbed \ {l}
  /\ UNCHANGED <<doubled, watched>>

Ended(p) == doubled' = doubled \ {p} /\ watched' = watched \ {p}

\* An addition returns its link; its user may have removed it meanwhile.
Added(p) ==
  /\ undisturbed' = IF p \in doubled \cup watched THEN undisturbed \ {LinkOf[p]}
                    ELSE undisturbed \cup {l \in {LinkOf[p]} : link[l] \in Targets}
  /\ Ended(p)

\* An addition ends without one.
NotAdded(p) == Ended(p) /\ UNCHANGED undisturbed

-----------------------------------------------------------------------------
(* addOutLinkRoot.                                                         *)

StartAdd(p) ==
  LET beside == {q \in Adding : LinkOf[q] = LinkOf[p]} IN
  /\ Goto(p, "idle", "classify")
  /\ TakeShared(p)
  /\ doubled' = IF beside = {} THEN doubled ELSE doubled \cup beside \cup {p}
  /\ watched' = IF Walking = {} THEN watched ELSE watched \cup {p}
  /\ UNCHANGED <<link, record, staging, writing, walkVars, undisturbed>>

\* A link into the store is replaced.
ClassifyLink(p) ==
  /\ Goto(p, "classify", IF link[LinkOf[p]] \in Targets THEN "removeOld" ELSE "create")
  /\ link[LinkOf[p]] # Foreign
  /\ UNCHANGED <<link, record, staging, lease, writing, walkVars, history>>

\* Whatever else is there is not clobbered.
RefuseLink(p) ==
  /\ Goto(p, "classify", "idle")
  /\ link[LinkOf[p]] = Foreign
  /\ NotAdded(p)
  /\ Close(p)
  /\ UNCHANGED <<link, record, staging, writing, walkVars>>

RemoveOldLink(p) ==
  /\ Goto(p, "removeOld", "create")
  /\ SetLink(LinkOf[p], Absent)
  /\ Unroot(LinkOf[p])
  /\ UNCHANGED <<record, staging, lease, writing, walkVars>>

CreateLink(p, target) ==
  /\ Goto(p, "create", "publish")
  /\ link[LinkOf[p]] = Absent
  /\ SetLink(LinkOf[p], target)
  /\ UNCHANGED <<record, staging, lease, writing, walkVars, history>>

\* Somebody put something there since, or links cannot be made.
CreateFails(p) ==
  /\ Goto(p, "create", "idle")
  /\ NotAdded(p)
  /\ Close(p)
  /\ UNCHANGED <<link, record, staging, writing, walkVars>>

\* Mutant: a record that exists is left alone, whatever it holds.
PublishNothing_AnyRecord(p) ==
  /\ Goto(p, "publish", "idle")
  /\ record[LinkOf[p]] # "absent"
  /\ Added(p)
  /\ Close(p)
  /\ UNCHANGED <<link, record, staging, writing, walkVars>>

\* A record that holds the link already is left alone.
PublishNothing(p) ==
  /\ Goto(p, "publish", "idle")
  /\ record[LinkOf[p]] = "whole"
  /\ Added(p)
  /\ Close(p)
  /\ UNCHANGED <<link, record, staging, writing, walkVars>>

\* Mutant: a staging file that is there is renamed as it is.
PublishAnew_KeepsLeftover(p) ==
  /\ Goto(p, "publish", IF staging[LinkOf[p]] = "absent" THEN "stage" ELSE "rename")
  /\ record[LinkOf[p]] # "whole"
  /\ UNCHANGED <<link, record, staging, lease, writing, walkVars, history>>

PublishAnew(p) ==
  /\ Goto(p, "publish", "stage")
  /\ record[LinkOf[p]] # "whole"
  /\ UNCHANGED <<link, record, staging, lease, writing, walkVars, history>>

\* The staging file, of a name every process that adds the link shares, is
\* truncated,
OpenStaging(p) ==
  /\ Goto(p, "stage", "write")
  /\ staging' = [staging EXCEPT ![LinkOf[p]] = "torn"]
  /\ writing' = [writing EXCEPT ![p] = "staging"]
  /\ UNCHANGED <<link, record, lease, walkVars, history>>

\* filled and closed, wherever it was renamed to meanwhile,
WriteStaging(p) ==
  /\ Goto(p, "write", "rename")
  /\ staging' = IF writing[p] = "staging" THEN [staging EXCEPT ![LinkOf[p]] = "whole"] ELSE staging
  /\ record' = IF writing[p] = "record" THEN [record EXCEPT ![LinkOf[p]] = "whole"] ELSE record
  /\ writing' = [writing EXCEPT ![p] = "nothing"]
  /\ UNCHANGED <<link, lease, walkVars, history>>

\* The files that others write to move with their names.
MoveWriters(l) ==
  writing' = [q \in Procs |->
    CASE LinkOf[q] = l /\ writing[q] = "staging" -> "record"
      [] LinkOf[q] = l /\ writing[q] = "record" -> "unlinked"
      [] OTHER -> writing[q]]

\* and renamed.
RenameRecord(p) ==
  /\ Goto(p, "rename", "idle")
  /\ staging[LinkOf[p]] # "absent"
  /\ record' = [record EXCEPT ![LinkOf[p]] = staging[LinkOf[p]]]
  /\ staging' = [staging EXCEPT ![LinkOf[p]] = "absent"]
  /\ MoveWriters(LinkOf[p])
  /\ Added(p)
  /\ Close(p)
  /\ UNCHANGED <<link, walkVars>>

\* Another process renamed the staging file away.
RenameFails(p) ==
  /\ Goto(p, "rename", "idle")
  /\ staging[LinkOf[p]] = "absent"
  /\ NotAdded(p)
  /\ Close(p)
  /\ UNCHANGED <<link, record, staging, writing, walkVars>>

-----------------------------------------------------------------------------
(* findRoots: walkRoots and followIndirect, record by record.              *)

Walk(p) ==
  /\ Goto(p, "idle", "readRecord")
  /\ todo' = [todo EXCEPT ![p] = {l \in Links : record[l] # "absent"}]
  /\ watched' = watched \cup Adding
  /\ found' = [found EXCEPT ![p] = {}]
  /\ UNCHANGED <<link, record, staging, writing, at, doubled, undisturbed>>

\* store gc --print-roots, under the shared lease.
StartListing(p) == Listing /\ TakeShared(p) /\ Walk(p)

\* store gc and store delete, under the exclusive lock.
StartCollection(p) == TakeExclusive(p) /\ Walk(p)

\* A record is written in one piece, so that a torn one is empty: it names
\* no file there is.
ReadRecord(p, l) ==
  /\ Goto(p, "readRecord", IF record[l] = "whole" THEN "follow" ELSE "stale")
  /\ l \in todo[p]
  /\ record[l] # "absent"
  /\ todo' = [todo EXCEPT ![p] = @ \ {l}]
  /\ at' = [at EXCEPT ![p] = l]
  /\ UNCHANGED <<link, record, staging, lease, writing, found, history>>

RecordVanished(p, l) ==
  /\ pc[p] = "readRecord"
  /\ l \in todo[p]
  /\ record[l] = "absent"
  /\ todo' = [todo EXCEPT ![p] = @ \ {l}]
  /\ UNCHANGED <<link, record, staging, lease, pc, writing, at, found, history>>

\* classifyWalkNode of the out-link,
FollowLink(p) ==
  /\ Goto(p, "follow", CASE link[at[p]] = Absent -> "stale"
                         [] link[at[p]] = Foreign -> "readRecord"
                         [] OTHER -> "target")
  /\ UNCHANGED <<link, record, staging, lease, writing, walkVars, history>>

\* and getSymbolicLinkTarget, by when the link may be gone or another: it is
\* reported and no root, but its record stays.
ReadTarget(p) ==
  /\ Goto(p, "target", "readRecord")
  /\ found' = [found EXCEPT ![p] = IF link[at[p]] \in Targets THEN @ \cup {at[p]} ELSE @]
  /\ UNCHANGED <<link, record, staging, lease, writing, todo, at, history>>

RemoveStale(p) ==
  /\ Goto(p, "stale", "readRecord")
  /\ record' = [record EXCEPT ![at[p]] = "absent"]
  /\ writing' = [q \in Procs |->
       IF LinkOf[q] = at[p] /\ writing[q] = "record" THEN "unlinked" ELSE writing[q]]
  /\ UNCHANGED <<link, staging, lease, walkVars, history>>

\* The walk is over: what a collection did not find is swept.
WalkDone(p) ==
  /\ Goto(p, "readRecord", "swept")
  /\ todo[p] = {}
  /\ UNCHANGED <<link, record, staging, lease, writing, walkVars, history>>

Finish(p) ==
  /\ Goto(p, "swept", "idle")
  /\ found' = [found EXCEPT ![p] = {}]
  /\ Close(p)
  /\ UNCHANGED <<link, record, staging, writing, todo, at, history>>

-----------------------------------------------------------------------------
\* A process dies, is interrupted, or fails on what else the file system
\* answers: nothing it did is undone.  The same command may be run again.
Crash(p) ==
  /\ pc[p] # "idle"
  /\ pc' = [pc EXCEPT ![p] = "idle"]
  /\ writing' = [writing EXCEPT ![p] = "nothing"]
  /\ todo' = [todo EXCEPT ![p] = {}]
  /\ found' = [found EXCEPT ![p] = {}]
  /\ NotAdded(p)
  /\ Close(p)
  /\ UNCHANGED <<link, record, staging, at>>

\* The user deletes an out-link, or puts something of their own there.
UserRemoves(l) ==
  /\ link[l] # Absent
  /\ SetLink(l, Absent)
  /\ Unroot(l)
  /\ UNCHANGED <<record, staging, lease, pc, writing, walkVars>>

UserPuts(l) ==
  /\ link[l] = Absent
  /\ SetLink(l, Foreign)
  /\ UNCHANGED <<record, staging, lease, pc, writing, walkVars, history>>

Next ==
  \/ \E p \in Procs :
       \/ StartAdd(p) \/ ClassifyLink(p) \/ RefuseLink(p) \/ RemoveOldLink(p)
       \/ \E target \in Targets : CreateLink(p, target)
       \/ CreateFails(p) \/ PublishNothing(p) \/ PublishAnew(p)
       \/ OpenStaging(p) \/ WriteStaging(p) \/ RenameRecord(p) \/ RenameFails(p)
       \/ StartListing(p) \/ StartCollection(p)
       \/ \E l \in Links : ReadRecord(p, l) \/ RecordVanished(p, l)
       \/ FollowLink(p) \/ ReadTarget(p) \/ RemoveStale(p) \/ WalkDone(p) \/ Finish(p)
       \/ Crash(p)
  \/ \E l \in Links : UserRemoves(l) \/ UserPuts(l)

Spec == Init /\ [][Next]_vars

-----------------------------------------------------------------------------
(* An out-link whose addition returned, which its user left alone and      *)
(* which met no listing and no other addition of that link, keeps its      *)
(* record (addOutLinkRoot): crashes, collections, and listings and failed  *)
(* or crashed additions before and after it cannot take the record away.   *)
UndisturbedKeepsRecord ==
  \A l \in undisturbed : record[l] = "whole" /\ link[l] \in Targets

(* What a collection is about to sweep spares what such a link names: the  *)
(* walk found it, though it read links and records one by one, and the     *)
(* user removed and added links meanwhile (findRoots under the exclusive   *)
(* lock).                                                                  *)
CollectionSpares ==
  \A p \in Procs : pc[p] = "swept" /\ lease[p] = "exclusive" => undisturbed \subseteq found[p]

(* A record is torn only where two additions of one link met: what an      *)
(* addition publishes is otherwise whole, whatever a crashed or failed one *)
(* left before it under the staging name that all additions of a link      *)
(* share, and whoever lists, collects or removes beside it (publishRecord).*)
TornMeansDoubled ==
  [][\A l \in Links : record'[l] = "torn" /\ record[l] # "torn" =>
       \E p \in doubled : LinkOf[p] = l /\ pc[p] = "rename"]_vars
=============================================================================
