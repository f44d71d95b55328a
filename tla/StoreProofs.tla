---------------------------- MODULE StoreProofs ----------------------------
(***************************************************************************)
(* Theorems about the store.  First its database on its own, for any set   *)
(* of paths and batches of any length: the lemmas speak of one transaction *)
(* and carry no history.                                                   *)
(*                                                                         *)
(* Then StorePaths, for any processes, paths, references and               *)
(* jobs.  What evaluation writes, and what writes derivations, does not    *)
(* keep to the path locks, and an interrupt may hit a commit: KeepToLocks  *)
(* says that the jobs are of the other kinds, or apart from each other.    *)
(* Last, what the jobs that make paths promise of each.                    *)
(***************************************************************************)
EXTENDS StorePaths, StoreDBHistory, WellFoundedInduction, TLAPS

-----------------------------------------------------------------------------
(* The database and its history.                                            *)

NatLess == OpToRel(<, Nat)

LEMMA NatLessWellFounded == IsWellFoundedOn(NatLess, Nat)
  BY NatLessThanWellFounded, Zenon DEF NatLess

LEMMA NatLessIsLess == \A j, k \in Nat : <<j, k>> \in NatLess <=> j < k
  BY Zenon DEF NatLess, OpToRel

(* A non-empty set of naturals has a least member (an instance of WFMin,   *)
(* which the last registration of a path is found with).                   *)
LEMMA LeastNatural ==
  ASSUME NEW S \in SUBSET Nat, S # {}
  PROVE  \E m \in S : \A k \in S : m <= k
  <1>1. S \subseteq Nat
    OBVIOUS
  <1>2. PICK m \in S : \A k \in S : ~ (<<k, m>> \in NatLess)
    BY <1>1, NatLessWellFounded, WFMin, Zenon
  <1>3. \A k \in S : ~ (k < m)
    BY <1>1, <1>2, NatLessIsLess, Zenon
  <1> QED
    BY <1>1, <1>3

(* The edges that count for a path of a batch are those of a registration  *)
(* of the batch for that very path.                                        *)
LEMMA LastRegistrationExists ==
  ASSUME NEW n \in Nat, NEW batch \in [1 .. n -> PathRegistration],
         NEW path \in BatchPaths(batch)
  PROVE  \E i \in 1 .. n : batch[i].prPath = path /\ EdgesOf(path, batch) = batch[i].prReferences
  <1> DEFINE Of == {i \in 1 .. n : batch[i].prPath = path}
             Bounds == {k \in Nat : \A i \in Of : i <= k}
  <1>1. DOMAIN batch = 1 .. n
    OBVIOUS
  <1>2. PICK any \in 1 .. n : batch[any].prPath = path
    BY <1>1 DEF BatchPaths
  <1>3. n \in Bounds
    OBVIOUS
  <1>4. PICK last \in Bounds : \A k \in Bounds : last <= k
    BY <1>3, LeastNatural
  <1>5. last \in Of
    <2>1. last >= any
      BY <1>2, <1>4
    <2>2. last - 1 \in Nat /\ last - 1 \notin Bounds
      BY <1>2, <1>4, <2>1
    <2>3. PICK i \in Of : ~ (i <= last - 1)
      BY <2>2
    <2> QED
      BY <1>4, <2>3
  <1>6. \E i \in DOMAIN batch :
          batch[i].prPath = path /\ \A j \in DOMAIN batch : batch[j].prPath = path => j <= i
    BY <1>1, <1>4, <1>5
  <1>7. /\ LastRegistrationOf(path, batch) \in DOMAIN batch
        /\ batch[LastRegistrationOf(path, batch)].prPath = path
    BY <1>6 DEF LastRegistrationOf
  <1> QED
    BY <1>1, <1>7 DEF EdgesOf

LEMMA BatchFacts ==
  ASSUME NEW batch \in Batches
  PROVE  /\ BatchPaths(batch) \subseteq Paths
         /\ \A path \in BatchPaths(batch) :
              /\ EdgesOf(path, batch) \subseteq Paths
              /\ BatchAccepted(batch) => EdgesOf(path, batch) \subseteq validPaths \cup BatchPaths(batch)
  <1>1. PICK n \in Nat : batch \in [1 .. n -> PathRegistration]
    BY MaxBatchAssumption DEF Batches
  <1>2. DOMAIN batch = 1 .. n
    BY <1>1
  <1>3. BatchPaths(batch) \subseteq Paths
    BY <1>1, <1>2 DEF BatchPaths, PathRegistration
  <1>4. ASSUME NEW path \in BatchPaths(batch)
        PROVE  /\ EdgesOf(path, batch) \subseteq Paths
               /\ BatchAccepted(batch) => EdgesOf(path, batch) \subseteq validPaths \cup BatchPaths(batch)
    <2>1. PICK i \in 1 .. n : EdgesOf(path, batch) = batch[i].prReferences
      BY <1>1, LastRegistrationExists
    <2> QED
      BY <1>1, <1>2, <2>1 DEF PathRegistration, BatchAccepted
  <1> QED
    BY <1>3, <1>4

-----------------------------------------------------------------------------
\* What the database and its history keep together.
HistoryInv == HistoryTypeOK /\ RefsClosed /\ EdgesAsDeclared

LEMMA HistoryStart == HistoryInit => HistoryInv
  BY DEF HistoryInit, openStoreDB, HistoryInv, HistoryTypeOK, DBTypeOK, RefsClosed, EdgesAsDeclared, queryReferences

LEMMA RegisterInductive ==
  ASSUME HistoryInv, NEW batch \in Batches, Register(batch)
  PROVE  HistoryInv'
  <1> USE DEF HistoryInv, HistoryTypeOK, DBTypeOK
  <1> DEFINE B == BatchPaths(batch)
  <1>1. /\ BatchAccepted(batch)
        /\ validPaths' = validPaths \cup B
        /\ refsTable' = {edge \in refsTable : edge[1] \notin B}
                        \cup {edge \in B \X Paths : edge[2] \in EdgesOf(edge[1], batch)}
        /\ declared' = [path \in Paths |->
             IF path \in B THEN EdgesOf(path, batch) ELSE declared[path]]
    BY DEF Register, registerPaths, insertPathRows, insertPathRefs
  <1>2. B \subseteq Paths /\ \A path \in B : EdgesOf(path, batch) \subseteq Paths \cap (validPaths \cup B)
    BY <1>1, BatchFacts
  <1>3. HistoryTypeOK'
    BY <1>1, <1>2
  <1>4. RefsClosed'
    BY <1>1, <1>2 DEF RefsClosed
  <1>5. EdgesAsDeclared'
    <2> SUFFICES ASSUME NEW path \in Paths
                 PROVE  queryReferences(path)' = declared'[path]
      BY DEF EdgesAsDeclared
    <2>1. CASE path \in B
      <3>1. \A r : <<path, r>> \in refsTable' <=> r \in EdgesOf(path, batch)
        BY <1>1, <1>2, <2>1
      <3> QED
        BY <1>1, <1>2, <2>1, <3>1 DEF queryReferences
    <2>2. CASE path \notin B
      <3>1. \A r : <<path, r>> \in refsTable' <=> <<path, r>> \in refsTable
        BY <1>1, <2>2
      <3>2. queryReferences(path)' = queryReferences(path)
        BY <1>1, <2>2, <3>1 DEF queryReferences, RefsClosed
      <3> QED
        BY <1>1, <2>2, <3>2 DEF EdgesAsDeclared
    <2> QED
      BY <2>1, <2>2
  <1> QED
    BY <1>3, <1>4, <1>5

(* Removing a set of rows that no outsider references, and the edges that  *)
(* leave it, keeps every fact about what is left.                          *)
LEMMA RemovalInductive ==
  ASSUME HistoryInv, NEW gone \in SUBSET Paths, OutsideReferrers(gone) = {}, deleteRows(gone), Forget(gone)
  PROVE  HistoryInv'
  <1> USE DEF HistoryInv, HistoryTypeOK, DBTypeOK
  <1>1. /\ refsTable' = {edge \in refsTable : edge[1] \notin gone}
        /\ validPaths' = validPaths \ gone
        /\ declared' = [path \in Paths |-> IF path \in gone THEN {} ELSE declared[path]]
    BY DEF deleteRows, Forget
  <1>2. \A referrer \in validPaths \ gone, path \in gone : <<referrer, path>> \notin refsTable
    BY DEF OutsideReferrers, RefsClosed
  <1>3. HistoryTypeOK'
    BY <1>1
  <1>4. RefsClosed'
    BY <1>1, <1>2 DEF RefsClosed
  <1>5. EdgesAsDeclared'
    <2> SUFFICES ASSUME NEW path \in Paths
                 PROVE  queryReferences(path)' = declared'[path]
      BY DEF EdgesAsDeclared
    <2>1. CASE path \in gone
      BY <1>1, <2>1 DEF queryReferences
    <2>2. CASE path \notin gone
      <3>1. queryReferences(path)' = queryReferences(path)
        BY <1>1, <1>2, <2>2 DEF queryReferences
      <3> QED
        BY <1>1, <2>2, <3>1 DEF EdgesAsDeclared
    <2> QED
      BY <2>1, <2>2
  <1> QED
    BY <1>3, <1>4, <1>5

LEMMA HistoryStep == HistoryInv /\ [HistoryNext]_historyVars => HistoryInv'
  <1> SUFFICES ASSUME HistoryInv, [HistoryNext]_historyVars PROVE HistoryInv'
    OBVIOUS
  <1>1. CASE \E batch \in Batches : Register(batch)
    BY <1>1, RegisterInductive
  <1>2. CASE \E path \in Paths : UnregisterRow(path)
    <2>1. PICK path \in Paths : UnregisterRow(path)
      BY <1>2
    <2>2. OutsideReferrers({path}) = {} /\ deleteRows({path}) /\ Forget({path})
      BY <2>1 DEF UnregisterRow, unregisterPathRow, ReferrersOf, OutsideReferrers
    <2> QED
      BY <2>2, RemovalInductive
  <1>3. CASE \E paths \in SUBSET Paths : UnregisterRows(paths)
    BY <1>3, RemovalInductive DEF UnregisterRows, unregisterPathRows
  <1>4. CASE UNCHANGED historyVars
    BY <1>4 DEF historyVars, HistoryInv, HistoryTypeOK, DBTypeOK, RefsClosed, EdgesAsDeclared, queryReferences
  <1> QED
    BY <1>1, <1>2, <1>3, <1>4
    DEF HistoryNext, historyVars, dbVars, RefuseBatch, registerPathsRefused, UnregisterRowRefused,
        unregisterPathRowRefused, UnregisterRowsRefused, unregisterPathRowsRefused

THEOREM HistoryInductive == HistorySpec => []HistoryInv
  BY HistoryStart, HistoryStep, PTL DEF HistorySpec

(* The tables hold paths and pairs of paths, in every behaviour.           *)
THEOREM HistoryTyped == HistorySpec => []HistoryTypeOK
  <1>1. HistoryInv => HistoryTypeOK
    BY DEF HistoryInv
  <1> QED
    BY HistoryInductive, <1>1, PTL

(* No sequence of registrations, re-registrations and removals, over any   *)
(* set of paths, leaves an edge that dangles (Nix.Store.DB).               *)
THEOREM EdgesJoinRows == HistorySpec => []RefsClosed
  <1>1. HistoryInv => RefsClosed
    BY DEF HistoryInv
  <1> QED
    BY HistoryInductive, <1>1, PTL

(* The references queried are always exactly those last declared           *)
(* (insertPathRefs in DB.hs).                                              *)
THEOREM EdgesAsDeclaredHolds == HistorySpec => []EdgesAsDeclared
  <1>1. HistoryInv => EdgesAsDeclared
    BY DEF HistoryInv
  <1> QED
    BY HistoryInductive, <1>1, PTL

-----------------------------------------------------------------------------
(* The shared store.                                                        *)

KeepToLocks ==
  /\ ~ InterruptHitsCommit
  /\ \A j \in Jobs : j.kind # "drvs"
  /\ \A w, j \in Jobs :
       w.kind = "writes" /\ j.kind \in {"build", "substitute"} => w.paths \cap j.paths = {}

-----------------------------------------------------------------------------
(* The transactions, of one registration for each path of a set.           *)

LEMMA EdgesOfRegistrations ==
  ASSUME NEW refs, NEW S \in SUBSET Paths, NEW path \in S
  PROVE  EdgesOf(path, [q \in S |-> [prPath |-> q, prReferences |-> refs[q]]]) = refs[path]
  <1> DEFINE batch == [q \in S |-> [prPath |-> q, prReferences |-> refs[q]]]
  <1>1. /\ batch[path].prPath = path
        /\ \A j \in DOMAIN batch : batch[j].prPath = path => j <= path
    BY PathsAssumption
  <1>2. LastRegistrationOf(path, batch) \in DOMAIN batch /\ batch[LastRegistrationOf(path, batch)].prPath = path
    BY <1>1 DEF LastRegistrationOf
  <1> QED
    BY <1>2 DEF EdgesOf

LEMMA Registered ==
  ASSUME NEW refs, NEW S \in SUBSET Paths, DBTypeOK,
         registerPaths([q \in S |-> [prPath |-> q, prReferences |-> refs[q]]])
  PROVE  DBTypeOK' /\ validPaths' = validPaths \cup S /\ (RefsClosed => RefsClosed')
  <1> DEFINE batch == [q \in S |-> [prPath |-> q, prReferences |-> refs[q]]]
  <1>1. BatchPaths(batch) = S
    BY DEF BatchPaths
  <1>2. \A q \in S : EdgesOf(q, batch) = refs[q]
    BY EdgesOfRegistrations
  <1>3. \A q \in S : refs[q] \subseteq validPaths \cup S
    BY <1>1 DEF registerPaths, BatchAccepted
  <1>4. /\ validPaths' = validPaths \cup S
        /\ refsTable' = {edge \in refsTable : edge[1] \notin S}
                        \cup {edge \in S \X Paths : edge[2] \in EdgesOf(edge[1], batch)}
    BY <1>1 DEF registerPaths, insertPathRows, insertPathRefs
  <1> QED
    BY <1>2, <1>3, <1>4 DEF DBTypeOK, RefsClosed

LEMMA RegisteredBatch ==
  ASSUME NEW S \in SUBSET Paths, DBTypeOK, RefsClosed, registerPaths(Registrations(S))
  PROVE  DBTypeOK' /\ validPaths' = validPaths \cup S /\ RefsClosed'
  BY Registered DEF Registrations

LEMMA RegisteredSource ==
  ASSUME NEW path \in Paths, DBTypeOK, RefsClosed,
         registerPaths([i \in {path} |-> [prPath |-> path, prReferences |-> {}]])
  PROVE  DBTypeOK' /\ validPaths' = validPaths \cup {path} /\ RefsClosed'
  <1> DEFINE refs == [q \in {path} |-> {}]
  <1>1. [i \in {path} |-> [prPath |-> path, prReferences |-> {}]]
        = [q \in {path} |-> [prPath |-> q, prReferences |-> refs[q]]]
    OBVIOUS
  <1> QED
    BY <1>1, Registered

LEMMA Unregistered ==
  ASSUME NEW S, DBTypeOK, RefsClosed, unregisterPathRows(validPaths \cap S)
  PROVE  DBTypeOK' /\ validPaths' = validPaths \ S /\ RefsClosed'
  BY DEF unregisterPathRows, OutsideReferrers, deleteRows, DBTypeOK, RefsClosed

LEMMA UnregisteredRow ==
  ASSUME NEW path, DBTypeOK, RefsClosed,
         \/ unregisterPathRow(path)
         \/ path \notin validPaths /\ validPaths' = validPaths /\ refsTable' = refsTable
  PROVE  DBTypeOK' /\ validPaths' = validPaths \ {path} /\ RefsClosed'
  BY DEF unregisterPathRow, ReferrersOf, deleteRows, DBTypeOK, RefsClosed

-----------------------------------------------------------------------------
(* The inductive invariant, action by action.                              *)

\* The part of the invariant that is not about one process.
Common == TypeOK /\ ValidHasTree /\ RefsClosed /\ ReliedStaysValid /\ CollectorIsAlone

LEMMA InitInductive == Init => SafeInv
  BY ProcsAssumption
  DEF Init, openStoreDB, SafeInv, TypeOK, DBTypeOK, Places, ValidHasTree, RefsClosed, ReliedStaysValid,
      CollectorIsAlone, PlaceAgrees, JobByPlace, LeaseByPlace, LocksByPlace, TreesByPlace, BuildPlaces,
      LoopPlaces, UnderCollectorLock, Held

(* What a step of p may do to the others: nothing to their places and      *)
(* locks, nothing to a tree they hold or have prepared, and no new row     *)
(* over a tree that is not whole, for an output they build, or while they  *)
(* collect.                                                                *)
Apart(p) ==
  \A q \in Procs \ {p} :
    /\ pc'[q] = pc[q] /\ job'[q] = job[q] /\ todo'[q] = todo[q] /\ made'[q] = made[q]
    /\ lease'[q] = lease[q] /\ relied'[q] = relied[q]
    /\ \A path \in Paths : holder'[path] = q <=> holder[path] = q
    /\ \A path \in Paths : tree'[path] # tree[path] =>
         /\ holder[path] # q
         /\ pc[q] \in LoopPlaces /\ job[q].kind = "writes" => path \notin made[q]
    /\ \A path \in validPaths' \ validPaths :
         /\ tree[path] = "whole" /\ lease[q] # "exclusive"
         /\ pc[q] \in {"runBuilder", "builderRuns", "registerOutputs"} => path \notin made[q]

(* Such a step keeps what the places of the others imply.                  *)
LEMMA OthersAgree ==
  ASSUME SafeInv, NEW p \in Procs, Apart(p), NEW q \in Procs \ {p}
  PROVE  PlaceAgrees(q)'
  <1> USE DEF Apart, Held
  <1>0. PlaceAgrees(q) /\ Held(q)' = Held(q)
    BY DEF SafeInv
  <1>1. JobByPlace(q)'
    BY <1>0 DEF PlaceAgrees, JobByPlace
  <1>2. LeaseByPlace(q)'
    BY <1>0 DEF PlaceAgrees, LeaseByPlace
  <1>3. LocksByPlace(q)'
    BY <1>0 DEF PlaceAgrees, LocksByPlace
  <1>4. TreesByPlace(q)'
    <2>1. pc[q] \in {"runBuilder", "builderRuns", "registerOutputs"} => made[q] \subseteq Held(q)
      BY <1>0 DEF PlaceAgrees, LocksByPlace, JobByPlace, BuildPlaces
    <2>2. pc[q] \in LoopPlaces => made[q] \subseteq Held(q) \/ job[q].kind = "writes"
      BY <1>0 DEF PlaceAgrees, LocksByPlace, JobByPlace, LoopPlaces
    <2>3. pc[q] = "sweep" => lease[q] = "exclusive"
      BY <1>0 DEF PlaceAgrees, LeaseByPlace
    <2>4. made[q] \subseteq Paths
      BY DEF SafeInv, TypeOK
    <2> QED
      BY <1>0, <2>1, <2>2, <2>3, <2>4 DEF PlaceAgrees, TreesByPlace
  <1> QED
    BY <1>1, <1>2, <1>3, <1>4 DEF PlaceAgrees

LEMMA Combine ==
  ASSUME SafeInv, NEW p \in Procs, Apart(p), Common', PlaceAgrees(p)'
  PROVE  SafeInv'
  BY OthersAgree DEF SafeInv, Common

LEMMA FirstPlaces ==
  /\ FirstPlace("build") = "lockOutputs" /\ FirstPlace("drvs") = "writeDrv"
  /\ \A kind \in {"substitute", "sources", "writes"} : FirstPlace(kind) = "lockNext"
  /\ \A kind \in {"delete", "collect"} : FirstPlace(kind) = "swap"
  BY DEF FirstPlace

LEMMA CommandInductive ==
  ASSUME KeepToLocks, SafeInv, NEW p \in Procs
  PROVE  /\ openStore(p) => Apart(p) /\ SafeInv'
         /\ closeStore(p) => Apart(p) /\ SafeInv'
         /\ \A j \in Jobs : StartJob(p, j) => Apart(p) /\ SafeInv'
         /\ EndJob(p) => Apart(p) /\ SafeInv'
         /\ \A path \in Paths : AddRoot(p, path) => Apart(p) /\ SafeInv'
  <1> USE JobsAssumption, ProcsAssumption
      DEF SafeInv, TypeOK, DBTypeOK, Places, PlaceAgrees, JobByPlace, LeaseByPlace, LocksByPlace, TreesByPlace,
          BuildPlaces, LoopPlaces, UnderCollectorLock, Held, At, Goto, dbVars, fileVars, procVars, KeepToLocks
  <1>1. ASSUME openStore(p) PROVE Apart(p) /\ SafeInv'
    <2>1. Apart(p)
      BY <1>1 DEF openStore, Apart
    <2>2. Common'
      BY <1>1 DEF openStore, Common, ValidHasTree, RefsClosed, ReliedStaysValid, CollectorIsAlone
    <2>3. PlaceAgrees(p)'
      BY <1>1 DEF openStore, ValidHasTree
    <2> HIDE DEF SafeInv, PlaceAgrees, TypeOK
    <2> QED
      BY <2>1, <2>2, <2>3, Combine
  <1>2. ASSUME closeStore(p) PROVE Apart(p) /\ SafeInv'
    <2>1. Apart(p)
      BY <1>2 DEF closeStore, Apart
    <2>2. Common'
      BY <1>2 DEF closeStore, Common, ValidHasTree, RefsClosed, ReliedStaysValid, CollectorIsAlone
    <2>3. PlaceAgrees(p)'
      BY <1>2 DEF closeStore, ValidHasTree
    <2> HIDE DEF SafeInv, PlaceAgrees, TypeOK
    <2> QED
      BY <2>1, <2>2, <2>3, Combine
  <1>3. ASSUME NEW j \in Jobs, StartJob(p, j) PROVE Apart(p) /\ SafeInv'
    <2>1. Apart(p)
      BY <1>3 DEF StartJob, FirstPlace, Apart
    <2>2. Common'
      BY <1>3 DEF StartJob, FirstPlace, Common, ValidHasTree, RefsClosed, ReliedStaysValid, CollectorIsAlone
    <2>3. PlaceAgrees(p)'
      BY <1>3, FirstPlaces DEF StartJob, Kinds, ValidHasTree
    <2> HIDE DEF SafeInv, PlaceAgrees, TypeOK
    <2> QED
      BY <2>1, <2>2, <2>3, Combine
  <1>4. ASSUME EndJob(p) PROVE Apart(p) /\ SafeInv'
    <2>1. Apart(p)
      BY <1>4 DEF EndJob, Unlock, Apart
    <2>2. Common'
      BY <1>4 DEF EndJob, Unlock, Common, ValidHasTree, RefsClosed, ReliedStaysValid, CollectorIsAlone
    <2>3. PlaceAgrees(p)'
      BY <1>4 DEF EndJob, Unlock, ValidHasTree
    <2> HIDE DEF SafeInv, PlaceAgrees, TypeOK
    <2> QED
      BY <2>1, <2>2, <2>3, Combine
  <1>5. ASSUME NEW path \in Paths, AddRoot(p, path) PROVE Apart(p) /\ SafeInv'
    <2>1. Apart(p)
      BY <1>5 DEF AddRoot, Apart
    <2>2. Common'
      BY <1>5 DEF AddRoot, Common, ValidHasTree, RefsClosed, ReliedStaysValid, CollectorIsAlone
    <2>3. PlaceAgrees(p)'
      BY <1>5 DEF AddRoot, ValidHasTree
    <2> HIDE DEF SafeInv, PlaceAgrees, TypeOK
    <2> QED
      BY <2>1, <2>2, <2>3, Combine
  <1> QED
    BY <1>1, <1>2, <1>3, <1>4, <1>5

LEMMA BuildInductive ==
  ASSUME KeepToLocks, SafeInv, NEW p \in Procs
  PROVE  /\ \A path \in Paths : LockOutput(p, path) => Apart(p) /\ SafeInv'
         /\ AdoptOutputs(p) => Apart(p) /\ SafeInv'
         /\ RefuseInputs(p) => Apart(p) /\ SafeInv'
         /\ PlanBuild(p) => Apart(p) /\ SafeInv'
         /\ RunBuilder(p) => Apart(p) /\ SafeInv'
         /\ BuilderSucceeds(p) => Apart(p) /\ SafeInv'
         /\ BuildFails(p) => Apart(p) /\ SafeInv'
         /\ RegisterOutputs(p) => Apart(p) /\ SafeInv'
         /\ NoteCommitted(p) => Apart(p) /\ SafeInv'
  <1> USE JobsAssumption, ProcsAssumption
      DEF SafeInv, TypeOK, DBTypeOK, Places, PlaceAgrees, JobByPlace, LeaseByPlace, LocksByPlace, TreesByPlace,
          BuildPlaces, LoopPlaces, UnderCollectorLock, Held, At, Goto, dbVars, fileVars, procVars, KeepToLocks
  <1>1. ASSUME NEW path \in Paths, LockOutput(p, path) PROVE Apart(p) /\ SafeInv'
    <2>1. Apart(p)
      BY <1>1 DEF LockOutput, NextInOrder, TakeLock, Apart
    <2>2. Common'
      BY <1>1 DEF LockOutput, NextInOrder, TakeLock, Common, ValidHasTree, RefsClosed, ReliedStaysValid, CollectorIsAlone
    <2>3. PlaceAgrees(p)'
      BY <1>1 DEF LockOutput, NextInOrder, TakeLock, ValidHasTree
    <2> HIDE DEF SafeInv, PlaceAgrees, TypeOK
    <2> QED
      BY <2>1, <2>2, <2>3, Combine
  <1>2. ASSUME AdoptOutputs(p) PROVE Apart(p) /\ SafeInv'
    <2>1. Apart(p)
      BY <1>2 DEF AdoptOutputs, OutputsOf, Rely, Apart
    <2>2. Common'
      BY <1>2 DEF AdoptOutputs, OutputsOf, Rely, Common, ValidHasTree, RefsClosed, ReliedStaysValid, CollectorIsAlone
    <2>3. PlaceAgrees(p)'
      BY <1>2 DEF AdoptOutputs, OutputsOf, Rely, ValidHasTree
    <2> HIDE DEF SafeInv, PlaceAgrees, TypeOK
    <2> QED
      BY <2>1, <2>2, <2>3, Combine
  <1>3. ASSUME RefuseInputs(p) PROVE Apart(p) /\ SafeInv'
    <2>1. Apart(p)
      BY <1>3 DEF RefuseInputs, Apart
    <2>2. Common'
      BY <1>3 DEF RefuseInputs, Common, ValidHasTree, RefsClosed, ReliedStaysValid, CollectorIsAlone
    <2>3. PlaceAgrees(p)'
      BY <1>3 DEF RefuseInputs, ValidHasTree
    <2> HIDE DEF SafeInv, PlaceAgrees, TypeOK
    <2> QED
      BY <2>1, <2>2, <2>3, Combine
  <1>4. ASSUME PlanBuild(p) PROVE Apart(p) /\ SafeInv'
    <2>1. Apart(p)
      BY <1>4 DEF PlanBuild, OutputsOf, Put, Rely, Apart
    <2>2. Common'
      BY <1>4 DEF PlanBuild, OutputsOf, Put, Rely, Common, ValidHasTree, RefsClosed, ReliedStaysValid, CollectorIsAlone
    <2>3. PlaceAgrees(p)'
      BY <1>4 DEF PlanBuild, OutputsOf, Put, Rely, ValidHasTree
    <2> HIDE DEF SafeInv, PlaceAgrees, TypeOK
    <2> QED
      BY <2>1, <2>2, <2>3, Combine
  <1>5. ASSUME RunBuilder(p) PROVE Apart(p) /\ SafeInv'
    <2>1. Apart(p)
      BY <1>5 DEF RunBuilder, Put, Apart
    <2>2. Common'
      BY <1>5 DEF RunBuilder, Put, Common, ValidHasTree, RefsClosed, ReliedStaysValid, CollectorIsAlone
    <2>3. PlaceAgrees(p)'
      BY <1>5 DEF RunBuilder, Put, ValidHasTree
    <2> HIDE DEF SafeInv, PlaceAgrees, TypeOK
    <2> QED
      BY <2>1, <2>2, <2>3, Combine
  <1>6. ASSUME BuilderSucceeds(p) PROVE Apart(p) /\ SafeInv'
    <2>1. Apart(p)
      BY <1>6 DEF BuilderSucceeds, Put, Apart
    <2>2. Common'
      BY <1>6 DEF BuilderSucceeds, Put, Common, ValidHasTree, RefsClosed, ReliedStaysValid, CollectorIsAlone
    <2>3. PlaceAgrees(p)'
      BY <1>6 DEF BuilderSucceeds, Put, ValidHasTree
    <2> HIDE DEF SafeInv, PlaceAgrees, TypeOK
    <2> QED
      BY <2>1, <2>2, <2>3, Combine
  <1>7. ASSUME BuildFails(p) PROVE Apart(p) /\ SafeInv'
    <2>1. Apart(p)
      BY <1>7 DEF BuildFails, Put, Apart
    <2>2. Common'
      BY <1>7 DEF BuildFails, Put, Common, ValidHasTree, RefsClosed, ReliedStaysValid, CollectorIsAlone
    <2>3. PlaceAgrees(p)'
      BY <1>7 DEF BuildFails, Put, ValidHasTree
    <2> HIDE DEF SafeInv, PlaceAgrees, TypeOK
    <2> QED
      BY <2>1, <2>2, <2>3, Combine
  <1>8. ASSUME RegisterOutputs(p) PROVE Apart(p) /\ SafeInv'
    <2>1. DBTypeOK' /\ validPaths' = validPaths \cup made[p] /\ RefsClosed'
      BY <1>8, RegisteredBatch DEF RegisterOutputs
    <2>2. \A q \in Procs \ {p} : lease[q] # "exclusive"
      BY <1>8 DEF RegisterOutputs, CollectorIsAlone
    <2>3. \A q \in Procs \ {p} :
            pc[q] \in {"runBuilder", "builderRuns", "registerOutputs"} => made[q] \cap made[p] = {}
      BY <1>8 DEF RegisterOutputs
    <2>4. Apart(p)
      BY <1>8, <2>1, <2>2, <2>3 DEF RegisterOutputs, Rely, Apart
    <2>5. Common'
      BY <1>8, <2>1 DEF RegisterOutputs, Rely, Common, ValidHasTree, RefsClosed, ReliedStaysValid, CollectorIsAlone
    <2>6. PlaceAgrees(p)'
      BY <1>8, <2>1 DEF RegisterOutputs, Rely, ValidHasTree
    <2> HIDE DEF SafeInv, PlaceAgrees, TypeOK
    <2> QED
      BY <2>4, <2>5, <2>6, Combine
  <1>9. ASSUME NoteCommitted(p) PROVE Apart(p) /\ SafeInv'
    <2>1. Apart(p)
      BY <1>9 DEF NoteCommitted, Apart
    <2>2. Common'
      BY <1>9 DEF NoteCommitted, Common, ValidHasTree, RefsClosed, ReliedStaysValid, CollectorIsAlone
    <2>3. PlaceAgrees(p)'
      BY <1>9 DEF NoteCommitted, ValidHasTree
    <2> HIDE DEF SafeInv, PlaceAgrees, TypeOK
    <2> QED
      BY <2>1, <2>2, <2>3, Combine
  <1> QED
    BY <1>1, <1>2, <1>3, <1>4, <1>5, <1>6, <1>7, <1>8, <1>9

LEMMA LoopInductive ==
  ASSUME KeepToLocks, SafeInv, NEW p \in Procs
  PROVE  /\ \A path \in Paths : LockNext(p, path) => Apart(p) /\ SafeInv'
         /\ \A path \in Paths : AdoptPath(p, path) => Apart(p) /\ SafeInv'
         /\ \A path \in Paths : NotOffered(p, path) => Apart(p) /\ SafeInv'
         /\ \A path \in Paths : ClearStale(p, path) => Apart(p) /\ SafeInv'
         /\ \A path \in Paths : Stream(p, path) => Apart(p) /\ SafeInv'
         /\ \A path \in Paths : AttemptFails(p, path) => Apart(p) /\ SafeInv'
         /\ \A path \in Paths : Arrive(p, path) => Apart(p) /\ SafeInv'
         /\ \A path \in Paths : Miss(p, path) => Apart(p) /\ SafeInv'
         /\ \A path \in Paths : AdoptTree(p, path) => Apart(p) /\ SafeInv'
         /\ \A path \in Paths : RegisterSource(p, path) => Apart(p) /\ SafeInv'
         /\ \A path \in Paths : SkipWrite(p, path) => Apart(p) /\ SafeInv'
         /\ \A path \in Paths : RefuseWrite(p, path) => Apart(p) /\ SafeInv'
         /\ \A path \in Paths : PrepareWrite(p, path) => Apart(p) /\ SafeInv'
         /\ LoopDone(p) => Apart(p) /\ SafeInv'
         /\ RegisterBatch(p) => Apart(p) /\ SafeInv'
         /\ RegisterRefused(p) => Apart(p) /\ SafeInv'
  <1> USE JobsAssumption, ProcsAssumption
      DEF SafeInv, TypeOK, DBTypeOK, Places, PlaceAgrees, JobByPlace, LeaseByPlace, LocksByPlace, TreesByPlace,
          BuildPlaces, LoopPlaces, UnderCollectorLock, Held, At, Goto, dbVars, fileVars, procVars, KeepToLocks
  <1>1. ASSUME NEW path \in Paths, LockNext(p, path) PROVE Apart(p) /\ SafeInv'
    <2>1. Apart(p)
      BY <1>1 DEF LockNext, NextInOrder, TakeLock, Apart
    <2>2. Common'
      BY <1>1 DEF LockNext, NextInOrder, TakeLock, Common, ValidHasTree, RefsClosed, ReliedStaysValid, CollectorIsAlone
    <2>3. PlaceAgrees(p)'
      BY <1>1 DEF LockNext, NextInOrder, TakeLock, ValidHasTree
    <2> HIDE DEF SafeInv, PlaceAgrees, TypeOK
    <2> QED
      BY <2>1, <2>2, <2>3, Combine
  <1>2. ASSUME NEW path \in Paths, AdoptPath(p, path) PROVE Apart(p) /\ SafeInv'
    <2>1. Apart(p)
      BY <1>2 DEF AdoptPath, PassOver, Unlock, Rely, Apart
    <2>2. Common'
      BY <1>2 DEF AdoptPath, PassOver, Unlock, Rely, Common, ValidHasTree, RefsClosed, ReliedStaysValid, CollectorIsAlone
    <2>3. PlaceAgrees(p)'
      BY <1>2 DEF AdoptPath, PassOver, Unlock, Rely, ValidHasTree
    <2> HIDE DEF SafeInv, PlaceAgrees, TypeOK
    <2> QED
      BY <2>1, <2>2, <2>3, Combine
  <1>3. ASSUME NEW path \in Paths, NotOffered(p, path) PROVE Apart(p) /\ SafeInv'
    <2>1. Apart(p)
      BY <1>3 DEF NotOffered, PassOver, Unlock, Apart
    <2>2. Common'
      BY <1>3 DEF NotOffered, PassOver, Unlock, Common, ValidHasTree, RefsClosed, ReliedStaysValid, CollectorIsAlone
    <2>3. PlaceAgrees(p)'
      BY <1>3 DEF NotOffered, PassOver, Unlock, ValidHasTree
    <2> HIDE DEF SafeInv, PlaceAgrees, TypeOK
    <2> QED
      BY <2>1, <2>2, <2>3, Combine
  <1>4. ASSUME NEW path \in Paths, ClearStale(p, path) PROVE Apart(p) /\ SafeInv'
    <2>1. Apart(p)
      BY <1>4 DEF ClearStale, Put, Apart
    <2>2. Common'
      BY <1>4 DEF ClearStale, Put, Common, ValidHasTree, RefsClosed, ReliedStaysValid, CollectorIsAlone
    <2>3. PlaceAgrees(p)'
      BY <1>4 DEF ClearStale, Put, ValidHasTree
    <2> HIDE DEF SafeInv, PlaceAgrees, TypeOK
    <2> QED
      BY <2>1, <2>2, <2>3, Combine
  <1>5. ASSUME NEW path \in Paths, Stream(p, path) PROVE Apart(p) /\ SafeInv'
    <2>1. Apart(p)
      BY <1>5 DEF Stream, Put, Apart
    <2>2. Common'
      BY <1>5 DEF Stream, Put, Common, ValidHasTree, RefsClosed, ReliedStaysValid, CollectorIsAlone
    <2>3. PlaceAgrees(p)'
      BY <1>5 DEF Stream, Put, ValidHasTree
    <2> HIDE DEF SafeInv, PlaceAgrees, TypeOK
    <2> QED
      BY <2>1, <2>2, <2>3, Combine
  <1>6. ASSUME NEW path \in Paths, AttemptFails(p, path) PROVE Apart(p) /\ SafeInv'
    <2>1. Apart(p)
      BY <1>6 DEF AttemptFails, Put, Apart
    <2>2. Common'
      BY <1>6 DEF AttemptFails, Put, Common, ValidHasTree, RefsClosed, ReliedStaysValid, CollectorIsAlone
    <2>3. PlaceAgrees(p)'
      BY <1>6 DEF AttemptFails, Put, ValidHasTree
    <2> HIDE DEF SafeInv, PlaceAgrees, TypeOK
    <2> QED
      BY <2>1, <2>2, <2>3, Combine
  <1>7. ASSUME NEW path \in Paths, Arrive(p, path) PROVE Apart(p) /\ SafeInv'
    <2>1. Apart(p)
      BY <1>7 DEF Arrive, Put, Apart
    <2>2. Common'
      BY <1>7 DEF Arrive, Put, Common, ValidHasTree, RefsClosed, ReliedStaysValid, CollectorIsAlone
    <2>3. PlaceAgrees(p)'
      BY <1>7 DEF Arrive, Put, ValidHasTree
    <2> HIDE DEF SafeInv, PlaceAgrees, TypeOK
    <2> QED
      BY <2>1, <2>2, <2>3, Combine
  <1>8. ASSUME NEW path \in Paths, Miss(p, path) PROVE Apart(p) /\ SafeInv'
    <2>1. Apart(p)
      BY <1>8 DEF Miss, PassOver, Unlock, Put, Apart
    <2>2. Common'
      BY <1>8 DEF Miss, PassOver, Unlock, Put, Common, ValidHasTree, RefsClosed, ReliedStaysValid, CollectorIsAlone
    <2>3. PlaceAgrees(p)'
      BY <1>8 DEF Miss, PassOver, Unlock, Put, ValidHasTree
    <2> HIDE DEF SafeInv, PlaceAgrees, TypeOK
    <2> QED
      BY <2>1, <2>2, <2>3, Combine
  <1>9. ASSUME NEW path \in Paths, AdoptTree(p, path) PROVE Apart(p) /\ SafeInv'
    <2>1. Apart(p)
      BY <1>9 DEF AdoptTree, Apart
    <2>2. Common'
      BY <1>9 DEF AdoptTree, Common, ValidHasTree, RefsClosed, ReliedStaysValid, CollectorIsAlone
    <2>3. PlaceAgrees(p)'
      BY <1>9 DEF AdoptTree, ValidHasTree
    <2> HIDE DEF SafeInv, PlaceAgrees, TypeOK
    <2> QED
      BY <2>1, <2>2, <2>3, Combine
  <1>10. ASSUME NEW path \in Paths, RegisterSource(p, path) PROVE Apart(p) /\ SafeInv'
    <2>1. DBTypeOK' /\ validPaths' = validPaths \cup {path} /\ RefsClosed'
      BY <1>10, RegisteredSource DEF RegisterSource
    <2>2. \A q \in Procs \ {p} : lease[q] # "exclusive"
      BY <1>10 DEF RegisterSource, CollectorIsAlone
    <2>3. \A q \in Procs \ {p} :
            pc[q] \in {"runBuilder", "builderRuns", "registerOutputs"} => made[q] \cap {path} = {}
      BY <1>10 DEF RegisterSource
    <2>4. Apart(p)
      BY <1>10, <2>1, <2>2, <2>3 DEF RegisterSource, PassOver, Unlock, Rely, Apart
    <2>5. Common'
      BY <1>10, <2>1 DEF RegisterSource, PassOver, Unlock, Rely, Common, ValidHasTree, RefsClosed, ReliedStaysValid, CollectorIsAlone
    <2>6. PlaceAgrees(p)'
      BY <1>10, <2>1 DEF RegisterSource, PassOver, Unlock, Rely, ValidHasTree
    <2> HIDE DEF SafeInv, PlaceAgrees, TypeOK
    <2> QED
      BY <2>4, <2>5, <2>6, Combine
  <1>11. ASSUME NEW path \in Paths, SkipWrite(p, path) PROVE Apart(p) /\ SafeInv'
    <2>1. Apart(p)
      BY <1>11 DEF SkipWrite, PassOver, Unlock, Apart
    <2>2. Common'
      BY <1>11 DEF SkipWrite, PassOver, Unlock, Common, ValidHasTree, RefsClosed, ReliedStaysValid, CollectorIsAlone
    <2>3. PlaceAgrees(p)'
      BY <1>11 DEF SkipWrite, PassOver, Unlock, ValidHasTree
    <2> HIDE DEF SafeInv, PlaceAgrees, TypeOK
    <2> QED
      BY <2>1, <2>2, <2>3, Combine
  <1>12. ASSUME NEW path \in Paths, RefuseWrite(p, path) PROVE Apart(p) /\ SafeInv'
    <2>1. Apart(p)
      BY <1>12 DEF RefuseWrite, Apart
    <2>2. Common'
      BY <1>12 DEF RefuseWrite, Common, ValidHasTree, RefsClosed, ReliedStaysValid, CollectorIsAlone
    <2>3. PlaceAgrees(p)'
      BY <1>12 DEF RefuseWrite, ValidHasTree
    <2> HIDE DEF SafeInv, PlaceAgrees, TypeOK
    <2> QED
      BY <2>1, <2>2, <2>3, Combine
  <1>13. ASSUME NEW path \in Paths, PrepareWrite(p, path) PROVE Apart(p) /\ SafeInv'
    <2>1. Apart(p)
      BY <1>13 DEF PrepareWrite, PassOver, Unlock, Apart
    <2>2. Common'
      BY <1>13 DEF PrepareWrite, PassOver, Unlock, Common, ValidHasTree, RefsClosed, ReliedStaysValid, CollectorIsAlone
    <2>3. PlaceAgrees(p)'
      BY <1>13 DEF PrepareWrite, PassOver, Unlock, ValidHasTree
    <2> HIDE DEF SafeInv, PlaceAgrees, TypeOK
    <2> QED
      BY <2>1, <2>2, <2>3, Combine
  <1>14. ASSUME LoopDone(p) PROVE Apart(p) /\ SafeInv'
    <2>1. Apart(p)
      BY <1>14 DEF LoopDone, Apart
    <2>2. Common'
      BY <1>14 DEF LoopDone, Common, ValidHasTree, RefsClosed, ReliedStaysValid, CollectorIsAlone
    <2>3. PlaceAgrees(p)'
      BY <1>14 DEF LoopDone, ValidHasTree
    <2> HIDE DEF SafeInv, PlaceAgrees, TypeOK
    <2> QED
      BY <2>1, <2>2, <2>3, Combine
  <1>15. ASSUME RegisterBatch(p) PROVE Apart(p) /\ SafeInv'
    <2>1. DBTypeOK' /\ validPaths' = validPaths \cup made[p] /\ RefsClosed'
      BY <1>15, RegisteredBatch DEF RegisterBatch
    <2>2. \A q \in Procs \ {p} : lease[q] # "exclusive"
      BY <1>15 DEF RegisterBatch, CollectorIsAlone
    <2>3. \A q \in Procs \ {p} :
            pc[q] \in {"runBuilder", "builderRuns", "registerOutputs"} => made[q] \cap made[p] = {}
      BY <1>15 DEF RegisterBatch
    <2>4. Apart(p)
      BY <1>15, <2>1, <2>2, <2>3 DEF RegisterBatch, Rely, Apart
    <2>5. Common'
      BY <1>15, <2>1 DEF RegisterBatch, Rely, Common, ValidHasTree, RefsClosed, ReliedStaysValid, CollectorIsAlone
    <2>6. PlaceAgrees(p)'
      BY <1>15, <2>1 DEF RegisterBatch, Rely, ValidHasTree
    <2> HIDE DEF SafeInv, PlaceAgrees, TypeOK
    <2> QED
      BY <2>4, <2>5, <2>6, Combine
  <1>16. ASSUME RegisterRefused(p) PROVE Apart(p) /\ SafeInv'
    <2>1. Apart(p)
      BY <1>16 DEF RegisterRefused, registerPathsRefused, Apart
    <2>2. Common'
      BY <1>16 DEF RegisterRefused, registerPathsRefused, Common, ValidHasTree, RefsClosed, ReliedStaysValid, CollectorIsAlone
    <2>3. PlaceAgrees(p)'
      BY <1>16 DEF RegisterRefused, registerPathsRefused, ValidHasTree
    <2> HIDE DEF SafeInv, PlaceAgrees, TypeOK
    <2> QED
      BY <2>1, <2>2, <2>3, Combine
  <1> QED
    BY <1>1, <1>2, <1>3, <1>4, <1>5, <1>6, <1>7, <1>8, <1>9, <1>10, <1>11, <1>12, <1>13, <1>14, <1>15, <1>16

LEMMA CollectorInductive ==
  ASSUME KeepToLocks, SafeInv, NEW p \in Procs
  PROVE  /\ TakeCollectorLock(p) => Apart(p) /\ SafeInv'
         /\ MarkDead(p) => Apart(p) /\ SafeInv'
         /\ UnregisterDead(p) => Apart(p) /\ SafeInv'
         /\ \A path \in Paths : DeleteRow(p, path) => Apart(p) /\ SafeInv'
         /\ \A path \in Paths : DeleteRefused(p, path) => Apart(p) /\ SafeInv'
         /\ \A path \in Paths : TearTree(p, path) => Apart(p) /\ SafeInv'
         /\ \A path \in Paths : RemoveTree(p, path) => Apart(p) /\ SafeInv'
         /\ SweepDone(p) => Apart(p) /\ SafeInv'
         /\ DropCollectorLock(p) => Apart(p) /\ SafeInv'
         /\ RenewLease(p) => Apart(p) /\ SafeInv'
  <1> USE JobsAssumption, ProcsAssumption
      DEF SafeInv, TypeOK, DBTypeOK, Places, PlaceAgrees, JobByPlace, LeaseByPlace, LocksByPlace, TreesByPlace,
          BuildPlaces, LoopPlaces, UnderCollectorLock, Held, At, Goto, dbVars, fileVars, procVars, KeepToLocks
  <1>1. ASSUME TakeCollectorLock(p) PROVE Apart(p) /\ SafeInv'
    <2>1. Apart(p)
      BY <1>1 DEF TakeCollectorLock, Apart
    <2>2. Common'
      BY <1>1 DEF TakeCollectorLock, Common, ValidHasTree, RefsClosed, ReliedStaysValid, CollectorIsAlone
    <2>3. PlaceAgrees(p)'
      BY <1>1 DEF TakeCollectorLock, ValidHasTree
    <2> HIDE DEF SafeInv, PlaceAgrees, TypeOK
    <2> QED
      BY <2>1, <2>2, <2>3, Combine
  <1>2. ASSUME MarkDead(p) PROVE Apart(p) /\ SafeInv'
    <2>1. Apart(p)
      BY <1>2 DEF MarkDead, Apart
    <2>2. Common'
      BY <1>2 DEF MarkDead, Common, ValidHasTree, RefsClosed, ReliedStaysValid, CollectorIsAlone
    <2>3. PlaceAgrees(p)'
      BY <1>2 DEF MarkDead, ValidHasTree
    <2> HIDE DEF SafeInv, PlaceAgrees, TypeOK
    <2> QED
      BY <2>1, <2>2, <2>3, Combine
  <1>3. ASSUME UnregisterDead(p) PROVE Apart(p) /\ SafeInv'
    <2>1. DBTypeOK' /\ validPaths' = validPaths \ todo[p] /\ RefsClosed'
      BY <1>3, Unregistered DEF UnregisterDead
    <2>2. Apart(p)
      BY <1>3, <2>1 DEF UnregisterDead, Apart
    <2>3. Common'
      BY <1>3, <2>1 DEF UnregisterDead, Common, ValidHasTree, RefsClosed, ReliedStaysValid, CollectorIsAlone
    <2>4. PlaceAgrees(p)'
      BY <1>3, <2>1 DEF UnregisterDead, ValidHasTree
    <2> HIDE DEF SafeInv, PlaceAgrees, TypeOK
    <2> QED
      BY <2>2, <2>3, <2>4, Combine
  <1>4. ASSUME NEW path \in Paths, DeleteRow(p, path) PROVE Apart(p) /\ SafeInv'
    <2>1. DBTypeOK' /\ validPaths' = validPaths \ {path} /\ RefsClosed'
      BY <1>4, UnregisteredRow DEF DeleteRow
    <2>2. Apart(p)
      BY <1>4, <2>1 DEF DeleteRow, TakeLock, Apart
    <2>3. Common'
      BY <1>4, <2>1 DEF DeleteRow, TakeLock, Common, ValidHasTree, RefsClosed, ReliedStaysValid, CollectorIsAlone
    <2>4. PlaceAgrees(p)'
      BY <1>4, <2>1 DEF DeleteRow, TakeLock, ValidHasTree
    <2> HIDE DEF SafeInv, PlaceAgrees, TypeOK
    <2> QED
      BY <2>2, <2>3, <2>4, Combine
  <1>5. ASSUME NEW path \in Paths, DeleteRefused(p, path) PROVE Apart(p) /\ SafeInv'
    <2>1. Apart(p)
      BY <1>5 DEF DeleteRefused, unregisterPathRowRefused, Apart
    <2>2. Common'
      BY <1>5 DEF DeleteRefused, unregisterPathRowRefused, Common, ValidHasTree, RefsClosed, ReliedStaysValid, CollectorIsAlone
    <2>3. PlaceAgrees(p)'
      BY <1>5 DEF DeleteRefused, unregisterPathRowRefused, ValidHasTree
    <2> HIDE DEF SafeInv, PlaceAgrees, TypeOK
    <2> QED
      BY <2>1, <2>2, <2>3, Combine
  <1>6. ASSUME NEW path \in Paths, TearTree(p, path) PROVE Apart(p) /\ SafeInv'
    <2>1. \A q \in Procs \ {p} : lease[q] = "none" /\ pc[q] \notin LoopPlaces /\ Held(q) = {}
      BY <1>6 DEF TearTree, Doomed, CollectorIsAlone
    <2>2. Apart(p)
      BY <1>6, <2>1 DEF TearTree, Doomed, NextInOrder, Put, Apart
    <2>3. Common'
      BY <1>6 DEF TearTree, Doomed, NextInOrder, Put, Common, ValidHasTree, RefsClosed, ReliedStaysValid, CollectorIsAlone
    <2>4. PlaceAgrees(p)'
      BY <1>6 DEF TearTree, Doomed, NextInOrder, Put, ValidHasTree
    <2> HIDE DEF SafeInv, PlaceAgrees, TypeOK
    <2> QED
      BY <2>2, <2>3, <2>4, Combine
  <1>7. ASSUME NEW path \in Paths, RemoveTree(p, path) PROVE Apart(p) /\ SafeInv'
    <2>1. \A q \in Procs \ {p} : lease[q] = "none" /\ pc[q] \notin LoopPlaces /\ Held(q) = {}
      BY <1>7 DEF RemoveTree, Doomed, CollectorIsAlone
    <2>2. Apart(p)
      BY <1>7, <2>1 DEF RemoveTree, Doomed, NextInOrder, PassOver, Unlock, Put, Apart
    <2>3. Common'
      BY <1>7 DEF RemoveTree, Doomed, NextInOrder, PassOver, Unlock, Put, Common, ValidHasTree, RefsClosed, ReliedStaysValid, CollectorIsAlone
    <2>4. PlaceAgrees(p)'
      BY <1>7 DEF RemoveTree, Doomed, NextInOrder, PassOver, Unlock, Put, ValidHasTree
    <2> HIDE DEF SafeInv, PlaceAgrees, TypeOK
    <2> QED
      BY <2>2, <2>3, <2>4, Combine
  <1>8. ASSUME SweepDone(p) PROVE Apart(p) /\ SafeInv'
    <2>1. Apart(p)
      BY <1>8 DEF SweepDone, Apart
    <2>2. Common'
      BY <1>8 DEF SweepDone, Common, ValidHasTree, RefsClosed, ReliedStaysValid, CollectorIsAlone
    <2>3. PlaceAgrees(p)'
      BY <1>8 DEF SweepDone, ValidHasTree
    <2> HIDE DEF SafeInv, PlaceAgrees, TypeOK
    <2> QED
      BY <2>1, <2>2, <2>3, Combine
  <1>9. ASSUME DropCollectorLock(p) PROVE Apart(p) /\ SafeInv'
    <2>1. Apart(p)
      BY <1>9 DEF DropCollectorLock, Apart
    <2>2. Common'
      BY <1>9 DEF DropCollectorLock, Common, ValidHasTree, RefsClosed, ReliedStaysValid, CollectorIsAlone
    <2>3. PlaceAgrees(p)'
      BY <1>9 DEF DropCollectorLock, ValidHasTree
    <2> HIDE DEF SafeInv, PlaceAgrees, TypeOK
    <2> QED
      BY <2>1, <2>2, <2>3, Combine
  <1>10. ASSUME RenewLease(p) PROVE Apart(p) /\ SafeInv'
    <2>1. Apart(p)
      BY <1>10 DEF RenewLease, Apart
    <2>2. Common'
      BY <1>10 DEF RenewLease, Common, ValidHasTree, RefsClosed, ReliedStaysValid, CollectorIsAlone
    <2>3. PlaceAgrees(p)'
      BY <1>10 DEF RenewLease, ValidHasTree
    <2> HIDE DEF SafeInv, PlaceAgrees, TypeOK
    <2> QED
      BY <2>1, <2>2, <2>3, Combine
  <1> QED
    BY <1>1, <1>2, <1>3, <1>4, <1>5, <1>6, <1>7, <1>8, <1>9, <1>10

LEMMA EndInductive ==
  ASSUME KeepToLocks, SafeInv, NEW p \in Procs
  PROVE  /\ Interrupt(p) => Apart(p) /\ SafeInv'
         /\ Crash(p) => Apart(p) /\ SafeInv'
  <1> USE JobsAssumption, ProcsAssumption
      DEF SafeInv, TypeOK, DBTypeOK, Places, PlaceAgrees, JobByPlace, LeaseByPlace, LocksByPlace, TreesByPlace,
          BuildPlaces, LoopPlaces, UnderCollectorLock, Held, At, Goto, dbVars, fileVars, procVars, KeepToLocks
  <1>1. ASSUME Interrupt(p) PROVE Apart(p) /\ SafeInv'
    <2>1. Apart(p)
      BY <1>1 DEF Interrupt, Interruptible, Discarded, Put, Unlock, Apart
    <2>2. Common'
      BY <1>1 DEF Interrupt, Interruptible, Discarded, Put, Unlock, Common, ValidHasTree, RefsClosed, ReliedStaysValid, CollectorIsAlone
    <2>3. PlaceAgrees(p)'
      BY <1>1 DEF Interrupt, Interruptible, Discarded, Put, Unlock, ValidHasTree
    <2> HIDE DEF SafeInv, PlaceAgrees, TypeOK
    <2> QED
      BY <2>1, <2>2, <2>3, Combine
  <1>2. ASSUME Crash(p) PROVE Apart(p) /\ SafeInv'
    <2>1. Apart(p)
      BY <1>2 DEF Crash, Unlock, Apart
    <2>2. Common'
      BY <1>2 DEF Crash, Unlock, Common, ValidHasTree, RefsClosed, ReliedStaysValid, CollectorIsAlone
    <2>3. PlaceAgrees(p)'
      BY <1>2 DEF Crash, Unlock, ValidHasTree
    <2> HIDE DEF SafeInv, PlaceAgrees, TypeOK
    <2> QED
      BY <2>1, <2>2, <2>3, Combine
  <1> QED
    BY <1>1, <1>2

\* Without jobs that write derivations, no process is where one is written.
LEMMA NoDrvStep ==
  ASSUME SafeInv, NEW p \in Procs
  PROVE  ~ DrvStep(p)
  BY DEF SafeInv, PlaceAgrees, JobByPlace, DrvStep, OpenDrv, FinishDrv, DrvsDone, Goto

\* A step of process p, of any kind.
StepOf(p) ==
  \/ openStore(p) \/ closeStore(p) \/ JobStep(p)
  \/ \E j \in Jobs : StartJob(p, j)
  \/ \E path \in Paths : AddRoot(p, path)
  \/ Interrupt(p) \/ Crash(p)

LEMMA StepInductive ==
  ASSUME KeepToLocks, SafeInv, NEW p \in Procs, StepOf(p)
  PROVE  Apart(p) /\ SafeInv'
  <1>1. CASE openStore(p) \/ closeStore(p) \/ EndJob(p)
             \/ (\E j \in Jobs : StartJob(p, j)) \/ (\E path \in Paths : AddRoot(p, path))
    BY <1>1, CommandInductive
  <1>2. CASE BuildStep(p)
    BY <1>2, BuildInductive DEF BuildStep
  <1>3. CASE LoopStep(p)
    BY <1>3, LoopInductive DEF LoopStep
  <1>4. CASE CollectorStep(p)
    BY <1>4, CollectorInductive DEF CollectorStep
  <1>5. CASE Interrupt(p) \/ Crash(p)
    BY <1>5, EndInductive
  <1> QED
    BY <1>1, <1>2, <1>3, <1>4, <1>5, NoDrvStep DEF StepOf, JobStep

LEMMA StutterInductive ==
  ASSUME SafeInv, UNCHANGED <<dbVars, tree, holder, procVars>>, roots' \subseteq roots
  PROVE  SafeInv'
  <1>1. UNCHANGED <<validPaths, refsTable, tree, holder, lease, pc, job, todo, made, missed, relied>>
    BY DEF dbVars, procVars
  <1>2. \A p \in Procs : PlaceAgrees(p)'
    BY <1>1 DEF SafeInv, PlaceAgrees, JobByPlace, LeaseByPlace, LocksByPlace, TreesByPlace, Held
  <1> QED
    BY <1>1, <1>2
    DEF SafeInv, TypeOK, DBTypeOK, ValidHasTree, RefsClosed, ReliedStaysValid, CollectorIsAlone

LEMMA NextIsAStep ==
  ASSUME [Next]_vars
  PROVE  \/ \E p \in Procs : StepOf(p)
         \/ UNCHANGED <<dbVars, tree, holder, procVars>> /\ roots' \subseteq roots
  BY DEF Next, StepOf, DropRoot, AllGone, vars, dbVars, procVars

(* The strengthened invariant, place by place: every step of a process is   *)
(* of a place that says what it may touch, and leaves what the other places *)
(* say alone (Apart).                                                       *)
THEOREM Inductive == KeepToLocks /\ Spec => []SafeInv
  <1>1. KeepToLocks /\ SafeInv /\ [Next]_vars => KeepToLocks' /\ SafeInv'
    BY NextIsAStep, StepInductive, StutterInductive DEF KeepToLocks
  <1> QED
    BY InitInductive, <1>1, PTL DEF Spec

(* A row always has its whole tree: for any number of processes, any paths *)
(* and references, and any jobs that keep to the path locks, with crashes  *)
(* and interrupts anywhere but at the end of a commit (Nix.Builder,        *)
(* Nix.Store, Nix.Store.GC).                                               *)
THEOREM ValidHasTreeHolds == KeepToLocks /\ Spec => []ValidHasTree
  BY Inductive, PTL DEF SafeInv

(* No valid path refers to one that is not.                                *)
THEOREM RefsClosedHolds == KeepToLocks /\ Spec => []RefsClosed
  BY Inductive, PTL DEF SafeInv

(* What a process adopted, built from or registered stays valid until it   *)
(* closes the store or collects: the lease keeps every collection away.    *)
THEOREM ReliedStaysValidHolds == KeepToLocks /\ Spec => []ReliedStaysValid
  BY Inductive, PTL DEF SafeInv

-----------------------------------------------------------------------------
(* The two action properties.                                              *)

LEMMA OwnTreeMoves ==
  ASSUME SafeInv, NEW p \in Procs, StepOf(p), NEW path \in Paths, tree'[path] # tree[path]
  PROVE  pc'[p] # pc[p] \/ pc[p] = "sweep"
  <1> USE DEF SafeInv, TypeOK, Goto, fileVars, procVars
  <1>1. CASE BuildStep(p)
    BY <1>1 DEF BuildStep, LockOutput, AdoptOutputs, RefuseInputs, PlanBuild, RunBuilder, BuilderSucceeds,
                BuildFails, RegisterOutputs, NoteCommitted
  <1>2. CASE LoopStep(p)
    BY <1>2 DEF LoopStep, LockNext, AdoptPath, NotOffered, ClearStale, Stream, AttemptFails, Arrive, Miss,
                AdoptTree, RegisterSource, SkipWrite, RefuseWrite, PrepareWrite, LoopDone, RegisterBatch,
                RegisterRefused
  <1>3. CASE CollectorStep(p)
    BY <1>3 DEF CollectorStep, TakeCollectorLock, MarkDead, UnregisterDead, DeleteRow, DeleteRefused,
                TearTree, RemoveTree, Doomed, SweepDone, DropCollectorLock, RenewLease
  <1>4. CASE Interrupt(p)
    BY <1>4 DEF Interrupt, Interruptible, UnderCollectorLock
  <1>5. ~ DrvStep(p)
    BY NoDrvStep
  <1> QED
    BY <1>1, <1>2, <1>3, <1>4, <1>5
    DEF StepOf, JobStep, openStore, closeStore, StartJob, EndJob, AddRoot, Crash

(* No step of another process changes a tree whose lock a process holds    *)
(* (withOutputLocks, substitutePaths, deleteStorePathChecked).             *)
THEOREM LockedTreeIsPrivateHolds == KeepToLocks /\ Spec => LockedTreeIsPrivate
  <1> DEFINE Kept == \A p \in Procs, path \in Paths :
               holder[path] = p /\ tree'[path] # tree[path] => pc'[p] # pc[p] \/ pc[p] = "sweep"
  <1>1. KeepToLocks /\ SafeInv /\ [Next]_vars => [Kept]_vars
    <2> SUFFICES ASSUME KeepToLocks, SafeInv, [Next]_vars, NEW p \in Procs, NEW path \in Paths,
                        holder[path] = p, tree'[path] # tree[path]
                 PROVE  pc'[p] # pc[p] \/ pc[p] = "sweep"
      OBVIOUS
    <2>1. PICK q \in Procs : StepOf(q)
      BY NextIsAStep
    <2>2. CASE q = p
      BY <2>1, <2>2, OwnTreeMoves
    <2>3. CASE q # p
      BY <2>1, <2>3, StepInductive DEF Apart
    <2> QED
      BY <2>2, <2>3
  <1>2. KeepToLocks /\ [Next]_vars => KeepToLocks'
    BY DEF KeepToLocks
  <1> QED
    BY Inductive, <1>1, <1>2, PTL DEF Spec, LockedTreeIsPrivate

-----------------------------------------------------------------------------
(* Reachability, and what is dead.                                         *)

LEMMA LiveIsClosed ==
  ASSUME TypeOK
  PROVE  roots \cap validPaths \subseteq Live /\ ClosedUnderRefs(Live) /\ Live \subseteq Paths
  BY DEF TypeOK, DBTypeOK, Live, ClosedUnderRefs, queryReferences

(* Fewer rows, edges and roots reach less.                                 *)
LEMMA LiveShrinks ==
  ASSUME TypeOK, validPaths' \subseteq validPaths, refsTable' \subseteq refsTable, roots' \subseteq roots
  PROVE  Live' \subseteq Live
  <1>1. \A path : queryReferences(path)' \subseteq queryReferences(path)
    BY DEF queryReferences
  <1>2. PICK old \in SUBSET Paths : old = Live
    BY LiveIsClosed
  <1>3. /\ roots' \cap validPaths' \subseteq old
        /\ \A path \in old : queryReferences(path)' \subseteq old
    BY <1>1, <1>2, LiveIsClosed DEF ClosedUnderRefs
  <1>4. \A path \in Live' : path \in old
    BY <1>2, <1>3 DEF Live, ClosedUnderRefs
  <1> QED
    BY <1>2, <1>4

(* Away from the store, and in a collection but for the moment its rows    *)
(* go, a process changes neither rows nor roots.                           *)
LEMMA RowsAndRootsStay ==
  ASSUME SafeInv, NEW p \in Procs, StepOf(p), lease[p] # "shared", pc[p] # "marked"
  PROVE  UNCHANGED <<validPaths, refsTable, roots>>
  <1> USE DEF SafeInv, TypeOK, PlaceAgrees, LeaseByPlace, UnderCollectorLock, Goto, dbVars, fileVars, procVars
  <1>0. pc[p] \in {"out", "gone", "swap", "collector", "sweep", "renew"}
    BY DEF Places
  <1>1. CASE BuildStep(p)
    BY <1>0, <1>1 DEF BuildStep, LockOutput, AdoptOutputs, RefuseInputs, PlanBuild, RunBuilder, BuilderSucceeds,
                BuildFails, RegisterOutputs, NoteCommitted
  <1>2. CASE LoopStep(p)
    BY <1>0, <1>2 DEF LoopStep, LockNext, AdoptPath, NotOffered, ClearStale, Stream, AttemptFails, Arrive, Miss,
                AdoptTree, RegisterSource, SkipWrite, RefuseWrite, PrepareWrite, LoopDone, RegisterBatch,
                RegisterRefused
  <1>3. CASE CollectorStep(p)
    BY <1>0, <1>3 DEF CollectorStep, TakeCollectorLock, MarkDead, UnregisterDead, DeleteRow, DeleteRefused,
                TearTree, RemoveTree, Doomed, SweepDone, DropCollectorLock, RenewLease
  <1>4. ~ DrvStep(p)
    BY NoDrvStep
  <1> QED
    BY <1>0, <1>1, <1>2, <1>3, <1>4
    DEF StepOf, JobStep, openStore, closeStore, StartJob, EndJob, AddRoot, Interrupt, Crash

(* Rows go only from where a collector has marked what is dead.            *)
LEMMA RowsStay ==
  ASSUME KeepToLocks, SafeInv, NEW p \in Procs, StepOf(p), pc[p] # "marked"
  PROVE  validPaths \subseteq validPaths'
  <1> USE DEF SafeInv, TypeOK, Goto, dbVars, fileVars, procVars
  <1>1. CASE BuildStep(p)
    BY <1>1 DEF BuildStep, LockOutput, AdoptOutputs, RefuseInputs, PlanBuild, RunBuilder, BuilderSucceeds,
                BuildFails, RegisterOutputs, NoteCommitted, registerPaths, insertPathRows
  <1>2. CASE LoopStep(p)
    BY <1>2 DEF LoopStep, LockNext, AdoptPath, NotOffered, ClearStale, Stream, AttemptFails, Arrive, Miss,
                AdoptTree, RegisterSource, SkipWrite, RefuseWrite, PrepareWrite, LoopDone, RegisterBatch,
                RegisterRefused, registerPathsRefused, registerPaths, insertPathRows
  <1>3. CASE CollectorStep(p)
    BY <1>3 DEF CollectorStep, TakeCollectorLock, MarkDead, UnregisterDead, DeleteRow, DeleteRefused,
                TearTree, RemoveTree, Doomed, SweepDone, DropCollectorLock, RenewLease
  <1>4. ~ DrvStep(p)
    BY NoDrvStep
  <1> QED
    BY <1>1, <1>2, <1>3, <1>4
    DEF StepOf, JobStep, openStore, closeStore, StartJob, EndJob, AddRoot, Interrupt, Crash

(* What a collector does from where it has marked what is dead.            *)
LEMMA MarkedStep ==
  ASSUME SafeInv, NEW p \in Procs, StepOf(p), pc[p] = "marked"
  PROVE  /\ validPaths' \subseteq validPaths /\ refsTable' \subseteq refsTable /\ roots' = roots
         /\ validPaths \ validPaths' \subseteq todo[p]
         /\ pc'[p] = "marked" => todo'[p] \subseteq todo[p]
         /\ pc'[p] = "sweep" => todo'[p] = todo[p] /\ job'[p] = job[p]
  <1> USE DEF SafeInv, TypeOK, Goto, dbVars, fileVars, procVars
  <1>1. CASE CollectorStep(p)
    BY <1>1 DEF CollectorStep, TakeCollectorLock, MarkDead, UnregisterDead, DeleteRow, DeleteRefused,
                TearTree, RemoveTree, Doomed, SweepDone, DropCollectorLock, RenewLease,
                unregisterPathRows, unregisterPathRow, unregisterPathRowRefused, deleteRows
  <1>2. CASE Interrupt(p) \/ Crash(p)
    BY <1>2 DEF Interrupt, Crash, UnderCollectorLock
  <1>3. ~ BuildStep(p)
    BY DEF BuildStep, LockOutput, AdoptOutputs, RefuseInputs, PlanBuild, RunBuilder, BuilderSucceeds,
           BuildFails, RegisterOutputs, NoteCommitted
  <1>4. ~ LoopStep(p)
    BY DEF LoopStep, LockNext, AdoptPath, NotOffered, ClearStale, Stream, AttemptFails, Arrive, Miss,
           AdoptTree, RegisterSource, SkipWrite, RefuseWrite, PrepareWrite, LoopDone, RegisterBatch,
           RegisterRefused
  <1>5. ~ DrvStep(p)
    BY NoDrvStep
  <1> QED
    BY <1>1, <1>2, <1>3, <1>4, <1>5
    DEF StepOf, JobStep, openStore, closeStore, StartJob, EndJob, AddRoot

(* How a process comes to have marked paths.                               *)
LEMMA EnteringDead ==
  ASSUME SafeInv, NEW p \in Procs, StepOf(p), pc[p] # "marked",
         pc'[p] = "marked" \/ (pc'[p] = "sweep" /\ job'[p].kind = "delete")
  PROVE  MarkDead(p) \/ (pc[p] = "sweep" /\ job[p].kind = "delete" /\ todo'[p] \subseteq todo[p])
  <1> USE DEF SafeInv, TypeOK, PlaceAgrees, JobByPlace, UnderCollectorLock, Goto, fileVars, procVars
  <1>1. CASE BuildStep(p)
    BY <1>1 DEF BuildStep, LockOutput, AdoptOutputs, RefuseInputs, PlanBuild, RunBuilder, BuilderSucceeds,
                BuildFails, RegisterOutputs, NoteCommitted
  <1>2. CASE LoopStep(p)
    BY <1>2 DEF LoopStep, LockNext, AdoptPath, NotOffered, ClearStale, Stream, AttemptFails, Arrive, Miss,
                AdoptTree, RegisterSource, SkipWrite, RefuseWrite, PrepareWrite, LoopDone, RegisterBatch,
                RegisterRefused
  <1>3. CASE CollectorStep(p)
    <2>1. CASE \E path \in Paths : TearTree(p, path)
      BY <2>1 DEF TearTree, Doomed
    <2>2. CASE \E path \in Paths : RemoveTree(p, path)
      <3>1. PICK path \in Paths : RemoveTree(p, path)
        BY <2>2
      <3>2. pc[p] = "sweep" /\ job'[p] = job[p] /\ todo'[p] \subseteq todo[p]
        BY <3>1 DEF RemoveTree, Doomed, PassOver
      <3>3. pc'[p] = IF job[p].kind = "collect" THEN "sweep" ELSE "marked"
        BY <3>1 DEF RemoveTree
      <3> QED
        BY <3>2, <3>3
    <2>3. CASE UnregisterDead(p) \/ (\E path \in Paths : DeleteRow(p, path) \/ DeleteRefused(p, path))
      BY <2>3 DEF UnregisterDead, DeleteRow, DeleteRefused
    <2> QED
      BY <1>3, <2>1, <2>2, <2>3
      DEF CollectorStep, TakeCollectorLock, SweepDone, DropCollectorLock, RenewLease
  <1>4. ~ DrvStep(p)
    BY NoDrvStep
  <1>5. \A j \in Jobs : FirstPlace(j.kind) \notin {"marked", "sweep"}
    BY DEF FirstPlace
  <1> QED
    BY <1>1, <1>2, <1>3, <1>4, <1>5
    DEF StepOf, JobStep, openStore, closeStore, StartJob, EndJob, AddRoot, Interrupt, Crash

LEMMA DeadInductive ==
  ASSUME KeepToLocks, SafeInv, SafeInv', NEW p \in Procs, StepOf(p), Apart(p), \A q \in Procs : DeadStaysDead(q)
  PROVE  \A q \in Procs : DeadStaysDead(q)'
  <1> SUFFICES ASSUME NEW q \in Procs, pc'[q] = "marked" \/ (pc'[q] = "sweep" /\ job'[q].kind = "delete")
               PROVE  todo'[q] \cap Live' = {}
    BY DEF DeadStaysDead
  <1>1. TypeOK /\ Live \subseteq Paths
    BY LiveIsClosed DEF SafeInv
  <1>2. CASE q # p
    <2>1. pc'[q] = pc[q] /\ job'[q] = job[q] /\ todo'[q] = todo[q]
      BY <1>2 DEF Apart
    <2>2. lease[p] = "none"
      BY <1>2, <2>1 DEF SafeInv, PlaceAgrees, LeaseByPlace, CollectorIsAlone
    <2>3. pc[p] # "marked"
      BY <2>2 DEF SafeInv, PlaceAgrees, LeaseByPlace
    <2>4. Live' \subseteq Live
      BY <1>1, <2>2, <2>3, RowsAndRootsStay, LiveShrinks
    <2> QED
      BY <2>1, <2>4 DEF DeadStaysDead
  <1>3. CASE q = p /\ pc[p] = "marked"
    <2>1. Live' \subseteq Live
      BY <1>1, <1>3, MarkedStep, LiveShrinks
    <2>2. todo'[q] \subseteq todo[q]
      BY <1>3, MarkedStep
    <2>3. todo[q] \cap Live = {}
      BY <1>3 DEF DeadStaysDead
    <2> QED
      BY <2>1, <2>2, <2>3
  <1>4. CASE q = p /\ pc[p] # "marked"
    <2>1. MarkDead(p) \/ (pc[p] = "sweep" /\ job[p].kind = "delete" /\ todo'[p] \subseteq todo[p])
      BY <1>4, EnteringDead
    <2>2. lease[p] = "exclusive"
      BY <2>1 DEF MarkDead, Goto, SafeInv, PlaceAgrees, LeaseByPlace
    <2>3. Live' \subseteq Live
      BY <1>1, <1>4, <2>2, RowsAndRootsStay, LiveShrinks
    <2>4. CASE MarkDead(p)
      <3>1. todo'[p] \cap Live = {}
        BY <2>4 DEF MarkDead, SafeInv, TypeOK
      <3> QED
        BY <1>4, <2>3, <3>1
    <2>5. CASE pc[p] = "sweep" /\ job[p].kind = "delete" /\ todo'[p] \subseteq todo[p]
      BY <1>4, <2>3, <2>5 DEF DeadStaysDead
    <2> QED
      BY <2>1, <2>4, <2>5
  <1> QED
    BY <1>2, <1>3, <1>4

(* With it, what the collector has still to remove stays dead while it      *)
(* sweeps: nothing that lives comes back to life without a root, and none   *)
(* is added beside the exclusive lock (withLiveSet).                        *)
THEOREM FullyInductive == KeepToLocks /\ Spec => []StoreInv
  <1>1. Init => \A p \in Procs : DeadStaysDead(p)
    BY DEF Init, DeadStaysDead
  <1>2. /\ KeepToLocks /\ SafeInv /\ SafeInv' /\ [Next]_vars /\ (\A p \in Procs : DeadStaysDead(p))
        => (\A p \in Procs : DeadStaysDead(p))'
    <2> SUFFICES ASSUME KeepToLocks, SafeInv, SafeInv', [Next]_vars, \A p \in Procs : DeadStaysDead(p)
                 PROVE  \A p \in Procs : DeadStaysDead(p)'
      OBVIOUS
    <2>1. CASE \E p \in Procs : StepOf(p)
      BY <2>1, StepInductive, DeadInductive
    <2>2. CASE UNCHANGED <<dbVars, tree, holder, procVars>> /\ roots' \subseteq roots
      <3>1. Live' \subseteq Live
        BY <2>2, LiveShrinks DEF dbVars, SafeInv
      <3> QED
        BY <2>2, <3>1 DEF DeadStaysDead, procVars
    <2> QED
      BY <2>1, <2>2, NextIsAStep
  <1>3. KeepToLocks /\ [Next]_vars => KeepToLocks'
    BY DEF KeepToLocks
  <1> QED
    BY Inductive, <1>1, <1>2, <1>3, PTL DEF Spec, StoreInv

(* Nothing a root reaches loses its row, though the collector took the     *)
(* closure of the roots steps before it removes (withLiveSet,              *)
(* collectGarbage, deleteStorePathChecked).                                *)
THEOREM RootedSurvivesHolds == KeepToLocks /\ Spec => RootedSurvives
  <1>1. KeepToLocks /\ StoreInv /\ [Next]_vars => [Live \cap validPaths \subseteq validPaths']_vars
    <2> SUFFICES ASSUME KeepToLocks, StoreInv, [Next]_vars PROVE Live \cap validPaths \subseteq validPaths'
      OBVIOUS
    <2>1. CASE \E p \in Procs : StepOf(p)
      <3>1. PICK p \in Procs : StepOf(p)
        BY <2>1
      <3>2. CASE pc[p] = "marked"
        <4>1. validPaths \ validPaths' \subseteq todo[p]
          BY <3>1, <3>2, MarkedStep DEF StoreInv
        <4>2. todo[p] \cap Live = {}
          BY <3>2 DEF StoreInv, DeadStaysDead
        <4> QED
          BY <4>1, <4>2
      <3>3. CASE pc[p] # "marked"
        BY <3>1, <3>3, RowsStay DEF StoreInv
      <3> QED
        BY <3>2, <3>3
    <2>2. CASE UNCHANGED <<dbVars, tree, holder, procVars>>
      BY <2>2 DEF dbVars
    <2> QED
      BY <2>1, <2>2, NextIsAStep
  <1>2. KeepToLocks /\ [Next]_vars => KeepToLocks'
    BY DEF KeepToLocks
  <1> QED
    BY FullyInductive, <1>1, <1>2, PTL DEF Spec, RootedSurvives

-----------------------------------------------------------------------------
(* What a transfer promises of its path, the jobs that make paths promise   *)
(* too: those that take the path's lock, while nothing deletes the path.    *)

MadeUnderLock(x) ==
  \A j \in Jobs : j.kind # "collect" /\ (x \in j.paths => j.kind \in {"build", "substitute", "sources"})

\* A torn tree is being written while a builder or a transfer is at it.
SeenTree(x) ==
  IF tree[x] # "torn" THEN tree[x]
  ELSE IF \E p \in Procs : holder[x] = p /\ pc[p] \in {"builderRuns", "unpack"}
       THEN "unfinished" ELSE "leftover"

\* Once a path is valid, its lock says nothing about it any more.
SeenHolder(x) == IF x \in validPaths THEN NoProc ELSE holder[x]

Promise(x) ==
  INSTANCE WholeOrGone WITH tree <- SeenTree(x), valid <- x \in validPaths, holder <- SeenHolder(x)

\* What a step of p may do to a path that is made under its lock.
Moves(p, x) ==
  /\ x \in validPaths => x \in validPaths'
  /\ x \in validPaths' \ validPaths => holder[x] = p /\ tree[x] = "whole"
  /\ tree'[x] # tree[x] => holder[x] = p
  /\ holder'[x] # holder[x] =>
       \/ /\ holder[x] = NoProc /\ holder'[x] = p
          /\ tree'[x] = tree[x] /\ pc'[p] \in {"lockOutputs", "recheck", "sweep"}
       \/ holder[x] = p /\ holder'[x] = NoProc

LEMMA BuildMoves ==
  ASSUME KeepToLocks, SafeInv, NEW p \in Procs, NEW x \in Paths, MadeUnderLock(x), BuildStep(p)
  PROVE  Moves(p, x)
  <1> USE JobsAssumption, ProcsAssumption
      DEF SafeInv, TypeOK, DBTypeOK, PlaceAgrees, JobByPlace, LocksByPlace, TreesByPlace,
          BuildPlaces, LoopPlaces, UnderCollectorLock, Held, Goto, dbVars, fileVars, procVars, Moves
  <1>1. ASSUME NEW path \in Paths, LockOutput(p, path) PROVE Moves(p, x)
    BY <1>1 DEF LockOutput, NextInOrder, TakeLock
  <1>2. CASE AdoptOutputs(p) \/ RefuseInputs(p) \/ NoteCommitted(p)
    BY <1>2 DEF AdoptOutputs, RefuseInputs, NoteCommitted
  <1>3. CASE PlanBuild(p)
    BY <1>3 DEF PlanBuild, Put, OutputsOf
  <1>4. CASE RunBuilder(p)
    BY <1>4 DEF RunBuilder, Put
  <1>5. CASE BuilderSucceeds(p) \/ BuildFails(p)
    BY <1>5 DEF BuilderSucceeds, BuildFails, Put
  <1>6. CASE RegisterOutputs(p)
    <2>1. made[p] \in SUBSET Paths /\ registerPaths(Registrations(made[p]))
      BY <1>6 DEF RegisterOutputs
    <2>2. validPaths' = validPaths \cup made[p]
      BY <2>1, RegisteredBatch
    <2> QED
      BY <1>6, <2>2 DEF RegisterOutputs
  <1> QED
    BY <1>1, <1>2, <1>3, <1>4, <1>5, <1>6 DEF BuildStep

LEMMA LoopMoves ==
  ASSUME KeepToLocks, SafeInv, NEW p \in Procs, NEW x \in Paths, MadeUnderLock(x), LoopStep(p)
  PROVE  Moves(p, x)
  <1> USE JobsAssumption, ProcsAssumption
      DEF SafeInv, TypeOK, DBTypeOK, PlaceAgrees, JobByPlace, LocksByPlace, TreesByPlace,
          BuildPlaces, LoopPlaces, UnderCollectorLock, Held, At, Goto, dbVars, fileVars, procVars, Moves
  <1>1. ASSUME NEW path \in Paths, LockNext(p, path) PROVE Moves(p, x)
    BY <1>1 DEF LockNext, NextInOrder, TakeLock
  <1>2. ASSUME NEW path \in Paths, AdoptPath(p, path) \/ NotOffered(p, path) PROVE Moves(p, x)
    BY <1>2 DEF AdoptPath, NotOffered, PassOver, Unlock
  <1>3. ASSUME NEW path \in Paths, ClearStale(p, path) \/ Stream(p, path) \/ AttemptFails(p, path)
        PROVE  Moves(p, x)
    BY <1>3 DEF ClearStale, Stream, AttemptFails, Put
  <1>4. ASSUME NEW path \in Paths, Arrive(p, path) PROVE Moves(p, x)
    BY <1>4 DEF Arrive, Put
  <1>5. ASSUME NEW path \in Paths, Miss(p, path) PROVE Moves(p, x)
    BY <1>5 DEF Miss, Put, PassOver, Unlock
  <1>6. ASSUME NEW path \in Paths, AdoptTree(p, path) PROVE Moves(p, x)
    BY <1>6 DEF AdoptTree
  <1>7. ASSUME NEW path \in Paths, RegisterSource(p, path) PROVE Moves(p, x)
    <2>1. validPaths' = validPaths \cup {path}
      BY <1>7, RegisteredSource DEF RegisterSource
    <2> QED
      BY <1>7, <2>1 DEF RegisterSource, PassOver, Unlock
  <1>8. ASSUME NEW path \in Paths, SkipWrite(p, path) \/ RefuseWrite(p, path) \/ PrepareWrite(p, path)
        PROVE  Moves(p, x)
    BY <1>8 DEF SkipWrite, RefuseWrite, PrepareWrite, PassOver, Unlock
  <1>9. CASE LoopDone(p) \/ RegisterRefused(p)
    BY <1>9 DEF LoopDone, RegisterRefused, registerPathsRefused
  <1>10. CASE RegisterBatch(p)
    <2>1. made[p] \in SUBSET Paths /\ registerPaths(Registrations(made[p]))
      BY <1>10 DEF RegisterBatch
    <2>2. validPaths' = validPaths \cup made[p]
      BY <2>1, RegisteredBatch
    <2>3. x \in made[p] => job[p].kind = "substitute"
      BY <1>10 DEF RegisterBatch, MadeUnderLock
    <2> QED
      BY <1>10, <2>2, <2>3 DEF RegisterBatch
  <1> QED
    BY <1>1, <1>2, <1>3, <1>4, <1>5, <1>6, <1>7, <1>8, <1>9, <1>10 DEF LoopStep

\* A deletion keeps to the paths it was asked for.
DeletesOwn ==
  \A p \in Procs :
    pc[p] \in {"marked", "sweep"} /\ job[p].kind = "delete" => todo[p] \cup Held(p) \subseteq job[p].paths

LEMMA CollectorMoves ==
  ASSUME KeepToLocks, SafeInv, DeletesOwn, NEW p \in Procs, NEW x \in Paths, MadeUnderLock(x),
         CollectorStep(p)
  PROVE  Moves(p, x)
  <1> USE JobsAssumption, ProcsAssumption
      DEF SafeInv, TypeOK, DBTypeOK, PlaceAgrees, JobByPlace, LocksByPlace, DeletesOwn, MadeUnderLock,
          UnderCollectorLock, Held, Goto, dbVars, fileVars, procVars, Moves
  <1>1. CASE TakeCollectorLock(p) \/ MarkDead(p) \/ SweepDone(p) \/ DropCollectorLock(p) \/ RenewLease(p)
    BY <1>1 DEF TakeCollectorLock, MarkDead, SweepDone, DropCollectorLock, RenewLease
  <1>2. ~ UnregisterDead(p)
    BY DEF UnregisterDead
  <1>3. ASSUME NEW path \in Paths, DeleteRow(p, path) PROVE Moves(p, x)
    <2>1. path # x
      BY <1>3 DEF DeleteRow
    <2>2. validPaths' = validPaths \ {path}
      BY <1>3, UnregisteredRow DEF DeleteRow
    <2> QED
      BY <1>3, <2>1, <2>2 DEF DeleteRow, TakeLock
  <1>4. ASSUME NEW path \in Paths, DeleteRefused(p, path) PROVE Moves(p, x)
    BY <1>4 DEF DeleteRefused, unregisterPathRowRefused
  <1>5. ASSUME NEW path \in Paths, TearTree(p, path) \/ RemoveTree(p, path) PROVE Moves(p, x)
    <2>1. path # x /\ holder[path] = p
      BY <1>5 DEF TearTree, RemoveTree, Doomed
    <2> QED
      BY <1>5, <2>1 DEF TearTree, RemoveTree, Put, PassOver, Unlock
  <1> QED
    BY <1>1, <1>2, <1>3, <1>4, <1>5 DEF CollectorStep

LEMMA CommandMoves ==
  ASSUME KeepToLocks, SafeInv, NEW p \in Procs, NEW x \in Paths,
         \/ openStore(p) \/ closeStore(p) \/ EndJob(p) \/ \E j \in Jobs : StartJob(p, j)
         \/ \E path \in Paths : AddRoot(p, path)
         \/ Interrupt(p) \/ Crash(p)
  PROVE  Moves(p, x)
  <1> USE JobsAssumption, ProcsAssumption
      DEF SafeInv, TypeOK, DBTypeOK, PlaceAgrees, JobByPlace, LocksByPlace, TreesByPlace,
          BuildPlaces, LoopPlaces, UnderCollectorLock, Held, At, Goto, dbVars, fileVars, procVars, Moves
  <1>1. CASE openStore(p) \/ closeStore(p) \/ EndJob(p) \/ \E j \in Jobs : StartJob(p, j)
    BY <1>1 DEF openStore, closeStore, EndJob, StartJob, Unlock
  <1>2. CASE \E path \in Paths : AddRoot(p, path)
    BY <1>2 DEF AddRoot
  <1>3. CASE Interrupt(p)
    <2>1. \A path \in Discarded(p) : holder[path] = p
      BY DEF Discarded, KeepToLocks
    <2> QED
      BY <1>3, <2>1 DEF Interrupt, Put, Unlock
  <1>4. CASE Crash(p)
    BY <1>4 DEF Crash, Unlock
  <1> QED
    BY <1>1, <1>2, <1>3, <1>4

LEMMA StepMoves ==
  ASSUME KeepToLocks, SafeInv, DeletesOwn, NEW p \in Procs, NEW x \in Paths, MadeUnderLock(x), StepOf(p)
  PROVE  Moves(p, x)
  BY NoDrvStep, BuildMoves, LoopMoves, CollectorMoves, CommandMoves DEF StepOf, JobStep

LEMMA DeletesOwnInductive ==
  ASSUME KeepToLocks, SafeInv, DeletesOwn, [Next]_vars
  PROVE  DeletesOwn'
  <1>1. CASE UNCHANGED <<dbVars, tree, holder, procVars>>
    BY <1>1 DEF DeletesOwn, Held, procVars
  <1>2. ASSUME NEW p \in Procs, StepOf(p) PROVE DeletesOwn'
    <2>1. ASSUME NEW q \in Procs \ {p}, pc'[q] \in {"marked", "sweep"}, job'[q].kind = "delete"
          PROVE  (todo[q] \cup Held(q) \subseteq job[q].paths)'
      <3>1. pc'[q] = pc[q] /\ job'[q] = job[q] /\ todo'[q] = todo[q] /\ Held(q)' = Held(q)
        BY <1>2, StepInductive DEF Apart, Held
      <3> QED
        BY <2>1, <3>1 DEF DeletesOwn
    <2>2. ASSUME pc'[p] \in {"marked", "sweep"}, job'[p].kind = "delete"
          PROVE  (todo[p] \cup Held(p) \subseteq job[p].paths)'
      <3> USE <2>2, JobsAssumption DEF SafeInv, TypeOK, Places, PlaceAgrees, JobByPlace, LocksByPlace,
              BuildPlaces, LoopPlaces, UnderCollectorLock, DeletesOwn, Held, Goto, dbVars, fileVars, procVars
      <3>1. CASE CollectorStep(p)
        <4>1. CASE MarkDead(p)
          BY <4>1 DEF MarkDead
        <4>2. ASSUME NEW path \in Paths, DeleteRow(p, path)
              PROVE  (todo[p] \cup Held(p) \subseteq job[p].paths)'
          BY <4>2 DEF DeleteRow, TakeLock
        <4>3. ASSUME NEW path \in Paths, DeleteRefused(p, path)
              PROVE  (todo[p] \cup Held(p) \subseteq job[p].paths)'
          BY <4>3 DEF DeleteRefused
        <4>4. ASSUME NEW path \in Paths, TearTree(p, path)
              PROVE  (todo[p] \cup Held(p) \subseteq job[p].paths)'
          BY <4>4 DEF TearTree
        <4>5. ASSUME NEW path \in Paths, RemoveTree(p, path)
              PROVE  (todo[p] \cup Held(p) \subseteq job[p].paths)'
          BY <4>5, ProcsAssumption DEF RemoveTree, Doomed, PassOver, Unlock
        <4> QED
          BY <3>1, <4>1, <4>2, <4>3, <4>4, <4>5
          DEF CollectorStep, TakeCollectorLock, UnregisterDead, SweepDone, DropCollectorLock, RenewLease
      <3>2. CASE BuildStep(p)
        BY <3>2 DEF BuildStep, LockOutput, AdoptOutputs, RefuseInputs, PlanBuild, RunBuilder,
                    BuilderSucceeds, BuildFails, RegisterOutputs, NoteCommitted
      <3>3. CASE LoopStep(p)
        BY <3>3 DEF LoopStep, LockNext, AdoptPath, NotOffered, ClearStale, Stream, AttemptFails, Arrive,
                    Miss, AdoptTree, RegisterSource, SkipWrite, RefuseWrite, PrepareWrite, LoopDone,
                    RegisterBatch, RegisterRefused
      <3>4. CASE openStore(p) \/ closeStore(p) \/ EndJob(p) \/ (\E j \in Jobs : StartJob(p, j))
                 \/ Interrupt(p) \/ Crash(p)
        BY <3>4 DEF openStore, closeStore, EndJob, StartJob, FirstPlace, Interrupt, Crash
      <3>5. CASE \E path \in Paths : AddRoot(p, path)
        BY <3>5 DEF AddRoot
      <3> QED
        BY <1>2, <3>1, <3>2, <3>3, <3>4, <3>5, NoDrvStep DEF StepOf, JobStep
    <2> QED
      BY <2>1, <2>2 DEF DeletesOwn
  <1> QED
    BY <1>1, <1>2, NextIsAStep

LEMMA PromiseStep ==
  ASSUME KeepToLocks, SafeInv, SafeInv', DeletesOwn, NEW x \in Paths, MadeUnderLock(x), [Next]_vars
  PROVE  [Promise(x)!Next]_(Promise(x)!vars)
  <1> USE DEF Promise!Next, Promise!vars, Promise!Settled
  <1>1. CASE UNCHANGED <<dbVars, tree, holder, procVars>>
    BY <1>1 DEF dbVars, procVars, SeenTree, SeenHolder
  <1>2. ASSUME NEW p \in Procs, StepOf(p) PROVE [Promise(x)!Next]_(Promise(x)!vars)
    <2>1. Moves(p, x)
      BY <1>2, StepMoves
    <2>2. /\ SeenTree(x) \in Promise(x)!Settled \cup {"unfinished"}
          /\ SeenTree(x)' \in Promise(x)!Settled \cup {"unfinished"}
      BY DEF SafeInv, TypeOK, SeenTree
    <2>3. CASE x \in validPaths
      <3>1. x \in validPaths' /\ tree[x] = "whole" /\ tree'[x] = "whole"
        BY <2>1, <2>3 DEF Moves, SafeInv, ValidHasTree
      <3> QED
        BY <2>3, <3>1 DEF SeenTree, SeenHolder
    <2>4. CASE x \in validPaths' \ validPaths
      <3>1. holder[x] = p /\ tree[x] = "whole" /\ tree'[x] = "whole"
        BY <2>1, <2>4 DEF Moves, SafeInv, ValidHasTree
      <3>2. Promise(x)!Register(p)
        BY <2>4, <3>1 DEF SeenTree, SeenHolder, Promise!Register
      <3> QED
        BY <3>2
    <2>5. CASE x \notin validPaths /\ x \notin validPaths'
      <3>1. CASE holder[x] = p /\ holder'[x] = p
        <4>1. Promise(x)!Write(p)
          BY <2>2, <2>5, <3>1 DEF SeenHolder, Promise!Write
        <4> QED
          BY <4>1
      <3>2. CASE holder[x] = p /\ holder'[x] = NoProc
        <4>1. SeenTree(x)' \in Promise(x)!Settled
          BY <3>2, ProcsAssumption DEF SafeInv, TypeOK, SeenTree
        <4>2. Promise(x)!Release(p)
          BY <2>5, <3>2, <4>1 DEF SeenHolder, Promise!Release
        <4> QED
          BY <4>2
      <3>3. CASE holder[x] = NoProc /\ holder'[x] = p /\ tree'[x] = tree[x]
                 /\ pc'[p] \in {"lockOutputs", "recheck", "sweep"}
        <4>1. SeenTree(x)' = SeenTree(x)
          BY <3>3, ProcsAssumption DEF SeenTree
        <4>2. Promise(x)!Take(p)
          BY <2>5, <3>3, <4>1 DEF SeenHolder, Promise!Take
        <4> QED
          BY <4>2
      <3>4. CASE holder[x] # p /\ holder'[x] = holder[x]
        <4>1. tree'[x] = tree[x]
          BY <2>1, <3>4 DEF Moves
        <4>2. \A q \in Procs : holder[x] = q => pc'[q] = pc[q]
          BY <1>2, <3>4, StepInductive DEF Apart
        <4>3. SeenTree(x)' = SeenTree(x)
          BY <3>4, <4>1, <4>2 DEF SeenTree
        <4> QED
          BY <2>5, <3>4, <4>3 DEF SeenHolder
      <3> QED
        BY <2>1, <3>1, <3>2, <3>3, <3>4 DEF Moves
    <2> QED
      BY <2>3, <2>4, <2>5
  <1> QED
    BY <1>1, <1>2, NextIsAStep

(* Builds, substitutions and copies of sources, by any processes and over   *)
(* any paths, keep the promise that WholeOrGone makes of a path: its tree   *)
(* belongs to the holder of its lock, nobody meets one that is being        *)
(* written, and only a whole one becomes valid, its lock still held         *)
(* (withOutputLocks, substitutePaths, materializeEvalSources).              *)
THEOREM JobsKeepPromise ==
  ASSUME NEW x \in Paths
  PROVE  KeepToLocks /\ MadeUnderLock(x) /\ Spec => Promise(x)!Spec
  <1>1. Init => Promise(x)!Init /\ DeletesOwn
    BY ProcsAssumption
    DEF Init, openStoreDB, Promise!Init, Promise!Settled, SeenTree, SeenHolder, DeletesOwn
  <1>2. KeepToLocks /\ MadeUnderLock(x) /\ [Next]_vars => (KeepToLocks /\ MadeUnderLock(x))'
    BY DEF KeepToLocks, MadeUnderLock
  <1>3. KeepToLocks /\ SafeInv /\ DeletesOwn /\ [Next]_vars => DeletesOwn'
    BY DeletesOwnInductive
  <1>4. KeepToLocks /\ MadeUnderLock(x) /\ SafeInv /\ SafeInv' /\ DeletesOwn /\ [Next]_vars
          => [Promise(x)!Next]_(Promise(x)!vars)
    BY PromiseStep
  <1> QED
    BY Inductive, <1>1, <1>2, <1>3, <1>4, PTL DEF Spec, Promise!Spec

=============================================================================
