------------------------------ MODULE StoreDB ------------------------------
(***************************************************************************)
(* The store database (Nix.Store.DB): the table ValidPaths, whose rows say *)
(* which store paths are valid, and the table Refs, whose rows are the     *)
(* edges from a path to the paths it references.                           *)
(*                                                                         *)
(* Every writer of the code is one SQLite transaction, so each is one      *)
(* action here; the connections are opened with foreign keys on, WAL and a *)
(* busy timeout of an hour, so a writer waits for its peers.  NAR hash,    *)
(* size, deriver and registration time are columns no step of the store    *)
(* decides on, and are left out.                                           *)
(*                                                                         *)
(* The module has the tables and the transactions, without a next-state    *)
(* relation: StoreDBHistory runs them on their own and StorePaths runs     *)
(* them from the processes that build, substitute, delete and collect.     *)
(***************************************************************************)
EXTENDS FiniteSets, Integers, Sequences

CONSTANT Paths   \* The store paths, named by their stored text.

VARIABLES
  validPaths,    \* Table ValidPaths: the registered paths.
  refsTable      \* Table Refs: pairs <<referrer, reference>>.

dbVars == <<validPaths, refsTable>>

\* What a caller hands to registerPaths for one path.
PathRegistration == [prPath : Paths, prReferences : SUBSET Paths]

DBTypeOK ==
  /\ validPaths \subseteq Paths
  /\ refsTable \subseteq Paths \X Paths

openStoreDB == validPaths = {} /\ refsTable = {}

-----------------------------------------------------------------------------
(* Queries.                                                                *)

isValidPath(path) == path \in validPaths

queryReferences(path) ==
  {reference \in validPaths : path \in validPaths /\ <<path, reference>> \in refsTable}

\* Mutant: the two columns of Refs swapped in the referrer query.
ReferrersOf_Swapped(path) ==
  {referrer \in validPaths \ {path} : <<path, referrer>> \in refsTable}

\* The paths other than path itself that reference it.
ReferrersOf(path) ==
  {referrer \in validPaths \ {path} : <<referrer, path>> \in refsTable}

\* The paths outside the set that reference a path inside it.
OutsideReferrers(paths) ==
  {referrer \in validPaths \ paths :
     \E path \in paths \cap validPaths : <<referrer, path>> \in refsTable}

-----------------------------------------------------------------------------
(* registerPaths: all rows of the batch, then the edges of each            *)
(* registration, in one transaction.                                       *)

BatchPaths(batch) == {batch[i].prPath : i \in DOMAIN batch}

\* The sort by path is stable and each registration replaces the edges of
\* its path, so of two registrations of one path the later one counts.
LastRegistrationOf(path, batch) ==
  CHOOSE i \in DOMAIN batch :
    /\ batch[i].prPath = path
    /\ \A j \in DOMAIN batch : batch[j].prPath = path => j <= i

EdgesOf(path, batch) == batch[LastRegistrationOf(path, batch)].prReferences

\* insertRef: a reference to a path that has no row, neither from before
\* nor from this batch, throws.
BatchAccepted(batch) ==
  \A i \in DOMAIN batch : batch[i].prReferences \subseteq validPaths \cup BatchPaths(batch)

insertPathRows(batch) == validPaths' = validPaths \cup BatchPaths(batch)

\* Mutant: new edges join the old ones instead of replacing them.
insertPathRefs_Union(batch) ==
  refsTable' = refsTable
               \cup {edge \in BatchPaths(batch) \X Paths : edge[2] \in EdgesOf(edge[1], batch)}

insertPathRefs(batch) ==
  refsTable' = {edge \in refsTable : edge[1] \notin BatchPaths(batch)}
               \cup {edge \in BatchPaths(batch) \X Paths : edge[2] \in EdgesOf(edge[1], batch)}

registerPaths(batch) ==
  /\ BatchAccepted(batch)
  /\ insertPathRows(batch)
  /\ insertPathRefs(batch)

\* The throw rolls the whole transaction back.
registerPathsRefused(batch) ==
  /\ ~BatchAccepted(batch)
  /\ UNCHANGED dbVars

-----------------------------------------------------------------------------
(* Unregistration.                                                         *)

deleteRows(paths) ==
  /\ refsTable' = {edge \in refsTable : edge[1] \notin paths}
  /\ validPaths' = validPaths \ paths

\* RowUnregistered: the row exists and no other path references it.
unregisterPathRow(path) ==
  /\ path \in validPaths
  /\ ReferrersOf(path) = {}
  /\ deleteRows({path})

\* RowAbsent, or RowReferenced with the referrers: nothing changes.
unregisterPathRowRefused(path) ==
  /\ path \notin validPaths \/ ReferrersOf(path) # {}
  /\ UNCHANGED dbVars

\* The collector's form: a set at once, so that a cycle of dead paths goes.
unregisterPathRows(paths) ==
  /\ OutsideReferrers(paths) = {}
  /\ deleteRows(paths)

unregisterPathRowsRefused(paths) ==
  /\ OutsideReferrers(paths) # {}
  /\ UNCHANGED dbVars

-----------------------------------------------------------------------------
(* Registration is ordered and removal is whole: every edge joins two rows,*)
(* whatever was registered, registered again and removed, so that a        *)
(* closure query never meets a path without a row (registerPaths,          *)
(* unregisterPathRow, unregisterPathRows in DB.hs).                        *)
RefsClosed == refsTable \subseteq validPaths \X validPaths
=============================================================================
