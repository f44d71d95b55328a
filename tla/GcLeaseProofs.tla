--------------------------- MODULE GcLeaseProofs ---------------------------
(***************************************************************************)
(* Theorems about GcLease, for any set of processes.  The inductive        *)
(* invariant is LeaseInv of that module: types, who holds the lock in which *)
(* place, and what the lease variable holds in which place.                *)
(***************************************************************************)
EXTENDS GcLease, TLAPS

LEMMA InitInductive == Init => LeaseInv
  BY NoProcAssumption DEF Init, LeaseInv, TypeOK, Places, LockMatchesPlace, LeaseMatchesPlace

(* Every step keeps the inductive invariant: one case for each step of     *)
(* openStore, withCollectorLock and closeStore, and one for a death.       *)
LEMMA StepInductive ==
  ASSUME LeaseInv, NEW p \in Procs, Step(p)
  PROVE  LeaseInv'
  <1> USE NoProcAssumption DEF LeaseInv, TypeOK, Places, LockMatchesPlace, LeaseMatchesPlace
  <1>1. CASE OpenAcquire(p)
    BY <1>1 DEF OpenAcquire, Goto, LockShared
  <1>2. CASE OpenDatabase(p)
    BY <1>2 DEF OpenDatabase, Goto
  <1>3. CASE OpenFails(p)
    BY <1>3 DEF OpenFails, Goto
  <1>4. CASE TakeLease(p)
    BY <1>4 DEF TakeLease, Goto
  <1>5. CASE SurrenderLease(p)
    BY <1>5 DEF SurrenderLease, Goto
  <1>6. CASE AcquireExclusive(p)
    BY <1>6 DEF AcquireExclusive, Goto, LockExclusive
  <1>7. CASE InterruptWait(p)
    BY <1>7 DEF InterruptWait, Goto
  <1>8. CASE FinishCollection(p)
    BY <1>8 DEF FinishCollection, Goto
  <1>9. CASE RenewLease(p)
    BY <1>9 DEF RenewLease, Goto, LockShared
  <1>10. CASE RenewFails(p)
    BY <1>10 DEF RenewFails, Goto
  <1>11. CASE CloseDatabase(p)
    BY <1>11 DEF CloseDatabase
  <1>12. CASE CloseLease(p)
    BY <1>12 DEF CloseLease, Goto
  <1>13. CASE Die(p)
    BY <1>13 DEF Die
  <1> QED
    BY <1>1, <1>2, <1>3, <1>4, <1>5, <1>6, <1>7, <1>8, <1>9, <1>10, <1>11, <1>12, <1>13 DEF Step

(* The protocol's state is what the places say it is, in every behaviour   *)
(* and for any number of processes: in particular the MVar holds a live    *)
(* lease exactly while its descriptor is locked shared.                    *)
THEOREM Inductive == Spec => []LeaseInv
  <1>1. ASSUME LeaseInv, [Next]_vars PROVE LeaseInv'
    <2>1. CASE \E p \in Procs : Step(p)
      BY <1>1, <2>1, StepInductive
    <2>2. CASE UNCHANGED vars
      BY <1>1, <2>2 DEF vars, LeaseInv, TypeOK, LockMatchesPlace, LeaseMatchesPlace
    <2> QED
      BY <1>1, <2>1, <2>2 DEF Next, AllDone
  <1> QED
    BY InitInductive, <1>1, PTL DEF Spec

(* A collection never runs beside a handle in use or beside another        *)
(* collection, however opens, swaps, renewals, closes and deaths of any    *)
(* number of processes interleave (Nix.Store.Handle).                      *)
THEOREM CollectionRunsAloneHolds == Spec => []CollectionRunsAlone
  <1>1. ASSUME LeaseInv PROVE CollectionRunsAlone
    BY <1>1, NoProcAssumption
    DEF LeaseInv, TypeOK, Places, LockMatchesPlace, LeaseMatchesPlace, CollectionRunsAlone, Using, Collecting
  <1> QED
    BY Inductive, <1>1, PTL

(* A process that is done holds no lock and no connection (closeStore).    *)
THEOREM DoneHoldsNothingHolds == Spec => []DoneHoldsNothing
  <1>1. ASSUME LeaseInv PROVE DoneHoldsNothing
    BY <1>1 DEF LeaseInv, TypeOK, LockMatchesPlace, LeaseMatchesPlace, DoneHoldsNothing
  <1> QED
    BY Inductive, <1>1, PTL

-----------------------------------------------------------------------------
(* Refinement: what each step does to the handles in use and the collector.*)

LEMMA StepImplements ==
  ASSUME LeaseInv, NEW p \in Procs, Step(p)
  PROVE  [Promise!Next]_(Promise!vars)
  <1> USE NoProcAssumption DEF LeaseInv, TypeOK, Places, LockMatchesPlace, LeaseMatchesPlace, Using
  <1> USE DEF Promise!Next, Promise!vars
  <1>1. CASE OpenAcquire(p) \/ OpenFails(p) \/ SurrenderLease(p) \/ InterruptWait(p)
             \/ RenewFails(p) \/ CloseLease(p)
    <2>1. UNCHANGED <<Using, exclusive>>
      BY <1>1 DEF OpenAcquire, OpenFails, SurrenderLease, InterruptWait, RenewFails, CloseLease,
                  Goto, LockShared
    <2> QED
      BY <2>1
  <1>2. CASE OpenDatabase(p) \/ RenewLease(p)
    <2>1. exclusive = NoProc /\ UNCHANGED exclusive
      BY <1>2 DEF OpenDatabase, RenewLease, Goto, LockShared
    <2>2. Using' = Using \cup {p} \/ Using' = Using
      BY <1>2 DEF OpenDatabase, RenewLease, Goto, LockShared
    <2> QED
      BY <2>1, <2>2 DEF Promise!Enter
  <1>3. CASE TakeLease(p) \/ CloseDatabase(p)
    <2>1. Using' = Using \ {p} /\ UNCHANGED exclusive
      BY <1>3 DEF TakeLease, CloseDatabase, Goto
    <2> QED
      BY <2>1 DEF Promise!Leave
  <1>4. CASE AcquireExclusive(p)
    <2>1. Using = {} /\ Using' = Using
      BY <1>4 DEF AcquireExclusive, Goto, LockExclusive
    <2> QED
      BY <1>4, <2>1 DEF AcquireExclusive, LockExclusive, Promise!Begin
  <1>5. CASE FinishCollection(p)
    <2>1. Using' = Using /\ exclusive = p
      BY <1>5 DEF FinishCollection, Goto
    <2> QED
      BY <1>5, <2>1 DEF FinishCollection, Promise!End
  <1>6. CASE Die(p)
    <2>1. CASE exclusive = p
      <3>1. Using' = Using
        BY <1>6, <2>1 DEF Die
      <3> QED
        BY <1>6, <2>1, <3>1 DEF Die, Promise!End
    <2>2. CASE exclusive # p
      <3>1. Using' = Using \ {p} /\ UNCHANGED exclusive
        BY <1>6, <2>2 DEF Die
      <3> QED
        BY <3>1 DEF Promise!Leave
    <2> QED
      BY <2>1, <2>2
  <1> QED
    BY <1>1, <1>2, <1>3, <1>4, <1>5, <1>6 DEF Step

(* The lease protocol implements collector exclusion: seen through the     *)
(* handles in normal use, processes only enter while no collection runs    *)
(* and a collection only begins once nobody is left (Nix.Store.Handle).    *)
THEOREM LeaseImplementsPromise == Spec => ImplementsPromise
  <1>1. Init => Promise!Init
    BY DEF Init, Promise!Init, Using
  <1>2. ASSUME LeaseInv, [Next]_vars PROVE [Promise!Next]_(Promise!vars)
    <2>1. CASE \E p \in Procs : Step(p)
      BY <1>2, <2>1, StepImplements
    <2>2. CASE UNCHANGED vars
      BY <2>2 DEF vars, Using, Promise!vars
    <2> QED
      BY <1>2, <2>1, <2>2 DEF Next, AllDone
  <1> QED
    BY Inductive, <1>1, <1>2, PTL DEF Spec, ImplementsPromise, Promise!Spec
=============================================================================
