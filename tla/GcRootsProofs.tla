--------------------------- MODULE GcRootsProofs ---------------------------
(***************************************************************************)
(* Theorems about GcRoots, for any processes, links and targets, and any   *)
(* choice of who adds which link: an undisturbed out-link keeps its record,*)
(* and no collection passes it over.                                       *)
(***************************************************************************)
EXTENDS GcRoots, TLAPS

WalkPlaces == Places \ (AddPlaces \cup {"idle"})

(* The lease is shared in every place of an addition, held in every place  *)
(* of a walk, and an exclusive one leaves nobody else any.                 *)
LeaseMatchesPlace ==
  \A p \in Procs :
    /\ pc[p] = "idle" => lease[p] = "none"
    /\ pc[p] \in AddPlaces => lease[p] = "shared"
    /\ pc[p] \in WalkPlaces => lease[p] # "none"
    /\ lease[p] = "exclusive" => \A q \in Procs \ {p} : lease[q] = "none"

(* Nobody walks beside an addition that is not watched, and one that is    *)
(* not doubled has its link and its staging file to itself.                *)
AloneUnlessMet ==
  \A p \in Adding :
    /\ p \notin watched => Walking = {}
    /\ p \notin doubled => \A q \in Adding \ {p} : LinkOf[q] # LinkOf[p]

(* What such an addition renames is whole: between the truncation and the  *)
(* rename nobody else touches the file.                                    *)
StagingIsItsOwn ==
  \A p \in Adding \ doubled :
    /\ pc[p] = "write" => writing[p] = "staging"
    /\ pc[p] = "rename" => staging[LinkOf[p]] = "whole"

OnlyWritersWrite == \A p \in Procs : writing[p] # "nothing" => pc[p] = "write"

(* No addition of an undisturbed link has come past removing what is there.*)
NotYetReplaced ==
  \A p \in Adding : LinkOf[p] \in undisturbed => pc[p] \in {"classify", "removeOld"}

(* A walk still has every undisturbed link before it, in its hand or found,*)
(* and never takes one for stale.                                          *)
WalkMisses ==
  \A p \in Procs :
    /\ pc[p] \in WalkPlaces =>
         \A l \in undisturbed : l \in todo[p] \cup found[p] \/ (pc[p] \in {"follow", "target"} /\ at[p] = l)
    /\ pc[p] = "stale" => at[p] \notin undisturbed
    /\ pc[p] = "swept" => todo[p] = {}

RootsInv ==
  /\ TypeOK /\ LeaseMatchesPlace /\ AloneUnlessMet /\ StagingIsItsOwn
  /\ OnlyWritersWrite /\ NotYetReplaced /\ UndisturbedKeepsRecord /\ WalkMisses

-----------------------------------------------------------------------------
(* Types.                                                                  *)

LEMMA InitTyped == Init => TypeOK
  BY LinkOfAssumption DEF Init, TypeOK, Contents, Places

LEMMA StepTyped ==
  ASSUME TypeOK, [Next]_vars
  PROVE  TypeOK'
  <1> USE LinkOfAssumption DEF TypeOK, Contents, Places, Goto, TakeShared, TakeExclusive, Close,
          Ended, Added, NotAdded, Unroot, SetLink, walkVars, history
  <1>1. ASSUME NEW p \in Procs,
               StartAdd(p) \/ ClassifyLink(p) \/ RefuseLink(p) \/ RemoveOldLink(p) \/ CreateFails(p)
        PROVE  TypeOK'
    <2>1. Adding \subseteq Procs
      BY DEF Adding
    <2> QED
      BY <1>1, <2>1 DEF StartAdd, ClassifyLink, RefuseLink, RemoveOldLink, CreateFails
  <1>2. ASSUME NEW p \in Procs, NEW target \in Targets, CreateLink(p, target)
        PROVE  TypeOK'
    BY <1>2 DEF CreateLink
  <1>3. ASSUME NEW p \in Procs,
               PublishNothing(p) \/ PublishAnew(p) \/ OpenStaging(p) \/ WriteStaging(p) \/ RenameFails(p)
        PROVE  TypeOK'
    BY <1>3 DEF PublishNothing, PublishAnew, OpenStaging, WriteStaging, RenameFails
  <1>4. ASSUME NEW p \in Procs, RenameRecord(p)
        PROVE  TypeOK'
    BY <1>4 DEF RenameRecord, MoveWriters
  <1>5. ASSUME NEW p \in Procs, StartListing(p) \/ StartCollection(p)
        PROVE  TypeOK'
    <2>1. Adding \subseteq Procs
      BY DEF Adding
    <2>2. Walk(p) /\ lease' \in [Procs -> {"none", "shared", "exclusive"}]
      BY <1>5 DEF StartListing, StartCollection
    <2>3. {l \in Links : record[l] # "absent"} \in SUBSET Links
      OBVIOUS
    <2>4. todo' \in [Procs -> SUBSET Links] /\ found' \in [Procs -> SUBSET Links]
      BY <2>2, <2>3 DEF Walk
    <2>5. watched' \subseteq Procs /\ pc' \in [Procs -> Places]
      BY <2>1, <2>2 DEF Walk
    <2> QED
      BY <2>2, <2>4, <2>5 DEF Walk
  <1>6. ASSUME NEW p \in Procs, NEW l \in Links, ReadRecord(p, l) \/ RecordVanished(p, l)
        PROVE  TypeOK'
    BY <1>6 DEF ReadRecord, RecordVanished
  <1>7. ASSUME NEW p \in Procs,
               FollowLink(p) \/ ReadTarget(p) \/ RemoveStale(p) \/ WalkDone(p) \/ Finish(p) \/ Crash(p)
        PROVE  TypeOK'
    <2>1. CASE FollowLink(p) \/ ReadTarget(p)
      BY <2>1 DEF FollowLink, ReadTarget
    <2>2. CASE RemoveStale(p)
      BY <2>2 DEF RemoveStale
    <2>3. CASE WalkDone(p) \/ Finish(p) \/ Crash(p)
      BY <2>3 DEF WalkDone, Finish, Crash
    <2> QED
      BY <1>7, <2>1, <2>2, <2>3
  <1>8. ASSUME NEW l \in Links, UserRemoves(l) \/ UserPuts(l)
        PROVE  TypeOK'
    BY <1>8 DEF UserRemoves, UserPuts
  <1>9. CASE UNCHANGED vars
    BY <1>9 DEF vars
  <1> QED
    BY <1>1, <1>2, <1>3, <1>4, <1>5, <1>6, <1>7, <1>8, <1>9 DEF Next

(* Links, records and staging files keep to what they may hold, and each   *)
(* process's place and the file it writes to what they may be, however     *)
(* additions, walks and users interleave.                                  *)
THEOREM Typed == Spec => []TypeOK
  BY InitTyped, StepTyped, PTL DEF Spec

-----------------------------------------------------------------------------
(* The inductive invariant, conjunct by conjunct.                          *)

(* The lease follows the place, and only a process at its write writes.    *)
LEMMA LeaseKept ==
  ASSUME TypeOK, LeaseMatchesPlace, OnlyWritersWrite, [Next]_vars
  PROVE  LeaseMatchesPlace' /\ OnlyWritersWrite'
  <1> USE LinkOfAssumption DEF TypeOK, Places, AddPlaces, WalkPlaces, Adding, Walking, Goto, TakeShared, TakeExclusive, Close, Ended, Added, NotAdded, Unroot, SetLink, walkVars, history, LeaseMatchesPlace, OnlyWritersWrite
  <1>1. ASSUME NEW p \in Procs, StartAdd(p)
        PROVE  LeaseMatchesPlace' /\ OnlyWritersWrite'
    BY <1>1 DEF StartAdd
  <1>2. ASSUME NEW p \in Procs, ClassifyLink(p) \/ RefuseLink(p)
        PROVE  LeaseMatchesPlace' /\ OnlyWritersWrite'
    BY <1>2 DEF ClassifyLink, RefuseLink
  <1>3. ASSUME NEW p \in Procs, RemoveOldLink(p) \/ CreateFails(p)
        PROVE  LeaseMatchesPlace' /\ OnlyWritersWrite'
    BY <1>3 DEF RemoveOldLink, CreateFails
  <1>4. ASSUME NEW p \in Procs, NEW target \in Targets, CreateLink(p, target)
        PROVE  LeaseMatchesPlace' /\ OnlyWritersWrite'
    BY <1>4 DEF CreateLink
  <1>5. ASSUME NEW p \in Procs, PublishNothing(p) \/ PublishAnew(p)
        PROVE  LeaseMatchesPlace' /\ OnlyWritersWrite'
    BY <1>5 DEF PublishNothing, PublishAnew
  <1>6. ASSUME NEW p \in Procs, OpenStaging(p) \/ WriteStaging(p)
        PROVE  LeaseMatchesPlace' /\ OnlyWritersWrite'
    BY <1>6 DEF OpenStaging, WriteStaging
  <1>7. ASSUME NEW p \in Procs, RenameRecord(p)
        PROVE  LeaseMatchesPlace' /\ OnlyWritersWrite'
    BY <1>7 DEF RenameRecord, MoveWriters
  <1>8. ASSUME NEW p \in Procs, RenameFails(p)
        PROVE  LeaseMatchesPlace' /\ OnlyWritersWrite'
    BY <1>8 DEF RenameFails
  <1>9. ASSUME NEW p \in Procs, StartListing(p) \/ StartCollection(p)
        PROVE  LeaseMatchesPlace' /\ OnlyWritersWrite'
    BY <1>9 DEF StartListing, StartCollection, Walk
  <1>10. ASSUME NEW p \in Procs, NEW l \in Links, ReadRecord(p, l) \/ RecordVanished(p, l)
        PROVE  LeaseMatchesPlace' /\ OnlyWritersWrite'
    BY <1>10 DEF ReadRecord, RecordVanished
  <1>11. ASSUME NEW p \in Procs, FollowLink(p) \/ ReadTarget(p)
        PROVE  LeaseMatchesPlace' /\ OnlyWritersWrite'
    BY <1>11 DEF FollowLink, ReadTarget
  <1>12. ASSUME NEW p \in Procs, RemoveStale(p)
        PROVE  LeaseMatchesPlace' /\ OnlyWritersWrite'
    BY <1>12 DEF RemoveStale
  <1>13. ASSUME NEW p \in Procs, WalkDone(p) \/ Finish(p)
        PROVE  LeaseMatchesPlace' /\ OnlyWritersWrite'
    BY <1>13 DEF WalkDone, Finish
  <1>14. ASSUME NEW p \in Procs, Crash(p)
        PROVE  LeaseMatchesPlace' /\ OnlyWritersWrite'
    BY <1>14 DEF Crash
  <1>15. ASSUME NEW l \in Links, UserRemoves(l) \/ UserPuts(l)
        PROVE  LeaseMatchesPlace' /\ OnlyWritersWrite'
    BY <1>15 DEF UserRemoves, UserPuts
  <1>16. CASE UNCHANGED vars
    BY <1>16 DEF vars
  <1> QED
    BY <1>1, <1>2, <1>3, <1>4, <1>5, <1>6, <1>7, <1>8, <1>9, <1>10, <1>11, <1>12, <1>13, <1>14, <1>15, <1>16 DEF Next

(* An addition that starts beside a walk or beside another of its link is  *)
(* marked from there on, and so is one beside which a walk starts.         *)
LEMMA AloneKept ==
  ASSUME TypeOK, LeaseMatchesPlace, AloneUnlessMet, [Next]_vars
  PROVE  AloneUnlessMet'
  <1> USE LinkOfAssumption DEF TypeOK, Places, AddPlaces, WalkPlaces, Adding, Walking, Goto, TakeShared, TakeExclusive, Close, Ended, Added, NotAdded, Unroot, SetLink, walkVars, history, LeaseMatchesPlace, AloneUnlessMet
  <1>1. ASSUME NEW p \in Procs, StartAdd(p)
        PROVE  AloneUnlessMet'
    BY <1>1 DEF StartAdd
  <1>2. ASSUME NEW p \in Procs, ClassifyLink(p) \/ RefuseLink(p)
        PROVE  AloneUnlessMet'
    BY <1>2 DEF ClassifyLink, RefuseLink
  <1>3. ASSUME NEW p \in Procs, RemoveOldLink(p) \/ CreateFails(p)
        PROVE  AloneUnlessMet'
    BY <1>3 DEF RemoveOldLink, CreateFails
  <1>4. ASSUME NEW p \in Procs, NEW target \in Targets, CreateLink(p, target)
        PROVE  AloneUnlessMet'
    BY <1>4 DEF CreateLink
  <1>5. ASSUME NEW p \in Procs, PublishNothing(p) \/ PublishAnew(p)
        PROVE  AloneUnlessMet'
    BY <1>5 DEF PublishNothing, PublishAnew
  <1>6. ASSUME NEW p \in Procs, OpenStaging(p) \/ WriteStaging(p)
        PROVE  AloneUnlessMet'
    BY <1>6 DEF OpenStaging, WriteStaging
  <1>7. ASSUME NEW p \in Procs, RenameRecord(p)
        PROVE  AloneUnlessMet'
    BY <1>7 DEF RenameRecord, MoveWriters
  <1>8. ASSUME NEW p \in Procs, RenameFails(p)
        PROVE  AloneUnlessMet'
    BY <1>8 DEF RenameFails
  <1>9. ASSUME NEW p \in Procs, StartListing(p) \/ StartCollection(p)
        PROVE  AloneUnlessMet'
    BY <1>9 DEF StartListing, StartCollection, Walk
  <1>10. ASSUME NEW p \in Procs, NEW l \in Links, ReadRecord(p, l) \/ RecordVanished(p, l)
        PROVE  AloneUnlessMet'
    BY <1>10 DEF ReadRecord, RecordVanished
  <1>11. ASSUME NEW p \in Procs, FollowLink(p) \/ ReadTarget(p)
        PROVE  AloneUnlessMet'
    BY <1>11 DEF FollowLink, ReadTarget
  <1>12. ASSUME NEW p \in Procs, RemoveStale(p)
        PROVE  AloneUnlessMet'
    BY <1>12 DEF RemoveStale
  <1>13. ASSUME NEW p \in Procs, WalkDone(p) \/ Finish(p)
        PROVE  AloneUnlessMet'
    BY <1>13 DEF WalkDone, Finish
  <1>14. ASSUME NEW p \in Procs, Crash(p)
        PROVE  AloneUnlessMet'
    BY <1>14 DEF Crash
  <1>15. ASSUME NEW l \in Links, UserRemoves(l) \/ UserPuts(l)
        PROVE  AloneUnlessMet'
    BY <1>15 DEF UserRemoves, UserPuts
  <1>16. CASE UNCHANGED vars
    BY <1>16 DEF vars
  <1> QED
    BY <1>1, <1>2, <1>3, <1>4, <1>5, <1>6, <1>7, <1>8, <1>9, <1>10, <1>11, <1>12, <1>13, <1>14, <1>15, <1>16 DEF Next

(* Only additions of a link touch its staging file.                        *)
LEMMA StagingKept ==
  ASSUME TypeOK, OnlyWritersWrite, AloneUnlessMet, StagingIsItsOwn, [Next]_vars
  PROVE  StagingIsItsOwn'
  <1> USE LinkOfAssumption DEF TypeOK, Places, AddPlaces, WalkPlaces, Adding, Walking, Goto, TakeShared, TakeExclusive, Close, Ended, Added, NotAdded, Unroot, SetLink, walkVars, history, AloneUnlessMet, OnlyWritersWrite, StagingIsItsOwn
  <1>1. ASSUME NEW p \in Procs, StartAdd(p)
        PROVE  StagingIsItsOwn'
    BY <1>1 DEF StartAdd
  <1>2. ASSUME NEW p \in Procs, ClassifyLink(p) \/ RefuseLink(p)
        PROVE  StagingIsItsOwn'
    BY <1>2 DEF ClassifyLink, RefuseLink
  <1>3. ASSUME NEW p \in Procs, RemoveOldLink(p) \/ CreateFails(p)
        PROVE  StagingIsItsOwn'
    BY <1>3 DEF RemoveOldLink, CreateFails
  <1>4. ASSUME NEW p \in Procs, NEW target \in Targets, CreateLink(p, target)
        PROVE  StagingIsItsOwn'
    BY <1>4 DEF CreateLink
  <1>5. ASSUME NEW p \in Procs, PublishNothing(p) \/ PublishAnew(p)
        PROVE  StagingIsItsOwn'
    BY <1>5 DEF PublishNothing, PublishAnew
  <1>6. ASSUME NEW p \in Procs, OpenStaging(p) \/ WriteStaging(p)
        PROVE  StagingIsItsOwn'
    BY <1>6 DEF OpenStaging, WriteStaging
  <1>7. ASSUME NEW p \in Procs, RenameRecord(p)
        PROVE  StagingIsItsOwn'
    BY <1>7 DEF RenameRecord, MoveWriters
  <1>8. ASSUME NEW p \in Procs, RenameFails(p)
        PROVE  StagingIsItsOwn'
    BY <1>8 DEF RenameFails
  <1>9. ASSUME NEW p \in Procs, StartListing(p) \/ StartCollection(p)
        PROVE  StagingIsItsOwn'
    BY <1>9 DEF StartListing, StartCollection, Walk
  <1>10. ASSUME NEW p \in Procs, NEW l \in Links, ReadRecord(p, l) \/ RecordVanished(p, l)
        PROVE  StagingIsItsOwn'
    BY <1>10 DEF ReadRecord, RecordVanished
  <1>11. ASSUME NEW p \in Procs, FollowLink(p) \/ ReadTarget(p)
        PROVE  StagingIsItsOwn'
    BY <1>11 DEF FollowLink, ReadTarget
  <1>12. ASSUME NEW p \in Procs, RemoveStale(p)
        PROVE  StagingIsItsOwn'
    BY <1>12 DEF RemoveStale
  <1>13. ASSUME NEW p \in Procs, WalkDone(p) \/ Finish(p)
        PROVE  StagingIsItsOwn'
    BY <1>13 DEF WalkDone, Finish
  <1>14. ASSUME NEW p \in Procs, Crash(p)
        PROVE  StagingIsItsOwn'
    BY <1>14 DEF Crash
  <1>15. ASSUME NEW l \in Links, UserRemoves(l) \/ UserPuts(l)
        PROVE  StagingIsItsOwn'
    BY <1>15 DEF UserRemoves, UserPuts
  <1>16. CASE UNCHANGED vars
    BY <1>16 DEF vars
  <1> QED
    BY <1>1, <1>2, <1>3, <1>4, <1>5, <1>6, <1>7, <1>8, <1>9, <1>10, <1>11, <1>12, <1>13, <1>14, <1>15, <1>16 DEF Next

(* A link becomes undisturbed when nobody else adds it, and an addition    *)
(* that finds it there removes it first.                                   *)
LEMMA ReplacedKept ==
  ASSUME TypeOK, AloneUnlessMet, UndisturbedKeepsRecord, NotYetReplaced, [Next]_vars
  PROVE  NotYetReplaced'
  <1> USE LinkOfAssumption, TargetsAssumption DEF TypeOK, Places, AddPlaces, WalkPlaces, Adding, Walking, Goto, TakeShared, TakeExclusive, Close, Ended, Added, NotAdded, Unroot, SetLink, walkVars, history, AloneUnlessMet, UndisturbedKeepsRecord, NotYetReplaced
  <1>1. ASSUME NEW p \in Procs, StartAdd(p)
        PROVE  NotYetReplaced'
    BY <1>1 DEF StartAdd
  <1>2. ASSUME NEW p \in Procs, ClassifyLink(p) \/ RefuseLink(p)
        PROVE  NotYetReplaced'
    BY <1>2 DEF ClassifyLink, RefuseLink
  <1>3. ASSUME NEW p \in Procs, RemoveOldLink(p) \/ CreateFails(p)
        PROVE  NotYetReplaced'
    BY <1>3 DEF RemoveOldLink, CreateFails
  <1>4. ASSUME NEW p \in Procs, NEW target \in Targets, CreateLink(p, target)
        PROVE  NotYetReplaced'
    BY <1>4 DEF CreateLink
  <1>5. ASSUME NEW p \in Procs, PublishNothing(p) \/ PublishAnew(p)
        PROVE  NotYetReplaced'
    BY <1>5 DEF PublishNothing, PublishAnew
  <1>6. ASSUME NEW p \in Procs, OpenStaging(p) \/ WriteStaging(p)
        PROVE  NotYetReplaced'
    BY <1>6 DEF OpenStaging, WriteStaging
  <1>7. ASSUME NEW p \in Procs, RenameRecord(p)
        PROVE  NotYetReplaced'
    BY <1>7 DEF RenameRecord, MoveWriters
  <1>8. ASSUME NEW p \in Procs, RenameFails(p)
        PROVE  NotYetReplaced'
    BY <1>8 DEF RenameFails
  <1>9. ASSUME NEW p \in Procs, StartListing(p) \/ StartCollection(p)
        PROVE  NotYetReplaced'
    BY <1>9 DEF StartListing, StartCollection, Walk
  <1>10. ASSUME NEW p \in Procs, NEW l \in Links, ReadRecord(p, l) \/ RecordVanished(p, l)
        PROVE  NotYetReplaced'
    BY <1>10 DEF ReadRecord, RecordVanished
  <1>11. ASSUME NEW p \in Procs, FollowLink(p) \/ ReadTarget(p)
        PROVE  NotYetReplaced'
    BY <1>11 DEF FollowLink, ReadTarget
  <1>12. ASSUME NEW p \in Procs, RemoveStale(p)
        PROVE  NotYetReplaced'
    BY <1>12 DEF RemoveStale
  <1>13. ASSUME NEW p \in Procs, WalkDone(p) \/ Finish(p)
        PROVE  NotYetReplaced'
    BY <1>13 DEF WalkDone, Finish
  <1>14. ASSUME NEW p \in Procs, Crash(p)
        PROVE  NotYetReplaced'
    BY <1>14 DEF Crash
  <1>15. ASSUME NEW l \in Links, UserRemoves(l) \/ UserPuts(l)
        PROVE  NotYetReplaced'
    BY <1>15 DEF UserRemoves, UserPuts
  <1>16. CASE UNCHANGED vars
    BY <1>16 DEF vars
  <1> QED
    BY <1>1, <1>2, <1>3, <1>4, <1>5, <1>6, <1>7, <1>8, <1>9, <1>10, <1>11, <1>12, <1>13, <1>14, <1>15, <1>16 DEF Next

(* What is renamed over the record of an undisturbed link is whole, and no *)
(* walk takes that record for stale.                                       *)
LEMMA RecordKept ==
  ASSUME RootsInv, [Next]_vars
  PROVE  UndisturbedKeepsRecord'
  <1> USE LinkOfAssumption, TargetsAssumption DEF TypeOK, Places, AddPlaces, WalkPlaces, Adding, Walking, Goto, TakeShared, TakeExclusive, Close, Ended, Added, NotAdded, Unroot, SetLink, walkVars, history, RootsInv, AloneUnlessMet, StagingIsItsOwn, NotYetReplaced, WalkMisses, UndisturbedKeepsRecord, OnlyWritersWrite
  <1>1. ASSUME NEW p \in Procs, StartAdd(p)
        PROVE  UndisturbedKeepsRecord'
    BY <1>1 DEF StartAdd
  <1>2. ASSUME NEW p \in Procs, ClassifyLink(p) \/ RefuseLink(p)
        PROVE  UndisturbedKeepsRecord'
    BY <1>2 DEF ClassifyLink, RefuseLink
  <1>3. ASSUME NEW p \in Procs, RemoveOldLink(p) \/ CreateFails(p)
        PROVE  UndisturbedKeepsRecord'
    BY <1>3 DEF RemoveOldLink, CreateFails
  <1>4. ASSUME NEW p \in Procs, NEW target \in Targets, CreateLink(p, target)
        PROVE  UndisturbedKeepsRecord'
    BY <1>4 DEF CreateLink
  <1>5. ASSUME NEW p \in Procs, PublishNothing(p) \/ PublishAnew(p)
        PROVE  UndisturbedKeepsRecord'
    BY <1>5 DEF PublishNothing, PublishAnew
  <1>6. ASSUME NEW p \in Procs, OpenStaging(p) \/ WriteStaging(p)
        PROVE  UndisturbedKeepsRecord'
    BY <1>6 DEF OpenStaging, WriteStaging
  <1>7. ASSUME NEW p \in Procs, RenameRecord(p)
        PROVE  UndisturbedKeepsRecord'
    BY <1>7 DEF RenameRecord, MoveWriters
  <1>8. ASSUME NEW p \in Procs, RenameFails(p)
        PROVE  UndisturbedKeepsRecord'
    BY <1>8 DEF RenameFails
  <1>9. ASSUME NEW p \in Procs, StartListing(p) \/ StartCollection(p)
        PROVE  UndisturbedKeepsRecord'
    BY <1>9 DEF StartListing, StartCollection, Walk
  <1>10. ASSUME NEW p \in Procs, NEW l \in Links, ReadRecord(p, l) \/ RecordVanished(p, l)
        PROVE  UndisturbedKeepsRecord'
    BY <1>10 DEF ReadRecord, RecordVanished
  <1>11. ASSUME NEW p \in Procs, FollowLink(p) \/ ReadTarget(p)
        PROVE  UndisturbedKeepsRecord'
    BY <1>11 DEF FollowLink, ReadTarget
  <1>12. ASSUME NEW p \in Procs, RemoveStale(p)
        PROVE  UndisturbedKeepsRecord'
    BY <1>12 DEF RemoveStale
  <1>13. ASSUME NEW p \in Procs, WalkDone(p) \/ Finish(p)
        PROVE  UndisturbedKeepsRecord'
    BY <1>13 DEF WalkDone, Finish
  <1>14. ASSUME NEW p \in Procs, Crash(p)
        PROVE  UndisturbedKeepsRecord'
    BY <1>14 DEF Crash
  <1>15. ASSUME NEW l \in Links, UserRemoves(l) \/ UserPuts(l)
        PROVE  UndisturbedKeepsRecord'
    BY <1>15 DEF UserRemoves, UserPuts
  <1>16. CASE UNCHANGED vars
    BY <1>16 DEF vars
  <1> QED
    BY <1>1, <1>2, <1>3, <1>4, <1>5, <1>6, <1>7, <1>8, <1>9, <1>10, <1>11, <1>12, <1>13, <1>14, <1>15, <1>16 DEF Next

(* While anybody walks no link becomes undisturbed, and those that were    *)
(* when the walk began have a record and a link for it to read.            *)
LEMMA WalkKept ==
  ASSUME RootsInv, [Next]_vars
  PROVE  WalkMisses'
  <1> USE LinkOfAssumption, TargetsAssumption DEF TypeOK, Places, AddPlaces, WalkPlaces, Adding, Walking, Goto, TakeShared, TakeExclusive, Close, Ended, Added, NotAdded, Unroot, SetLink, walkVars, history, RootsInv, AloneUnlessMet, UndisturbedKeepsRecord, WalkMisses
  <1>1. ASSUME NEW p \in Procs, StartAdd(p)
        PROVE  WalkMisses'
    BY <1>1 DEF StartAdd
  <1>2. ASSUME NEW p \in Procs, ClassifyLink(p) \/ RefuseLink(p)
        PROVE  WalkMisses'
    BY <1>2 DEF ClassifyLink, RefuseLink
  <1>3. ASSUME NEW p \in Procs, RemoveOldLink(p) \/ CreateFails(p)
        PROVE  WalkMisses'
    BY <1>3 DEF RemoveOldLink, CreateFails
  <1>4. ASSUME NEW p \in Procs, NEW target \in Targets, CreateLink(p, target)
        PROVE  WalkMisses'
    BY <1>4 DEF CreateLink
  <1>5. ASSUME NEW p \in Procs, PublishNothing(p) \/ PublishAnew(p)
        PROVE  WalkMisses'
    BY <1>5 DEF PublishNothing, PublishAnew
  <1>6. ASSUME NEW p \in Procs, OpenStaging(p) \/ WriteStaging(p)
        PROVE  WalkMisses'
    BY <1>6 DEF OpenStaging, WriteStaging
  <1>7. ASSUME NEW p \in Procs, RenameRecord(p)
        PROVE  WalkMisses'
    BY <1>7 DEF RenameRecord, MoveWriters
  <1>8. ASSUME NEW p \in Procs, RenameFails(p)
        PROVE  WalkMisses'
    BY <1>8 DEF RenameFails
  <1>9. ASSUME NEW p \in Procs, StartListing(p) \/ StartCollection(p)
        PROVE  WalkMisses'
    <2>1. Walk(p) /\ pc[p] = "idle" /\ pc' = [pc EXCEPT ![p] = "readRecord"] /\ UNCHANGED <<at, undisturbed>>
      BY <1>9 DEF StartListing, StartCollection, Walk
    <2>2. todo'[p] = {l \in Links : record[l] # "absent"}
      BY <2>1 DEF Walk
    <2>3. undisturbed \subseteq todo'[p]
      BY <2>2
    <2>4. \A q \in Procs \ {p} : todo'[q] = todo[q] /\ found'[q] = found[q]
      BY <2>1 DEF Walk
    <2> QED
      BY <2>1, <2>3, <2>4
  <1>10. ASSUME NEW p \in Procs, NEW l \in Links, ReadRecord(p, l) \/ RecordVanished(p, l)
        PROVE  WalkMisses'
    BY <1>10 DEF ReadRecord, RecordVanished
  <1>11. ASSUME NEW p \in Procs, FollowLink(p) \/ ReadTarget(p)
        PROVE  WalkMisses'
    BY <1>11 DEF FollowLink, ReadTarget
  <1>12. ASSUME NEW p \in Procs, RemoveStale(p)
        PROVE  WalkMisses'
    BY <1>12 DEF RemoveStale
  <1>13. ASSUME NEW p \in Procs, WalkDone(p) \/ Finish(p)
        PROVE  WalkMisses'
    BY <1>13 DEF WalkDone, Finish
  <1>14. ASSUME NEW p \in Procs, Crash(p)
        PROVE  WalkMisses'
    BY <1>14 DEF Crash
  <1>15. ASSUME NEW l \in Links, UserRemoves(l) \/ UserPuts(l)
        PROVE  WalkMisses'
    BY <1>15 DEF UserRemoves, UserPuts
  <1>16. CASE UNCHANGED vars
    BY <1>16 DEF vars
  <1> QED
    BY <1>1, <1>2, <1>3, <1>4, <1>5, <1>6, <1>7, <1>8, <1>9, <1>10, <1>11, <1>12, <1>13, <1>14, <1>15, <1>16 DEF Next

LEMMA InitInductive == Init => RootsInv
  BY InitTyped, LinkOfAssumption
     DEF Init, RootsInv, LeaseMatchesPlace, AloneUnlessMet, StagingIsItsOwn, OnlyWritersWrite,
         NotYetReplaced, UndisturbedKeepsRecord, WalkMisses, Adding, AddPlaces, WalkPlaces

LEMMA StepInductive == RootsInv /\ [Next]_vars => RootsInv'
  BY StepTyped, LeaseKept, AloneKept, StagingKept, ReplacedKept, RecordKept, WalkKept DEF RootsInv

LEMMA Inductive == Spec => []RootsInv
  BY InitInductive, StepInductive, PTL DEF Spec

(* An out-link whose addition returned and met no listing and no other     *)
(* addition of that link keeps a whole record and a link into the store    *)
(* until its user removes it, for any number of processes that add, list,  *)
(* collect and crash in any order.                                         *)
THEOREM RecordStays == Spec => []UndisturbedKeepsRecord
  <1>1. RootsInv => UndisturbedKeepsRecord
    BY DEF RootsInv
  <1> QED
    BY Inductive, <1>1, PTL

(* A collection that is about to sweep has found every such link, though   *)
(* it read the records and the links one by one while users removed and    *)
(* replaced others.                                                        *)
THEOREM Spared == Spec => []CollectionSpares
  <1>1. RootsInv => CollectionSpares
    BY DEF RootsInv, TypeOK, WalkMisses, CollectionSpares, WalkPlaces, Places, AddPlaces
  <1> QED
    BY Inductive, <1>1, PTL

(* A record becomes torn only where the addition that publishes it met     *)
(* another addition of its link: for any number of processes, crashed and  *)
(* failed additions before it, and listings, collections and users beside  *)
(* it.                                                                     *)
THEOREM TornOnlyBetweenTwo == Spec => TornMeansDoubled
  <1> DEFINE TearsOnlyBetweenTwo ==
        \A l \in Links : record'[l] = "torn" /\ record[l] # "torn" =>
          \E p \in doubled : LinkOf[p] = l /\ pc[p] = "rename"
  <1>1. ASSUME RootsInv, [Next]_vars
        PROVE  TearsOnlyBetweenTwo
    <2> USE <1>1, LinkOfAssumption DEF RootsInv, TypeOK
    <2>1. ASSUME NEW p \in Procs, RenameRecord(p)
          PROVE  TearsOnlyBetweenTwo
      <3>1. pc[p] = "rename" /\ record' = [record EXCEPT ![LinkOf[p]] = staging[LinkOf[p]]]
        BY <2>1 DEF RenameRecord, Goto
      <3>2. staging[LinkOf[p]] # "whole" => p \in doubled
        BY <3>1 DEF StagingIsItsOwn, Adding, AddPlaces
      <3> QED
        BY <3>1, <3>2
    <2>2. ASSUME NEW p \in Procs, WriteStaging(p) \/ RemoveStale(p)
          PROVE  TearsOnlyBetweenTwo
      BY <2>2 DEF WriteStaging, RemoveStale
    <2>3. CASE UNCHANGED record
      BY <2>3
    <2>4. CASE Next
      BY <2>1, <2>2, <2>3, <2>4
         DEF Next, StartAdd, ClassifyLink, RefuseLink, RemoveOldLink, CreateLink, CreateFails,
             PublishNothing, PublishAnew, OpenStaging, RenameFails, StartListing, StartCollection,
             Walk, ReadRecord, RecordVanished, FollowLink, ReadTarget, WalkDone, Finish, Crash,
             UserRemoves, UserPuts
    <2> QED
      BY <2>3, <2>4 DEF vars
  <1>2. RootsInv /\ [Next]_vars => [TearsOnlyBetweenTwo]_vars
    BY <1>1
  <1> QED
    BY Inductive, <1>2, PTL DEF Spec, TornMeansDoubled
=============================================================================
