--------------------------- MODULE TransferProofs ---------------------------
(***************************************************************************)
(* Proofs about Transfer, for any processes, caches, priorities, archives, *)
(* signatures and retry budget.                                            *)
(***************************************************************************)
EXTENDS Transfer, TLAPS

USE DEF Goto, Request, ReleasePathLock, Remove

LEMMA CachesAreIndices == Caches \subseteq Nat /\ NoCache \notin Caches /\ Caches # {}
  <1>1. Caches = 1..Len(Priority) /\ Len(Priority) \in Nat /\ Len(Priority) # 0
    BY PriorityAssumption DEF Caches
  <1> QED
    BY <1>1 DEF NoCache

\* Any two caches come one before the other.
LEMMA BeforeIsTotal ==
  ASSUME NEW c \in Caches, NEW d \in Caches
  PROVE  /\ Before(c, d) => ~Before(d, c)
         /\ ~Before(c, c)
         /\ c # d => Before(c, d) \/ Before(d, c)
  <1>1. Priority[c] \in Int /\ Priority[d] \in Int /\ c \in Nat /\ d \in Nat
    BY PriorityAssumption, CachesAreIndices DEF Caches
  <1> QED
    BY <1>1 DEF Before

LEMMA TypeInit == Init => TypeOK
  BY AttemptsAssumption DEF Init, TypeOK, NoCache, Locked, Scanning, Results

LEMMA CacheEnds ==
  ASSUME TypeOK, NEW p \in Procs, CacheMisses(p) \/ CacheFails(p)
  PROVE  /\ pc' \in [Procs -> Locked \cup {"start", "done"}]
         /\ fate' \in [Procs -> [Caches -> {"untried", "missed", "failed", "supplied"}]]
         /\ firstErr' \in [Procs -> Caches \cup {NoCache}]
         /\ cache' \in [Procs -> Caches \cup {NoCache}]
         /\ offer' \in [Procs -> Offer \cup {NoOffer}]
         /\ attempt' \in [Procs -> 1..Attempts]
  <1>1. LeaveCache(p) /\ pc' = [pc EXCEPT ![p] = "scan"]
    BY DEF CacheMisses, CacheFails
  <1>2. pc' \in [Procs -> Locked \cup {"start", "done"}]
    BY <1>1 DEF TypeOK, Locked, Scanning
  <1>3. \E end \in {"missed", "failed"} : SetFate(p, end)
    BY DEF CacheMisses, CacheFails
  <1>4. fate' \in [Procs -> [Caches -> {"untried", "missed", "failed", "supplied"}]]
    <2>1. PICK end \in {"missed", "failed"} : SetFate(p, end)
      BY <1>3
    <2> QED
      BY <2>1 DEF SetFate, TypeOK
  <1>5. firstErr' = firstErr \/ NoteError(p)
    BY DEF CacheMisses, CacheFails
  <1>6. firstErr' \in [Procs -> Caches \cup {NoCache}]
    BY <1>5 DEF NoteError, TypeOK
  <1>7. cache' \in [Procs -> Caches \cup {NoCache}]
    BY <1>1 DEF LeaveCache, TypeOK
  <1>8. offer' \in [Procs -> Offer \cup {NoOffer}]
    BY <1>1 DEF LeaveCache, TypeOK
  <1>9. attempt' \in [Procs -> 1..Attempts]
    BY <1>1, AttemptsAssumption DEF LeaveCache, TypeOK
  <1> QED
    BY <1>2, <1>4, <1>6, <1>7, <1>8, <1>9

LEMMA AttemptEnds ==
  ASSUME TypeOK, NEW p \in Procs, NEW failure, NEW again \in {"query", "attempt"},
         AttemptFails(p, failure, again)
  PROVE  /\ pc' \in [Procs -> Locked \cup {"start", "done"}]
         /\ fate' \in [Procs -> [Caches -> {"untried", "missed", "failed", "supplied"}]]
         /\ firstErr' \in [Procs -> Caches \cup {NoCache}]
         /\ cache' \in [Procs -> Caches \cup {NoCache}]
         /\ offer' \in [Procs -> Offer \cup {NoOffer}]
         /\ attempt' \in [Procs -> 1..Attempts]
  <1>1. CASE failure = "transient" /\ attempt[p] < Attempts
    BY <1>1, AttemptsAssumption DEF AttemptFails, TypeOK, Locked, Scanning
  <1>2. CASE ~(failure = "transient" /\ attempt[p] < Attempts)
    <2>1. CacheFails(p)
      BY <1>2 DEF AttemptFails
    <2> QED
      BY <2>1, CacheEnds
  <1> QED
    BY <1>1, <1>2

LEMMA FinishTypes ==
  ASSUME TypeOK, NEW p \in Procs, NEW outcome \in Results, Finish(p, outcome)
  PROVE  /\ pc' \in [Procs -> Locked \cup {"start", "done"}]
         /\ fate' \in [Procs -> [Caches -> {"untried", "missed", "failed", "supplied"}]]
         /\ firstErr' \in [Procs -> Caches \cup {NoCache}]
         /\ cache' \in [Procs -> Caches \cup {NoCache}]
         /\ offer' \in [Procs -> Offer \cup {NoOffer}]
         /\ attempt' \in [Procs -> 1..Attempts]
         /\ result' \in [Procs -> Results]
  BY AttemptsAssumption DEF TypeOK, Finish, LeaveCache

\* What is offered is what a narinfo declares.
LEMMA NarInfoOffers ==
  ASSUME NEW narinfo \in NarInfo
  PROVE  [nar |-> narinfo.nar, parses |-> narinfo.parses] \in Offer
  BY DEF NarInfo, Offer

LEMMA TypeStep ==
  ASSUME TypeOK, OfferIsSigned, NEW p \in Procs,
         Step(p) \/ Interrupt(p) \/ InterruptLost(p) \/ Crash(p)
  PROVE  TypeOK'
  <1>1. CASE acquirePathLock(p) \/ NotValid(p)
    BY <1>1 DEF acquirePathLock, NotValid, TypeOK, pathVars, scanVars, cacheVars, Locked, Scanning
  <1>2. CASE AlreadyValid(p)
    <2>1. Finish(p, "alreadyValid") /\ "alreadyValid" \in Results
      BY <1>2 DEF AlreadyValid, Results
    <2> QED
      BY <1>2, <2>1, FinishTypes DEF AlreadyValid, TypeOK
  <1>3. CASE \E c \in Caches : NextCache(p, c)
    BY <1>3, AttemptsAssumption DEF NextCache, TypeOK, pathVars, Locked, Scanning
  <1>4. CASE ScanEnds(p)
    <2>1. PICK outcome \in Results : Finish(p, outcome)
      BY <1>4 DEF ScanEnds, Results
    <2> QED
      BY <1>4, <2>1, FinishTypes DEF ScanEnds, TypeOK
  <1>5. CASE \E failure \in Failures : QueryFails(p, failure)
    <2>1. PICK failure \in Failures : QueryFails(p, failure)
      BY <1>5
    <2>2. AttemptFails(p, failure, "query")
      BY <2>1 DEF QueryFails
    <2> QED
      BY <2>1, <2>2, AttemptEnds DEF QueryFails, TypeOK, pathVars
  <1>6. CASE QueryMisses(p)
    BY <1>6, CacheEnds DEF QueryMisses, TypeOK, pathVars
  <1>7. CASE \E narinfo \in NarInfo : NarInfoArrives(p, narinfo)
    <2>1. PICK narinfo \in NarInfo : NarInfoArrives(p, narinfo)
      BY <1>7
    <2>2. UNCHANGED <<pathVars, result, interrupted>>
      BY <2>1 DEF NarInfoArrives
    <2>3. CASE CacheMisses(p) \/ CacheFails(p)
      BY <2>2, <2>3, CacheEnds DEF TypeOK, pathVars
    <2>4. CASE ~(CacheMisses(p) \/ CacheFails(p))
      <3>1. /\ Request(p, "query", "attempt")
            /\ offer' = [offer EXCEPT ![p] = [nar |-> narinfo.nar, parses |-> narinfo.parses]]
            /\ UNCHANGED <<fate, firstErr, cache>>
        BY <2>1, <2>4 DEF NarInfoArrives
      <3> QED
        BY <2>2, <3>1, NarInfoOffers, AttemptsAssumption DEF TypeOK, pathVars, Locked, Scanning
    <2> QED
      BY <2>3, <2>4
  <1>8. CASE MetadataFails(p) \/ NarGone(p)
    BY <1>8, CacheEnds DEF MetadataFails, NarGone, TypeOK, pathVars
  <1>9. CASE ClearStaleDestination(p) \/ StreamBegins(p)
    BY <1>9 DEF ClearStaleDestination, StreamBegins, TypeOK, scanVars, cacheVars, Locked, Scanning
  <1>10. CASE ClearingFails(p) \/ CleanupFails(p) \/ ReadBackFails(p) \/ InterruptLost(p)
    <2>1. CacheFails(p) /\ tree' \in {"absent", "leftover"} /\ UNCHANGED <<row, holder, result>>
      BY <1>10 DEF ClearingFails, CleanupFails, ReadBackFails, InterruptLost, RemovalFails
    <2>2. interrupted' \in {interrupted, interrupted \cup {p}}
      BY <1>10 DEF ClearingFails, CleanupFails, ReadBackFails, InterruptLost
    <2> QED
      BY <2>1, <2>2, CacheEnds DEF TypeOK
  <1>11. CASE \E failure \in Failures : RequestFails(p, failure) \/ StreamFails(p, failure)
    <2>1. PICK failure \in Failures : RequestFails(p, failure) \/ StreamFails(p, failure)
      BY <1>11
    <2>2. AttemptFails(p, failure, "attempt") /\ tree' \in {tree, "absent"}
          /\ UNCHANGED <<row, holder, result, interrupted>>
      BY <2>1 DEF RequestFails, StreamFails, pathVars
    <2> QED
      BY <2>2, AttemptEnds DEF TypeOK
  <1>12. CASE \E onDisk \in Nars : StreamEnds(p, onDisk)
    BY <1>12 DEF StreamEnds, TypeOK, scanVars, cacheVars, Locked, Scanning
  <1>13. CASE TreeAgrees(p)
    <2>1. pc' \in [Procs -> Locked \cup {"start", "done"}]
      BY <1>13 DEF TreeAgrees, TypeOK, Locked, Scanning
    <2>2. fate' \in [Procs -> [Caches -> {"untried", "missed", "failed", "supplied"}]]
      BY <1>13 DEF TreeAgrees, SetFate, TypeOK
    <2> QED
      BY <1>13, <2>1, <2>2 DEF TreeAgrees, TypeOK, pathVars, cacheVars
  <1>14. CASE Register(p)
    <2>1. Finish(p, "registered") /\ "registered" \in Results
      BY <1>14 DEF Register, Results
    <2>2. row' \in Row
      <3>1. offer[p] \in Offer /\ cache[p] \in Caches
        BY <1>14 DEF Register, OfferIsSigned, WithOffer, WithCache
      <3> QED
        BY <1>14, <3>1 DEF Register, Row, Offer
    <2> QED
      BY <1>14, <2>1, <2>2, FinishTypes DEF Register, TypeOK
  <1>15. CASE Drop(p)
    <2>1. Finish(p, "dropped") /\ "dropped" \in Results
      BY <1>15 DEF Drop, Results
    <2> QED
      BY <1>15, <2>1, FinishTypes DEF Drop, TypeOK
  <1>16. CASE Interrupt(p) \/ Crash(p)
    <2>1. PICK outcome \in Results : Finish(p, outcome)
      BY <1>16 DEF Interrupt, Crash, Results
    <2>2. /\ holder' \in {holder, NoProc} /\ row' = row
          /\ tree' \in {tree, "absent", "leftover"}
          /\ interrupted' \in {interrupted, interrupted \cup {p}}
      BY <1>16 DEF Interrupt, Crash
    <2> QED
      BY <2>1, <2>2, FinishTypes DEF TypeOK
  <1> QED
    BY <1>1, <1>2, <1>3, <1>4, <1>5, <1>6, <1>7, <1>8, <1>9, <1>10, <1>11, <1>12, <1>13, <1>14,
       <1>15, <1>16 DEF Step, Scan, Query, Fetch

-----------------------------------------------------------------------------
(* A step of one process leaves what is local to the others alone.         *)

Untouched(q) ==
  /\ pc'[q] = pc[q] /\ fate'[q] = fate[q] /\ firstErr'[q] = firstErr[q]
  /\ cache'[q] = cache[q] /\ offer'[q] = offer[q] /\ result'[q] = result[q]

LEMMA CacheEndsAt ==
  ASSUME TypeOK, NEW p \in Procs, CacheMisses(p) \/ CacheFails(p), UNCHANGED result
  PROVE  /\ pc'[p] = "scan"
         /\ \A q \in Procs \ {p} : Untouched(q)
  <1>1. LeaveCache(p) /\ pc' = [pc EXCEPT ![p] = "scan"]
    BY DEF CacheMisses, CacheFails
  <1>2. \E end \in {"missed", "failed"} : SetFate(p, end)
    BY DEF CacheMisses, CacheFails
  <1>3. firstErr' = firstErr \/ NoteError(p)
    BY DEF CacheMisses, CacheFails
  <1>4. \A q \in Procs \ {p} : fate'[q] = fate[q]
    BY <1>2 DEF SetFate, TypeOK
  <1>5. \A q \in Procs \ {p} : firstErr'[q] = firstErr[q]
    BY <1>3 DEF NoteError, TypeOK
  <1> QED
    BY <1>1, <1>4, <1>5 DEF LeaveCache, TypeOK, Untouched

LEMMA AttemptEndsAt ==
  ASSUME TypeOK, NEW p \in Procs, NEW failure, NEW again,
         AttemptFails(p, failure, again), UNCHANGED result
  PROVE  /\ \/ pc'[p] = "scan" /\ CacheFails(p)
            \/ pc'[p] = again /\ UNCHANGED <<fate, firstErr, cache, offer>>
         /\ \A q \in Procs \ {p} : Untouched(q)
  <1>1. CASE failure = "transient" /\ attempt[p] < Attempts
    BY <1>1 DEF AttemptFails, TypeOK, Untouched
  <1>2. CASE ~(failure = "transient" /\ attempt[p] < Attempts)
    <2>1. CacheFails(p)
      BY <1>2 DEF AttemptFails
    <2> QED
      BY <2>1, CacheEndsAt
  <1> QED
    BY <1>1, <1>2

LEMMA FinishAt ==
  ASSUME TypeOK, NEW p \in Procs, NEW outcome, Finish(p, outcome)
  PROVE  /\ pc'[p] = "done" /\ result'[p] = outcome
         /\ UNCHANGED <<fate, firstErr>>
         /\ \A q \in Procs \ {p} : Untouched(q)
  BY DEF TypeOK, Finish, LeaveCache, Untouched

-----------------------------------------------------------------------------
(* The path.                                                               *)

LEMMA PathInit == Init => PathInv
  BY NarsAssumption, ProcsAssumption
  DEF Init, PathInv, LockMatchesPlace, TreeMatchesPlace, RowDescribesTree, OfferIsSigned,
      Locked, Scanning, WithCache, WithOffer

\* The holder of the lock is alone with the path.
LEMMA HolderIsAlone ==
  ASSUME LockMatchesPlace, NEW p \in Procs, pc[p] \in Locked
  PROVE  holder = p /\ \A q \in Procs \ {p} : pc[q] \notin Locked
  BY DEF LockMatchesPlace

\* What the places of the other processes say of the path, when they are
\* not under its lock: nothing.
LEMMA LockedStep ==
  ASSUME PathInv, TypeOK, NEW p \in Procs, pc[p] \in Locked, pc'[p] \in Locked,
         row = NoOffer, UNCHANGED <<row, holder>>,
         \A q \in Procs \ {p} : Untouched(q),
         tree' = "partial" => pc'[p] = "stream",
         pc'[p] = "request" => tree' = "absent",
         pc'[p] = "unpacked" => tree' \in Nars,
         pc'[p] = "arrived" => tree' = offer'[p].nar,
         pc'[p] \in WithCache => cache'[p] \in Caches,
         pc'[p] \in WithOffer =>
           /\ offer'[p] \in Offer
           /\ offer'[p].nar \in Signed[cache'[p]] /\ cache'[p] \notin BadKeys
  PROVE  PathInv'
  <1>1. holder = p /\ \A q \in Procs \ {p} : pc[q] \notin Locked /\ pc'[q] = pc[q]
    BY HolderIsAlone DEF PathInv, Untouched
  <1>2. LockMatchesPlace'
    BY <1>1, ProcsAssumption DEF LockMatchesPlace
  <1>3. TreeMatchesPlace'
    BY <1>1 DEF TreeMatchesPlace, Locked, Scanning
  <1>4. RowDescribesTree'
    BY DEF RowDescribesTree
  <1>5. OfferIsSigned'
    BY <1>1 DEF OfferIsSigned, Locked, Scanning, WithCache, WithOffer
  <1> QED
    BY <1>2, <1>3, <1>4, <1>5 DEF PathInv

\* A process leaves, and the row that it may have found stays as it is.
LEMMA LeavingStep ==
  ASSUME PathInv, TypeOK, NEW p \in Procs, pc'[p] = "done",
         holder' = IF holder = p THEN NoProc ELSE holder, UNCHANGED row,
         \A q \in Procs \ {p} : Untouched(q),
         pc[p] \notin Locked => UNCHANGED tree,
         row # NoOffer => UNCHANGED tree,
         pc[p] \in Locked => tree' # "partial"
  PROVE  PathInv'
  <1>1. \A q \in Procs \ {p} : pc'[q] = pc[q] /\ cache'[q] = cache[q] /\ offer'[q] = offer[q]
    BY DEF Untouched
  <1>2. LockMatchesPlace'
    BY <1>1, ProcsAssumption DEF PathInv, LockMatchesPlace, Locked, Scanning
  <1>3. TreeMatchesPlace'
    <2>1. CASE pc[p] \in Locked
      <3>1. \A q \in Procs \ {p} : pc[q] \notin Locked
        BY <2>1, HolderIsAlone DEF PathInv
      <3> QED
        BY <1>1, <2>1, <3>1 DEF TreeMatchesPlace, Locked, Scanning
    <2>2. CASE pc[p] \notin Locked
      BY <1>1, <2>2 DEF PathInv, TreeMatchesPlace, Locked, Scanning
    <2> QED
      BY <2>1, <2>2
  <1>4. RowDescribesTree'
    BY <1>1 DEF PathInv, RowDescribesTree, Scanning
  <1>5. OfferIsSigned'
    BY <1>1 DEF PathInv, OfferIsSigned, WithCache, WithOffer
  <1> QED
    BY <1>2, <1>3, <1>4, <1>5 DEF PathInv

\* A process that scans met no row.
LEMMA ScanningMeansNoRow ==
  ASSUME PathInv, NEW p \in Procs, pc[p] \in Scanning \cup {"arrived"}
  PROVE  row = NoOffer /\ pc[p] \in Locked
  BY DEF PathInv, RowDescribesTree, Locked

\* Only a stream in progress makes the tree of the holder a partial one.
LEMMA PartialMeansStream ==
  ASSUME PathInv, NEW p \in Procs, pc[p] \in Locked, tree = "partial"
  PROVE  pc[p] = "stream"
  BY HolderIsAlone DEF PathInv, TreeMatchesPlace, Locked, Scanning

LEMMA PathStep ==
  ASSUME TypeOK, PathInv, NEW p \in Procs,
         Step(p) \/ Interrupt(p) \/ InterruptLost(p) \/ Crash(p)
  PROVE  PathInv'
  <1>1. CASE acquirePathLock(p)
    <2>1. /\ holder = NoProc /\ holder' = p /\ pc[p] = "start" /\ pc'[p] = "check"
          /\ UNCHANGED <<tree, row, cache, offer>>
          /\ \A q \in Procs \ {p} : pc'[q] = pc[q]
      BY <1>1 DEF acquirePathLock, TypeOK, scanVars, cacheVars
    <2>2. LockMatchesPlace'
      BY <2>1, ProcsAssumption DEF PathInv, LockMatchesPlace, Locked, Scanning
    <2>3. TreeMatchesPlace' /\ RowDescribesTree' /\ OfferIsSigned'
      BY <2>1 DEF PathInv, TreeMatchesPlace, RowDescribesTree, OfferIsSigned, Scanning,
                  WithCache, WithOffer
    <2> QED
      BY <2>2, <2>3 DEF PathInv
  <1>2. CASE NotValid(p)
    <2>1. /\ pc[p] = "check" /\ pc'[p] = "scan" /\ row = NoOffer
          /\ UNCHANGED <<tree, row, holder>>
          /\ \A q \in Procs \ {p} : Untouched(q)
      BY <1>2 DEF NotValid, TypeOK, pathVars, scanVars, cacheVars, Untouched
    <2> QED
      BY <2>1, LockedStep, PartialMeansStream DEF Locked, Scanning, WithCache, WithOffer
  <1>3. CASE \E c \in Caches : NextCache(p, c)
    <2>1. /\ pc[p] = "scan" /\ pc'[p] = "query" /\ cache'[p] \in Caches
          /\ UNCHANGED <<tree, row, holder>>
          /\ \A q \in Procs \ {p} : Untouched(q)
      BY <1>3 DEF NextCache, TypeOK, pathVars, Untouched
    <2>2. row = NoOffer
      BY <2>1, ScanningMeansNoRow DEF Scanning
    <2> QED
      BY <2>1, <2>2, LockedStep, PartialMeansStream DEF Locked, Scanning, WithOffer, WithCache
  <1>4. CASE AlreadyValid(p) \/ ScanEnds(p) \/ Drop(p)
    <2>1. /\ pc[p] \in {"check", "scan", "arrived"} /\ holder' = NoProc
          /\ UNCHANGED <<tree, row>> /\ \E outcome : Finish(p, outcome)
      BY <1>4 DEF AlreadyValid, ScanEnds, Drop
    <2>2. pc'[p] = "done" /\ \A q \in Procs \ {p} : Untouched(q)
      BY <2>1, FinishAt
    <2>3. pc[p] \in Locked /\ holder = p
      BY <2>1, HolderIsAlone DEF PathInv, Locked, Scanning
    <2> QED
      BY <2>1, <2>2, <2>3, LeavingStep, PartialMeansStream
  <1>5. CASE \E failure \in Failures : QueryFails(p, failure) \/ RequestFails(p, failure)
                                        \/ StreamFails(p, failure)
    <2>1. PICK failure \in Failures : QueryFails(p, failure) \/ RequestFails(p, failure)
                                        \/ StreamFails(p, failure)
      BY <1>5
    <2>2. PICK again \in {"query", "attempt"} :
            AttemptFails(p, failure, again) /\ (again = "query" <=> pc[p] = "query")
      BY <2>1 DEF QueryFails, RequestFails, StreamFails
    <2>3. /\ pc[p] \in {"query", "request", "stream"}
          /\ (tree' = tree /\ pc[p] # "stream") \/ tree' = "absent"
          /\ UNCHANGED <<row, holder, result>>
      BY <2>1 DEF QueryFails, RequestFails, StreamFails, pathVars
    <2>4. /\ \/ pc'[p] = "scan"
             \/ pc'[p] = again /\ UNCHANGED <<cache, offer>>
          /\ \A q \in Procs \ {p} : Untouched(q)
      BY <2>2, <2>3, AttemptEndsAt
    <2>5. row = NoOffer /\ pc[p] \in Locked /\ tree' # "partial" /\ pc'[p] \in Locked
      BY <2>3, <2>4, ScanningMeansNoRow, PartialMeansStream DEF Scanning, Locked
    <2>6. /\ cache[p] \in Caches
          /\ pc[p] # "query" => /\ offer[p] \in Offer /\ offer[p].nar \in Signed[cache[p]]
                                /\ cache[p] \notin BadKeys
      BY <2>3 DEF PathInv, OfferIsSigned, WithCache, WithOffer
    <2> QED
      BY <2>2, <2>3, <2>4, <2>5, <2>6, LockedStep DEF WithCache, WithOffer
  <1>6. CASE QueryMisses(p) \/ MetadataFails(p) \/ NarGone(p) \/ ClearingFails(p)
             \/ CleanupFails(p) \/ ReadBackFails(p) \/ InterruptLost(p)
    <2>1. /\ CacheMisses(p) \/ CacheFails(p)
          /\ UNCHANGED <<row, holder, result>>
          /\ pc[p] \in {"query", "attempt", "request", "stream", "unpacked"}
          /\ tree' \in {"absent", "leftover"} \/ (tree' = tree /\ pc[p] # "stream")
      BY <1>6 DEF QueryMisses, MetadataFails, NarGone, ClearingFails, CleanupFails,
                  ReadBackFails, InterruptLost, RemovalFails, pathVars, Unchecked
    <2>2. pc'[p] = "scan" /\ \A q \in Procs \ {p} : Untouched(q)
      BY <2>1, CacheEndsAt
    <2>3. row = NoOffer /\ pc[p] \in Locked
      BY <2>1, ScanningMeansNoRow DEF Scanning
    <2> QED
      BY <2>1, <2>2, <2>3, LockedStep, PartialMeansStream
      DEF Locked, Scanning, WithCache, WithOffer
  <1>7. CASE \E narinfo \in NarInfo : NarInfoArrives(p, narinfo)
    <2>1. PICK narinfo \in NarInfo : NarInfoArrives(p, narinfo)
      BY <1>7
    <2>2. pc[p] = "query" /\ UNCHANGED <<tree, row, holder, result>>
      BY <2>1 DEF NarInfoArrives, pathVars
    <2>3. row = NoOffer /\ pc[p] \in Locked /\ tree # "partial"
      BY <2>2, ScanningMeansNoRow, PartialMeansStream DEF Scanning
    <2>4. CASE CacheMisses(p) \/ CacheFails(p)
      <3>1. pc'[p] = "scan" /\ \A q \in Procs \ {p} : Untouched(q)
        BY <2>2, <2>4, CacheEndsAt
      <3> QED
        BY <2>2, <2>3, <3>1, LockedStep DEF Locked, Scanning, WithCache, WithOffer
    <2>5. CASE ~(CacheMisses(p) \/ CacheFails(p))
      <3>1. /\ Judgement(cache[p], narinfo) = "usable"
            /\ Request(p, "query", "attempt")
            /\ offer' = [offer EXCEPT ![p] = [nar |-> narinfo.nar, parses |-> narinfo.parses]]
            /\ UNCHANGED <<fate, firstErr, cache>>
        BY <2>1, <2>5 DEF NarInfoArrives
      <3>2. cache[p] \notin BadKeys /\ narinfo.nar \in Signed[cache[p]]
        BY <3>1 DEF Judgement, Verifies, NarInfo
      <3>3. cache[p] \in Caches
        BY <2>2 DEF PathInv, OfferIsSigned, WithCache
      <3>4. /\ pc'[p] = "attempt"
            /\ offer'[p] = [nar |-> narinfo.nar, parses |-> narinfo.parses]
            /\ cache'[p] = cache[p]
            /\ \A q \in Procs \ {p} : Untouched(q)
        BY <2>2, <3>1 DEF TypeOK, Untouched
      <3> QED
        BY <2>2, <2>3, <3>2, <3>3, <3>4, NarInfoOffers, LockedStep DEF Locked, Scanning
    <2> QED
      BY <2>4, <2>5
  <1>8. CASE ClearStaleDestination(p) \/ StreamBegins(p)
             \/ (\E onDisk \in Nars : StreamEnds(p, onDisk)) \/ TreeAgrees(p)
    <2>1. /\ \/ pc[p] = "attempt" /\ pc'[p] = "request" /\ tree' = "absent"
             \/ pc[p] = "request" /\ pc'[p] = "stream"
             \/ pc[p] = "stream" /\ pc'[p] = "unpacked" /\ tree' \in Nars
             \/ pc[p] = "unpacked" /\ pc'[p] = "arrived" /\ tree' = tree /\ tree = offer[p].nar
          /\ UNCHANGED <<row, holder, cache, offer>>
      BY <1>8 DEF ClearStaleDestination, StreamBegins, StreamEnds, TreeAgrees, TypeOK,
                  pathVars, scanVars, cacheVars
    <2>2. \A q \in Procs \ {p} : Untouched(q)
      BY <1>8 DEF ClearStaleDestination, StreamBegins, StreamEnds, TreeAgrees, TypeOK,
                  SetFate, Untouched, scanVars, cacheVars
    <2>3. row = NoOffer /\ pc[p] \in Locked
      BY <2>1, ScanningMeansNoRow DEF Scanning
    <2>4. /\ cache[p] \in Caches
          /\ pc'[p] # "query" => /\ offer[p] \in Offer /\ offer[p].nar \in Signed[cache[p]]
                                 /\ cache[p] \notin BadKeys
      BY <2>1 DEF PathInv, OfferIsSigned, WithCache, WithOffer
    <2>5. tree' = "partial" => pc'[p] = "stream"
      BY <2>1, <2>3, PartialMeansStream, NarsAssumption
    <2>6. pc'[p] \in Locked
      BY <2>1 DEF Locked, Scanning
    <2> QED
      BY <2>1, <2>2, <2>3, <2>4, <2>5, <2>6, LockedStep
  <1>9. CASE Register(p)
    <2>1. /\ pc[p] = "arrived" /\ holder' = NoProc /\ UNCHANGED tree
          /\ row' = [nar |-> offer[p].nar, from |-> cache[p]]
          /\ Finish(p, "registered")
      BY <1>9 DEF Register
    <2>2. pc'[p] = "done" /\ \A q \in Procs \ {p} : Untouched(q)
      BY <2>1, FinishAt
    <2>3. \A q \in Procs \ {p} : pc[q] \notin Locked
      BY <2>1, HolderIsAlone DEF PathInv, Locked
    <2>4. \A q \in Procs : pc'[q] \notin Locked
      BY <2>2, <2>3 DEF Untouched, Locked, Scanning
    <2>5. tree = offer[p].nar /\ offer[p].nar \in Signed[cache[p]] /\ cache[p] \notin BadKeys
          /\ tree # "partial"
      BY <2>1, PartialMeansStream DEF PathInv, TreeMatchesPlace, OfferIsSigned, WithOffer, WithCache,
                                      Locked
    <2>6. LockMatchesPlace'
      BY <2>1, <2>4, ProcsAssumption DEF LockMatchesPlace
    <2>7. TreeMatchesPlace' /\ OfferIsSigned'
      BY <2>1, <2>4, <2>5 DEF TreeMatchesPlace, OfferIsSigned, WithCache, WithOffer, Locked, Scanning
    <2>8. RowDescribesTree'
      BY <2>1, <2>4, <2>5 DEF RowDescribesTree, Locked
    <2> QED
      BY <2>6, <2>7, <2>8 DEF PathInv
  <1>10. CASE Interrupt(p) \/ Crash(p)
    <2>1. /\ holder' = (IF holder = p THEN NoProc ELSE holder)
          /\ UNCHANGED row
          /\ \E outcome : Finish(p, outcome)
      BY <1>10 DEF Interrupt, Crash
    <2>2. /\ pc[p] \notin {"attempt", "stream", "unpacked"} => UNCHANGED tree
          /\ pc[p] = "attempt" => tree' \in {tree, "leftover"}
          /\ pc[p] \in {"stream", "unpacked"} => tree' \in {"absent", "leftover"}
      BY <1>10 DEF Interrupt, Crash, Unchecked, Clearing
    <2>3. pc'[p] = "done" /\ \A q \in Procs \ {p} : Untouched(q)
      BY <2>1, FinishAt
    <2>4. pc[p] \in {"attempt", "stream", "unpacked"} => row = NoOffer /\ pc[p] \in Locked
      BY ScanningMeansNoRow DEF Scanning
    <2>5. pc[p] \in Locked => tree' # "partial"
      BY <2>2, PartialMeansStream
    <2> QED
      BY <2>1, <2>2, <2>3, <2>4, <2>5, LeavingStep
  <1> QED
    BY <1>1, <1>2, <1>3, <1>4, <1>5, <1>6, <1>7, <1>8, <1>9, <1>10 DEF Step, Scan, Query, Fetch

-----------------------------------------------------------------------------
(* The scan, one process at a time.                                        *)

ScanAt(p) ==
  /\ \A c, d \in Caches : Before(d, c) /\ fate[p][c] # "untried" => Tried(p, d)
  /\ pc[p] \in WithCache =>
       /\ cache[p] \in Caches
       /\ fate[p][cache[p]] = IF pc[p] = "arrived" THEN "supplied" ELSE "untried"
       /\ \A d \in Caches : Before(d, cache[p]) => Tried(p, d)
  /\ \A c \in Caches : fate[p][c] = "supplied" => pc[p] \in {"arrived", "done"}
  /\ IF firstErr[p] = NoCache
     THEN \A c \in Caches : fate[p][c] # "failed"
     ELSE /\ fate[p][firstErr[p]] = "failed"
          /\ \A d \in Caches : Before(d, firstErr[p]) => fate[p][d] = "missed"
  /\ result[p] = "none" <=> pc[p] # "done"
  /\ result[p] \in {"registered", "dropped"} => \E c \in Caches : fate[p][c] = "supplied"
  /\ result[p] \in {"notFound", "error"} =>
       /\ \A c \in Caches : Tried(p, c)
       /\ result[p] = "error" <=> firstErr[p] # NoCache

LEMMA ScanIsLocal ==
  /\ ScanInv <=> \A p \in Procs : ScanAt(p)
  /\ ScanInv' <=> \A p \in Procs : ScanAt(p)'
  BY DEF ScanInv, ScannedInOrder, CacheMatchesPlace, FirstErrorKnown, ResultMatchesPlace, ScanAt, Tried

LEMMA ScanUntouched ==
  ASSUME NEW q \in Procs, ScanAt(q), Untouched(q)
  PROVE  ScanAt(q)'
  BY DEF ScanAt, Tried, Untouched

LEMMA ScanInit == Init => ScanInv
  <1> SUFFICES ASSUME Init, NEW p \in Procs PROVE ScanAt(p)
    BY ScanIsLocal
  <1> QED
    BY DEF Init, ScanAt, Tried, WithCache

\* Where no cache comes to an end and the transfer goes on.
LEMMA ScanGoesOn ==
  ASSUME NEW p \in Procs, ScanAt(p), pc[p] \notin {"arrived", "done"},
         fate'[p] = fate[p], firstErr'[p] = firstErr[p], result'[p] = result[p],
         pc'[p] \notin {"arrived", "done"},
         pc'[p] \in WithCache =>
           /\ cache'[p] \in Caches /\ fate[p][cache'[p]] = "untried"
           /\ \A d \in Caches : Before(d, cache'[p]) => Tried(p, d)
  PROVE  ScanAt(p)'
  BY DEF ScanAt, Tried

\* What every step does that comes to the end of a cache.
LEMMA CacheEnded ==
  ASSUME TypeOK, NEW p \in Procs, ScanAt(p), pc[p] \in WithCache \ {"arrived"},
         CacheMisses(p) \/ CacheFails(p), UNCHANGED result
  PROVE  ScanAt(p)'
  <1> DEFINE c == cache[p]
  <1>1. /\ c \in Caches /\ c # NoCache /\ fate[p][c] = "untried" /\ result[p] = "none"
        /\ \A d \in Caches : Before(d, c) => Tried(p, d)
    BY CachesAreIndices DEF ScanAt, WithCache
  <1>2. pc'[p] = "scan"
    BY CacheEndsAt
  <1>3. PICK end \in {"missed", "failed"} :
          /\ SetFate(p, end)
          /\ end = "missed" => firstErr' = firstErr
          /\ end = "failed" => NoteError(p)
    BY DEF CacheMisses, CacheFails
  <1>4. /\ fate'[p][c] = end
        /\ \A d \in Caches \ {c} : fate'[p][d] = fate[p][d]
    BY <1>1, <1>3 DEF SetFate, TypeOK
  <1>5. \A d \in Caches : Before(d, c) => Tried(p, d)' /\ fate'[p][d] = fate[p][d]
    BY <1>1, <1>4, BeforeIsTotal DEF Tried
  <1>6. \A b, d \in Caches : Before(d, b) /\ fate'[p][b] # "untried" => Tried(p, d)'
    <2> SUFFICES ASSUME NEW b \in Caches, NEW d \in Caches, Before(d, b),
                        fate'[p][b] # "untried"
                 PROVE  Tried(p, d)'
      OBVIOUS
    <2>1. CASE b = c
      BY <2>1, <1>5
    <2>2. CASE b # c
      <3>1. Tried(p, d) /\ d # c
        BY <1>1, <1>4, <2>2 DEF ScanAt, Tried
      <3> QED
        BY <3>1, <1>4 DEF Tried
    <2> QED
      BY <2>1, <2>2
  <1>7. \A d \in Caches : fate'[p][d] # "supplied"
    BY <1>4 DEF ScanAt, WithCache
  <1>8. IF firstErr'[p] = NoCache
        THEN \A d \in Caches : fate'[p][d] # "failed"
        ELSE /\ fate'[p][firstErr'[p]] = "failed"
             /\ \A d \in Caches : Before(d, firstErr'[p]) => fate'[p][d] = "missed"
    <2>1. CASE end = "missed"
      <3>1. firstErr'[p] = firstErr[p]
        BY <1>3, <2>1
      <3>2. CASE firstErr[p] = NoCache
        BY <1>4, <2>1, <3>1, <3>2 DEF ScanAt
      <3>3. CASE firstErr[p] # NoCache
        <4>1. /\ firstErr[p] \in Caches /\ fate[p][firstErr[p]] = "failed"
              /\ \A d \in Caches : Before(d, firstErr[p]) => fate[p][d] = "missed"
          BY <3>3 DEF ScanAt, TypeOK
        <4>2. firstErr[p] # c
          BY <1>1, <4>1
        <4> QED
          BY <1>1, <1>4, <3>1, <3>3, <4>1, <4>2
      <3> QED
        BY <3>2, <3>3
    <2>2. CASE end = "failed" /\ firstErr[p] = NoCache
      <3>1. firstErr'[p] = c
        BY <1>3, <2>2 DEF NoteError, TypeOK
      <3>2. \A d \in Caches : fate[p][d] # "failed"
        BY <2>2 DEF ScanAt
      <3>3. \A d \in Caches : Before(d, c) => fate'[p][d] = "missed"
        BY <1>1, <1>5, <3>2 DEF Tried
      <3> QED
        BY <1>1, <1>4, <2>2, <3>1, <3>3
    <2>3. CASE end = "failed" /\ firstErr[p] # NoCache
      <3>1. firstErr'[p] = firstErr[p]
        BY <1>3, <2>3 DEF NoteError, TypeOK
      <3>2. /\ firstErr[p] \in Caches /\ fate[p][firstErr[p]] = "failed"
            /\ \A d \in Caches : Before(d, firstErr[p]) => fate[p][d] = "missed"
        BY <2>3 DEF ScanAt, TypeOK
      <3>3. firstErr[p] # c
        BY <1>1, <3>2
      <3> QED
        BY <1>1, <1>4, <2>3, <3>1, <3>2, <3>3
    <2> QED
      BY <2>1, <2>2, <2>3
  <1>9. result'[p] = "none"
    BY <1>1
  <1> QED
    BY <1>2, <1>6, <1>7, <1>8, <1>9 DEF ScanAt, WithCache

\* The transfer ends with the scan as it is.
LEMMA ScanFinished ==
  ASSUME TypeOK, NEW p \in Procs, ScanAt(p), NEW outcome \in Results \ {"none"}, Finish(p, outcome),
         pc[p] # "done",
         outcome \in {"registered", "dropped"} => pc[p] = "arrived",
         outcome \in {"notFound", "error"} =>
           /\ \A c \in Caches : Tried(p, c)
           /\ outcome = "error" <=> firstErr[p] # NoCache
  PROVE  ScanAt(p)'
  <1>1. pc'[p] = "done" /\ result'[p] = outcome /\ fate' = fate /\ firstErr' = firstErr
    BY FinishAt
  <1>2. outcome \in {"registered", "dropped"} => \E c \in Caches : fate[p][c] = "supplied"
    BY DEF ScanAt, WithCache
  <1> QED
    BY <1>1, <1>2 DEF ScanAt, Tried, WithCache

LEMMA ScanStep ==
  ASSUME TypeOK, ScanInv, NEW p \in Procs,
         Step(p) \/ Interrupt(p) \/ InterruptLost(p) \/ Crash(p)
  PROVE  ScanAt(p)' /\ \A q \in Procs \ {p} : Untouched(q)
  <1>0. ScanAt(p)
    BY ScanIsLocal
  <1>1. CASE acquirePathLock(p) \/ NotValid(p)
    <2>1. /\ pc[p] \in {"start", "check"} /\ pc'[p] \in {"check", "scan"}
          /\ UNCHANGED <<fate, firstErr, result>>
          /\ \A q \in Procs \ {p} : Untouched(q)
      BY <1>1 DEF acquirePathLock, NotValid, TypeOK, scanVars, cacheVars, Untouched
    <2> QED
      BY <1>0, <2>1, ScanGoesOn DEF WithCache
  <1>2. CASE \E c \in Caches : NextCache(p, c)
    <2>1. PICK c \in Caches : NextCache(p, c)
      BY <1>2
    <2>2. /\ pc[p] = "scan" /\ pc'[p] = "query" /\ cache'[p] = c
          /\ UNCHANGED <<fate, firstErr, result>>
          /\ \A q \in Procs \ {p} : Untouched(q)
      BY <2>1 DEF NextCache, TypeOK, Untouched
    <2>3. fate[p][c] = "untried" /\ \A d \in Caches : Before(d, c) => fate[p][d] # "untried"
      BY <2>1 DEF NextCache, Rest
    <2>4. \A d \in Caches : Before(d, c) => Tried(p, d)
      BY <1>0, <2>2, <2>3 DEF ScanAt, Tried, TypeOK
    <2> QED
      BY <1>0, <2>2, <2>3, <2>4, ScanGoesOn
  <1>3. CASE \E failure \in Failures : QueryFails(p, failure) \/ RequestFails(p, failure)
                                        \/ StreamFails(p, failure)
    <2>1. PICK failure \in Failures : QueryFails(p, failure) \/ RequestFails(p, failure)
                                        \/ StreamFails(p, failure)
      BY <1>3
    <2>2. PICK again \in {"query", "attempt"} : AttemptFails(p, failure, again)
      BY <2>1 DEF QueryFails, RequestFails, StreamFails
    <2>3. pc[p] \in {"query", "request", "stream"} /\ UNCHANGED result
      BY <2>1 DEF QueryFails, RequestFails, StreamFails
    <2>4. /\ CacheFails(p) \/ (pc'[p] = again /\ UNCHANGED <<fate, firstErr, cache, offer>>)
          /\ \A q \in Procs \ {p} : Untouched(q)
      BY <2>2, <2>3, AttemptEndsAt
    <2>5. CASE CacheFails(p)
      BY <1>0, <2>3, <2>4, <2>5, CacheEnded DEF WithCache
    <2>6. CASE pc'[p] = again /\ UNCHANGED <<fate, firstErr, cache, offer>>
      <3>1. /\ cache[p] \in Caches /\ fate[p][cache[p]] = "untried"
            /\ \A d \in Caches : Before(d, cache[p]) => Tried(p, d)
        BY <1>0, <2>3 DEF ScanAt, WithCache
      <3> QED
        BY <1>0, <2>3, <2>4, <2>6, <3>1, ScanGoesOn
    <2> QED
      BY <2>4, <2>5, <2>6
  <1>4. CASE QueryMisses(p) \/ MetadataFails(p) \/ NarGone(p) \/ ClearingFails(p)
             \/ CleanupFails(p) \/ ReadBackFails(p) \/ InterruptLost(p)
    <2>1. /\ CacheMisses(p) \/ CacheFails(p)
          /\ UNCHANGED result
          /\ pc[p] \in {"query", "attempt", "request", "stream", "unpacked"}
      BY <1>4 DEF QueryMisses, MetadataFails, NarGone, ClearingFails, CleanupFails,
                  ReadBackFails, InterruptLost, Unchecked
    <2> QED
      BY <1>0, <2>1, CacheEnded, CacheEndsAt DEF WithCache
  <1>5. CASE \E narinfo \in NarInfo : NarInfoArrives(p, narinfo)
    <2>1. PICK narinfo \in NarInfo : NarInfoArrives(p, narinfo)
      BY <1>5
    <2>2. pc[p] = "query" /\ UNCHANGED result
      BY <2>1 DEF NarInfoArrives
    <2>3. CASE CacheMisses(p) \/ CacheFails(p)
      BY <1>0, <2>2, <2>3, CacheEnded, CacheEndsAt DEF WithCache
    <2>4. CASE ~(CacheMisses(p) \/ CacheFails(p))
      <3>1. /\ Request(p, "query", "attempt")
            /\ offer' = [offer EXCEPT ![p] = [nar |-> narinfo.nar, parses |-> narinfo.parses]]
            /\ UNCHANGED <<fate, firstErr, cache>>
        BY <2>1, <2>4 DEF NarInfoArrives
      <3>2. pc'[p] = "attempt" /\ \A q \in Procs \ {p} : Untouched(q)
        BY <2>2, <3>1 DEF TypeOK, Untouched
      <3>3. /\ cache[p] \in Caches /\ fate[p][cache[p]] = "untried"
            /\ \A d \in Caches : Before(d, cache[p]) => Tried(p, d)
        BY <1>0, <2>2 DEF ScanAt, WithCache
      <3> QED
        BY <1>0, <2>2, <3>1, <3>2, <3>3, ScanGoesOn
    <2> QED
      BY <2>3, <2>4
  <1>6. CASE ClearStaleDestination(p) \/ StreamBegins(p) \/ \E onDisk \in Nars : StreamEnds(p, onDisk)
    <2>1. /\ pc[p] \in {"attempt", "request", "stream"}
          /\ pc'[p] \in {"request", "stream", "unpacked"}
          /\ UNCHANGED <<fate, firstErr, cache, result>>
          /\ \A q \in Procs \ {p} : Untouched(q)
      BY <1>6 DEF ClearStaleDestination, StreamBegins, StreamEnds, TypeOK, Untouched,
                  scanVars, cacheVars
    <2>2. /\ cache[p] \in Caches /\ fate[p][cache[p]] = "untried"
          /\ \A d \in Caches : Before(d, cache[p]) => Tried(p, d)
      BY <1>0, <2>1 DEF ScanAt, WithCache
    <2> QED
      BY <1>0, <2>1, <2>2, ScanGoesOn
  <1>7. CASE TreeAgrees(p)
    <2> DEFINE c == cache[p]
    <2>1. /\ pc[p] = "unpacked" /\ pc'[p] = "arrived" /\ SetFate(p, "supplied")
          /\ UNCHANGED <<firstErr, cache, result>>
      BY <1>7 DEF TreeAgrees, TypeOK, cacheVars
    <2>2. /\ c \in Caches /\ c # NoCache /\ fate[p][c] = "untried" /\ result[p] = "none"
          /\ \A d \in Caches : Before(d, c) => Tried(p, d)
      BY <1>0, <2>1, CachesAreIndices DEF ScanAt, WithCache
    <2>3. /\ fate'[p][c] = "supplied"
          /\ \A d \in Caches \ {c} : fate'[p][d] = fate[p][d]
      BY <2>1, <2>2 DEF SetFate, TypeOK
    <2>4. \A q \in Procs \ {p} : Untouched(q)
      BY <1>7 DEF TreeAgrees, SetFate, TypeOK, Untouched, cacheVars
    <2>5. \A d \in Caches : Before(d, c) => Tried(p, d)'
      BY <2>2, <2>3, BeforeIsTotal DEF Tried
    <2>6. \A b, d \in Caches : Before(d, b) /\ fate'[p][b] # "untried" => Tried(p, d)'
      <3> SUFFICES ASSUME NEW b \in Caches, NEW d \in Caches, Before(d, b),
                          fate'[p][b] # "untried"
                   PROVE  Tried(p, d)'
        OBVIOUS
      <3>1. CASE b = c
        BY <3>1, <2>5
      <3>2. CASE b # c
        <4>1. Tried(p, d) /\ d # c
          BY <1>0, <2>2, <2>3, <3>2 DEF ScanAt, Tried
        <4> QED
          BY <4>1, <2>3 DEF Tried
      <3> QED
        BY <3>1, <3>2
    <2>7. IF firstErr'[p] = NoCache
          THEN \A d \in Caches : fate'[p][d] # "failed"
          ELSE /\ fate'[p][firstErr'[p]] = "failed"
               /\ \A d \in Caches : Before(d, firstErr'[p]) => fate'[p][d] = "missed"
      <3>1. CASE firstErr[p] = NoCache
        BY <1>0, <2>1, <2>3, <3>1 DEF ScanAt
      <3>2. CASE firstErr[p] # NoCache
        <4>1. /\ firstErr[p] \in Caches /\ fate[p][firstErr[p]] = "failed"
              /\ \A d \in Caches : Before(d, firstErr[p]) => fate[p][d] = "missed"
          BY <1>0, <3>2 DEF ScanAt, TypeOK
        <4>2. firstErr[p] # c
          BY <2>2, <4>1
        <4> QED
          BY <2>1, <2>2, <2>3, <3>2, <4>1, <4>2
      <3> QED
        BY <3>1, <3>2
    <2>8. ScanAt(p)'
      BY <2>1, <2>2, <2>3, <2>5, <2>6, <2>7 DEF ScanAt
    <2> QED
      BY <2>4, <2>8
  <1>8. CASE ScanEnds(p)
    <2>1. PICK outcome : /\ outcome = (IF firstErr[p] = NoCache THEN "notFound" ELSE "error")
                         /\ Finish(p, outcome) /\ pc[p] = "scan"
      BY <1>8 DEF ScanEnds
    <2>2. \A c \in Caches : Tried(p, c)
      BY <1>0, <1>8, <2>1 DEF ScanEnds, Rest, ScanAt, Tried, TypeOK
    <2> QED
      BY <1>0, <2>1, <2>2, ScanFinished, FinishAt DEF Results
  <1>9. CASE AlreadyValid(p) \/ Register(p) \/ Drop(p) \/ Interrupt(p) \/ Crash(p)
    <2>1. PICK outcome \in {"alreadyValid", "registered", "dropped", "aborted", "crashed"} :
            /\ Finish(p, outcome) /\ pc[p] # "done"
            /\ outcome \in {"registered", "dropped"} => pc[p] = "arrived"
      BY <1>9 DEF AlreadyValid, Register, Drop, Interrupt, Crash
    <2> QED
      BY <1>0, <2>1, ScanFinished, FinishAt DEF Results
  <1> QED
    BY <1>1, <1>2, <1>3, <1>4, <1>5, <1>6, <1>7, <1>8, <1>9 DEF Step, Scan, Query, Fetch

-----------------------------------------------------------------------------
LEMMA InvStep ==
  ASSUME TransferInv, NEW p \in Procs, Step(p) \/ Interrupt(p) \/ InterruptLost(p) \/ Crash(p)
  PROVE  TransferInv'
  <1>1. TypeOK'
    BY TypeStep DEF TransferInv, PathInv
  <1>2. PathInv'
    BY PathStep DEF TransferInv
  <1>3. ScanInv'
    <2>1. ScanAt(p)' /\ \A q \in Procs \ {p} : Untouched(q)
      BY ScanStep DEF TransferInv
    <2>2. \A q \in Procs \ {p} : ScanAt(q)'
      BY <2>1, ScanUntouched, ScanIsLocal DEF TransferInv
    <2> QED
      BY <2>1, <2>2, ScanIsLocal
  <1> QED
    BY <1>1, <1>2, <1>3 DEF TransferInv

LEMMA InvStutters ==
  ASSUME TransferInv, UNCHANGED vars
  PROVE  TransferInv'
  BY DEF vars, pathVars, scanVars, cacheVars, TransferInv, TypeOK, PathInv, ScanInv, LockMatchesPlace,
         TreeMatchesPlace, RowDescribesTree, OfferIsSigned, ScannedInOrder, CacheMatchesPlace,
         FirstErrorKnown, ResultMatchesPlace, Tried

(* The place of each process tells what lies at the path, and its scan so  *)
(* far is a beginning of the list of caches (trySubstituteWith,            *)
(* tryCachesWith and all they call).                                       *)
THEOREM Inductive == Spec => []TransferInv
  <1>1. Init => TransferInv
    BY TypeInit, PathInit, ScanInit DEF TransferInv
  <1>2. TransferInv /\ [Next]_vars => TransferInv'
    BY InvStep, InvStutters DEF Next, AllDone
  <1> QED
    BY <1>1, <1>2, PTL DEF Spec

(* A path has its row only over the whole tree that the row describes, as  *)
(* signed by a key of the cache it came from (judgeNarInfo, the read-back  *)
(* in materializeNarFromSource, the check under the lock).                 *)
THEOREM RowDescribesTreeHolds == Spec => []RowDescribesTree
  <1>1. TransferInv => RowDescribesTree
    BY DEF TransferInv, PathInv
  <1> QED
    BY <1>1, Inductive, PTL

LEMMA InvGivesReport == TransferInv => ReportMatchesScan
  <1> SUFFICES ASSUME TransferInv, NEW p \in Procs
               PROVE  /\ result[p] \in {"registered", "dropped"} =>
                           \E c \in Caches :
                             /\ fate[p][c] = "supplied"
                             /\ \A d \in Caches \ {c} :
                                  IF Before(d, c) THEN fate[p][d] \in {"missed", "failed"}
                                                  ELSE fate[p][d] = "untried"
                      /\ result[p] = "error" =>
                           /\ fate[p][firstErr[p]] = "failed"
                           /\ \A d \in Caches :
                                IF Before(d, firstErr[p]) THEN fate[p][d] = "missed"
                                                          ELSE fate[p][d] \in {"missed", "failed"}
                      /\ result[p] = "notFound" => \A c \in Caches : fate[p][c] = "missed"
    BY DEF ReportMatchesScan
  <1>1. ScanAt(p)
    BY ScanIsLocal DEF TransferInv
  <1>2. ASSUME result[p] \in {"registered", "dropped"}
        PROVE  \E c \in Caches :
                 /\ fate[p][c] = "supplied"
                 /\ \A d \in Caches \ {c} :
                      IF Before(d, c) THEN fate[p][d] \in {"missed", "failed"}
                                      ELSE fate[p][d] = "untried"
    <2>1. PICK c \in Caches : fate[p][c] = "supplied"
      BY <1>1, <1>2 DEF ScanAt
    <2>2. ASSUME NEW d \in Caches \ {c}
          PROVE  IF Before(d, c) THEN fate[p][d] \in {"missed", "failed"}
                                 ELSE fate[p][d] = "untried"
      <3>1. CASE Before(d, c)
        BY <1>1, <2>1, <3>1 DEF ScanAt, Tried
      <3>2. CASE ~Before(d, c)
        <4>1. Before(c, d)
          BY <3>2, BeforeIsTotal
        <4> QED
          BY <1>1, <2>1, <3>2, <4>1 DEF ScanAt, Tried
      <3> QED
        BY <3>1, <3>2
    <2> QED
      BY <2>1, <2>2
  <1>3. ASSUME result[p] = "error"
        PROVE  /\ fate[p][firstErr[p]] = "failed"
               /\ \A d \in Caches : IF Before(d, firstErr[p]) THEN fate[p][d] = "missed"
                                                           ELSE fate[p][d] \in {"missed", "failed"}
    BY <1>1, <1>3 DEF ScanAt, Tried
  <1>4. ASSUME result[p] = "notFound"
        PROVE  \A c \in Caches : fate[p][c] = "missed"
    BY <1>1, <1>4 DEF ScanAt, Tried
  <1> QED
    BY <1>2, <1>3, <1>4

(* What a transfer reports is what its scan met: a path arrives from the   *)
(* first cache that supplied it, the first error is reported, and only     *)
(* when no cache supplied it (tryCachesWith).                              *)
THEOREM ReportMatchesScanHolds == Spec => []ReportMatchesScan
  BY InvGivesReport, Inductive, PTL

(* Where a tree can always be removed, an interrupt ends the transfer and  *)
(* frees the lock (catchSync, tryAttempt, trySubstituteWith).              *)
THEOREM InterruptEndsTransferHolds ==
  ASSUME RemovalCanFail = FALSE
  PROVE  Spec => []InterruptEndsTransfer
  <1>1. Init => InterruptEndsTransfer
    BY DEF Init, InterruptEndsTransfer
  <1>2. ASSUME TransferInv, InterruptEndsTransfer, NEW p \in Procs,
               Step(p) \/ Interrupt(p) \/ InterruptLost(p) \/ Crash(p)
        PROVE  InterruptEndsTransfer'
    <2>1. pc[p] # "done"
      BY <1>2 DEF Step, Scan, Query, Fetch, acquirePathLock, AlreadyValid, NotValid, NextCache,
                  ScanEnds, QueryFails, QueryMisses, NarInfoArrives, MetadataFails,
                  ClearStaleDestination, ClearingFails, RequestFails, NarGone, StreamBegins,
                  StreamFails, CleanupFails, StreamEnds, TreeAgrees, ReadBackFails, Register, Drop,
                  Interrupt, InterruptLost, Unchecked, Crash
    <2>2. \A q \in Procs \ {p} : Untouched(q)
      BY <1>2, ScanStep DEF TransferInv
    <2>3. TransferInv'
      BY <1>2, InvStep
    <2>4. p \notin interrupted
      BY <1>2, <2>1 DEF InterruptEndsTransfer
    <2>5. \A q \in interrupted : pc'[q] = "done" /\ result'[q] = "aborted" /\ holder' # q
      BY <1>2, <2>2, <2>3, <2>4
      DEF InterruptEndsTransfer, Untouched, TransferInv, TypeOK, PathInv, LockMatchesPlace, Locked, Scanning
    <2>6. CASE Interrupt(p)
      <3>1. Finish(p, "aborted") /\ interrupted' = interrupted \cup {p}
        BY <2>6 DEF Interrupt
      <3>2. pc'[p] = "done" /\ result'[p] = "aborted"
        BY <1>2, <3>1, FinishAt DEF TransferInv
      <3>3. holder' # p
        BY <2>3, <3>2 DEF TransferInv, PathInv, LockMatchesPlace, Locked, Scanning
      <3> QED
        BY <2>5, <3>1, <3>2, <3>3 DEF InterruptEndsTransfer
    <2>7. ~InterruptLost(p)
      BY DEF InterruptLost, RemovalFails
    <2>8. CASE Step(p) \/ Crash(p)
      <3>1. interrupted' = interrupted
        BY <2>8 DEF Step, Scan, Query, Fetch, acquirePathLock, AlreadyValid, NotValid, NextCache,
                  ScanEnds, QueryFails, QueryMisses, NarInfoArrives, MetadataFails,
                  ClearStaleDestination, ClearingFails, RequestFails, NarGone, StreamBegins,
                  StreamFails, CleanupFails, StreamEnds, TreeAgrees, ReadBackFails, Register, Drop,
                  Crash
      <3> QED
        BY <2>5, <3>1 DEF InterruptEndsTransfer
    <2> QED
      BY <1>2, <2>6, <2>7, <2>8
  <1>3. InterruptEndsTransfer /\ UNCHANGED vars => InterruptEndsTransfer'
    BY DEF InterruptEndsTransfer, vars, pathVars
  <1>4. TransferInv /\ InterruptEndsTransfer /\ [Next]_vars => InterruptEndsTransfer'
    BY <1>2, <1>3 DEF Next, AllDone
  <1> QED
    BY <1>1, <1>4, Inductive, PTL DEF Spec

-----------------------------------------------------------------------------
(* The promise.                                                            *)

LEMMA SeenTreeIsSettled ==
  /\ TransferInv => /\ SeenTree \in Promise!Settled \cup {"unfinished"}
                    /\ (\A p \in Procs : ~Unchecked(p)) => SeenTree \in Promise!Settled
  /\ TransferInv' => /\ SeenTree' \in Promise!Settled \cup {"unfinished"}
                     /\ (\A p \in Procs : ~Unchecked(p)') => SeenTree' \in Promise!Settled
  BY DEF TransferInv, TypeOK, PathInv, TreeMatchesPlace, SeenTree, Unchecked, Promise!Settled

\* A step under the lock of a path without a row.
LEMMA WorkIsWrite ==
  ASSUME TransferInv', NEW p \in Procs, holder = p, row = NoOffer, UNCHANGED <<row, holder>>
  PROVE  Promise!Write(p)
  BY SeenTreeIsSettled DEF Promise!Write

LEMMA StepImplements ==
  ASSUME TransferInv, TransferInv', NEW p \in Procs,
         Step(p) \/ Interrupt(p) \/ InterruptLost(p) \/ Crash(p)
  PROVE  Promise!Next \/ UNCHANGED Promise!vars
  <1>0. \A q \in Procs \ {p} : pc'[q] = pc[q]
    BY ScanStep DEF TransferInv, Untouched
  <1>1. CASE acquirePathLock(p)
    <2>1. pc[p] = "start" /\ pc'[p] = "check" /\ UNCHANGED <<tree, row>>
          /\ holder = NoProc /\ holder' = p
      BY <1>1 DEF acquirePathLock, TransferInv, TypeOK
    <2>2. SeenTree' = SeenTree
      BY <1>0, <2>1 DEF SeenTree, Unchecked
    <2>3. Promise!Take(p)
      BY <2>1, <2>2 DEF Promise!Take
    <2> QED
      BY <2>3 DEF Promise!Next
  <1>2. CASE \/ NotValid(p) \/ (\E c \in Caches : NextCache(p, c)) \/ Query(p) \/ InterruptLost(p)
             \/ (Fetch(p) /\ ~Register(p) /\ ~Drop(p))
    <2>1. /\ pc[p] \in Scanning \/ (pc[p] = "check" /\ row = NoOffer)
          /\ UNCHANGED <<row, holder>>
      BY <1>2 DEF NotValid, NextCache, Query, Fetch, QueryFails, QueryMisses, NarInfoArrives,
                  MetadataFails, ClearStaleDestination, ClearingFails, RequestFails, NarGone,
                  StreamBegins, StreamFails, CleanupFails, StreamEnds, TreeAgrees, ReadBackFails,
                  InterruptLost, Unchecked, Scanning, pathVars
    <2>2. row = NoOffer /\ pc[p] \in Locked
      BY <2>1, ScanningMeansNoRow DEF TransferInv, Locked
    <2>3. holder = p
      BY <2>2, HolderIsAlone DEF TransferInv, PathInv
    <2>4. Promise!Write(p)
      BY <2>1, <2>2, <2>3, WorkIsWrite
    <2> QED
      BY <2>4 DEF Promise!Next
  <1>3. CASE Register(p)
    <2>1. /\ pc[p] = "arrived" /\ UNCHANGED tree /\ holder' = NoProc
          /\ row' = [nar |-> offer[p].nar, from |-> cache[p]]
      BY <1>3 DEF Register
    <2>2. /\ pc[p] \in Locked /\ holder = p
          /\ \A q \in Procs : ~Unchecked(q)
      BY <2>1, HolderIsAlone DEF TransferInv, PathInv, Locked, Scanning, Unchecked
    <2>3. tree \in Nars
      BY <2>1 DEF TransferInv, PathInv, TreeMatchesPlace, OfferIsSigned, WithOffer, WithCache, Offer
    <2>4. pc'[p] = "done"
      BY <1>3 DEF Register, Finish, TransferInv, TypeOK
    <2>5. SeenTree = "whole" /\ SeenTree' = "whole"
      BY <1>0, <2>1, <2>2, <2>3, <2>4 DEF SeenTree, Unchecked
    <2>6. row' # NoOffer
      <3>1. offer[p] \in Offer /\ cache[p] \in Caches
        BY <2>1 DEF TransferInv, PathInv, OfferIsSigned, WithOffer, WithCache
      <3>2. row' \in Row
        BY <2>1, <3>1 DEF Offer, Row
      <3> QED
        BY <3>2, NoOfferAssumption
    <2>7. Promise!Register(p)
      BY <2>1, <2>2, <2>5, <2>6 DEF Promise!Register
    <2> QED
      BY <2>7 DEF Promise!Next
  <1>4. CASE AlreadyValid(p) \/ ScanEnds(p) \/ Drop(p) \/ Interrupt(p) \/ Crash(p)
    <2>1. /\ \E outcome : Finish(p, outcome)
          /\ UNCHANGED row
          /\ pc[p] # "attempt" /\ ~Unchecked(p) => UNCHANGED tree
      BY <1>4 DEF AlreadyValid, ScanEnds, Drop, Interrupt, Crash, Clearing
    <2>2. pc'[p] = "done"
      BY <2>1 DEF Finish, TransferInv, TypeOK
    <2>3. CASE pc[p] \in Locked
      <3>1. holder = p /\ \A q \in Procs \ {p} : pc[q] \notin Locked
        BY <2>3, HolderIsAlone DEF TransferInv, PathInv
      <3>2. \A q \in Procs : ~Unchecked(q)'
        BY <1>0, <2>2, <3>1 DEF Unchecked, Locked, Scanning
      <3>3. holder' = NoProc
        BY <1>4, <3>1 DEF AlreadyValid, ScanEnds, Drop, Interrupt, Crash
      <3>4. row # NoOffer => SeenTree' = SeenTree
        <4> SUFFICES ASSUME row # NoOffer PROVE SeenTree' = SeenTree
          OBVIOUS
        <4>1. pc[p] \notin Scanning
          BY ScanningMeansNoRow DEF TransferInv
        <4>2. UNCHANGED tree /\ \A q \in Procs : ~Unchecked(q)
          BY <2>1, <3>1, <4>1 DEF Unchecked, Locked, Scanning
        <4> QED
          BY <3>2, <4>2 DEF SeenTree
      <3>5. SeenTree' \in Promise!Settled
        BY <3>2, SeenTreeIsSettled
      <3>6. Promise!Release(p)
        BY <2>1, <3>1, <3>3, <3>4, <3>5 DEF Promise!Release
      <3> QED
        BY <3>6 DEF Promise!Next
    <2>4. CASE pc[p] \notin Locked
      <3>1. holder # p /\ pc[p] # "attempt" /\ ~Unchecked(p)
        BY <2>4 DEF TransferInv, PathInv, LockMatchesPlace, Locked, Scanning, Unchecked
      <3>2. Interrupt(p) \/ Crash(p)
        BY <1>4, <2>4 DEF AlreadyValid, ScanEnds, Drop, Locked, Scanning
      <3>3. UNCHANGED holder
        BY <3>1, <3>2 DEF Interrupt, Crash
      <3>4. SeenTree' = SeenTree
        BY <1>0, <2>1, <2>2, <3>1 DEF SeenTree, Unchecked
      <3> QED
        BY <2>1, <3>3, <3>4 DEF Promise!vars
    <2> QED
      BY <2>3, <2>4
  <1> QED
    BY <1>1, <1>2, <1>3, <1>4 DEF Step, Scan

(* Transfers implement what the rest of the store builds on: only the      *)
(* holder of the lock touches the tree of a path without a row, nobody     *)
(* else meets a tree that is being written, and only a whole tree becomes  *)
(* valid (comments on SubstSuccess, trySubstitute and                      *)
(* materializeNarFromSource).                                              *)
THEOREM TransferImplementsPromise == Spec => ImplementsPromise
  <1>1. Init => Promise!Init
    BY NarsAssumption DEF Init, Promise!Init, SeenTree, Unchecked, Promise!Settled
  <1>2. ASSUME TransferInv, TransferInv', [Next]_vars PROVE [Promise!Next]_(Promise!vars)
    <2>1. CASE UNCHANGED vars
      BY <2>1 DEF vars, pathVars, SeenTree, Unchecked, Promise!vars
    <2>2. CASE \E p \in Procs : Step(p) \/ Interrupt(p) \/ InterruptLost(p) \/ Crash(p)
      BY <1>2, <2>2, StepImplements
    <2> QED
      BY <1>2, <2>1, <2>2 DEF Next, AllDone
  <1> QED
    BY Inductive, <1>1, <1>2, PTL DEF Spec, ImplementsPromise, Promise!Spec
=============================================================================
