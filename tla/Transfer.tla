------------------------------ MODULE Transfer ------------------------------
(***************************************************************************)
(* One store path fetched from the binary caches (Nix.Substituter, with    *)
(* the retries and the classes of failure of Nix.Http and the streaming    *)
(* sink of Nix.Store), by several processes at once.  Under the path's     *)
(* lock a process asks the caches in order of priority; each request is    *)
(* tried again while it fails transiently and its budget lasts; the NAR is *)
(* unpacked as it arrives, before its hash can be known, checked, and read *)
(* back from the disk.  The caller of a transfer that arrived records the  *)
(* row and then releases the lock (Nix.Builder.substitutePaths).           *)
(*                                                                         *)
(* What a cache answers is chosen anew at each request.  A NAR stands for  *)
(* its digest and its size together.  A process can be interrupted, when   *)
(* its handlers run, and it can crash, when they do not.                   *)
(***************************************************************************)
EXTENDS Integers, Sequences

CONSTANTS
  Procs,            \* The processes.
  NoProc,           \* Stands for no process.
  Priority,         \* The priorities of the configured caches, in order.
  BadKeys,          \* The caches with a trusted key that does not parse.
  Nars,             \* The archives.
  Signed,           \* For each cache, the archives that a key it is trusted
                    \* under has signed for this path.
  Attempts,         \* frpAttempts: how often one request is tried.
  NoOffer,          \* Stands for no offer and for no row.
  RemovalCanFail    \* Whether the file system can refuse to remove a tree.

Caches == DOMAIN Priority

NoCache == 0

ASSUME ProcsAssumption == NoProc \notin Procs
\* With no cache configured trySubstituteWith answers at once.
ASSUME PriorityAssumption == Priority \in Seq(Int) /\ Priority # <<>>
ASSUME BadKeysAssumption == BadKeys \subseteq Caches
ASSUME NarsAssumption == Nars \cap {"absent", "leftover", "partial"} = {}
ASSUME SignedAssumption == Signed \in [Caches -> SUBSET Nars]
ASSUME AttemptsAssumption == Attempts \in Nat \ {0}
ASSUME RemovalAssumption == RemovalCanFail \in BOOLEAN

\* A narinfo: the NAR it declares, whether its fields validate, whether it
\* names this path, whether it carries the signatures there are, whether its
\* compression is supported, and whether what a registration needs parses.
NarInfo ==
  [nar : Nars, valid : BOOLEAN, named : BOOLEAN, signed : BOOLEAN,
   supported : BOOLEAN, parses : BOOLEAN]

\* The part of a narinfo that is kept once it was judged.
Offer == [nar : Nars, parses : BOOLEAN]

Row == [nar : Nars, from : Caches]

ASSUME NoOfferAssumption == NoOffer \notin Offer \cup Row

VARIABLES
  tree,         \* "absent", "leftover" (of a process that died, or that could
                \* not remove it), "partial", or the archive it reproduces.
  row,          \* The registration of the path, or NoOffer.
  holder,       \* The process that holds the path's lock, or NoProc.
  pc,           \* Where each process is.
  fate,         \* What became of each cache in each process's scan.
  firstErr,     \* The first cache of the scan that failed, or NoCache.
  cache, offer, \* The cache it deals with, and what that cache offers.
  attempt,      \* Which attempt at the current request it makes.
  result,       \* How the transfer ended.
  interrupted   \* History: the processes an interrupt was delivered to.

pathVars == <<tree, row, holder>>
cacheVars == <<cache, offer, attempt>>
scanVars == <<fate, firstErr, cacheVars>>
vars == <<pathVars, pc, scanVars, result, interrupted>>

\* The places where a process works on the path under its lock.
Scanning == {"scan", "query", "attempt", "request", "stream", "unpacked"}
Locked == Scanning \cup {"check", "arrived"}

Results == {"none", "alreadyValid", "notFound", "error", "registered", "dropped",
            "aborted", "crashed"}

TypeOK ==
  /\ tree \in {"absent", "leftover", "partial"} \cup Nars
  /\ row \in Row \cup {NoOffer}
  /\ holder \in Procs \cup {NoProc}
  /\ pc \in [Procs -> Locked \cup {"start", "done"}]
  /\ fate \in [Procs -> [Caches -> {"untried", "missed", "failed", "supplied"}]]
  /\ firstErr \in [Procs -> Caches \cup {NoCache}]
  /\ cache \in [Procs -> Caches \cup {NoCache}]
  /\ offer \in [Procs -> Offer \cup {NoOffer}]
  /\ attempt \in [Procs -> 1..Attempts]
  /\ result \in [Procs -> Results]
  /\ interrupted \subseteq Procs

\* An earlier run may have left any tree without a row.
Init ==
  /\ tree \in {"absent", "leftover"} \cup Nars
  /\ row = NoOffer
  /\ holder = NoProc
  /\ pc = [p \in Procs |-> "start"]
  /\ fate = [p \in Procs |-> [c \in Caches |-> "untried"]]
  /\ firstErr = [p \in Procs |-> NoCache]
  /\ cache = [p \in Procs |-> NoCache]
  /\ offer = [p \in Procs |-> NoOffer]
  /\ attempt = [p \in Procs |-> 1]
  /\ result = [p \in Procs |-> "none"]
  /\ interrupted = {}

-----------------------------------------------------------------------------
(* The path's lock, and the scan of the caches.                            *)

Goto(p, from, to) == pc[p] = from /\ pc' = [pc EXCEPT ![p] = to]

\* What concerns the current cache is local to it.
LeaveCache(p) ==
  /\ cache' = [cache EXCEPT ![p] = NoCache]
  /\ offer' = [offer EXCEPT ![p] = NoOffer]
  /\ attempt' = [attempt EXCEPT ![p] = 1]

Finish(p, outcome) ==
  /\ pc' = [pc EXCEPT ![p] = "done"]
  /\ result' = [result EXCEPT ![p] = outcome]
  /\ LeaveCache(p)
  /\ UNCHANGED <<fate, firstErr>>

ReleasePathLock == holder' = NoProc

acquirePathLock(p) ==
  /\ Goto(p, "start", "check")
  /\ holder = NoProc /\ holder' = p
  /\ UNCHANGED <<tree, row, scanVars, result, interrupted>>

\* Mutant: validity is asked before the lock is granted, and stays so.
NotValid_Stale(p) ==
  /\ Goto(p, "check", "scan")
  /\ UNCHANGED <<pathVars, scanVars, result, interrupted>>

\* isValid, under the lock.
AlreadyValid(p) ==
  /\ pc[p] = "check" /\ row # NoOffer
  /\ Finish(p, "alreadyValid")
  /\ ReleasePathLock
  /\ UNCHANGED <<tree, row, interrupted>>

NotValid(p) ==
  /\ row = NoOffer
  /\ Goto(p, "check", "scan")
  /\ UNCHANGED <<pathVars, scanVars, result, interrupted>>

Rest(p) == {c \in Caches : fate[p][c] = "untried"}

\* sortCaches: by priority, and as configured where priorities are equal.
Before(c, d) == Priority[c] < Priority[d] \/ (Priority[c] = Priority[d] /\ c < d)

\* A new request has the whole retry budget.
Request(p, from, to) == Goto(p, from, to) /\ attempt' = [attempt EXCEPT ![p] = 1]

NextCache(p, c) ==
  /\ c \in Rest(p) /\ \A d \in Rest(p) : ~Before(d, c)
  /\ Request(p, "scan", "query")
  /\ cache' = [cache EXCEPT ![p] = c]
  /\ UNCHANGED <<pathVars, fate, firstErr, offer, result, interrupted>>

\* tryCachesWith at the end of the list.
ScanEnds(p) ==
  /\ pc[p] = "scan" /\ Rest(p) = {}
  /\ Finish(p, IF firstErr[p] = NoCache THEN "notFound" ELSE "error")
  /\ ReleasePathLock
  /\ UNCHANGED <<tree, row, interrupted>>

SetFate(p, end) == fate' = [fate EXCEPT ![p][cache[p]] = end]

\* Mutant: the last error is reported.
NoteError_Last(p) == firstErr' = [firstErr EXCEPT ![p] = cache[p]]

NoteError(p) ==
  firstErr' = [firstErr EXCEPT ![p] = IF @ = NoCache THEN cache[p] ELSE @]

\* SubstNotFound and SubstError: the scan goes on with the next cache.
CacheMisses(p) ==
  /\ pc' = [pc EXCEPT ![p] = "scan"]
  /\ SetFate(p, "missed")
  /\ LeaveCache(p)
  /\ UNCHANGED firstErr

CacheFails(p) ==
  /\ pc' = [pc EXCEPT ![p] = "scan"]
  /\ SetFate(p, "failed")
  /\ NoteError(p)
  /\ LeaveCache(p)

Failures == {"transient", "fatal"}

\* Mutant: a transient failure is tried again without counting.
AttemptFails_Uncounted(p, failure, again) ==
  IF failure = "transient"
  THEN /\ pc' = [pc EXCEPT ![p] = again]
       /\ UNCHANGED <<fate, firstErr, cacheVars>>
  ELSE CacheFails(p)

\* Mutant: the budget counts retries instead of attempts.
AttemptFails_OneMore(p, failure, again) ==
  IF failure = "transient" /\ attempt[p] <= Attempts
  THEN /\ pc' = [pc EXCEPT ![p] = again]
       /\ attempt' = [attempt EXCEPT ![p] = @ + 1]
       /\ UNCHANGED <<fate, firstErr, cache, offer>>
  ELSE CacheFails(p)

\* retryTransient: a transient failure is tried again after a pause while
\* the budget lasts; any other failure, and the last one, is the cache's.
AttemptFails(p, failure, again) ==
  IF failure = "transient" /\ attempt[p] < Attempts
  THEN /\ pc' = [pc EXCEPT ![p] = again]
       /\ attempt' = [attempt EXCEPT ![p] = @ + 1]
       /\ UNCHANGED <<fate, firstErr, cache, offer>>
  ELSE CacheFails(p)

-----------------------------------------------------------------------------
(* The narinfo of the path: queryNarInfo and what is decided from it.      *)

\* verifySigs.
Verifies(c, narinfo) == narinfo.signed /\ narinfo.nar \in Signed[c]

\* judgeNarInfo, in its order.
Judgement(c, narinfo) ==
  CASE ~narinfo.valid -> "failed"
    [] narinfo.valid /\ ~narinfo.named -> "passedOver"
    [] narinfo.valid /\ narinfo.named /\ c \in BadKeys -> "failed"
    [] OTHER -> IF Verifies(c, narinfo) THEN "usable" ELSE "passedOver"

\* A status that is retried or not, a broken connection, a body too long or
\* one that does not parse.
QueryFails(p, failure) ==
  /\ pc[p] = "query"
  /\ AttemptFails(p, failure, "query")
  /\ UNCHANGED <<pathVars, result, interrupted>>

\* 404, 410, 401, 403 or 407, or a narinfo that is passed over.
QueryMisses(p) ==
  /\ pc[p] = "query"
  /\ CacheMisses(p)
  /\ UNCHANGED <<pathVars, result, interrupted>>

NarInfoArrives(p, narinfo) ==
  LET judgement == Judgement(cache[p], narinfo) IN
  /\ pc[p] = "query"
  /\ \/ /\ judgement = "usable" /\ narinfo.supported
        /\ Request(p, "query", "attempt")
        /\ offer' = [offer EXCEPT ![p] = [nar |-> narinfo.nar, parses |-> narinfo.parses]]
        /\ UNCHANGED <<fate, firstErr, cache>>
     \/ /\ judgement = "passedOver"
        /\ CacheMisses(p)
     \/ /\ judgement = "failed" \/ (judgement = "usable" /\ ~narinfo.supported)
        /\ CacheFails(p)
  /\ UNCHANGED <<pathVars, result, interrupted>>

-----------------------------------------------------------------------------
(* The NAR: streamNarIntoStore and materializeNarFromSource.               *)

\* Dir.removePathForcibly at the end of a failed attempt.
Remove == tree' = "absent"

\* What the file system may leave of a tree it refuses to remove.
RemovalFails == RemovalCanFail /\ tree # "absent" /\ tree' = "leftover"

\* What registration needs is parsed before anything is touched.
MetadataFails(p) ==
  /\ pc[p] = "attempt" /\ ~offer[p].parses
  /\ CacheFails(p)
  /\ UNCHANGED <<pathVars, result, interrupted>>

ClearStaleDestination(p) ==
  /\ Goto(p, "attempt", "request")
  /\ offer[p].parses
  /\ Remove
  /\ UNCHANGED <<row, holder, scanVars, result, interrupted>>

\* Outside tryAttempt: the exception reaches tryOneCache, and no retry is
\* made whatever the budget.
ClearingFails(p) ==
  /\ pc[p] = "attempt" /\ offer[p].parses
  /\ RemovalFails
  /\ CacheFails(p)
  /\ UNCHANGED <<row, holder, result, interrupted>>

RequestFails(p, failure) ==
  /\ pc[p] = "request"
  /\ AttemptFails(p, failure, "attempt")
  /\ UNCHANGED <<pathVars, result, interrupted>>

\* unservedNar: the NAR that the narinfo names is gone.
NarGone(p) ==
  /\ pc[p] = "request"
  /\ CacheMisses(p)
  /\ UNCHANGED <<pathVars, result, interrupted>>

\* The sink creates what it writes, and refuses a path that is taken.
StreamBegins(p) ==
  /\ tree = "absent"
  /\ Goto(p, "request", "stream")
  /\ tree' = "partial"
  /\ UNCHANGED <<row, holder, scanVars, result, interrupted>>

\* Transient: a torn or malformed stream, a connection that breaks.  Fatal:
\* a body beyond its ceiling, a name the store refuses, a write the disk
\* refuses, an archive that is whole and not the declared one.
StreamFails(p, failure) ==
  /\ pc[p] = "stream"
  /\ Remove
  /\ AttemptFails(p, failure, "attempt")
  /\ UNCHANGED <<row, holder, result, interrupted>>

\* The removal throws in its turn: a write failure, which is never retried.
CleanupFails(p) ==
  /\ pc[p] \in {"stream", "unpacked"}
  /\ RemovalFails
  /\ CacheFails(p)
  /\ UNCHANGED <<row, holder, result, interrupted>>

\* The archive is the declared one in digest and size.  What its tree
\* reproduces is up to the file system (folded names, links).
StreamEnds(p, onDisk) ==
  /\ Goto(p, "stream", "unpacked")
  /\ tree' = onDisk
  /\ UNCHANGED <<row, holder, scanVars, result, interrupted>>

\* narHashOfPath: the tree is read back from the disk.
TreeAgrees(p) ==
  /\ Goto(p, "unpacked", "arrived")
  /\ tree = offer[p].nar
  /\ SetFate(p, "supplied")
  /\ UNCHANGED <<pathVars, firstErr, cacheVars, result, interrupted>>

\* It is another tree, or sealing it or reading it throws.
ReadBackFails(p) ==
  /\ pc[p] = "unpacked"
  /\ Remove
  /\ CacheFails(p)
  /\ UNCHANGED <<row, holder, result, interrupted>>

-----------------------------------------------------------------------------
(* The caller of a transfer that arrived, interrupts and crashes.          *)

\* registerPaths commits with the lock still held.
Register(p) ==
  /\ pc[p] = "arrived"
  /\ row' = [nar |-> offer[p].nar, from |-> cache[p]]
  /\ Finish(p, "registered")
  /\ ReleasePathLock
  /\ UNCHANGED <<tree, interrupted>>

\* Another path of the batch is missing, or the batch is refused.
Drop(p) ==
  /\ pc[p] = "arrived"
  /\ Finish(p, "dropped")
  /\ ReleasePathLock
  /\ UNCHANGED <<tree, row, interrupted>>

\* The process is in the middle of removing what it found.
Clearing(p) == pc[p] = "attempt" /\ offer[p].parses /\ tree # "absent"

\* The process has written what it has not checked yet.
Unchecked(p) == pc[p] \in {"stream", "unpacked"}

\* Mutant: the handlers run at a synchronous exception only.
Interrupt_Uncleaned(p) ==
  /\ pc[p] # "done"
  /\ interrupted' = interrupted \cup {p}
  /\ Finish(p, "aborted")
  /\ holder' = IF holder = p THEN NoProc ELSE holder
  /\ UNCHANGED <<tree, row>>

\* An asynchronous exception: materializeNarFromSource removes the tree,
\* trySubstituteWith or substitutePaths releases the lock, and nothing on
\* the way takes it for a failure.
Interrupt(p) ==
  /\ pc[p] # "done"
  /\ interrupted' = interrupted \cup {p}
  /\ Finish(p, "aborted")
  /\ holder' = IF holder = p THEN NoProc ELSE holder
  /\ tree' \in (IF Unchecked(p) THEN {"absent"} ELSE {tree})
                 \cup (IF Clearing(p) THEN {"leftover"} ELSE {})
  /\ UNCHANGED row

\* onException raises what its handler threw in place of the interrupt: a
\* write failure, which tryAttempt takes for the end of the attempt.
InterruptLost(p) ==
  /\ interrupted' = interrupted \cup {p}
  /\ Unchecked(p)
  /\ RemovalFails
  /\ CacheFails(p)
  /\ UNCHANGED <<row, holder, result>>

\* The operating system releases the lock.
Crash(p) ==
  /\ pc[p] # "done"
  /\ Finish(p, "crashed")
  /\ holder' = IF holder = p THEN NoProc ELSE holder
  /\ tree' \in (IF Unchecked(p) THEN {"leftover"} ELSE {tree})
                 \cup (IF Clearing(p) THEN {"leftover"} ELSE {})
  /\ UNCHANGED <<row, interrupted>>

Scan(p) ==
  \/ acquirePathLock(p) \/ AlreadyValid(p) \/ NotValid(p)
  \/ \E c \in Caches : NextCache(p, c)
  \/ ScanEnds(p)

Query(p) ==
  \/ \E failure \in Failures : QueryFails(p, failure)
  \/ QueryMisses(p)
  \/ \E narinfo \in NarInfo : NarInfoArrives(p, narinfo)

Fetch(p) ==
  \/ MetadataFails(p) \/ ClearStaleDestination(p) \/ ClearingFails(p)
  \/ \E failure \in Failures : RequestFails(p, failure) \/ StreamFails(p, failure)
  \/ NarGone(p) \/ StreamBegins(p) \/ CleanupFails(p)
  \/ \E onDisk \in Nars : StreamEnds(p, onDisk)
  \/ TreeAgrees(p) \/ ReadBackFails(p)
  \/ Register(p) \/ Drop(p)

Step(p) == Scan(p) \/ Query(p) \/ Fetch(p)

AllDone == (\A p \in Procs : pc[p] = "done") /\ UNCHANGED vars

Next ==
  \/ \E p \in Procs : Step(p) \/ Interrupt(p) \/ InterruptLost(p) \/ Crash(p)
  \/ AllDone

Spec == Init /\ [][Next]_vars

(***************************************************************************)
(* A process goes on while it can.  That every request is answered or      *)
(* fails in the end is the network's part: the code sets no limit on the   *)
(* time a body takes.                                                      *)
(***************************************************************************)
FairSpec == Spec /\ \A p \in Procs : WF_vars(Step(p))

-----------------------------------------------------------------------------
(* What the theorems rest on.  The path: who holds its lock, what lies at  *)
(* it and what is offered for it, place by place.                          *)
WithCache == {"query", "attempt", "request", "stream", "unpacked", "arrived"}

WithOffer == WithCache \ {"query"}

LockMatchesPlace == \A p \in Procs : holder = p <=> pc[p] \in Locked

TreeMatchesPlace ==
  /\ tree = "partial" => \E p \in Procs : pc[p] = "stream"
  /\ \A p \in Procs :
       /\ pc[p] = "request" => tree = "absent"
       /\ pc[p] = "unpacked" => tree \in Nars
       /\ pc[p] = "arrived" => tree = offer[p].nar

(* A path has its row only over the tree that the row describes, signed by *)
(* a key that the cache it came from is trusted under, with no stream in   *)
(* progress over it, whatever the other processes did since                *)
(* (Substituter.hs: trySubstituteWith, judgeNarInfo, the read-back in      *)
(* materializeNarFromSource).                                              *)
RowDescribesTree ==
  row # NoOffer =>
    /\ tree = row.nar
    /\ row.nar \in Signed[row.from] /\ row.from \notin BadKeys
    /\ \A p \in Procs : pc[p] \notin Scanning \cup {"arrived"}

OfferIsSigned ==
  \A p \in Procs :
    /\ pc[p] \in WithCache => cache[p] \in Caches
    /\ pc[p] \in WithOffer =>
         offer[p] \in Offer /\ offer[p].nar \in Signed[cache[p]] /\ cache[p] \notin BadKeys

\* The scan: caches are tried in order, and the first that failed is known.
Tried(p, c) == fate[p][c] \in {"missed", "failed"}

ScannedInOrder ==
  \A p \in Procs : \A c, d \in Caches :
    Before(d, c) /\ fate[p][c] # "untried" => Tried(p, d)

CacheMatchesPlace ==
  \A p \in Procs :
    /\ pc[p] \in WithCache =>
         /\ cache[p] \in Caches
         /\ fate[p][cache[p]] = IF pc[p] = "arrived" THEN "supplied" ELSE "untried"
         /\ \A d \in Caches : Before(d, cache[p]) => Tried(p, d)
    /\ \A c \in Caches : fate[p][c] = "supplied" => pc[p] \in {"arrived", "done"}

FirstErrorKnown ==
  \A p \in Procs :
    IF firstErr[p] = NoCache
    THEN \A c \in Caches : fate[p][c] # "failed"
    ELSE /\ fate[p][firstErr[p]] = "failed"
         /\ \A d \in Caches : Before(d, firstErr[p]) => fate[p][d] = "missed"

ResultMatchesPlace ==
  \A p \in Procs :
    /\ result[p] = "none" <=> pc[p] # "done"
    /\ result[p] \in {"registered", "dropped"} => \E c \in Caches : fate[p][c] = "supplied"
    /\ result[p] \in {"notFound", "error"} =>
         /\ \A c \in Caches : Tried(p, c)
         /\ result[p] = "error" <=> firstErr[p] # NoCache

PathInv ==
  LockMatchesPlace /\ TreeMatchesPlace /\ RowDescribesTree /\ OfferIsSigned

ScanInv ==
  ScannedInOrder /\ CacheMatchesPlace /\ FirstErrorKnown /\ ResultMatchesPlace

(* The strengthening the theorems rest on: at most one process works on    *)
(* the path, its place tells what lies there, and its scan so far is a     *)
(* beginning of the list of caches.                                        *)
TransferInv == TypeOK /\ PathInv /\ ScanInv

(* What a transfer reports is what its scan met: a path arrives from the   *)
(* first cache, in order of priority, that supplied it, after every cache  *)
(* before it was tried and none after it; an error is reported, with the   *)
(* first cache that failed, only when every cache was tried; and a miss    *)
(* only when every cache said so (tryCachesWith, sortCaches).              *)
ReportMatchesScan ==
  \A p \in Procs :
    /\ result[p] \in {"registered", "dropped"} =>
         \E c \in Caches :
           /\ fate[p][c] = "supplied"
           /\ \A d \in Caches \ {c} :
                IF Before(d, c) THEN fate[p][d] \in {"missed", "failed"}
                                ELSE fate[p][d] = "untried"
    /\ result[p] = "error" =>
         /\ fate[p][firstErr[p]] = "failed"
         /\ \A d \in Caches : IF Before(d, firstErr[p]) THEN fate[p][d] = "missed"
                                                     ELSE fate[p][d] \in {"missed", "failed"}
    /\ result[p] = "notFound" => \A c \in Caches : fate[p][c] = "missed"

(* An interrupt ends the transfer: it is never spent as a retry or as the  *)
(* failure of one cache, and the lock does not outlive it (comments on     *)
(* tryOneCache, tryAttempt and catchSync).  It holds as long as a tree     *)
(* that is written can be removed.                                         *)
InterruptEndsTransfer ==
  \A p \in interrupted : pc[p] = "done" /\ result[p] = "aborted" /\ holder # p

(* Every transfer comes to an end: retries, caches and the wait for the    *)
(* lock are all finite, because whoever holds the lock comes to an end.    *)
EveryTransferEnds == \A p \in Procs : <>(pc[p] = "done")

\* The tree as a process that finds it may take it.
SeenTree ==
  IF \E p \in Procs : Unchecked(p) THEN "unfinished"
  ELSE IF tree \in Nars THEN "whole" ELSE tree

Promise == INSTANCE WholeOrGone WITH tree <- SeenTree, valid <- row # NoOffer

(* Transfers implement the promise that the rest of the store builds on:   *)
(* the tree of a path is whole or gone, or the leftover of a process that  *)
(* died or could not remove it, whenever the lock is free; only its holder *)
(* touches it; and only a whole tree becomes valid.                        *)
ImplementsPromise == Promise!Spec
=============================================================================
