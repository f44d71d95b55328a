------------------------------- MODULE Realise -------------------------------
(***************************************************************************)
(* How one command realises a graph of derivations (Nix.Realise, with the  *)
(* effects Nix.Builder and Nix.Substituter give it): a derivation is       *)
(* looked up in the store, substituted with the closure of its outputs,    *)
(* references first, or built once its inputs are realised.                *)
(*                                                                         *)
(* The two recursions of the code are two stacks: nodes, of calls of       *)
(* realiseNode, and closures, of calls of closureOf under the topmost of   *)
(* them.  The sets the code threads through either recursion only grow, so *)
(* one variable each stands for them.                                      *)
(*                                                                         *)
(* Other processes register paths meanwhile.  None removes any, because    *)
(* this one holds its lease (GcLease, StorePaths).                         *)
(***************************************************************************)
EXTENDS StoreDB

CONSTANTS
  Drvs,        \* The nodes of the graph, in the order of their .drv paths.
  Root,        \* The one to realise.
  Outputs,     \* The output paths of each.
  Deps,        \* The nodes each depends on (drvInputDrvs).
  Embeds,      \* The paths whose names each path contains when it is built.
  Caches,      \* The configured caches, in the order they are asked.
  Declares,    \* The references each cache's narinfo declares for each path.
  Worlds       \* Records [valid, holds]: the paths valid at the start, and
               \* those that each cache holds.

ASSUME OrderAssumption == Paths \cup Drvs \cup Caches \subseteq Nat
ASSUME GraphAssumption ==
  /\ IsFiniteSet(Drvs) /\ Root \in Drvs
  /\ Outputs \in [Drvs -> SUBSET Paths]
  /\ \A d, e \in Drvs : d # e => Outputs[d] \cap Outputs[e] = {}
  /\ Deps \in [Drvs -> SUBSET Drvs]

\* Numberings of the nodes that put inputs first.
Numberings ==
  {depth \in [Drvs -> 0 .. Cardinality(Drvs)] : \A d \in Drvs : \A e \in Deps[d] : depth[e] < depth[d]}

\* topoSort refused a cyclic graph.
ASSUME AcyclicAssumption == Numberings # {}

ASSUME ReferencesAssumption ==
  /\ Embeds \in [Paths -> SUBSET Paths]
  /\ Declares \in [Caches -> [Paths -> SUBSET Paths]]
ASSUME WorldsAssumption ==
  \A w \in Worlds :
    /\ w.valid \subseteq Paths
    /\ \A path \in w.valid : Embeds[path] \subseteq w.valid
    /\ w.holds \in [Caches -> SUBSET Paths]

VARIABLES
  holds,       \* What each cache holds.
  fallback,    \* Whether BuildFromSource is set.
  nodes,       \* The calls of realiseNode, innermost first.
  closures,    \* The calls of closureOf under the innermost, innermost first.
  outcome,     \* What the last substituteClosure came to.
  seenDrvs,    \* The nodes visited.
  seenPaths,   \* The paths visited by this substituteClosure.
  result,      \* How realising the graph ended.
  trouble      \* History: what did not go smoothly; "failed" is an answer or a
               \* batch that failed, "refused" a batch the database refused,
               \* "strayed" a cache passed over or late, "met" another process.

callVars == <<nodes, closures, outcome, seenDrvs, seenPaths, result>>
world == <<holds, fallback>>
vars == <<validPaths, refsTable, holds, fallback, nodes, closures, outcome, seenDrvs, seenPaths,
          result, trouble>>

ClosureOutcomes == {"complete", "unavailable", "incomplete", "failed", "queryFailed"}

\* drv, how far realiseNode came, the inputs left, and what its first try came to.
NodeCalls ==
  [drv : Drvs, at : {"enter", "tried", "inputs", "retried", "build"}, inputs : SUBSET Drvs,
   firstTry : ClosureOutcomes]
NodeCall(d) == [drv |-> d, at |-> "enter", inputs |-> Deps[d], firstTry |-> "complete"]

\* The paths left to look up, those found missing, and the references left.
ClosureCalls ==
  [at : {"valid", "references"}, paths : SUBSET Paths, missing : SUBSET Paths,
   references : SUBSET Paths]
ClosureCall(paths) == [at |-> "valid", paths |-> paths, missing |-> {}, references |-> {}]

Init ==
  /\ \E w \in Worlds :
       /\ holds = w.holds
       /\ validPaths = w.valid
       /\ refsTable = {edge \in w.valid \X Paths : edge[2] \in Embeds[edge[1]]}
  /\ fallback \in BOOLEAN
  /\ nodes = <<NodeCall(Root)>>
  /\ closures = <<>>
  /\ outcome = "complete"
  /\ seenDrvs = {}
  /\ seenPaths = {}
  /\ result = "running"
  /\ trouble = {}

\* The stacks have their innermost call first.
Push(call, calls) == <<call>> \o calls
Revise(call, calls) == Push(call, Tail(calls))

Least(n, numbers) == n \in numbers /\ \A other \in numbers : n <= other

-----------------------------------------------------------------------------
(* closureOf.  A step of it is one of the innermost call.                  *)

Call == Head(closures)

InClosure(at) == closures # <<>> /\ Call.at = at

\* Mutant: the visited paths of an earlier attempt still count.
SubstituteClosure_KeepSeen(paths) ==
  /\ closures' = <<ClosureCall(paths)>>
  /\ seenPaths' = seenPaths \cup paths

\* substituteClosure.
SubstituteClosure(paths) ==
  /\ closures' = <<ClosureCall(paths)>>
  /\ seenPaths' = paths

\* Mutant: a reference that failed is a hole like any other.
OfReference_AllHoles(failure) == "incomplete"

\* What a caller makes of the failure of a reference: a reference no cache
\* supplies is a hole in its own closure, any other failure is passed on.
OfReference(failure) == IF failure = "unavailable" THEN "incomplete" ELSE failure

\* The innermost call ends.  A failure ends every call around it.
Return(o) ==
  \/ /\ Len(closures) > 1 /\ o = "complete"
     /\ closures' = Tail(closures)
     /\ UNCHANGED outcome
  \/ /\ Len(closures) > 1 /\ o # "complete"
     /\ closures' = <<>>
     /\ outcome' = OfReference(o)
  \/ /\ Len(closures) = 1
     /\ closures' = <<>>
     /\ outcome' = o

\* seValid, path by path.
LookUp(path) ==
  /\ InClosure("valid")
  /\ Least(path, Call.paths)
  /\ closures' = Revise([Call EXCEPT !.paths = @ \ {path},
                                     !.missing = @ \cup ({path} \ validPaths)], closures)
  /\ UNCHANGED <<dbVars, world, nodes, outcome, seenDrvs, seenPaths, result, trouble>>

NothingMissing ==
  /\ InClosure("valid")
  /\ Call.paths = {} /\ Call.missing = {}
  /\ Return("complete")
  /\ UNCHANGED <<dbVars, world, nodes, seenDrvs, seenPaths, result, trouble>>

\* queryReferencesWith: the caches in order.  One that does not hold the
\* path is passed over; one that cannot be asked is too, under fallback,
\* and ends the scan otherwise.
Decisive(path, down) ==
  {c \in Caches : IF c \in down THEN ~fallback ELSE path \in holds[c]}

QueryFails(path, down) == \E c \in down : Least(c, Decisive(path, down))

IsOffered(path, down) == Decisive(path, down) # {}

OfferedReferences(path, down) ==
  UNION {Declares[c][path] : c \in {d \in Caches : Least(d, Decisive(path, down))}}

\* seReferences, of every missing path, each with the caches that happened
\* to fail: a failed query counts before a path that nothing offers.
Query ==
  /\ InClosure("valid")
  /\ Call.paths = {} /\ Call.missing # {}
  /\ \E down \in [Call.missing -> SUBSET Caches] :
       LET fails == \E path \in Call.missing : QueryFails(path, down[path])
           offered == \A path \in Call.missing : IsOffered(path, down[path])
           references == UNION {OfferedReferences(path, down[path]) : path \in Call.missing}
       IN
       /\ \/ /\ fails
             /\ Return("queryFailed")
          \/ /\ ~fails /\ ~offered
             /\ Return("unavailable")
          \/ /\ ~fails /\ offered
             /\ closures' = Revise([Call EXCEPT !.at = "references",
                                                !.references = references \ Call.missing], closures)
             /\ UNCHANGED outcome
       /\ trouble' = trouble \cup {kind \in {"failed"} : fails}
                             \cup {kind \in {"strayed"} : \E path \in Call.missing : down[path] # {}}
  /\ UNCHANGED <<dbVars, world, nodes, seenDrvs, seenPaths, result>>

\* referencesFirst: a visited reference is passed over, so that a cycle ends.
NextReference(path) ==
  /\ InClosure("references")
  /\ Least(path, Call.references)
  /\ LET rest == Revise([Call EXCEPT !.references = @ \ {path}], closures) IN
     \/ /\ path \in seenPaths
        /\ closures' = rest
        /\ UNCHANGED seenPaths
     \/ /\ path \notin seenPaths
        /\ closures' = Push(ClosureCall({path}), rest)
        /\ seenPaths' = seenPaths \cup {path}
  /\ UNCHANGED <<dbVars, world, nodes, outcome, seenDrvs, result, trouble>>

Holders(path) == {c \in Caches : path \in holds[c]}

\* seFetch: every path from some cache that holds it, or none.  A path
\* another process registered meanwhile counts as arrived.
Fetch ==
  LET fresh == Call.missing \ validPaths IN
  /\ InClosure("references")
  /\ Call.references = {}
  /\ \/ \E from \in [fresh -> Caches] :
          LET rows == [path \in fresh |-> [prPath |-> path, prReferences |-> Declares[from[path]][path]]]
          IN
          /\ \A path \in fresh : from[path] \in Holders(path)
          /\ trouble' = trouble \cup {kind \in {"strayed"} : \E path \in fresh : ~Least(from[path], Holders(path))}
                                \cup {kind \in {"failed", "refused"} : ~BatchAccepted(rows)}
          /\ \/ /\ registerPaths(rows)
                /\ Return("complete")
             \/ /\ registerPathsRefused(rows)
                /\ Return("failed")
     \/ /\ fresh # {}
        /\ trouble' = trouble \cup {"failed"}
        /\ Return("failed")
        /\ UNCHANGED dbVars
     \/ /\ fresh # {}
        /\ trouble' = trouble \cup {"strayed"}
        /\ Return("unavailable")
        /\ UNCHANGED dbVars
  /\ UNCHANGED <<world, nodes, seenDrvs, seenPaths, result>>

-----------------------------------------------------------------------------
(* realiseNode.                                                            *)

Node == Head(nodes)

AtNode(at) == nodes # <<>> /\ closures = <<>> /\ Node.at = at

Go(at) == nodes' = Revise([Node EXCEPT !.at = at], nodes)

\* The innermost node is realised.
Realised ==
  /\ nodes' = Tail(nodes)
  /\ result' = IF Len(nodes) = 1 THEN "realised" ELSE result

Stop(failure) ==
  /\ nodes' = <<>>
  /\ result' = failure

\* Mutant: only the first output is asked for.
AllOutputsValid_First(d) == \E path \in validPaths : Least(path, Outputs[d])

\* No answer, and so not valid, for a derivation without outputs.
AllOutputsValid(d) == Outputs[d] # {} /\ Outputs[d] \subseteq validPaths

AlreadyValid ==
  /\ AtNode("enter")
  /\ AllOutputsValid(Node.drv)
  /\ seenDrvs' = seenDrvs \cup {Node.drv}
  /\ Realised
  /\ UNCHANGED <<dbVars, world, closures, outcome, seenPaths, trouble>>

SubstituteFirst ==
  /\ AtNode("enter")
  /\ ~AllOutputsValid(Node.drv)
  /\ seenDrvs' = seenDrvs \cup {Node.drv}
  /\ SubstituteClosure(Outputs[Node.drv])
  /\ Go("tried")
  /\ UNCHANGED <<dbVars, world, outcome, result, trouble>>

\* substitutionStop.
Stops == outcome \in IF fallback THEN {"queryFailed"} ELSE {"queryFailed", "failed"}

Substituted ==
  /\ AtNode("tried") \/ AtNode("retried")
  /\ outcome = "complete"
  /\ Realised
  /\ UNCHANGED <<dbVars, world, closures, outcome, seenDrvs, seenPaths, trouble>>

SubstitutionStops ==
  /\ AtNode("tried") \/ AtNode("retried")
  /\ Stops
  /\ Stop(outcome)
  /\ UNCHANGED <<dbVars, world, closures, outcome, seenDrvs, seenPaths, trouble>>

\* buildFromInputs.
InputsFirst ==
  /\ AtNode("tried")
  /\ outcome # "complete" /\ ~Stops
  /\ nodes' = Revise([Node EXCEPT !.at = "inputs", !.firstTry = outcome], nodes)
  /\ UNCHANGED <<dbVars, world, closures, outcome, seenDrvs, seenPaths, result, trouble>>

\* realiseAll, and the first line of realiseNode.
NextInput(d) ==
  /\ AtNode("inputs")
  /\ Least(d, Node.inputs)
  /\ LET rest == Revise([Node EXCEPT !.inputs = @ \ {d}], nodes) IN
     nodes' = IF d \in seenDrvs THEN rest ELSE Push(NodeCall(d), rest)
  /\ UNCHANGED <<dbVars, world, closures, outcome, seenDrvs, seenPaths, result, trouble>>

\* Mutant: the substitution is not tried again after the inputs.
Retry_Never ==
  /\ AtNode("inputs") /\ Node.inputs = {}
  /\ Go("build")
  /\ UNCHANGED <<dbVars, world, closures, outcome, seenDrvs, seenPaths, result, trouble>>

\* The inputs may have supplied the hole: the substitution is tried again.
Retry ==
  /\ AtNode("inputs") /\ Node.inputs = {}
  /\ \/ /\ Node.firstTry = "incomplete"
        /\ SubstituteClosure(Outputs[Node.drv])
        /\ Go("retried")
     \/ /\ Node.firstTry # "incomplete"
        /\ Go("build")
        /\ UNCHANGED <<closures, seenPaths>>
  /\ UNCHANGED <<dbVars, world, outcome, seenDrvs, result, trouble>>

\* Mutant: the substitution is retried for as long as it is incomplete.
NotSubstituted_Again ==
  /\ AtNode("retried")
  /\ outcome # "complete" /\ ~Stops
  /\ Go(IF outcome = "incomplete" THEN "inputs" ELSE "build")
  /\ UNCHANGED <<dbVars, world, closures, outcome, seenDrvs, seenPaths, result, trouble>>

NotSubstituted ==
  /\ AtNode("retried")
  /\ outcome # "complete" /\ ~Stops
  /\ Go("build")
  /\ UNCHANGED <<dbVars, world, closures, outcome, seenDrvs, seenPaths, result, trouble>>

\* inputClosure: the inputs' outputs and what the store says they reach.
InputClosure(d) ==
  LET inputs == UNION {Outputs[e] : e \in Deps[d]} IN
  {path \in Paths :
     \A closed \in SUBSET Paths :
       inputs \subseteq closed /\ (\A q \in closed : queryReferences(q) \subseteq closed)
         => path \in closed}

\* reBuild: the outputs that are not valid yet are built and registered.
\* scanOutput finds what an output contains of the closure of the inputs
\* and of the derivation's own outputs.
Build ==
  LET d == Node.drv IN
  /\ AtNode("build")
  /\ \E candidates \in {InputClosure(d) \cup Outputs[d]} :
       registerPaths([path \in Outputs[d] \ validPaths |->
                        [prPath |-> path, prReferences |-> Embeds[path] \cap candidates]])
  /\ Realised
  /\ UNCHANGED <<world, closures, outcome, seenDrvs, seenPaths, trouble>>

BuildFails ==
  /\ AtNode("build")
  /\ Stop("buildFailed")
  /\ UNCHANGED <<dbVars, world, closures, outcome, seenDrvs, seenPaths, trouble>>

-----------------------------------------------------------------------------
\* Another process builds or substitutes a path.
OtherRegisters(path) ==
  /\ result = "running"
  /\ path \notin validPaths
  /\ registerPaths([q \in {path} |-> [prPath |-> q, prReferences |-> Embeds[q]]])
  /\ trouble' = trouble \cup {"met"}
  /\ UNCHANGED <<world, callVars>>

ClosureStep ==
  \/ NothingMissing \/ Query \/ Fetch
  \/ \E path \in Paths : LookUp(path) \/ NextReference(path)

NodeStep ==
  \/ AlreadyValid \/ SubstituteFirst \/ Substituted \/ SubstitutionStops
  \/ InputsFirst \/ Retry \/ NotSubstituted \/ Build \/ BuildFails
  \/ \E d \in Drvs : NextInput(d)

Ended == result # "running" /\ UNCHANGED vars

Next ==
  \/ ClosureStep \/ NodeStep
  \/ \E path \in Paths : OtherRegisters(path)
  \/ Ended

Spec == Init /\ [][Next]_vars

\* The command's own thread goes on; a build and a transfer end.
FairSpec == Spec /\ WF_vars(ClosureStep \/ NodeStep)

-----------------------------------------------------------------------------
TypeOK ==
  /\ DBTypeOK
  /\ holds \in [Caches -> SUBSET Paths]
  /\ fallback \in BOOLEAN
  /\ nodes \in Seq(NodeCalls)
  /\ closures \in Seq(ClosureCalls)
  /\ outcome \in ClosureOutcomes
  /\ seenDrvs \subseteq Drvs
  /\ seenPaths \subseteq Paths
  /\ result \in {"running", "realised", "failed", "queryFailed", "buildFailed"}
  /\ trouble \subseteq {"failed", "refused", "strayed", "met"}

(* Calls are for inputs of the derivation around them, and no path is      *)
(* being substituted twice, whatever cycles a cache declares (closureOf's  *)
(* and realiseNode's visited sets).                                        *)
CallsNest ==
  /\ TypeOK
  /\ \A i \in 1 .. Len(nodes) - 1 :
       nodes[i + 1].at = "inputs" /\ nodes[i].drv \in Deps[nodes[i + 1].drv]
  /\ closures # <<>> => nodes # <<>> /\ Node.at \in {"tried", "retried"}
  /\ \A i, j \in DOMAIN closures :
       i # j => (closures[i].paths \cup closures[i].missing)
                \cap (closures[j].paths \cup closures[j].missing) = {}

(* Whenever a derivation is about to be built, all outputs of all its      *)
(* inputs are valid, so that validateInputs never refuses (realise: "what  *)
(* remains builds leaves first").                                          *)
BuildsOnInputs == AtNode("build") => \A d \in Deps[Node.drv] : Outputs[d] \subseteq validPaths

(* The references of what the first cache that holds a path says of it.    *)
Declared(path) ==
  UNION {Declares[c][path] : c \in {d \in Caches : Least(d, Holders(path))}}

(* The caches hold the paths, and everything they need besides what is     *)
(* valid.                                                                  *)
Obtainable(paths) ==
  \E closure \in SUBSET Paths :
    /\ paths \subseteq closure \cup validPaths
    /\ \A path \in closure :
         /\ Holders(path) # {}
         /\ Declared(path) \subseteq closure \cup validPaths

(* While nothing goes wrong with the caches, a derivation is built only if *)
(* some path it needs is nowhere to be had, inputs just built included     *)
(* (the root-first order, and the second try after the inputs).            *)
NeverBuildsWhatCachesHold ==
  AtNode("build") /\ trouble = {} => ~Obtainable(Outputs[Node.drv])

\* The outputs of a derivation arrive together, any other path on its own.
Together(path, d) == IF path \in Outputs[d] THEN Outputs[d] ELSE {path}

(* Paths arrive after what they refer to, so that the database refuses a   *)
(* batch only when caches disagree, or when the references they declare    *)
(* form a cycle, in which the outputs of the derivation being substituted  *)
(* count as one (closureOf, substituteClosure).                            *)
RefusalMeansCycle ==
  "refused" \in trouble /\ "strayed" \notin trouble =>
    \E d \in Drvs, cycle \in (SUBSET Paths) \ {{}} :
      \A path \in cycle : \E other \in Together(path, d) \cap cycle :
        Declared(other) \cap (cycle \ Together(path, d)) # {}

(* Without fallback, an answer or a transfer that failed ends the build:   *)
(* nothing is asked, fetched or built after it, at whatever depth of       *)
(* references it happened.  With fallback it never does                    *)
(* (substitutionStop).                                                     *)
FailureIsFinal ==
  IF fallback
    THEN result \notin {"failed", "queryFailed"}
    ELSE "failed" \in trouble =>
           /\ result # "realised" /\ closures = <<>>
           /\ nodes # <<>> => Node.at \in {"tried", "retried"} /\ Stops

(* When realise reports success, every output of the root is valid.        *)
RealisedMeansValid == result = "realised" => Outputs[Root] \subseteq validPaths

(* Realising a graph ends, whatever the caches declare.                    *)
RealiseEnds == <>(result # "running")

-----------------------------------------------------------------------------
(* The inductive invariant of RealiseProofs.                               *)

StackDescends ==
  \A depth \in Numberings : \A i, j \in DOMAIN nodes :
    i < j => depth[nodes[i].drv] < depth[nodes[j].drv]

Valid(d) == Outputs[d] \subseteq validPaths

\* What has been visited is valid, or under way.
SeenIsDone ==
  result \in {"running", "realised"} =>
    \A d \in seenDrvs : Valid(d) \/ \E i \in DOMAIN nodes : nodes[i].drv = d

InputsByPlace ==
  \A i \in DOMAIN nodes :
    /\ nodes[i].inputs \subseteq Deps[nodes[i].drv]
    /\ nodes[i].at \in {"enter", "tried"} => nodes[i].inputs = Deps[nodes[i].drv]
    /\ nodes[i].at \in {"retried", "build"} => nodes[i].inputs = {}
    /\ \A d \in Deps[nodes[i].drv] \ nodes[i].inputs :
         Valid(d) \/ (i > 1 /\ nodes[i - 1].drv = d)

\* The outermost closure call covers the outputs of the derivation.
OutputsCovered ==
  /\ closures # <<>> =>
       LET outermost == closures[Len(closures)] IN
       Outputs[Node.drv] \subseteq outermost.paths \cup outermost.missing \cup validPaths
  /\ \A i \in DOMAIN closures : closures[i].at = "references" => closures[i].paths = {}
  /\ (AtNode("tried") \/ AtNode("retried")) /\ outcome = "complete" => Valid(Node.drv)

PathsSeen == \A i \in DOMAIN closures : closures[i].paths \cup closures[i].missing \subseteq seenPaths

ResultByStack ==
  /\ result = "running" <=> nodes # <<>>
  /\ nodes # <<>> => nodes[Len(nodes)].drv = Root
  /\ fallback => outcome # "queryFailed"

(* Over CallsNest and the properties: stacks descend the graph, what was   *)
(* visited is valid or under way, and the outermost closure call covers    *)
(* what is not valid yet of the derivation it is for.                      *)
RealiseInv ==
  /\ CallsNest /\ FailureIsFinal /\ RealisedMeansValid
  /\ StackDescends /\ SeenIsDone /\ InputsByPlace /\ OutputsCovered /\ PathsSeen /\ ResultByStack
=============================================================================
