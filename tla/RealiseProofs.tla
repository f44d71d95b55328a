--------------------------- MODULE RealiseProofs -----------------------------
(***************************************************************************)
(* Theorems about Realise, for any acyclic graph of derivations, any       *)
(* caches and whatever they hold, declare and fail at.                     *)
(***************************************************************************)
EXTENDS Realise, SequenceTheorems, FiniteSetTheorems, WellFoundedInduction, TLAPS

-----------------------------------------------------------------------------
(* Stacks.                                                                 *)

LEMMA PushFacts ==
  ASSUME NEW S, NEW s \in Seq(S), NEW x \in S
  PROVE  /\ Push(x, s) \in Seq(S) /\ Push(x, s) # <<>>
         /\ Len(Push(x, s)) = Len(s) + 1
         /\ DOMAIN Push(x, s) = 1 .. Len(s) + 1
         /\ Push(x, s)[1] = x
         /\ \A i \in 1 .. Len(s) : Push(x, s)[i + 1] = s[i]
         /\ Head(Push(x, s)) = x
  <1>1. <<x>> \in Seq(S) /\ Len(<<x>>) = 1 /\ <<x>>[1] = x
    OBVIOUS
  <1>2. Len(s) \in Nat
    BY LenProperties
  <1>3. /\ <<x>> \o s \in Seq(S)
        /\ Len(<<x>> \o s) = 1 + Len(s)
        /\ \A i \in 1 .. 1 + Len(s) : (<<x>> \o s)[i] = IF i <= 1 THEN <<x>>[i] ELSE s[i - 1]
    BY <1>1, ConcatProperties
  <1>4. DOMAIN (<<x>> \o s) = 1 .. 1 + Len(s)
    BY <1>3, LenProperties
  <1>5. <<x>> \o s # <<>>
    BY <1>2, <1>3, EmptySeq
  <1>6. Head(<<x>> \o s) = (<<x>> \o s)[1]
    BY <1>3, <1>5
  <1> QED
    BY <1>1, <1>2, <1>3, <1>4, <1>5, <1>6 DEF Push

LEMMA TailFacts ==
  ASSUME NEW S, NEW s \in Seq(S), s # <<>>
  PROVE  /\ Tail(s) \in Seq(S)
         /\ Len(s) \in Nat /\ Len(s) >= 1
         /\ DOMAIN s = 1 .. Len(s)
         /\ Len(Tail(s)) = Len(s) - 1
         /\ DOMAIN Tail(s) = 1 .. Len(s) - 1
         /\ \A i \in 1 .. Len(s) - 1 : Tail(s)[i] = s[i + 1]
         /\ Head(s) = s[1] /\ s[1] \in S
         /\ Tail(s) = <<>> <=> Len(s) = 1
  <1>1. Len(s) \in Nat /\ DOMAIN s = 1 .. Len(s) /\ Len(s) >= 1
    BY LenProperties, EmptySeq
  <1>2. /\ Tail(s) \in Seq(S) /\ Len(Tail(s)) = Len(s) - 1
        /\ \A i \in 1 .. Len(Tail(s)) : Tail(s)[i] = s[i + 1]
    BY HeadTailProperties
  <1>3. DOMAIN Tail(s) = 1 .. Len(s) - 1
    BY <1>2, LenProperties
  <1>4. Head(s) = s[1] /\ s[1] \in S
    BY <1>1, ElementOfSeq
  <1>5. Tail(s) = <<>> <=> Len(Tail(s)) = 0
    BY <1>2, EmptySeq
  <1> QED
    BY <1>1, <1>2, <1>3, <1>4, <1>5

\* A stack with another innermost call.
LEMMA ReviseFacts ==
  ASSUME NEW S, NEW s \in Seq(S), s # <<>>, NEW x \in S
  PROVE  /\ Revise(x, s) \in Seq(S) /\ Revise(x, s) # <<>>
         /\ Len(Revise(x, s)) = Len(s) /\ DOMAIN Revise(x, s) = DOMAIN s
         /\ Revise(x, s)[1] = x /\ Head(Revise(x, s)) = x
         /\ \A i \in DOMAIN s : i > 1 => Revise(x, s)[i] = s[i]
  <1> DEFINE t == Tail(s)
  <1>1. /\ t \in Seq(S) /\ Len(s) \in Nat /\ Len(s) >= 1 /\ DOMAIN s = 1 .. Len(s)
        /\ Len(t) = Len(s) - 1
        /\ \A i \in 1 .. Len(s) - 1 : t[i] = s[i + 1]
    BY TailFacts
  <1>2. Revise(x, s) = Push(x, t)
    BY DEF Revise
  <1> HIDE DEF t
  <1>3. /\ Push(x, t) \in Seq(S) /\ Push(x, t) # <<>>
        /\ Len(Push(x, t)) = Len(t) + 1
        /\ DOMAIN Push(x, t) = 1 .. Len(t) + 1
        /\ Push(x, t)[1] = x
        /\ \A i \in 1 .. Len(t) : Push(x, t)[i + 1] = t[i]
        /\ Head(Push(x, t)) = x
    BY <1>1, PushFacts
  <1>4. ASSUME NEW i \in DOMAIN s, i > 1 PROVE Push(x, t)[i] = s[i]
    <2>1. i - 1 \in 1 .. Len(s) - 1 /\ (i - 1) + 1 = i
      BY <1>1, <1>4
    <2> QED
      BY <1>1, <1>3, <2>1
  <1> QED
    BY <1>1, <1>2, <1>3, <1>4

-----------------------------------------------------------------------------
(* The two halves of the inductive invariant: what is said of the calls of *)
(* realiseNode, and of the calls of closureOf under the innermost of them. *)

NodesInv ==
  /\ nodes \in Seq(NodeCalls) /\ seenDrvs \subseteq Drvs
  /\ result \in {"running", "realised", "failed", "queryFailed", "buildFailed"}
  /\ \A i \in 1 .. Len(nodes) - 1 :
       nodes[i + 1].at = "inputs" /\ nodes[i].drv \in Deps[nodes[i + 1].drv]
  /\ StackDescends /\ SeenIsDone /\ InputsByPlace /\ RealisedMeansValid
  /\ result = "running" <=> nodes # <<>>
  /\ nodes # <<>> => nodes[Len(nodes)].drv = Root

Disjoint(calls) ==
  \A i, j \in DOMAIN calls :
    i # j => (calls[i].paths \cup calls[i].missing) \cap (calls[j].paths \cup calls[j].missing) = {}

ClosuresInv ==
  /\ DBTypeOK /\ holds \in [Caches -> SUBSET Paths] /\ fallback \in BOOLEAN
  /\ closures \in Seq(ClosureCalls) /\ outcome \in ClosureOutcomes
  /\ seenPaths \subseteq Paths /\ trouble \subseteq {"failed", "refused", "strayed", "met"}
  /\ closures # <<>> => nodes # <<>> /\ Node.at \in {"tried", "retried"}
  /\ Disjoint(closures)
  /\ OutputsCovered /\ PathsSeen /\ FailureIsFinal
  /\ fallback => outcome # "queryFailed"

LEMMA Halves ==
  /\ RealiseInv <=> NodesInv /\ ClosuresInv
  /\ RealiseInv' <=> NodesInv' /\ ClosuresInv'
  BY Zenon DEF RealiseInv, NodesInv, ClosuresInv, CallsNest, TypeOK, ResultByStack, Disjoint

-----------------------------------------------------------------------------
(* What the steps do to the calls of realiseNode.                          *)

LEMMA NodesKept ==
  ASSUME NodesInv, validPaths \subseteq validPaths', UNCHANGED <<nodes, seenDrvs, result>>
  PROVE  NodesInv'
  BY DEF NodesInv, StackDescends, SeenIsDone, InputsByPlace, RealisedMeansValid, Valid, Node

LEMMA NodesStopped ==
  ASSUME NodesInv, NEW failure \in {"failed", "queryFailed", "buildFailed"}, Stop(failure),
         seenDrvs' = seenDrvs
  PROVE  NodesInv'
  <1>1. nodes' = <<>> /\ result' = failure /\ nodes' \in Seq(NodeCalls)
    BY DEF Stop
  <1>2. Len(nodes') = 0 /\ DOMAIN nodes' = {}
    BY <1>1
  <1> QED
    BY <1>1, <1>2 DEF NodesInv, StackDescends, SeenIsDone, InputsByPlace, RealisedMeansValid

LEMMA NodeTyped ==
  ASSUME NodesInv, nodes # <<>>
  PROVE  /\ Node \in NodeCalls /\ Node = nodes[1] /\ Node.drv \in Drvs
         /\ Len(nodes) \in Nat /\ Len(nodes) >= 1 /\ DOMAIN nodes = 1 .. Len(nodes)
         /\ \A i \in DOMAIN nodes : nodes[i] \in NodeCalls
  <1>1. nodes \in Seq(NodeCalls)
    BY DEF NodesInv
  <1>2. Head(nodes) = nodes[1] /\ nodes[1] \in NodeCalls /\ Len(nodes) \in Nat /\ Len(nodes) >= 1
        /\ DOMAIN nodes = 1 .. Len(nodes)
    BY <1>1, TailFacts, Zenon
  <1>3. \A i \in DOMAIN nodes : nodes[i] \in NodeCalls
    BY <1>1, <1>2, ElementOfSeq
  <1> QED
    BY <1>2, <1>3 DEF Node, NodeCalls

LEMMA NodesPopped ==
  ASSUME NodesInv, nodes # <<>>, Realised, validPaths \subseteq validPaths',
         Outputs[Node.drv] \subseteq validPaths',
         seenDrvs' = seenDrvs \/ seenDrvs' = seenDrvs \cup {Node.drv}
  PROVE  NodesInv'
  <1> DEFINE n == Len(nodes)
  <1>1. /\ n \in Nat /\ n >= 1 /\ DOMAIN nodes = 1 .. n
        /\ Node = nodes[1] /\ Node.drv \in Drvs
        /\ \A i \in 1 .. n : nodes[i] \in NodeCalls
    BY NodeTyped
  <1>2. /\ nodes' \in Seq(NodeCalls) /\ Len(nodes') = n - 1 /\ DOMAIN nodes' = 1 .. n - 1
        /\ \A i \in 1 .. n - 1 : nodes'[i] = nodes[i + 1]
        /\ nodes' = <<>> <=> n = 1
    BY TailFacts DEF NodesInv, Realised
  <1>3. result = "running" /\ result' = IF n = 1 THEN "realised" ELSE "running"
    BY DEF NodesInv, Realised
  <1>4. \A d \in Drvs : Valid(d) => Outputs[d] \subseteq validPaths'
    BY DEF Valid
  <1>5. Outputs[nodes[1].drv] \subseteq validPaths'
    BY <1>1
  <1>6. \A i \in 1 .. n' - 1 : nodes'[i + 1].at = "inputs" /\ nodes'[i].drv \in Deps[nodes'[i + 1].drv]
    BY <1>1, <1>2 DEF NodesInv
  <1>7. StackDescends'
    <2>1. ASSUME NEW depth \in Numberings, NEW i \in 1 .. n - 1, NEW j \in 1 .. n - 1, i < j
          PROVE  depth[nodes'[i].drv] < depth[nodes'[j].drv]
      <3>1. i + 1 \in 1 .. n /\ j + 1 \in 1 .. n /\ i + 1 < j + 1
        BY <1>1, <2>1
      <3> QED
        <4>1. \A a, b \in 1 .. n : a < b => depth[nodes[a].drv] < depth[nodes[b].drv]
          BY <1>1 DEF NodesInv, StackDescends
        <4>2. nodes'[i] = nodes[i + 1] /\ nodes'[j] = nodes[j + 1]
          BY <1>2
        <4> QED
          BY <3>1, <4>1, <4>2
    <2> QED
      BY <1>2, <2>1 DEF StackDescends
  <1>8. SeenIsDone'
    <2>1. ASSUME NEW d \in seenDrvs' PROVE Outputs[d] \subseteq validPaths' \/ \E i \in 1 .. n - 1 : nodes'[i].drv = d
      <3>1. CASE d = nodes[1].drv
        BY <1>5, <3>1
      <3>2. CASE d # nodes[1].drv
        <4>1. d \in seenDrvs
          BY <1>1, <3>2
        <4>2. CASE Valid(d)
          BY <1>4, <4>1, <4>2 DEF NodesInv
        <4>3. CASE ~Valid(d)
          <5>1. PICK i \in 1 .. n : nodes[i].drv = d
            BY <1>1, <1>3, <4>1, <4>3 DEF NodesInv, SeenIsDone
          <5>2. i - 1 \in 1 .. n - 1 /\ (i - 1) + 1 = i
            BY <1>1, <3>2, <5>1
          <5> QED
            BY <1>2, <5>1, <5>2
        <4> QED
          BY <4>2, <4>3
      <3> QED
        BY <3>1, <3>2
    <2> QED
      BY <1>2, <2>1 DEF SeenIsDone, Valid
  <1>9. InputsByPlace'
    <2>1. ASSUME NEW i \in 1 .. n - 1
          PROVE  /\ nodes'[i].inputs \subseteq Deps[nodes'[i].drv]
                 /\ nodes'[i].at \in {"enter", "tried"} => nodes'[i].inputs = Deps[nodes'[i].drv]
                 /\ nodes'[i].at \in {"retried", "build"} => nodes'[i].inputs = {}
                 /\ \A d \in Deps[nodes'[i].drv] \ nodes'[i].inputs :
                      Outputs[d] \subseteq validPaths' \/ (i > 1 /\ nodes'[i - 1].drv = d)
      <3>1. i + 1 \in 1 .. n /\ nodes'[i] = nodes[i + 1] /\ (i + 1) - 1 = i
        BY <1>1, <1>2
      <3>2. /\ nodes[i + 1].drv \in Drvs
            /\ nodes[i + 1].inputs \subseteq Deps[nodes[i + 1].drv]
            /\ nodes[i + 1].at \in {"enter", "tried"} => nodes[i + 1].inputs = Deps[nodes[i + 1].drv]
            /\ nodes[i + 1].at \in {"retried", "build"} => nodes[i + 1].inputs = {}
            /\ \A d \in Deps[nodes[i + 1].drv] \ nodes[i + 1].inputs :
                 Valid(d) \/ nodes[i].drv = d
        <4>1. \A k \in 1 .. n :
                /\ nodes[k].inputs \subseteq Deps[nodes[k].drv]
                /\ nodes[k].at \in {"enter", "tried"} => nodes[k].inputs = Deps[nodes[k].drv]
                /\ nodes[k].at \in {"retried", "build"} => nodes[k].inputs = {}
                /\ \A d \in Deps[nodes[k].drv] \ nodes[k].inputs :
                     Valid(d) \/ (k > 1 /\ nodes[k - 1].drv = d)
          BY <1>1 DEF NodesInv, InputsByPlace
        <4>2. nodes[i + 1].drv \in Drvs
          BY <1>1, <3>1 DEF NodeCalls
        <4> QED
          BY <3>1, <4>1, <4>2
      <3>3. ASSUME NEW d \in Deps[nodes'[i].drv] \ nodes'[i].inputs
            PROVE  Outputs[d] \subseteq validPaths' \/ (i > 1 /\ nodes'[i - 1].drv = d)
        <4>1. Valid(d) \/ nodes[i].drv = d
          BY <3>1, <3>2, <3>3
        <4>2. d \in Drvs
          BY <3>1, <3>2, <3>3, GraphAssumption
        <4>3. i > 1 => nodes'[i - 1] = nodes[i]
          BY <1>1, <1>2
        <4> QED
          BY <1>4, <1>5, <4>1, <4>2, <4>3
      <3> QED
        BY <3>1, <3>2, <3>3
    <2> QED
      BY <1>2, <2>1 DEF InputsByPlace, Valid
  <1>10. n = 1 => nodes[1].drv = Root
    BY DEF NodesInv
  <1>11. RealisedMeansValid'
    BY <1>1, <1>3, <1>10 DEF RealisedMeansValid
  <1>12. nodes' # <<>> => nodes'[Len(nodes')].drv = Root
    BY <1>1, <1>2 DEF NodesInv
  <1>13. seenDrvs' \subseteq Drvs
    BY <1>1 DEF NodesInv
  <1> QED
    BY <1>2, <1>3, <1>6, <1>7, <1>8, <1>9, <1>11, <1>12, <1>13 DEF NodesInv

\* The innermost call goes on with what is known of its inputs.
AgreesWithPlace(x) ==
  /\ x \in NodeCalls /\ x.drv = Node.drv /\ x.inputs \subseteq Deps[x.drv]
  /\ x.at \in {"enter", "tried"} => x.inputs = Deps[x.drv]
  /\ x.at \in {"retried", "build"} => x.inputs = {}
  /\ \A d \in Deps[x.drv] \ x.inputs : Valid(d)

\* Opaque to the provers where the facts about Revise are looked up.
NodeRevised(x) == nodes' = Revise(x, nodes)

LEMMA NodesMoved ==
  ASSUME NodesInv, nodes # <<>>, NEW x, AgreesWithPlace(x), NodeRevised(x),
         validPaths' = validPaths, result' = result,
         seenDrvs' = seenDrvs \/ seenDrvs' = seenDrvs \cup {Node.drv}
  PROVE  NodesInv'
  <1> DEFINE n == Len(nodes)
  <1>1. /\ n \in Nat /\ n >= 1 /\ DOMAIN nodes = 1 .. n
        /\ Node = nodes[1] /\ Node.drv \in Drvs
        /\ \A i \in 1 .. n : nodes[i] \in NodeCalls
    BY NodeTyped
  <1>2. /\ nodes' \in Seq(NodeCalls) /\ nodes' # <<>> /\ Len(nodes') = n /\ DOMAIN nodes' = 1 .. n
        /\ nodes'[1] = x
        /\ \A i \in 1 .. n : i > 1 => nodes'[i] = nodes[i]
    <2>1. nodes \in Seq(NodeCalls) /\ x \in NodeCalls
      BY DEF NodesInv, AgreesWithPlace
    <2>2. /\ Revise(x, nodes) \in Seq(NodeCalls) /\ Revise(x, nodes) # <<>>
          /\ Len(Revise(x, nodes)) = Len(nodes) /\ DOMAIN Revise(x, nodes) = DOMAIN nodes
          /\ Revise(x, nodes)[1] = x /\ Head(Revise(x, nodes)) = x
          /\ \A i \in DOMAIN nodes : i > 1 => Revise(x, nodes)[i] = nodes[i]
      BY <2>1, ReviseFacts
    <2> QED
      BY <1>1, <2>2 DEF NodeRevised
  <1>3. \A i \in 1 .. n : nodes'[i].drv = nodes[i].drv
    BY <1>1, <1>2 DEF AgreesWithPlace
  <1>4. \A i \in 1 .. n - 1 : nodes'[i + 1].at = "inputs" /\ nodes'[i].drv \in Deps[nodes'[i + 1].drv]
    <2>1. ASSUME NEW i \in 1 .. n - 1
          PROVE  nodes'[i + 1].at = "inputs" /\ nodes'[i].drv \in Deps[nodes'[i + 1].drv]
      <3>1. i \in 1 .. n /\ i + 1 \in 1 .. n /\ i + 1 > 1
        BY <1>1
      <3> QED
        BY <1>2, <1>3, <3>1 DEF NodesInv
    <2> QED
      BY <2>1
  <1>5. StackDescends'
    BY <1>1, <1>2, <1>3 DEF NodesInv, StackDescends
  <1>6. SeenIsDone'
    BY <1>1, <1>2, <1>3 DEF NodesInv, SeenIsDone, Valid
  <1>7. InputsByPlace'
    <2>1. ASSUME NEW i \in 1 .. n
          PROVE  /\ nodes'[i].inputs \subseteq Deps[nodes'[i].drv]
                 /\ nodes'[i].at \in {"enter", "tried"} => nodes'[i].inputs = Deps[nodes'[i].drv]
                 /\ nodes'[i].at \in {"retried", "build"} => nodes'[i].inputs = {}
                 /\ \A d \in Deps[nodes'[i].drv] \ nodes'[i].inputs :
                      Outputs[d] \subseteq validPaths \/ (i > 1 /\ nodes'[i - 1].drv = d)
      <3>1. CASE i = 1
        BY <1>2, <3>1 DEF AgreesWithPlace, Valid
      <3>2. CASE i > 1
        <4>1. /\ nodes[i].inputs \subseteq Deps[nodes[i].drv]
              /\ nodes[i].at \in {"enter", "tried"} => nodes[i].inputs = Deps[nodes[i].drv]
              /\ nodes[i].at \in {"retried", "build"} => nodes[i].inputs = {}
              /\ \A d \in Deps[nodes[i].drv] \ nodes[i].inputs :
                   Outputs[d] \subseteq validPaths \/ (i > 1 /\ nodes[i - 1].drv = d)
          BY <1>1 DEF NodesInv, InputsByPlace, Valid
        <4>2. i - 1 \in 1 .. n /\ nodes'[i - 1].drv = nodes[i - 1].drv /\ nodes'[i] = nodes[i]
          BY <1>1, <1>2, <1>3, <3>2
        <4> QED
          BY <4>1, <4>2
      <3> QED
        BY <1>1, <3>1, <3>2
    <2> QED
      BY <1>2, <2>1 DEF InputsByPlace, Valid
  <1>8. result' = "running"
    BY DEF NodesInv
  <1>9. nodes'[Len(nodes')].drv = Root
    BY <1>1, <1>2, <1>3 DEF NodesInv
  <1> QED
    BY <1>1, <1>2, <1>4, <1>5, <1>6, <1>7, <1>8, <1>9 DEF NodesInv, RealisedMeansValid

NodeEntered(call, x) == nodes' = Push(call, Revise(x, nodes))

\* The stack with one more call: places move by one, and hold the same nodes.
LEMMA EnteredShape ==
  ASSUME NodesInv, nodes # <<>>, NEW call \in NodeCalls, NEW x \in NodeCalls, x.drv = Node.drv,
         NodeEntered(call, x)
  PROVE  /\ nodes' \in Seq(NodeCalls) /\ nodes' # <<>> /\ Len(nodes') = Len(nodes) + 1
         /\ DOMAIN nodes' = 1 .. Len(nodes) + 1
         /\ nodes'[1] = call /\ nodes'[2] = x
         /\ \A i \in 1 .. Len(nodes) : nodes'[i + 1].drv = nodes[i].drv
         /\ \A i \in 1 .. Len(nodes) : i > 1 => nodes'[i + 1] = nodes[i]
  <1> DEFINE m == Revise(x, nodes)
  <1>1. /\ Len(nodes) \in Nat /\ Len(nodes) >= 1 /\ DOMAIN nodes = 1 .. Len(nodes) /\ Node = nodes[1]
    BY NodeTyped
  <1>2. nodes \in Seq(NodeCalls)
    BY DEF NodesInv
  <1>3. /\ m \in Seq(NodeCalls) /\ m # <<>>
        /\ Len(m) = Len(nodes) /\ DOMAIN m = DOMAIN nodes
        /\ m[1] = x /\ Head(m) = x
        /\ \A i \in DOMAIN nodes : i > 1 => m[i] = nodes[i]
    BY <1>2, ReviseFacts
  <1>4. nodes' = Push(call, m)
    BY DEF NodeEntered
  <1>5. /\ Push(call, m) \in Seq(NodeCalls) /\ Push(call, m) # <<>>
        /\ Len(Push(call, m)) = Len(m) + 1
        /\ DOMAIN Push(call, m) = 1 .. Len(m) + 1
        /\ Push(call, m)[1] = call
        /\ \A i \in 1 .. Len(m) : Push(call, m)[i + 1] = m[i]
        /\ Head(Push(call, m)) = call
    <2>1. m \in Seq(NodeCalls)
      BY <1>3
    <2> HIDE DEF m
    <2> QED
      BY <2>1, PushFacts, Zenon
  <1> HIDE DEF m
  <1>6. \A i \in 1 .. Len(nodes) : nodes'[i + 1] = m[i]
    BY <1>3, <1>4, <1>5
  <1>7. nodes'[2] = x
    <2>1. 1 \in 1 .. Len(nodes) /\ 1 + 1 = 2
      BY <1>1
    <2> QED
      BY <1>3, <1>6, <2>1
  <1>8. \A i \in 1 .. Len(nodes) : nodes'[i + 1].drv = nodes[i].drv
    BY <1>1, <1>3, <1>6
  <1> QED
    BY <1>1, <1>3, <1>4, <1>5, <1>6, <1>7, <1>8

LEMMA NumberingTyped ==
  ASSUME NEW depth \in Numberings, NEW d \in Drvs
  PROVE  depth[d] \in Nat
  BY GraphAssumption, FS_CardinalityType DEF Numberings

LEMMA NodesEntered ==
  ASSUME NodesInv, nodes # <<>>, Node.at = "inputs", NEW d \in Node.inputs,
         NodeEntered(NodeCall(d), [Node EXCEPT !.inputs = @ \ {d}]),
         UNCHANGED <<validPaths, seenDrvs, result>>
  PROVE  NodesInv'
  <1> DEFINE n == Len(nodes)
             x == [Node EXCEPT !.inputs = @ \ {d}]
  <1>1. /\ n \in Nat /\ n >= 1 /\ DOMAIN nodes = 1 .. n
        /\ Node = nodes[1] /\ Node \in NodeCalls /\ Node.drv \in Drvs
        /\ \A i \in 1 .. n : nodes[i] \in NodeCalls
    BY NodeTyped
  <1>2. /\ x \in NodeCalls /\ x.drv = Node.drv /\ x.at = "inputs" /\ x.inputs = Node.inputs \ {d}
    BY <1>1 DEF NodeCalls
  <1>3. Node.inputs \subseteq Deps[Node.drv] /\ d \in Drvs /\ d \in Deps[Node.drv]
    BY <1>1, GraphAssumption DEF NodesInv, InputsByPlace
  <1>4. NodeCall(d) \in NodeCalls /\ NodeCall(d).drv = d /\ NodeCall(d).at = "enter"
        /\ NodeCall(d).inputs = Deps[d]
    BY <1>3, GraphAssumption DEF NodeCall, NodeCalls, ClosureOutcomes
  <1>5. /\ nodes' \in Seq(NodeCalls) /\ nodes' # <<>> /\ Len(nodes') = n + 1
        /\ DOMAIN nodes' = 1 .. n + 1
        /\ nodes'[1] = NodeCall(d) /\ nodes'[2] = x
        /\ \A i \in 1 .. n : nodes'[i + 1].drv = nodes[i].drv
        /\ \A i \in 1 .. n : i > 1 => nodes'[i + 1] = nodes[i]
    <2> HIDE DEF x
    <2>1. NodeEntered(NodeCall(d), x)
      BY DEF x
    <2> QED
      BY <1>2, <1>4, <2>1, EnteredShape
  <1> HIDE DEF x
  <1>6. ASSUME NEW i \in 1 .. n + 1, i # 1
        PROVE  i - 1 \in 1 .. n /\ (i - 1) + 1 = i /\ nodes'[i].drv = nodes[i - 1].drv
               /\ (i # 2 => nodes'[i] = nodes[i - 1])
    <2>1. i - 1 \in 1 .. n /\ (i - 1) + 1 = i
      BY <1>1, <1>6
    <2>2. i # 2 => i - 1 > 1
      BY <1>1, <1>6
    <2> QED
      BY <1>5, <2>1, <2>2
  <1>7. ASSUME NEW i \in 1 .. n
        PROVE  nodes'[i + 1].at = "inputs" /\ nodes'[i].drv \in Deps[nodes'[i + 1].drv]
    <2>1. CASE i = 1
      BY <1>1, <1>2, <1>3, <1>4, <1>5, <2>1
    <2>2. CASE i # 1
      <3>1. i \in 1 .. n + 1 /\ i - 1 \in 1 .. n - 1 /\ (i - 1) + 1 = i /\ i > 1
        BY <1>1, <2>2
      <3>2. nodes[i].at = "inputs" /\ nodes[i - 1].drv \in Deps[nodes[i].drv]
        <4>1. nodes[(i - 1) + 1].at = "inputs" /\ nodes[i - 1].drv \in Deps[nodes[(i - 1) + 1].drv]
          BY <3>1 DEF NodesInv
        <4> QED
          BY <3>1, <4>1
      <3>3. nodes'[i + 1] = nodes[i] /\ nodes'[i].drv = nodes[i - 1].drv
        BY <1>5, <1>6, <2>2, <3>1
      <3> QED
        BY <3>2, <3>3
    <2> QED
      BY <2>1, <2>2
  <1>8. StackDescends'
    <2>1. ASSUME NEW depth \in Numberings, NEW i \in 1 .. n + 1, NEW j \in 1 .. n + 1, i < j
          PROVE  depth[nodes'[i].drv] < depth[nodes'[j].drv]
      <3>1. \A a, b \in 1 .. n : a < b => depth[nodes[a].drv] < depth[nodes[b].drv]
        BY <1>1 DEF NodesInv, StackDescends
      <3>2. j # 1 /\ j - 1 \in 1 .. n /\ nodes'[j].drv = nodes[j - 1].drv
        BY <1>1, <1>6, <2>1
      <3>3. CASE i = 1
        <4>1. depth[d] < depth[Node.drv]
          BY <1>1, <1>3 DEF Numberings
        <4>2. j - 1 = 1 \/ depth[Node.drv] < depth[nodes[j - 1].drv]
          BY <1>1, <3>1, <3>2
        <4>3. nodes[j - 1].drv \in Drvs
          BY <1>1, <3>2 DEF NodeCalls
        <4>4. depth[d] \in Nat /\ depth[Node.drv] \in Nat /\ depth[nodes[j - 1].drv] \in Nat
          BY <1>1, <1>3, <4>3, NumberingTyped
        <4>5. depth[d] < depth[nodes[j - 1].drv]
          BY <1>1, <4>1, <4>2, <4>4
        <4> QED
          BY <1>4, <1>5, <3>2, <3>3, <4>5
      <3>4. CASE i # 1
        <4>1. i - 1 \in 1 .. n /\ nodes'[i].drv = nodes[i - 1].drv
          BY <1>6, <3>4
        <4>2. i - 1 < j - 1
          BY <1>1, <2>1
        <4> QED
          BY <3>1, <3>2, <4>1, <4>2
      <3> QED
        BY <3>3, <3>4
    <2> QED
      BY <1>5, <2>1 DEF StackDescends
  <1>9. SeenIsDone'
    <2>1. ASSUME NEW e \in seenDrvs, ~Valid(e), result \in {"running", "realised"}
          PROVE  \E i \in 1 .. n + 1 : nodes'[i].drv = e
      <3>1. PICK i \in 1 .. n : nodes[i].drv = e
        BY <1>1, <2>1 DEF NodesInv, SeenIsDone
      <3>2. i + 1 \in 1 .. n + 1 /\ nodes'[i + 1].drv = e
        BY <1>1, <1>5, <3>1
      <3> QED
        BY <3>2
    <2> QED
      BY <1>5, <2>1 DEF SeenIsDone, Valid
  <1>10. InputsByPlace'
    <2>1. ASSUME NEW i \in 1 .. n + 1
          PROVE  /\ nodes'[i].inputs \subseteq Deps[nodes'[i].drv]
                 /\ nodes'[i].at \in {"enter", "tried"} => nodes'[i].inputs = Deps[nodes'[i].drv]
                 /\ nodes'[i].at \in {"retried", "build"} => nodes'[i].inputs = {}
                 /\ \A e \in Deps[nodes'[i].drv] \ nodes'[i].inputs :
                      Outputs[e] \subseteq validPaths \/ (i > 1 /\ nodes'[i - 1].drv = e)
      <3>1. CASE i = 1
        BY <1>4, <1>5, <3>1
      <3>2. CASE i = 2
        <4>1. \A e \in Deps[Node.drv] \ Node.inputs : Outputs[e] \subseteq validPaths
          BY <1>1 DEF NodesInv, InputsByPlace, Valid
        <4>2. nodes'[i] = x /\ nodes'[i - 1].drv = d
          BY <1>4, <1>5, <3>2
        <4> QED
          BY <1>2, <1>3, <3>2, <4>1, <4>2
      <3>3. CASE i # 1 /\ i # 2
        <4>1. i - 1 \in 1 .. n /\ i > 1 /\ nodes'[i] = nodes[i - 1] /\ i - 1 \in 1 .. n + 1 /\ i - 1 # 1
              /\ (i - 1) - 1 \in 1 .. n
          BY <1>1, <1>6, <3>3
        <4>2. nodes'[i - 1].drv = nodes[(i - 1) - 1].drv
          BY <1>6, <4>1
        <4>3. \A k \in 1 .. n :
                 /\ nodes[k].inputs \subseteq Deps[nodes[k].drv]
                 /\ nodes[k].at \in {"enter", "tried"} => nodes[k].inputs = Deps[nodes[k].drv]
                 /\ nodes[k].at \in {"retried", "build"} => nodes[k].inputs = {}
                 /\ \A e \in Deps[nodes[k].drv] \ nodes[k].inputs :
                      Outputs[e] \subseteq validPaths \/ (k > 1 /\ nodes[k - 1].drv = e)
          BY <1>1 DEF NodesInv, InputsByPlace, Valid
        <4> QED
          BY <4>1, <4>2, <4>3
      <3> QED
        BY <3>1, <3>2, <3>3
    <2> QED
      BY <1>5, <2>1 DEF InputsByPlace, Valid
  <1>11. nodes'[Len(nodes')].drv = Root
    <2>1. n \in 1 .. n /\ Len(nodes') = n + 1 /\ nodes[n].drv = Root
      BY <1>1, <1>5 DEF NodesInv
    <2> QED
      BY <1>5, <2>1
  <1>12. \A i \in 1 .. Len(nodes') - 1 :
            nodes'[i + 1].at = "inputs" /\ nodes'[i].drv \in Deps[nodes'[i + 1].drv]
    BY <1>1, <1>5, <1>7
  <1> QED
    BY <1>5, <1>8, <1>9, <1>10, <1>11, <1>12 DEF NodesInv, RealisedMeansValid

LEMMA InnermostAgrees ==
  ASSUME NodesInv, nodes # <<>>
  PROVE  AgreesWithPlace(Node) /\ Node.drv \in Drvs /\ result = "running"
  BY NodeTyped DEF NodesInv, InputsByPlace, AgreesWithPlace

LEMMA NodeGoes ==
  ASSUME NodesInv, nodes # <<>>, NEW at \in {"tried", "inputs", "retried", "build"}, Go(at),
         at = "tried" => Node.at = "enter", at \in {"retried", "build"} => Node.inputs = {},
         UNCHANGED <<validPaths, result>>,
         seenDrvs' = seenDrvs \/ seenDrvs' = seenDrvs \cup {Node.drv}
  PROVE  NodesInv'
  <1> DEFINE x == [Node EXCEPT !.at = at]
  <1>1. AgreesWithPlace(Node) /\ Node \in NodeCalls
    BY InnermostAgrees, NodeTyped
  <1>2. x \in NodeCalls /\ x.drv = Node.drv /\ x.inputs = Node.inputs /\ x.at = at
    BY <1>1 DEF NodeCalls
  <1>3. AgreesWithPlace(x)
    BY <1>1, <1>2 DEF AgreesWithPlace
  <1>4. NodeRevised(x)
    BY DEF Go, NodeRevised
  <1> HIDE DEF x
  <1> QED
    BY <1>3, <1>4, NodesMoved

LEMMA InputsFirstNodes == RealiseInv /\ InputsFirst => NodesInv'
  <1> SUFFICES ASSUME NodesInv, InputsFirst, outcome \in ClosureOutcomes PROVE NodesInv'
    BY Halves DEF ClosuresInv
  <1> DEFINE x == [Node EXCEPT !.at = "inputs", !.firstTry = outcome]
  <1>1. nodes # <<>> /\ Node.at = "tried" /\ UNCHANGED <<validPaths, seenDrvs, result>>
    BY DEF InputsFirst, AtNode, dbVars
  <1>2. AgreesWithPlace(Node) /\ Node \in NodeCalls
    BY <1>1, InnermostAgrees, NodeTyped
  <1>3. x \in NodeCalls /\ x.drv = Node.drv /\ x.inputs = Node.inputs /\ x.at = "inputs"
    BY <1>2 DEF NodeCalls
  <1>4. AgreesWithPlace(x)
    BY <1>2, <1>3 DEF AgreesWithPlace
  <1>5. NodeRevised(x)
    BY DEF InputsFirst, NodeRevised
  <1> HIDE DEF x
  <1> QED
    BY <1>1, <1>4, <1>5, NodesMoved

(* A visited input is valid already: it cannot be under way, because the   *)
(* calls around an input are for derivations that depend on it.            *)
LEMMA SeenInputIsValid ==
  ASSUME NodesInv, nodes # <<>>, NEW d \in Node.inputs, d \in seenDrvs
  PROVE  Valid(d)
  <1>1. /\ Node = nodes[1] /\ DOMAIN nodes = 1 .. Len(nodes) /\ Len(nodes) \in Nat /\ Len(nodes) >= 1
        /\ Node.drv \in Drvs
        /\ \A i \in DOMAIN nodes : nodes[i] \in NodeCalls
    BY NodeTyped
  <1>2. d \in Deps[Node.drv] /\ d \in Drvs
    BY <1>1, InnermostAgrees, GraphAssumption DEF AgreesWithPlace
  <1>3. result = "running"
    BY InnermostAgrees
  <1>4. PICK depth \in Numberings : TRUE
    BY AcyclicAssumption
  <1>5. depth[d] < depth[Node.drv] /\ depth[d] \in Nat /\ depth[Node.drv] \in Nat
    BY <1>1, <1>2, <1>4, NumberingTyped DEF Numberings
  <1>6. ASSUME NEW i \in DOMAIN nodes, nodes[i].drv = d PROVE FALSE
    <2>1. CASE i = 1
      BY <1>1, <1>5, <1>6, <2>1
    <2>2. CASE i # 1
      <3>1. 1 \in DOMAIN nodes /\ 1 < i
        BY <1>1, <2>2
      <3>2. depth[nodes[1].drv] < depth[nodes[i].drv]
        BY <1>4, <3>1 DEF NodesInv, StackDescends
      <3> QED
        BY <1>1, <1>5, <1>6, <3>2
    <2> QED
      BY <2>1, <2>2
  <1> QED
    BY <1>3, <1>6 DEF NodesInv, SeenIsDone

LEMMA NextInputNodes == ASSUME RealiseInv, NEW d \in Drvs, NextInput(d) PROVE NodesInv'
  <1> DEFINE x == [Node EXCEPT !.inputs = @ \ {d}]
  <1>1. /\ NodesInv /\ nodes # <<>> /\ Node.at = "inputs" /\ d \in Node.inputs
        /\ UNCHANGED <<validPaths, seenDrvs, result>>
    BY Halves DEF NextInput, AtNode, dbVars, Least
  <1>2. CASE d \in seenDrvs
    <2>1. AgreesWithPlace(Node) /\ Node \in NodeCalls
      BY <1>1, InnermostAgrees, NodeTyped
    <2>2. x \in NodeCalls /\ x.drv = Node.drv /\ x.inputs = Node.inputs \ {d} /\ x.at = "inputs"
      BY <1>1, <2>1 DEF NodeCalls
    <2>3. Valid(d)
      BY <1>1, <1>2, SeenInputIsValid
    <2>4. AgreesWithPlace(x)
      BY <2>1, <2>2, <2>3 DEF AgreesWithPlace
    <2>5. NodeRevised(x)
      BY <1>2 DEF NextInput, NodeRevised
    <2> HIDE DEF x
    <2> QED
      BY <1>1, <2>4, <2>5, NodesMoved
  <1>3. CASE d \notin seenDrvs
    <2>1. NodeEntered(NodeCall(d), [Node EXCEPT !.inputs = @ \ {d}])
      BY <1>3 DEF NextInput, NodeEntered
    <2> QED
      BY <1>1, <2>1, NodesEntered
  <1> QED
    BY <1>2, <1>3

\* A batch of registrations adds rows and takes none.
LEMMA Registered ==
  ASSUME NEW refs, NEW S \in SUBSET Paths, DBTypeOK,
         registerPaths([q \in S |-> [prPath |-> q, prReferences |-> refs[q]]])
  PROVE  DBTypeOK' /\ validPaths' = validPaths \cup S
  BY DEF registerPaths, insertPathRows, insertPathRefs, BatchPaths, DBTypeOK

LEMMA BuildRegisters ==
  ASSUME RealiseInv, Build
  PROVE  DBTypeOK' /\ validPaths \subseteq validPaths' /\ Outputs[Node.drv] \subseteq validPaths'
  <1> DEFINE d == Node.drv
             S == Outputs[d] \ validPaths
  <1>1. NodesInv /\ nodes # <<>> /\ DBTypeOK /\ d \in Drvs
    BY Halves, InnermostAgrees DEF Build, AtNode, ClosuresInv
  <1>2. PICK candidates :
          registerPaths([path \in S |-> [prPath |-> path, prReferences |-> Embeds[path] \cap candidates]])
    BY DEF Build
  <1> DEFINE refs == [path \in S |-> Embeds[path] \cap candidates]
  <1>3. registerPaths([path \in S |-> [prPath |-> path, prReferences |-> refs[path]]])
    <2>1. [path \in S |-> [prPath |-> path, prReferences |-> Embeds[path] \cap candidates]]
          = [path \in S |-> [prPath |-> path, prReferences |-> refs[path]]]
      OBVIOUS
    <2> QED
      BY <1>2, <2>1, Zenon
  <1>4. S \in SUBSET Paths
    BY <1>1, GraphAssumption
  <1> HIDE DEF refs, S
  <1>5. DBTypeOK' /\ validPaths' = validPaths \cup S
    BY <1>1, <1>3, <1>4, Registered
  <1> QED
    BY <1>5 DEF S

LEMMA NodeStepNodes ==
  ASSUME RealiseInv, NodeStep
  PROVE  NodesInv' /\ validPaths \subseteq validPaths' /\ DBTypeOK'
  <1>1. NodesInv /\ ClosuresInv /\ DBTypeOK
    BY Halves DEF ClosuresInv
  <1>2. nodes # <<>>
    BY DEF NodeStep, AlreadyValid, SubstituteFirst, Substituted, SubstitutionStops, InputsFirst, Retry,
           NotSubstituted, Build, BuildFails, NextInput, AtNode
  <1>3. ~Build => UNCHANGED dbVars
    BY DEF NodeStep, AlreadyValid, SubstituteFirst, Substituted, SubstitutionStops, InputsFirst, Retry,
           NotSubstituted, BuildFails, NextInput
  <1>4. ~Build => validPaths' = validPaths /\ DBTypeOK'
    BY <1>1, <1>3 DEF dbVars, DBTypeOK
  <1>5. CASE AlreadyValid
    BY <1>1, <1>2, <1>5, NodesPopped DEF AlreadyValid, AllOutputsValid, dbVars, DBTypeOK
  <1>6. CASE SubstituteFirst
    BY <1>1, <1>2, <1>6, NodeGoes DEF SubstituteFirst, AtNode, dbVars, DBTypeOK
  <1>7. CASE Substituted
    BY <1>1, <1>2, <1>7, NodesPopped DEF Substituted, ClosuresInv, OutputsCovered, Valid, dbVars, DBTypeOK
  <1>8. CASE SubstitutionStops
    <2>1. outcome \in {"failed", "queryFailed"} /\ Stop(outcome) /\ seenDrvs' = seenDrvs
          /\ UNCHANGED dbVars
      BY <1>8 DEF SubstitutionStops, Stops
    <2> QED
      BY <1>1, <2>1, NodesStopped DEF dbVars, DBTypeOK
  <1>9. CASE InputsFirst
    BY <1>9, <1>1, InputsFirstNodes DEF InputsFirst, dbVars, DBTypeOK
  <1>10. CASE Retry
    <2>1. UNCHANGED <<dbVars, result, seenDrvs>> /\ Node.inputs = {} /\ (Go("retried") \/ Go("build"))
      BY <1>10 DEF Retry
    <2> QED
      BY <1>1, <1>2, <2>1, NodeGoes DEF dbVars, DBTypeOK
  <1>11. CASE NotSubstituted
    <2>1. UNCHANGED <<dbVars, result, seenDrvs>> /\ Node.at = "retried" /\ Go("build")
      BY <1>11 DEF NotSubstituted, AtNode
    <2>2. Node.inputs = {}
      BY <1>1, <1>2, <2>1, InnermostAgrees DEF AgreesWithPlace
    <2> QED
      BY <1>1, <1>2, <2>1, <2>2, NodeGoes DEF dbVars, DBTypeOK
  <1>12. CASE Build
    BY <1>1, <1>2, <1>12, BuildRegisters, NodesPopped DEF Build
  <1>13. CASE BuildFails
    BY <1>1, <1>13, NodesStopped DEF BuildFails, dbVars, DBTypeOK
  <1>14. CASE \E d \in Drvs : NextInput(d)
    BY <1>1, <1>14, NextInputNodes DEF NextInput, dbVars, DBTypeOK
  <1> QED
    BY <1>5, <1>6, <1>7, <1>8, <1>9, <1>10, <1>11, <1>12, <1>13, <1>14 DEF NodeStep

-----------------------------------------------------------------------------
(* What the steps of realiseNode do to the calls of closureOf.             *)

LEMMA RevisedHead ==
  ASSUME NodesInv, nodes # <<>>, NEW x \in NodeCalls, NodeRevised(x)
  PROVE  nodes' # <<>> /\ Head(nodes') = x
  <1>1. nodes \in Seq(NodeCalls)
    BY DEF NodesInv
  <1>2. Revise(x, nodes) # <<>> /\ Head(Revise(x, nodes)) = x
    BY <1>1, ReviseFacts
  <1> QED
    BY <1>2 DEF NodeRevised

LEMMA GoneTo ==
  ASSUME NodesInv, nodes # <<>>, NEW at \in {"tried", "inputs", "retried", "build"}, Go(at)
  PROVE  nodes' # <<>> /\ Node'.at = at /\ Node'.drv = Node.drv
  <1> DEFINE x == [Node EXCEPT !.at = at]
  <1>1. x \in NodeCalls /\ x.at = at /\ x.drv = Node.drv
    BY NodeTyped DEF NodeCalls
  <1>2. NodeRevised(x)
    BY DEF Go, NodeRevised
  <1> HIDE DEF x
  <1>3. nodes' # <<>> /\ Head(nodes') = x
    BY <1>1, <1>2, RevisedHead
  <1> QED
    BY <1>1, <1>3 DEF Node

LEMMA PoppedTo ==
  ASSUME NodesInv, nodes # <<>>, Realised
  PROVE  /\ nodes' # <<>> => Node'.at = "inputs"
         /\ result' = "realised" \/ result' = "running"
  <1>1. nodes' = Tail(nodes) /\ nodes \in Seq(NodeCalls) /\ (result' = "realised" \/ result' = "running")
    BY InnermostAgrees DEF Realised, NodesInv
  <1>2. /\ Tail(nodes) \in Seq(NodeCalls) /\ Len(nodes) \in Nat /\ Len(nodes) >= 1
        /\ \A i \in 1 .. Len(nodes) - 1 : Tail(nodes)[i] = nodes[i + 1]
        /\ Tail(nodes) = <<>> <=> Len(nodes) = 1
    BY <1>1, TailFacts
  <1>3. ASSUME Tail(nodes) # <<>> PROVE Head(Tail(nodes)).at = "inputs"
    <2>1. 1 \in 1 .. Len(nodes) - 1 /\ Head(Tail(nodes)) = Tail(nodes)[1]
      BY <1>2, <1>3, TailFacts
    <2>2. nodes[1 + 1].at = "inputs"
      BY <2>1 DEF NodesInv
    <2> QED
      BY <1>2, <2>1, <2>2
  <1> QED
    BY <1>1, <1>3 DEF Node

LEMMA NextInputPlace ==
  ASSUME NodesInv, NEW d \in Drvs, NextInput(d)
  PROVE  nodes' # <<>> /\ Node'.at \in {"enter", "inputs"}
  <1> DEFINE x == [Node EXCEPT !.inputs = @ \ {d}]
  <1>1. nodes # <<>> /\ Node.at = "inputs" /\ Node \in NodeCalls /\ nodes \in Seq(NodeCalls)
    BY NodeTyped DEF NextInput, AtNode, NodesInv
  <1>2. x \in NodeCalls /\ x.at = "inputs"
    BY <1>1 DEF NodeCalls
  <1>3. CASE d \in seenDrvs
    <2>1. NodeRevised(x)
      BY <1>3 DEF NextInput, NodeRevised
    <2> HIDE DEF x
    <2> QED
      BY <1>1, <1>2, <2>1, RevisedHead DEF Node
  <1>4. CASE d \notin seenDrvs
    <2> HIDE DEF x
    <2>1. Revise(x, nodes) \in Seq(NodeCalls)
      BY <1>1, <1>2, ReviseFacts
    <2>2. NodeCall(d) \in NodeCalls /\ NodeCall(d).at = "enter"
      BY GraphAssumption DEF NodeCall, NodeCalls, ClosureOutcomes
    <2>3. Push(NodeCall(d), Revise(x, nodes)) # <<>> /\ Head(Push(NodeCall(d), Revise(x, nodes))) = NodeCall(d)
      BY <2>1, <2>2, PushFacts
    <2>4. nodes' = Push(NodeCall(d), Revise(x, nodes))
      BY <1>4 DEF NextInput, x
    <2> QED
      BY <2>2, <2>3, <2>4 DEF Node
  <1> QED
    BY <1>3, <1>4

\* A closure is asked for, or the innermost node is at none of its places.
LEMMA NodeStepPlace ==
  ASSUME RealiseInv, NodeStep
  PROVE  /\ closures = <<>> /\ UNCHANGED <<holds, fallback, outcome, trouble>>
         /\ \/ /\ SubstituteClosure(Outputs[Node.drv])
               /\ nodes # <<>> /\ nodes' # <<>> /\ Node'.at \in {"tried", "retried"} /\ Node'.drv = Node.drv
            \/ /\ UNCHANGED <<closures, seenPaths>>
               /\ nodes' # <<>> => Node'.at \in {"enter", "inputs", "build"}
  <1>1. NodesInv /\ nodes # <<>> /\ closures = <<>>
    BY Halves DEF NodeStep, AlreadyValid, SubstituteFirst, Substituted, SubstitutionStops, InputsFirst,
                  Retry, NotSubstituted, Build, BuildFails, NextInput, AtNode
  <1>2. UNCHANGED <<holds, fallback, outcome, trouble>>
    BY DEF NodeStep, AlreadyValid, SubstituteFirst, Substituted, SubstitutionStops, InputsFirst, Retry,
           NotSubstituted, Build, BuildFails, NextInput, world
  <1>3. CASE AlreadyValid \/ Substituted \/ Build
    BY <1>1, <1>2, <1>3, PoppedTo DEF AlreadyValid, Substituted, Build
  <1>4. CASE SubstituteFirst
    BY <1>1, <1>2, <1>4, GoneTo DEF SubstituteFirst
  <1>5. CASE SubstitutionStops \/ BuildFails
    BY <1>1, <1>2, <1>5 DEF SubstitutionStops, BuildFails, Stop
  <1>6. CASE InputsFirst
    <2> DEFINE x == [Node EXCEPT !.at = "inputs", !.firstTry = outcome]
    <2>1. x \in NodeCalls /\ x.at = "inputs"
      BY <1>1, NodeTyped, Halves DEF NodeCalls, ClosuresInv
    <2>2. NodeRevised(x) /\ UNCHANGED <<closures, seenPaths>>
      BY <1>6 DEF InputsFirst, NodeRevised
    <2> HIDE DEF x
    <2> QED
      BY <1>1, <1>2, <2>1, <2>2, RevisedHead DEF Node
  <1>7. CASE Retry
    BY <1>1, <1>2, <1>7, GoneTo DEF Retry
  <1>8. CASE NotSubstituted
    BY <1>1, <1>2, <1>8, GoneTo DEF NotSubstituted
  <1>9. CASE \E d \in Drvs : NextInput(d)
    BY <1>1, <1>2, <1>9, NextInputPlace DEF NextInput
  <1> QED
    BY <1>3, <1>4, <1>5, <1>6, <1>7, <1>8, <1>9 DEF NodeStep

LEMMA NodeStepFailure ==
  ASSUME RealiseInv, NodeStep
  PROVE  FailureIsFinal'
  <1>1. /\ NodesInv /\ FailureIsFinal /\ fallback \in BOOLEAN
        /\ fallback => outcome # "queryFailed"
    BY Halves DEF ClosuresInv
  <1>2. closures = <<>> /\ UNCHANGED <<fallback, trouble, outcome>> /\ nodes # <<>> /\ result = "running"
    BY NodeStepPlace, <1>1, InnermostAgrees
    DEF NodeStep, AlreadyValid, SubstituteFirst, Substituted, SubstitutionStops, InputsFirst, Retry,
        NotSubstituted, Build, BuildFails, NextInput, AtNode
  <1>3. CASE SubstitutionStops
    <2>1. nodes' = <<>> /\ result' = outcome /\ closures' = <<>> /\ Stops
      BY <1>2, <1>3 DEF SubstitutionStops, Stop
    <2> QED
      BY <1>1, <1>2, <2>1 DEF FailureIsFinal, Stops
  <1>4. CASE ~SubstitutionStops
    <2>1. result' \in {"running", "realised", "buildFailed"}
      BY <1>1, <1>2, <1>4, PoppedTo
      DEF NodeStep, AlreadyValid, SubstituteFirst, Substituted, InputsFirst, Retry, NotSubstituted, Build,
          BuildFails, NextInput, Stop
    <2>2. ~(Node.at \in {"tried", "retried"} /\ Stops)
      BY <1>4 DEF NodeStep, AlreadyValid, SubstituteFirst, Substituted, InputsFirst, Retry, NotSubstituted,
                  Build, BuildFails, NextInput, AtNode, Stops
    <2> QED
      BY <1>1, <1>2, <2>1, <2>2 DEF FailureIsFinal
  <1> QED
    BY <1>3, <1>4

LEMMA NodeStepClosures ==
  ASSUME RealiseInv, NodeStep
  PROVE  ClosuresInv'
  <1>1. /\ NodesInv /\ DBTypeOK' /\ holds \in [Caches -> SUBSET Paths] /\ fallback \in BOOLEAN
        /\ outcome \in ClosureOutcomes /\ seenPaths \subseteq Paths
        /\ trouble \subseteq {"failed", "refused", "strayed", "met"}
        /\ fallback => outcome # "queryFailed"
    BY NodeStepNodes, Halves DEF ClosuresInv
  <1>2. closures = <<>> /\ UNCHANGED <<holds, fallback, outcome, trouble>>
    BY NodeStepPlace
  <1>3. FailureIsFinal'
    BY NodeStepFailure
  <1>4. CASE /\ SubstituteClosure(Outputs[Node.drv])
             /\ nodes # <<>> /\ nodes' # <<>> /\ Node'.at \in {"tried", "retried"} /\ Node'.drv = Node.drv
    <2> DEFINE call == ClosureCall(Outputs[Node.drv])
    <2>1. Outputs[Node.drv] \subseteq Paths
      BY <1>1, <1>4, InnermostAgrees, GraphAssumption
    <2>2. call \in ClosureCalls /\ call.at = "valid" /\ call.paths = Outputs[Node.drv] /\ call.missing = {}
      BY <2>1 DEF ClosureCall, ClosureCalls
    <2>3. closures' = <<call>> /\ seenPaths' = Outputs[Node.drv]
      BY <1>4 DEF SubstituteClosure
    <2> HIDE DEF call
    <2>4. closures' \in Seq(ClosureCalls) /\ Len(closures') = 1 /\ closures'[1] = call /\ closures' # <<>>
          /\ DOMAIN closures' = {1}
      BY <2>2, <2>3
    <2> QED
      BY <1>1, <1>2, <1>3, <1>4, <2>1, <2>2, <2>3, <2>4
      DEF ClosuresInv, Disjoint, OutputsCovered, PathsSeen, AtNode
  <1>5. CASE /\ UNCHANGED <<closures, seenPaths>>
             /\ nodes' # <<>> => Node'.at \in {"enter", "inputs", "build"}
    <2>1. closures' = <<>> /\ closures' \in Seq(ClosureCalls) /\ DOMAIN closures' = {}
      BY <1>2, <1>5
    <2> QED
      BY <1>1, <1>2, <1>3, <1>5, <2>1 DEF ClosuresInv, Disjoint, OutputsCovered, PathsSeen, AtNode
  <1> QED
    BY <1>4, <1>5, NodeStepPlace

-----------------------------------------------------------------------------
(* What the steps of closureOf do.                                         *)

LEMMA CallTyped ==
  ASSUME ClosuresInv, closures # <<>>
  PROVE  /\ Call \in ClosureCalls /\ Call = closures[1] /\ closures \in Seq(ClosureCalls)
         /\ Len(closures) \in Nat /\ Len(closures) >= 1 /\ DOMAIN closures = 1 .. Len(closures)
         /\ \A i \in DOMAIN closures : closures[i] \in ClosureCalls
  <1>1. closures \in Seq(ClosureCalls)
    BY DEF ClosuresInv
  <1>2. Head(closures) = closures[1] /\ closures[1] \in ClosureCalls /\ Len(closures) \in Nat
        /\ Len(closures) >= 1 /\ DOMAIN closures = 1 .. Len(closures)
    BY <1>1, TailFacts
  <1>3. \A i \in DOMAIN closures : closures[i] \in ClosureCalls
    BY <1>1, <1>2, ElementOfSeq
  <1> QED
    BY <1>1, <1>2, <1>3 DEF Call

\* What every step of closureOf leaves alone, and lets grow.
StepOfClosure ==
  /\ UNCHANGED <<holds, fallback, nodes, seenDrvs, result>>
  /\ validPaths \subseteq validPaths' /\ DBTypeOK'
  /\ trouble' \subseteq {"failed", "refused", "strayed", "met"}

LEMMA NothingFailed ==
  ASSUME NodesInv, ClosuresInv, closures # <<>>
  PROVE  /\ result = "running" /\ nodes # <<>> /\ Node.at \in {"tried", "retried"}
         /\ ~fallback => "failed" \notin trouble
  BY DEF NodesInv, ClosuresInv, FailureIsFinal

CallRevised(x) == closures' = Revise(x, closures)

LEMMA ClosuresRevised ==
  ASSUME NodesInv, ClosuresInv, closures # <<>>, StepOfClosure,
         UNCHANGED <<outcome, seenPaths>>, "failed" \in trouble' => "failed" \in trouble,
         NEW x \in ClosureCalls, CallRevised(x),
         x.paths \cup x.missing \subseteq Call.paths \cup Call.missing,
         Call.paths \cup Call.missing \subseteq x.paths \cup x.missing \cup validPaths,
         x.at = "references" => x.paths = {}
  PROVE  ClosuresInv'
  <1> DEFINE n == Len(closures)
  <1>1. /\ Call = closures[1] /\ closures \in Seq(ClosureCalls)
        /\ n \in Nat /\ n >= 1 /\ DOMAIN closures = 1 .. n
    BY CallTyped
  <1>2. /\ closures' \in Seq(ClosureCalls) /\ closures' # <<>> /\ Len(closures') = n
        /\ DOMAIN closures' = 1 .. n /\ closures'[1] = x
        /\ \A i \in 1 .. n : i > 1 => closures'[i] = closures[i]
    <2>1. /\ Revise(x, closures) \in Seq(ClosureCalls) /\ Revise(x, closures) # <<>>
          /\ Len(Revise(x, closures)) = Len(closures) /\ DOMAIN Revise(x, closures) = DOMAIN closures
          /\ Revise(x, closures)[1] = x /\ Head(Revise(x, closures)) = x
          /\ \A i \in DOMAIN closures : i > 1 => Revise(x, closures)[i] = closures[i]
      BY <1>1, ReviseFacts
    <2> QED
      BY <1>1, <2>1 DEF CallRevised
  <1>3. \A i \in 1 .. n :
          closures'[i].paths \cup closures'[i].missing \subseteq closures[i].paths \cup closures[i].missing
    BY <1>1, <1>2
  <1>4. Disjoint(closures')
    <2>1. \A i, j \in 1 .. n :
            i # j => (closures[i].paths \cup closures[i].missing)
                     \cap (closures[j].paths \cup closures[j].missing) = {}
      BY <1>1 DEF ClosuresInv, Disjoint
    <2>2. \A i, j \in 1 .. n :
            i # j => (closures'[i].paths \cup closures'[i].missing)
                     \cap (closures'[j].paths \cup closures'[j].missing) = {}
      BY <1>3, <2>1
    <2> QED
      BY <1>2, <2>2 DEF Disjoint
  <1>5. PathsSeen'
    BY <1>1, <1>2, <1>3 DEF ClosuresInv, PathsSeen
  <1>6. OutputsCovered'
    <2>1. closures[n].paths \cup closures[n].missing
          \subseteq closures'[n].paths \cup closures'[n].missing \cup validPaths'
      BY <1>1, <1>2 DEF StepOfClosure
    <2>2. Outputs[Node.drv] \subseteq closures[n].paths \cup closures[n].missing \cup validPaths
      BY DEF ClosuresInv, OutputsCovered
    <2>3. Outputs[Node.drv] \subseteq closures'[n].paths \cup closures'[n].missing \cup validPaths'
      BY <2>1, <2>2 DEF StepOfClosure
    <2>4. Node' = Node
      BY DEF StepOfClosure, Node
    <2>5. \A i \in 1 .. n : closures'[i].at = "references" => closures'[i].paths = {}
      BY <1>1, <1>2 DEF ClosuresInv, OutputsCovered
    <2> QED
      BY <1>2, <2>3, <2>4, <2>5 DEF OutputsCovered, AtNode
  <1>7. FailureIsFinal'
    BY NothingFailed DEF FailureIsFinal, StepOfClosure, ClosuresInv
  <1>8. nodes' # <<>> /\ Node'.at \in {"tried", "retried"}
    BY NothingFailed DEF StepOfClosure, Node
  <1> QED
    BY <1>2, <1>4, <1>5, <1>6, <1>7, <1>8 DEF ClosuresInv, StepOfClosure

CallEntered(call, x) == closures' = Push(call, Revise(x, closures))

LEMMA ClosuresEntered ==
  ASSUME NodesInv, ClosuresInv, closures # <<>>, StepOfClosure,
         UNCHANGED <<outcome, trouble>>, NEW path \in Paths \ seenPaths,
         seenPaths' = seenPaths \cup {path},
         NEW x \in ClosureCalls, CallEntered(ClosureCall({path}), x),
         x.paths = Call.paths, x.missing = Call.missing, x.at = Call.at
  PROVE  ClosuresInv'
  <1> DEFINE n == Len(closures)
             call == ClosureCall({path})
             m == Revise(x, closures)
  <1>1. /\ Call = closures[1] /\ closures \in Seq(ClosureCalls)
        /\ n \in Nat /\ n >= 1 /\ DOMAIN closures = 1 .. n
    BY CallTyped
  <1>2. /\ call \in ClosureCalls /\ call.at = "valid" /\ call.paths = {path} /\ call.missing = {}
    BY DEF ClosureCall, ClosureCalls
  <1>3. /\ m \in Seq(ClosureCalls) /\ m # <<>>
        /\ Len(m) = Len(closures) /\ DOMAIN m = DOMAIN closures
        /\ m[1] = x /\ Head(m) = x
        /\ \A i \in DOMAIN closures : i > 1 => m[i] = closures[i]
    BY <1>1, ReviseFacts
  <1> HIDE DEF call
  <1>4. closures' = Push(call, m)
    BY DEF CallEntered, call
  <1>5. /\ Push(call, m) \in Seq(ClosureCalls) /\ Push(call, m) # <<>>
        /\ Len(Push(call, m)) = Len(m) + 1
        /\ DOMAIN Push(call, m) = 1 .. Len(m) + 1
        /\ Push(call, m)[1] = call
        /\ \A i \in 1 .. Len(m) : Push(call, m)[i + 1] = m[i]
        /\ Head(Push(call, m)) = call
    <2>1. m \in Seq(ClosureCalls)
      BY <1>3
    <2>2. call \in ClosureCalls
      BY <1>2
    <2> HIDE DEF m
    <2> QED
      BY <2>1, <2>2, PushFacts
  <1> HIDE DEF m
  <1>6. /\ closures' \in Seq(ClosureCalls) /\ closures' # <<>> /\ Len(closures') = n + 1
        /\ DOMAIN closures' = 1 .. n + 1 /\ closures'[1] = call
        /\ \A i \in 1 .. n : closures'[i + 1] = m[i]
    BY <1>3, <1>4, <1>5
  <1>7. ASSUME NEW i \in 1 .. n + 1, i # 1
        PROVE  /\ i - 1 \in 1 .. n /\ closures'[i].at = closures[i - 1].at
               /\ closures'[i].paths = closures[i - 1].paths
               /\ closures'[i].missing = closures[i - 1].missing
    <2>1. i - 1 \in 1 .. n /\ (i - 1) + 1 = i
      BY <1>1, <1>7
    <2>2. closures'[i] = m[i - 1]
      BY <1>6, <2>1
    <2>3. i - 1 = 1 \/ m[i - 1] = closures[i - 1]
      BY <1>1, <1>3, <2>1
    <2> QED
      BY <1>1, <1>3, <2>1, <2>2, <2>3
  <1>8. \A i \in 1 .. n : path \notin closures[i].paths \cup closures[i].missing
    BY <1>1 DEF ClosuresInv, PathsSeen
  <1>9. Disjoint(closures')
    <2>1. \A i, j \in 1 .. n :
            i # j => (closures[i].paths \cup closures[i].missing)
                     \cap (closures[j].paths \cup closures[j].missing) = {}
      BY <1>1 DEF ClosuresInv, Disjoint
    <2>2. ASSUME NEW i \in 1 .. n + 1, NEW j \in 1 .. n + 1, i # j
          PROVE  (closures'[i].paths \cup closures'[i].missing)
                 \cap (closures'[j].paths \cup closures'[j].missing) = {}
      <3>1. CASE i = 1
        BY <1>2, <1>6, <1>7, <1>8, <2>2, <3>1
      <3>2. CASE j = 1
        BY <1>2, <1>6, <1>7, <1>8, <2>2, <3>2
      <3>3. CASE i # 1 /\ j # 1
        <4>1. i - 1 # j - 1
          BY <1>1, <2>2
        <4> QED
          BY <1>7, <2>1, <3>3, <4>1
      <3> QED
        BY <3>1, <3>2, <3>3
    <2> QED
      BY <1>6, <2>2 DEF Disjoint
  <1>10. PathsSeen'
    <2>1. ASSUME NEW i \in 1 .. n + 1
          PROVE  closures'[i].paths \cup closures'[i].missing \subseteq seenPaths \cup {path}
      <3>1. \A k \in 1 .. n : closures[k].paths \cup closures[k].missing \subseteq seenPaths
        BY <1>1 DEF ClosuresInv, PathsSeen
      <3> QED
        BY <1>2, <1>6, <1>7, <3>1
    <2> QED
      BY <1>6, <2>1 DEF PathsSeen
  <1>11. OutputsCovered'
    <2>1. n + 1 \in 1 .. n + 1 /\ n + 1 # 1 /\ (n + 1) - 1 = n
      BY <1>1
    <2>2. closures'[n + 1].paths = closures[n].paths /\ closures'[n + 1].missing = closures[n].missing
      BY <1>7, <2>1
    <2>3. Outputs[Node.drv] \subseteq closures[n].paths \cup closures[n].missing \cup validPaths
      BY DEF ClosuresInv, OutputsCovered
    <2>4. Outputs[Node.drv] \subseteq closures'[n + 1].paths \cup closures'[n + 1].missing \cup validPaths'
      BY <2>2, <2>3 DEF StepOfClosure
    <2>5. Node' = Node
      BY DEF StepOfClosure, Node
    <2>6. \A k \in 1 .. n : closures[k].at = "references" => closures[k].paths = {}
      BY <1>1 DEF ClosuresInv, OutputsCovered
    <2>7. ASSUME NEW i \in 1 .. n + 1, closures'[i].at = "references"
          PROVE  closures'[i].paths = {}
      <3>1. i # 1
        BY <1>2, <1>6, <2>7
      <3> QED
        BY <1>7, <2>6, <2>7, <3>1
    <2> QED
      BY <1>6, <2>4, <2>5, <2>7 DEF OutputsCovered, AtNode
  <1>12. FailureIsFinal'
    BY NothingFailed DEF FailureIsFinal, StepOfClosure, ClosuresInv
  <1>13. nodes' # <<>> /\ Node'.at \in {"tried", "retried"}
    BY NothingFailed DEF StepOfClosure, Node
  <1> QED
    BY <1>6, <1>9, <1>10, <1>11, <1>12, <1>13 DEF ClosuresInv, StepOfClosure

LEMMA ClosuresReturned ==
  ASSUME NodesInv, ClosuresInv, closures # <<>>, StepOfClosure, seenPaths' = seenPaths,
         NEW o \in {"complete", "unavailable", "failed", "queryFailed"}, Return(o),
         fallback => o # "queryFailed",
         "failed" \in trouble' => "failed" \in trouble \/ o \in {"failed", "queryFailed"},
         o = "complete" /\ Len(closures) = 1 => Outputs[Node.drv] \subseteq validPaths'
  PROVE  ClosuresInv'
  <1> DEFINE n == Len(closures)
  <1>1. /\ Call = closures[1] /\ closures \in Seq(ClosureCalls)
        /\ n \in Nat /\ n >= 1 /\ DOMAIN closures = 1 .. n
    BY CallTyped
  <1>2. /\ result = "running" /\ nodes # <<>> /\ Node.at \in {"tried", "retried"} /\ Node' = Node
        /\ nodes' # <<>>
        /\ ~fallback => "failed" \notin trouble
    BY NothingFailed DEF StepOfClosure, Node
  <1>3. CASE n > 1 /\ o = "complete" /\ closures' = Tail(closures) /\ outcome' = outcome
    <2>1. /\ Tail(closures) \in Seq(ClosureCalls) /\ Len(Tail(closures)) = n - 1
          /\ DOMAIN Tail(closures) = 1 .. n - 1
          /\ \A i \in 1 .. n - 1 : Tail(closures)[i] = closures[i + 1]
          /\ Tail(closures) # <<>>
      BY <1>1, <1>3, TailFacts
    <2>2. /\ closures' \in Seq(ClosureCalls) /\ Len(closures') = n - 1 /\ DOMAIN closures' = 1 .. n - 1
          /\ \A i \in 1 .. n - 1 : closures'[i] = closures[i + 1]
          /\ closures' # <<>>
      BY <1>3, <2>1
    <2>3. \A i \in 1 .. n - 1 : i + 1 \in 1 .. n
      BY <1>1
    <2>4. Disjoint(closures')
      <3>1. \A i, j \in 1 .. n :
              i # j => (closures[i].paths \cup closures[i].missing)
                       \cap (closures[j].paths \cup closures[j].missing) = {}
        BY <1>1 DEF ClosuresInv, Disjoint
      <3>2. ASSUME NEW i \in 1 .. n - 1, NEW j \in 1 .. n - 1, i # j
            PROVE  (closures'[i].paths \cup closures'[i].missing)
                   \cap (closures'[j].paths \cup closures'[j].missing) = {}
        <4>1. i + 1 # j + 1
          BY <1>1, <3>2
        <4> QED
          BY <2>2, <2>3, <3>1, <4>1
      <3> QED
        BY <2>2, <3>2 DEF Disjoint
    <2>5. PathsSeen'
      BY <1>1, <2>2, <2>3 DEF ClosuresInv, PathsSeen
    <2>6. OutputsCovered'
      <3>1. closures'[n - 1] = closures[n]
        <4>1. n - 1 \in 1 .. n - 1 /\ (n - 1) + 1 = n
          BY <1>1, <1>3
        <4>2. closures'[n - 1] = closures[(n - 1) + 1]
          BY <2>2, <4>1
        <4> QED
          BY <4>1, <4>2
      <3>2. Outputs[Node.drv] \subseteq closures[n].paths \cup closures[n].missing \cup validPaths'
        BY DEF ClosuresInv, OutputsCovered, StepOfClosure
      <3>3. \A i \in 1 .. n - 1 : closures'[i].at = "references" => closures'[i].paths = {}
        BY <1>1, <2>2, <2>3 DEF ClosuresInv, OutputsCovered
      <3> QED
        BY <1>2, <2>2, <3>1, <3>2, <3>3 DEF OutputsCovered, AtNode
    <2>7. FailureIsFinal'
      BY <1>2, <1>3 DEF FailureIsFinal, StepOfClosure, ClosuresInv
    <2> QED
      BY <1>2, <1>3, <2>2, <2>4, <2>5, <2>6, <2>7 DEF ClosuresInv, StepOfClosure
  <1>4. CASE closures' = <<>> /\ outcome' \in {o, OfReference(o)}
             /\ (outcome' = "complete" => Outputs[Node.drv] \subseteq validPaths')
    <2>1. closures' \in Seq(ClosureCalls) /\ DOMAIN closures' = {}
      BY <1>4
    <2>2. outcome' \in ClosureOutcomes /\ (fallback => outcome' # "queryFailed")
          /\ (o \in {"failed", "queryFailed"} => outcome' = o)
      BY <1>4 DEF ClosureOutcomes, OfReference
    <2>3. FailureIsFinal'
      BY <1>2, <1>4, <2>2 DEF FailureIsFinal, StepOfClosure, ClosuresInv, Stops
    <2>4. Disjoint(closures') /\ PathsSeen' /\ OutputsCovered'
      BY <1>2, <1>4, <2>1 DEF Disjoint, PathsSeen, OutputsCovered, AtNode, Valid
    <2> QED
      BY <1>4, <2>1, <2>2, <2>3, <2>4 DEF ClosuresInv, StepOfClosure
  <1> QED
    BY <1>1, <1>3, <1>4 DEF Return, OfReference

\* What the outermost call has found and fetched is all that was asked for.
LEMMA OutermostDone ==
  ASSUME ClosuresInv, Len(closures) = 1, closures # <<>>, Call.paths = {}, Call.missing \subseteq validPaths',
         validPaths \subseteq validPaths'
  PROVE  Outputs[Node.drv] \subseteq validPaths'
  BY CallTyped DEF ClosuresInv, OutputsCovered

LEMMA LookUpClosures == ASSUME RealiseInv, NEW path \in Paths, LookUp(path) PROVE StepOfClosure /\ ClosuresInv'
  <1> DEFINE x == [Call EXCEPT !.paths = @ \ {path}, !.missing = @ \cup ({path} \ validPaths)]
  <1>1. NodesInv /\ ClosuresInv /\ closures # <<>> /\ Call.at = "valid" /\ path \in Call.paths
    BY Halves DEF LookUp, InClosure, Least
  <1>2. Call \in ClosureCalls
    BY <1>1, CallTyped
  <1>3. /\ x \in ClosureCalls /\ x.at = "valid" /\ x.paths = Call.paths \ {path}
        /\ x.missing = Call.missing \cup ({path} \ validPaths)
    BY <1>1, <1>2 DEF ClosureCalls
  <1>4. StepOfClosure /\ UNCHANGED <<outcome, seenPaths, trouble>>
    BY <1>1 DEF LookUp, StepOfClosure, ClosuresInv, dbVars, world, DBTypeOK
  <1>5. CallRevised(x)
    BY DEF LookUp, CallRevised
  <1> HIDE DEF x
  <1> QED
    BY <1>1, <1>3, <1>4, <1>5, ClosuresRevised

LEMMA NothingMissingClosures == ASSUME RealiseInv, NothingMissing PROVE StepOfClosure /\ ClosuresInv'
  <1>1. /\ NodesInv /\ ClosuresInv /\ closures # <<>> /\ Call.paths = {} /\ Call.missing = {}
        /\ Return("complete") /\ UNCHANGED <<seenPaths, trouble>>
    BY Halves DEF NothingMissing, InClosure
  <1>2. StepOfClosure
    BY <1>1 DEF NothingMissing, StepOfClosure, ClosuresInv, dbVars, world, DBTypeOK
  <1>3. Len(closures) = 1 => Outputs[Node.drv] \subseteq validPaths'
    BY <1>1, <1>2, OutermostDone DEF StepOfClosure
  <1> QED
    BY <1>1, <1>2, <1>3, ClosuresReturned

LEMMA QueryClosures == ASSUME RealiseInv, Query PROVE StepOfClosure /\ ClosuresInv'
  <1>1. NodesInv /\ ClosuresInv /\ closures # <<>> /\ Call.paths = {} /\ seenPaths' = seenPaths
        /\ Call \in ClosureCalls
    BY Halves, CallTyped DEF Query, InClosure
  <1>2. PICK down \in [Call.missing -> SUBSET Caches] :
          LET fails == \E path \in Call.missing : QueryFails(path, down[path])
              offered == \A path \in Call.missing : IsOffered(path, down[path])
              references == UNION {OfferedReferences(path, down[path]) : path \in Call.missing}
          IN
          /\ \/ /\ fails
                /\ Return("queryFailed")
             \/ /\ ~fails /\ ~offered
                /\ Return("unavailable")
             \/ /\ ~fails /\ offered
                /\ closures' = Revise([Call EXCEPT !.at = "references",
                                                   !.references = references \ Call.missing], closures)
                /\ UNCHANGED outcome
          /\ trouble' = trouble \cup {kind \in {"failed"} : fails}
                                \cup {kind \in {"strayed"} : \E path \in Call.missing : down[path] # {}}
    BY DEF Query
  <1> DEFINE fails == \E path \in Call.missing : QueryFails(path, down[path])
             references == UNION {OfferedReferences(path, down[path]) : path \in Call.missing}
             x == [Call EXCEPT !.at = "references", !.references = references \ Call.missing]
  <1>3. "failed" \in trouble' => "failed" \in trouble \/ fails
    BY <1>2
  <1>4. fails => ~fallback
    BY DEF QueryFails, Decisive, Least
  <1>5. StepOfClosure
    <2>1. trouble' \subseteq trouble \cup {"failed", "strayed"}
      BY <1>2
    <2> QED
      BY <1>1, <2>1 DEF Query, StepOfClosure, ClosuresInv, dbVars, world, DBTypeOK
  <1>6. CASE fails /\ Return("queryFailed")
    <2>1. fallback => "queryFailed" # "queryFailed"
      BY <1>4, <1>6
    <2> QED
      BY <1>1, <1>5, <1>6, <2>1, ClosuresReturned
  <1>7. CASE ~fails /\ Return("unavailable")
    <2>1. "failed" \in trouble' => "failed" \in trouble
      BY <1>3, <1>7
    <2> QED
      BY <1>1, <1>5, <1>7, <2>1, ClosuresReturned
  <1>8. CASE ~fails /\ closures' = Revise(x, closures) /\ UNCHANGED outcome
    <2>1. "failed" \in trouble' => "failed" \in trouble
      BY <1>3, <1>8
    <2>2. references \subseteq Paths
      <3>1. ASSUME NEW path \in Call.missing PROVE OfferedReferences(path, down[path]) \subseteq Paths
        <4>1. path \in Paths
          BY <1>1 DEF ClosureCalls
        <4>2. Decisive(path, down[path]) \subseteq Caches
          BY DEF Decisive
        <4> QED
          BY <4>1, <4>2, ReferencesAssumption DEF OfferedReferences, Least
      <3> QED
        BY <3>1
    <2> HIDE DEF references
    <2>3. x \in ClosureCalls /\ x.paths = Call.paths /\ x.missing = Call.missing
      BY <1>1, <2>2 DEF ClosureCalls
    <2>4. CallRevised(x)
      BY <1>8 DEF CallRevised
    <2> HIDE DEF x
    <2>5. UNCHANGED <<outcome, seenPaths>>
      BY <1>1, <1>8
    <2>6. x.paths = {}
      BY <1>1, <2>3
    <2> QED
      BY <1>1, <1>5, <2>1, <2>3, <2>4, <2>5, <2>6, ClosuresRevised
  <1>9. (fails /\ Return("queryFailed"))
        \/ (~fails /\ Return("unavailable"))
        \/ (~fails /\ closures' = Revise(x, closures) /\ UNCHANGED outcome)
    BY <1>2
  <1> QED
    BY <1>5, <1>6, <1>7, <1>8, <1>9

LEMMA NextReferenceClosures ==
  ASSUME RealiseInv, NEW path \in Paths, NextReference(path)
  PROVE  StepOfClosure /\ ClosuresInv'
  <1> DEFINE x == [Call EXCEPT !.references = @ \ {path}]
  <1>1. NodesInv /\ ClosuresInv /\ closures # <<>> /\ Call.at = "references" /\ Call \in ClosureCalls
    BY Halves, CallTyped DEF NextReference, InClosure
  <1>2. x \in ClosureCalls /\ x.at = Call.at /\ x.paths = Call.paths /\ x.missing = Call.missing
    BY <1>1 DEF ClosureCalls
  <1>3. x.at = "references" => x.paths = {}
    BY <1>1, <1>2, CallTyped DEF ClosuresInv, OutputsCovered
  <1>4. StepOfClosure /\ UNCHANGED <<outcome, trouble>>
    BY <1>1 DEF NextReference, StepOfClosure, ClosuresInv, dbVars, world, DBTypeOK
  <1>5. CASE path \in seenPaths /\ closures' = Revise(x, closures) /\ UNCHANGED seenPaths
    <2>1. CallRevised(x) /\ UNCHANGED <<outcome, seenPaths>>
      BY <1>4, <1>5 DEF CallRevised
    <2> HIDE DEF x
    <2> QED
      BY <1>1, <1>2, <1>3, <1>4, <2>1, ClosuresRevised
  <1>6. CASE /\ path \notin seenPaths /\ closures' = Push(ClosureCall({path}), Revise(x, closures))
             /\ seenPaths' = seenPaths \cup {path}
    <2>1. CallEntered(ClosureCall({path}), x) /\ path \in Paths \ seenPaths
      BY <1>6 DEF CallEntered
    <2> HIDE DEF x
    <2> QED
      BY <1>1, <1>2, <1>4, <1>6, <2>1, ClosuresEntered
  <1> QED
    BY <1>5, <1>6 DEF NextReference

LEMMA FetchClosures == ASSUME RealiseInv, Fetch PROVE StepOfClosure /\ ClosuresInv'
  <1> DEFINE fresh == Call.missing \ validPaths
             rows(from) == [path \in fresh |-> [prPath |-> path, prReferences |-> Declares[from[path]][path]]]
  <1>1. /\ NodesInv /\ ClosuresInv /\ closures # <<>> /\ Call.at = "references" /\ Call \in ClosureCalls
        /\ seenPaths' = seenPaths /\ Call.paths = {} /\ fresh \in SUBSET Paths /\ DBTypeOK
        /\ trouble \subseteq {"failed", "refused", "strayed", "met"}
        /\ UNCHANGED <<holds, fallback, nodes, seenDrvs, result>>
    <2>1. NodesInv /\ ClosuresInv /\ closures # <<>> /\ Call.at = "references"
          /\ seenPaths' = seenPaths /\ UNCHANGED <<holds, fallback, nodes, seenDrvs, result>>
      BY Halves DEF Fetch, InClosure, world
    <2>2. Call \in ClosureCalls /\ Call.paths = {}
      BY <2>1, CallTyped DEF ClosuresInv, OutputsCovered
    <2> QED
      BY <2>1, <2>2 DEF ClosuresInv, ClosureCalls
  <1>2. CASE \E from \in [fresh -> Caches] :
               registerPaths(rows(from)) /\ BatchAccepted(rows(from)) /\ Return("complete")
               /\ trouble' \subseteq trouble \cup {"strayed"}
    <2>1. PICK from \in [fresh -> Caches] :
               registerPaths(rows(from)) /\ Return("complete") /\ trouble' \subseteq trouble \cup {"strayed"}
      BY <1>2
    <2> DEFINE refs == [path \in fresh |-> Declares[from[path]][path]]
    <2>2. registerPaths([path \in fresh |-> [prPath |-> path, prReferences |-> refs[path]]])
      <3>1. rows(from) = [path \in fresh |-> [prPath |-> path, prReferences |-> refs[path]]]
        OBVIOUS
      <3> QED
        BY <2>1, <3>1, Zenon
    <2> HIDE DEF refs, rows, fresh
    <2>3. DBTypeOK' /\ validPaths' = validPaths \cup fresh
      BY <1>1, <2>2, Registered
    <2>4. StepOfClosure
      BY <1>1, <2>1, <2>3 DEF StepOfClosure
    <2>5. Len(closures) = 1 => Outputs[Node.drv] \subseteq validPaths'
      BY <1>1, <2>3, OutermostDone DEF fresh
    <2>6. "failed" \in trouble' => "failed" \in trouble
      BY <2>1
    <2> QED
      BY <1>1, <2>1, <2>4, <2>5, <2>6, ClosuresReturned
  <1>3. CASE UNCHANGED dbVars /\ trouble' \subseteq trouble \cup {"failed", "refused", "strayed"}
             /\ (Return("failed") \/ (Return("unavailable") /\ trouble' \subseteq trouble \cup {"strayed"}))
    <2>1. StepOfClosure
      BY <1>1, <1>3 DEF StepOfClosure, dbVars, DBTypeOK
    <2>2. CASE Return("failed")
      BY <1>1, <2>1, <2>2, ClosuresReturned
    <2>3. CASE Return("unavailable") /\ trouble' \subseteq trouble \cup {"strayed"}
      <3>1. "failed" \in trouble' => "failed" \in trouble
        BY <2>3
      <3> QED
        BY <1>1, <2>1, <2>3, <3>1, ClosuresReturned
    <2> QED
      BY <1>3, <2>1, <2>2, <2>3
  <1>4. ASSUME NEW from \in [fresh -> Caches],
               trouble' = trouble \cup {kind \in {"strayed"} :
                                         \E path \in fresh : ~Least(from[path], Holders(path))}
                                 \cup {kind \in {"failed", "refused"} : ~BatchAccepted(rows(from))},
               \/ registerPaths(rows(from)) /\ Return("complete")
               \/ registerPathsRefused(rows(from)) /\ Return("failed")
        PROVE  StepOfClosure /\ ClosuresInv'
    <2>1. CASE registerPaths(rows(from)) /\ Return("complete")
      <3>1. BatchAccepted(rows(from))
        BY <2>1 DEF registerPaths
      <3>2. trouble' \subseteq trouble \cup {"strayed"}
        BY <1>4, <3>1
      <3> HIDE DEF rows, fresh
      <3> QED
        BY <1>2, <2>1, <3>1, <3>2
    <2>2. CASE registerPathsRefused(rows(from)) /\ Return("failed")
      <3>1. UNCHANGED dbVars
        BY <2>2 DEF registerPathsRefused
      <3>2. trouble' \subseteq trouble \cup {"failed", "refused", "strayed"}
        BY <1>4
      <3> QED
        BY <1>3, <2>2, <3>1, <3>2
    <2> QED
      BY <1>4, <2>1, <2>2
  <1>5. \/ \E from \in [fresh -> Caches] :
             /\ trouble' = trouble \cup {kind \in {"strayed"} :
                                         \E path \in fresh : ~Least(from[path], Holders(path))}
                                   \cup {kind \in {"failed", "refused"} : ~BatchAccepted(rows(from))}
             /\ \/ registerPaths(rows(from)) /\ Return("complete")
                \/ registerPathsRefused(rows(from)) /\ Return("failed")
        \/ /\ trouble' = trouble \cup {"failed"}
           /\ Return("failed") /\ UNCHANGED dbVars
        \/ /\ trouble' = trouble \cup {"strayed"}
           /\ Return("unavailable") /\ UNCHANGED dbVars
    BY DEF Fetch
  <1>6. CASE trouble' = trouble \cup {"failed"} /\ Return("failed") /\ UNCHANGED dbVars
    BY <1>3, <1>6
  <1>7. CASE trouble' = trouble \cup {"strayed"} /\ Return("unavailable") /\ UNCHANGED dbVars
    BY <1>3, <1>7
  <1> HIDE DEF rows, fresh
  <1> QED
    BY <1>4, <1>5, <1>6, <1>7

LEMMA ClosureStepInductive == RealiseInv /\ ClosureStep => RealiseInv'
  <1> SUFFICES ASSUME RealiseInv, ClosureStep PROVE RealiseInv'
    OBVIOUS
  <1>1. StepOfClosure /\ ClosuresInv'
    BY LookUpClosures, NothingMissingClosures, QueryClosures, NextReferenceClosures, FetchClosures
    DEF ClosureStep
  <1>2. NodesInv'
    BY <1>1, Halves, NodesKept DEF StepOfClosure
  <1> QED
    BY <1>1, <1>2, Halves

LEMMA NodeStepInductive == RealiseInv /\ NodeStep => RealiseInv'
  BY NodeStepNodes, NodeStepClosures, Halves

-----------------------------------------------------------------------------
(* The rest of the next-state relation, and the theorems.                  *)

LEMMA OtherRegistersInductive == ASSUME RealiseInv, NEW path \in Paths, OtherRegisters(path) PROVE RealiseInv'
  <1>1. NodesInv /\ ClosuresInv /\ DBTypeOK
    BY Halves DEF ClosuresInv
  <1> DEFINE refs == [q \in {path} |-> Embeds[q]]
  <1>2. registerPaths([q \in {path} |-> [prPath |-> q, prReferences |-> refs[q]]])
    <2>1. [q \in {path} |-> [prPath |-> q, prReferences |-> Embeds[q]]]
          = [q \in {path} |-> [prPath |-> q, prReferences |-> refs[q]]]
      OBVIOUS
    <2> QED
      BY <2>1, Zenon DEF OtherRegisters
  <1> HIDE DEF refs
  <1>3. {path} \in SUBSET Paths
    OBVIOUS
  <1>4. DBTypeOK' /\ validPaths' = validPaths \cup {path}
    BY <1>1, <1>2, <1>3, Registered
  <1>5. UNCHANGED <<holds, fallback, nodes, closures, outcome, seenDrvs, seenPaths, result>>
        /\ trouble' = trouble \cup {"met"}
    BY DEF OtherRegisters, world, callVars
  <1>6. NodesInv'
    BY <1>1, <1>4, <1>5, NodesKept
  <1>7. OutputsCovered'
    BY <1>1, <1>4, <1>5 DEF ClosuresInv, OutputsCovered, AtNode, Valid, Node
  <1>8. Disjoint(closures)' /\ PathsSeen' /\ FailureIsFinal'
    BY <1>1, <1>5 DEF ClosuresInv, Disjoint, PathsSeen, FailureIsFinal, Stops, Node
  <1>9. ClosuresInv'
    BY <1>1, <1>4, <1>5, <1>7, <1>8 DEF ClosuresInv, Node
  <1> QED
    BY <1>6, <1>9, Halves

LEMMA InitInductive == Init => RealiseInv
  <1> SUFFICES ASSUME Init PROVE NodesInv /\ ClosuresInv
    BY Halves
  <1> DEFINE call == NodeCall(Root)
  <1>1. Root \in Drvs /\ Deps[Root] \subseteq Drvs
    BY GraphAssumption
  <1>2. call \in NodeCalls /\ call.drv = Root /\ call.at = "enter" /\ call.inputs = Deps[Root]
    BY <1>1 DEF NodeCall, NodeCalls, ClosureOutcomes
  <1>3. nodes = <<call>>
    BY DEF Init
  <1> HIDE DEF call
  <1>4. nodes \in Seq(NodeCalls) /\ Len(nodes) = 1 /\ DOMAIN nodes = {1} /\ nodes[1] = call /\ nodes # <<>>
    BY <1>2, <1>3
  <1>5. NodesInv
    BY <1>1, <1>2, <1>4
    DEF Init, NodesInv, StackDescends, SeenIsDone, InputsByPlace, RealisedMeansValid
  <1>6. DBTypeOK /\ holds \in [Caches -> SUBSET Paths]
    BY WorldsAssumption DEF Init, DBTypeOK
  <1>7. closures = <<>> /\ closures \in Seq(ClosureCalls) /\ DOMAIN closures = {}
    BY DEF Init
  <1>8. Node.at = "enter"
    BY <1>2, <1>3 DEF Node
  <1>9. ClosuresInv
    BY <1>6, <1>7, <1>8
    DEF Init, ClosuresInv, ClosureOutcomes, Disjoint, OutputsCovered, PathsSeen, FailureIsFinal, AtNode
  <1> QED
    BY <1>5, <1>9

LEMMA StutterInductive == RealiseInv /\ UNCHANGED vars => RealiseInv'
  <1> SUFFICES ASSUME RealiseInv, UNCHANGED vars PROVE RealiseInv'
    OBVIOUS
  <1>1. /\ UNCHANGED <<nodes, closures, outcome, seenDrvs, seenPaths, result, trouble, holds, fallback>>
        /\ UNCHANGED <<validPaths, refsTable>>
    BY DEF vars
  <1>2. NodesInv'
    BY <1>1, Halves, NodesKept
  <1>3. ClosuresInv'
    BY <1>1, Halves
    DEF ClosuresInv, DBTypeOK, Disjoint, OutputsCovered, PathsSeen, FailureIsFinal, Stops, AtNode, Node, Valid
  <1> QED
    BY <1>2, <1>3, Halves

LEMMA NextInductive == RealiseInv /\ [Next]_vars => RealiseInv'
  BY ClosureStepInductive, NodeStepInductive, OtherRegistersInductive, StutterInductive DEF Next, Ended

(* The inductive invariant: what the calls of realiseNode and of closureOf *)
(* have reached, and what is valid by then.                                *)
THEOREM Inductive == Spec => []RealiseInv
  <1>1. Init => RealiseInv
    BY InitInductive
  <1>2. RealiseInv /\ [Next]_vars => RealiseInv'
    BY NextInductive
  <1> QED
    BY <1>1, <1>2, PTL DEF Spec

(* Calls are for inputs of the derivation around them, and no path is      *)
(* being substituted twice, whatever cycles the caches declare.            *)
THEOREM CallsNestHolds == Spec => []CallsNest
  <1>1. RealiseInv => CallsNest
    BY DEF RealiseInv
  <1> QED
    BY <1>1, Inductive, PTL

(* A derivation is about to be built only with all outputs of all its      *)
(* inputs valid (validateInputs never refuses).                            *)
THEOREM BuildsOnInputsHolds == Spec => []BuildsOnInputs
  <1>1. RealiseInv => BuildsOnInputs
    BY Halves, InnermostAgrees DEF BuildsOnInputs, AtNode, AgreesWithPlace, Valid
  <1> QED
    BY <1>1, Inductive, PTL

(* A failure of a cache ends the build without fallback, and never with    *)
(* it (substitutionStop).                                                  *)
THEOREM FailureIsFinalHolds == Spec => []FailureIsFinal
  <1>1. RealiseInv => FailureIsFinal
    BY DEF RealiseInv
  <1> QED
    BY <1>1, Inductive, PTL

(* When realise reports success, every output of the root is valid.        *)
THEOREM RealisedMeansValidHolds == Spec => []RealisedMeansValid
  <1>1. RealiseInv => RealisedMeansValid
    BY DEF RealiseInv
  <1> QED
    BY <1>1, Inductive, PTL
-----------------------------------------------------------------------------
(* What the calls of closureOf know of the references they follow.         *)

\* Some number of a set is the greatest.
LEMMA GreatestUpTo ==
  ASSUME NEW n \in Nat, NEW T \in SUBSET (1 .. n), T # {}
  PROVE  \E x \in T : \A y \in T : y <= x
  <1> DEFINE less == {pair \in Nat \X Nat : pair[1] < pair[2]}
             gaps == {n - t : t \in T}
  <1>1. IsWellFoundedOn(less, Nat)
    BY ONLY NatLessThanWellFounded, Zenon DEF OpToRel
  <1>2. \A x, y \in Nat : y < x => <<y, x>> \in less
    OBVIOUS
  <1>3. gaps \subseteq Nat /\ gaps # {}
    <2>1. PICK t \in T : TRUE
      OBVIOUS
    <2>2. n - t \in gaps
      OBVIOUS
    <2>3. \A u \in T : u \in Nat /\ u <= n
      OBVIOUS
    <2>4. \A u \in T : n - u \in Nat
      BY <2>3
    <2> QED
      BY <2>2, <2>4
  <1> HIDE DEF less
  <1>4. PICK gap \in gaps : \A y \in gaps : ~ (<<y, gap>> \in less)
    BY <1>1, <1>3, WFMin
  <1>5. PICK x \in T : gap = n - x
    BY <1>4
  <1>6. ASSUME NEW y \in T PROVE y <= x
    <2>1. n - y \in gaps /\ n - y \in Nat /\ n - x \in Nat
      OBVIOUS
    <2>2. ~ (n - y < n - x)
      BY <1>2, <1>4, <1>5, <2>1
    <2> QED
      BY <2>2
  <1> QED
    BY <1>6

\* What a call was asked for and has not found valid.
Asked(call) == call.paths \cup call.missing

\* The outermost call is for outputs of d, and every other one for a single
\* path besides them, while the call around it goes through its references.
Nested(calls, d) ==
  /\ calls # <<>> => Asked(calls[Len(calls)]) \subseteq Outputs[d]
  /\ \A i \in DOMAIN calls : calls[i].at = "references" => calls[i].missing # {}
  /\ \A i \in 1 .. Len(calls) - 1 :
       /\ calls[i + 1].at = "references"
       /\ Asked(calls[i]) \cap Outputs[d] = {}
       /\ \A x, y \in Asked(calls[i]) : x = y

\* That path is declared a reference of one the call around it misses.  What is
\* declared of those is visited, still to come, or among them.
Referred(calls, seen, refs) ==
  /\ \A i \in 1 .. Len(calls) - 1 : \A x \in Asked(calls[i]) :
       \E q \in calls[i + 1].missing : x \in refs[q]
  /\ \A i \in DOMAIN calls : calls[i].at = "references" =>
       /\ \A q \in calls[i].missing : refs[q] \subseteq calls[i].missing \cup calls[i].references \cup seen
       /\ \A x \in calls[i].references : \E q \in calls[i].missing : x \in refs[q]

\* What was visited is valid, or asked for by a call under way.
UnderWay(calls, seen, valid) ==
  \A path \in seen : path \in valid \/ \E i \in DOMAIN calls : path \in Asked(calls[i])

MissingStill(calls, valid) == \A i \in DOMAIN calls : calls[i].missing \cap valid = {}

References == [path \in Paths |-> Declared(path)]

ReferencesInv ==
  /\ Nested(closures, Node.drv)
  /\ closures # <<>> => Outputs[Node.drv] \subseteq seenPaths /\ UnderWay(closures, seenPaths, validPaths)
  /\ "strayed" \notin trouble => Referred(closures, seenPaths, References)
  /\ trouble = {} => MissingStill(closures, validPaths)

LEMMA StackRevised ==
  ASSUME NEW calls \in Seq(ClosureCalls), calls # <<>>, NEW x \in ClosureCalls, NEW d, NEW seen, NEW valid,
         NEW refs, Nested(calls, d), UnderWay(calls, seen, valid),
         Asked(x) \subseteq Asked(calls[1]), Asked(calls[1]) \subseteq Asked(x) \cup valid,
         x.at = "references" => x.missing # {}
  PROVE  /\ Nested(Revise(x, calls), d)
         /\ UnderWay(Revise(x, calls), seen, valid)
         /\ MissingStill(calls, valid) /\ x.missing \cap valid = {} => MissingStill(Revise(x, calls), valid)
         /\ /\ Referred(calls, seen, refs)
            /\ x.at = "references" =>
                 /\ \A q \in x.missing : refs[q] \subseteq x.missing \cup x.references \cup seen
                 /\ \A r \in x.references : \E q \in x.missing : r \in refs[q]
            => Referred(Revise(x, calls), seen, refs)
  <1> DEFINE m == Revise(x, calls)
             n == Len(calls)
  <1>1. /\ n \in Nat /\ n >= 1 /\ DOMAIN calls = 1 .. n
        /\ m # <<>> /\ Len(m) = n /\ DOMAIN m = 1 .. n
        /\ m[1] = x /\ \A i \in 1 .. n : i > 1 => m[i] = calls[i]
    <2>1. /\ Tail(calls) \in Seq(ClosureCalls)
          /\ Len(calls) \in Nat /\ Len(calls) >= 1
          /\ DOMAIN calls = 1 .. Len(calls)
      BY TailFacts
    <2>2. /\ Revise(x, calls) \in Seq(ClosureCalls) /\ Revise(x, calls) # <<>>
          /\ Len(Revise(x, calls)) = Len(calls) /\ DOMAIN Revise(x, calls) = DOMAIN calls
          /\ Revise(x, calls)[1] = x /\ Head(Revise(x, calls)) = x
          /\ \A i \in DOMAIN calls : i > 1 => Revise(x, calls)[i] = calls[i]
      BY ReviseFacts
    <2> QED
      BY <2>1, <2>2
  <1> HIDE DEF m, n
  <1>2. \A i \in 1 .. n : Asked(m[i]) \subseteq Asked(calls[i]) /\ Asked(calls[i]) \subseteq Asked(m[i]) \cup valid
    BY <1>1
  <1>3. \A i \in 1 .. n - 1 : i \in 1 .. n /\ i + 1 \in 1 .. n /\ m[i + 1] = calls[i + 1]
    BY <1>1
  <1>4. Nested(m, d)
    <2>1. Asked(calls[n]) \subseteq Outputs[d] /\ n \in 1 .. n
      BY <1>1 DEF Nested, n
    <2>2. \A i \in 1 .. n : m[i].at = "references" => m[i].missing # {}
      BY <1>1 DEF Nested
    <2>3. ASSUME NEW i \in 1 .. n - 1
          PROVE  /\ m[i + 1].at = "references"
                 /\ Asked(m[i]) \cap Outputs[d] = {}
                 /\ \A y, z \in Asked(m[i]) : y = z
      <3>1. /\ calls[i + 1].at = "references"
            /\ Asked(calls[i]) \cap Outputs[d] = {}
            /\ \A y, z \in Asked(calls[i]) : y = z
        BY DEF Nested, n
      <3>2. m[i + 1] = calls[i + 1] /\ Asked(m[i]) \subseteq Asked(calls[i])
        BY <1>2, <1>3
      <3> QED
        BY <3>1, <3>2
    <2>4. Asked(m[n]) \subseteq Outputs[d]
      BY <1>2, <2>1
    <2> QED
      BY <1>1, <2>2, <2>3, <2>4 DEF Nested
  <1>5. UnderWay(m, seen, valid)
    BY <1>1, <1>2 DEF UnderWay
  <1>6. MissingStill(calls, valid) /\ x.missing \cap valid = {} => MissingStill(m, valid)
    BY <1>1 DEF MissingStill
  <1>7. ASSUME Referred(calls, seen, refs),
               x.at = "references" =>
                     /\ \A q \in x.missing : refs[q] \subseteq x.missing \cup x.references \cup seen
                     /\ \A r \in x.references : \E q \in x.missing : r \in refs[q]
        PROVE  Referred(m, seen, refs)
    <2>1. ASSUME NEW i \in 1 .. n - 1, NEW y \in Asked(m[i])
          PROVE  \E q \in m[i + 1].missing : y \in refs[q]
      <3>1. m[i + 1] = calls[i + 1] /\ y \in Asked(calls[i])
        BY <1>2, <1>3
      <3>2. \E q \in calls[i + 1].missing : y \in refs[q]
        BY <1>7, <3>1 DEF Referred, n
      <3> QED
        BY <3>1, <3>2
    <2>2. ASSUME NEW i \in 1 .. n, m[i].at = "references"
          PROVE  /\ \A q \in m[i].missing : refs[q] \subseteq m[i].missing \cup m[i].references \cup seen
                 /\ \A y \in m[i].references : \E q \in m[i].missing : y \in refs[q]
      <3>1. CASE i = 1
        BY <1>1, <1>7, <2>2, <3>1
      <3>2. CASE i > 1
        <4>1. m[i] = calls[i]
          BY <1>1, <3>2
        <4> QED
          BY <1>1, <1>7, <2>2, <4>1 DEF Referred
      <3> QED
        BY <1>1, <3>1, <3>2
    <2> QED
      BY <1>1, <2>1, <2>2 DEF Referred
  <1> QED
    BY <1>4, <1>5, <1>6, <1>7 DEF m

LEMMA StackPushed ==
  ASSUME NEW calls \in Seq(ClosureCalls), calls # <<>>, NEW path \in Paths, NEW d, NEW seen, NEW valid, NEW refs,
         Nested(calls, d), UnderWay(calls, seen, valid), calls[1].at = "references", path \notin Outputs[d]
  PROVE  /\ Nested(Push(ClosureCall({path}), calls), d)
         /\ UnderWay(Push(ClosureCall({path}), calls), seen \cup {path}, valid)
         /\ MissingStill(calls, valid) => MissingStill(Push(ClosureCall({path}), calls), valid)
         /\ /\ Referred(calls, seen \cup {path}, refs)
            /\ \E q \in calls[1].missing : path \in refs[q]
            => Referred(Push(ClosureCall({path}), calls), seen \cup {path}, refs)
  <1> DEFINE new == ClosureCall({path})
             m == Push(new, calls)
             n == Len(calls)
  <1>1. new \in ClosureCalls /\ new.at = "valid" /\ Asked(new) = {path} /\ new.missing = {}
    BY DEF ClosureCall, ClosureCalls, Asked
  <1> HIDE DEF new
  <1>2. /\ n \in Nat /\ n >= 1 /\ DOMAIN calls = 1 .. n
        /\ m # <<>> /\ Len(m) = n + 1 /\ DOMAIN m = 1 .. n + 1
        /\ m[1] = new /\ \A i \in 1 .. n : m[i + 1] = calls[i]
    <2>1. /\ Tail(calls) \in Seq(ClosureCalls)
          /\ Len(calls) \in Nat /\ Len(calls) >= 1
          /\ DOMAIN calls = 1 .. Len(calls)
      BY TailFacts
    <2>2. /\ Push(new, calls) \in Seq(ClosureCalls) /\ Push(new, calls) # <<>>
          /\ Len(Push(new, calls)) = Len(calls) + 1
          /\ DOMAIN Push(new, calls) = 1 .. Len(calls) + 1
          /\ Push(new, calls)[1] = new
          /\ \A i \in 1 .. Len(calls) : Push(new, calls)[i + 1] = calls[i]
          /\ Head(Push(new, calls)) = new
      BY <1>1, PushFacts
    <2> QED
      BY <2>1, <2>2
  <1> HIDE DEF m, n
  <1>3. \A i \in 1 .. n + 1 : i # 1 => \E j \in 1 .. n : i = j + 1 /\ m[i] = calls[j]
    <2> SUFFICES ASSUME NEW i \in 1 .. n + 1, i # 1 PROVE \E j \in 1 .. n : i = j + 1 /\ m[i] = calls[j]
      OBVIOUS
    <2>1. i - 1 \in 1 .. n /\ i = (i - 1) + 1
      BY <1>2
    <2> QED
      BY <1>2, <2>1
  <1>4. \A i \in 1 .. n : i + 1 \in 1 .. n + 1 /\ m[i + 1] = calls[i]
    BY <1>2
  <1>5. 1 \in 1 .. n /\ n \in 1 .. n /\ m[1 + 1] = calls[1] /\ m[n + 1] = calls[n] /\ n + 1 \in 1 .. n + 1
    BY <1>2
  <1>6. Nested(m, d)
    <2>1. Asked(m[n + 1]) \subseteq Outputs[d]
      BY <1>2, <1>5 DEF Nested, n
    <2>2. \A i \in 1 .. n + 1 : m[i].at = "references" => m[i].missing # {}
      BY <1>1, <1>2, <1>3 DEF Nested
    <2>3. ASSUME NEW i \in 1 .. n
          PROVE  /\ m[i + 1].at = "references"
                 /\ Asked(m[i]) \cap Outputs[d] = {}
                 /\ \A y, z \in Asked(m[i]) : y = z
      <3>1. CASE i = 1
        BY <1>1, <1>2, <1>5, <3>1
      <3>2. CASE i # 1
        <4>1. PICK j \in 1 .. n : i = j + 1 /\ m[i] = calls[j]
          BY <1>2, <1>3, <3>2
        <4>2. j \in 1 .. n - 1
          BY <1>2, <4>1
        <4>3. /\ calls[j + 1].at = "references"
              /\ Asked(calls[j]) \cap Outputs[d] = {}
              /\ \A y, z \in Asked(calls[j]) : y = z
          BY <4>2 DEF Nested, n
        <4>4. m[i + 1] = calls[j + 1]
          BY <1>4, <4>1
        <4> QED
          BY <4>1, <4>3, <4>4
      <3> QED
        BY <3>1, <3>2
    <2>4. (n + 1) - 1 = n
      BY <1>2
    <2> QED
      BY <1>2, <2>1, <2>2, <2>3, <2>4 DEF Nested
  <1>7. UnderWay(m, seen \cup {path}, valid)
    <2>1. \A q \in seen : q \in valid \/ \E i \in 1 .. n : q \in Asked(calls[i])
      BY <1>2 DEF UnderWay
    <2>2. \A q \in seen : q \in valid \/ \E i \in 1 .. n + 1 : q \in Asked(m[i])
      BY <1>4, <2>1
    <2>3. path \in Asked(m[1]) /\ 1 \in 1 .. n + 1
      BY <1>1, <1>2
    <2> QED
      BY <1>2, <2>2, <2>3 DEF UnderWay
  <1>8. ASSUME MissingStill(calls, valid) PROVE MissingStill(m, valid)
    BY <1>1, <1>2, <1>3, <1>8 DEF MissingStill
  <1>9. ASSUME Referred(calls, seen \cup {path}, refs), \E q \in calls[1].missing : path \in refs[q]
        PROVE  Referred(m, seen \cup {path}, refs)
    <2>1. ASSUME NEW i \in 1 .. n, NEW y \in Asked(m[i])
          PROVE  \E q \in m[i + 1].missing : y \in refs[q]
      <3>1. CASE i = 1
        BY <1>1, <1>2, <1>5, <1>9, <2>1, <3>1
      <3>2. CASE i # 1
        <4>1. PICK j \in 1 .. n : i = j + 1 /\ m[i] = calls[j]
          BY <1>2, <1>3, <3>2
        <4>2. j \in 1 .. n - 1
          BY <1>2, <4>1
        <4>3. \E q \in calls[j + 1].missing : y \in refs[q]
          BY <1>9, <2>1, <4>1, <4>2 DEF Referred, n
        <4>4. m[i + 1] = calls[j + 1]
          BY <1>4, <4>1
        <4> QED
          BY <4>3, <4>4
      <3> QED
        BY <3>1, <3>2
    <2>2. ASSUME NEW i \in 1 .. n + 1, m[i].at = "references"
          PROVE  /\ \A q \in m[i].missing : refs[q] \subseteq m[i].missing \cup m[i].references \cup (seen \cup {path})
                 /\ \A y \in m[i].references : \E q \in m[i].missing : y \in refs[q]
      <3>1. i # 1
        BY <1>1, <1>2, <2>2
      <3>2. PICK j \in 1 .. n : i = j + 1 /\ m[i] = calls[j]
        BY <1>3, <3>1
      <3> QED
        BY <1>2, <1>9, <2>2, <3>2 DEF Referred
    <2>3. (n + 1) - 1 = n
      BY <1>2
    <2> QED
      BY <1>2, <2>1, <2>2, <2>3 DEF Referred
  <1> QED
    BY <1>6, <1>7, <1>8, <1>9 DEF m, new

LEMMA StackPopped ==
  ASSUME NEW calls \in Seq(ClosureCalls), calls # <<>>, Tail(calls) # <<>>, NEW d, NEW seen, NEW refs,
         NEW valid, NEW more, Nested(calls, d), UnderWay(calls, seen, valid),
         valid \subseteq more, Asked(calls[1]) \subseteq more
  PROVE  /\ Nested(Tail(calls), d)
         /\ UnderWay(Tail(calls), seen, more)
         /\ Disjoint(calls) /\ MissingStill(calls, valid) /\ more \subseteq valid \cup calls[1].missing
            => MissingStill(Tail(calls), more)
         /\ Referred(calls, seen, refs) => Referred(Tail(calls), seen, refs)
  <1> DEFINE m == Tail(calls)
  <1>1. PICK n : n = Len(calls)
    OBVIOUS
  <1>2. /\ n \in Nat /\ n >= 1 /\ DOMAIN calls = 1 .. n
        /\ Len(m) = n - 1 /\ DOMAIN m = 1 .. n - 1
        /\ \A i \in 1 .. n - 1 : m[i] = calls[i + 1]
        /\ m = <<>> <=> n = 1
    <2>1. /\ Tail(calls) \in Seq(ClosureCalls)
          /\ Len(calls) \in Nat /\ Len(calls) >= 1
          /\ DOMAIN calls = 1 .. Len(calls)
          /\ Len(Tail(calls)) = Len(calls) - 1
          /\ DOMAIN Tail(calls) = 1 .. Len(calls) - 1
          /\ \A i \in 1 .. Len(calls) - 1 : Tail(calls)[i] = calls[i + 1]
          /\ Head(calls) = calls[1] /\ calls[1] \in ClosureCalls
          /\ Tail(calls) = <<>> <=> Len(calls) = 1
      BY TailFacts
    <2> QED
      BY <1>1, <2>1
  <1>3. m # <<>>
    OBVIOUS
  <1> HIDE DEF m
  <1>4. /\ n > 1 /\ n - 1 \in 1 .. n - 1 /\ n - 1 \in Nat /\ m[n - 1] = calls[n]
        /\ \A i \in 1 .. n - 1 : i + 1 \in 1 .. n /\ i + 1 # 1
        /\ \A i \in 1 .. (n - 1) - 1 : i \in 1 .. n - 1 /\ i + 1 \in 1 .. n - 1 /\ m[i] = calls[i + 1]
                                       /\ m[i + 1] = calls[(i + 1) + 1]
        /\ \A j \in 1 .. n : j # 1 => j - 1 \in 1 .. n - 1 /\ m[j - 1] = calls[j]
    <2>1. n > 1
      BY <1>2, <1>3
    <2>2. n - 1 \in 1 .. n - 1 /\ (n - 1) + 1 = n
      BY <1>2, <2>1
    <2>3. \A j \in 1 .. n : j # 1 => j - 1 \in 1 .. n - 1 /\ (j - 1) + 1 = j
      BY <1>2
    <2>4. \A i \in 1 .. (n - 1) - 1 : i \in 1 .. n - 1 /\ i + 1 \in 1 .. n - 1
      BY <1>2
    <2>5. \A i \in 1 .. n - 1 : i + 1 \in 1 .. n /\ i + 1 # 1
      BY <1>2
    <2> QED
      BY <1>2, <2>1, <2>2, <2>3, <2>4, <2>5
  <1>5. Nested(m, d)
    <2>1. Asked(m[n - 1]) \subseteq Outputs[d]
      BY <1>1, <1>4 DEF Nested
    <2>2. \A i \in 1 .. n - 1 : m[i].at = "references" => m[i].missing # {}
      BY <1>2, <1>4 DEF Nested
    <2>3. ASSUME NEW i \in 1 .. (n - 1) - 1
          PROVE  /\ m[i + 1].at = "references"
                 /\ Asked(m[i]) \cap Outputs[d] = {}
                 /\ \A y, z \in Asked(m[i]) : y = z
      <3>1. i + 1 \in 1 .. n - 1 /\ m[i] = calls[i + 1] /\ m[i + 1] = calls[(i + 1) + 1]
        BY <1>4
      <3>2. /\ calls[(i + 1) + 1].at = "references"
            /\ Asked(calls[i + 1]) \cap Outputs[d] = {}
            /\ \A y, z \in Asked(calls[i + 1]) : y = z
        BY <1>1, <3>1 DEF Nested
      <3> QED
        BY <3>1, <3>2
    <2> QED
      BY <1>2, <2>1, <2>2, <2>3 DEF Nested
  <1>6. UnderWay(m, seen, more)
    <2>1. ASSUME NEW q \in seen, q \notin more PROVE \E i \in 1 .. n - 1 : q \in Asked(m[i])
      <3>1. PICK j \in 1 .. n : q \in Asked(calls[j])
        BY <1>2, <2>1 DEF UnderWay
      <3>2. j # 1
        BY <2>1, <3>1
      <3> QED
        BY <1>4, <3>1, <3>2
    <2> QED
      BY <1>2, <2>1 DEF UnderWay
  <1>7. ASSUME Disjoint(calls), MissingStill(calls, valid), more \subseteq valid \cup calls[1].missing
        PROVE  MissingStill(m, more)
    <2>1. ASSUME NEW i \in 1 .. n - 1 PROVE m[i].missing \cap more = {}
      <3>1. i + 1 \in 1 .. n /\ 1 \in 1 .. n /\ i + 1 # 1 /\ m[i] = calls[i + 1]
        BY <1>2, <1>4
      <3>2. calls[i + 1].missing \cap calls[1].missing = {} /\ calls[i + 1].missing \cap valid = {}
        BY <1>2, <1>7, <3>1 DEF Disjoint, MissingStill
      <3> QED
        BY <1>7, <3>1, <3>2
    <2> QED
      BY <1>2, <2>1 DEF MissingStill
  <1>8. ASSUME Referred(calls, seen, refs) PROVE Referred(m, seen, refs)
    <2>1. ASSUME NEW i \in 1 .. (n - 1) - 1, NEW y \in Asked(m[i])
          PROVE  \E q \in m[i + 1].missing : y \in refs[q]
      <3>1. i + 1 \in 1 .. n - 1 /\ m[i] = calls[i + 1] /\ m[i + 1] = calls[(i + 1) + 1]
        BY <1>4
      <3> QED
        BY <1>1, <1>8, <2>1, <3>1 DEF Referred
    <2>2. ASSUME NEW i \in 1 .. n - 1, m[i].at = "references"
          PROVE  /\ \A q \in m[i].missing : refs[q] \subseteq m[i].missing \cup m[i].references \cup seen
                 /\ \A y \in m[i].references : \E q \in m[i].missing : y \in refs[q]
      <3>1. i + 1 \in 1 .. n /\ m[i] = calls[i + 1]
        BY <1>2, <1>4
      <3> QED
        BY <1>2, <1>8, <2>2, <3>1 DEF Referred
    <2> QED
      BY <1>2, <2>1, <2>2 DEF Referred
  <1> QED
    BY <1>5, <1>6, <1>7, <1>8 DEF m

\* References go round in a cycle, the outputs of a derivation taken as one.
HasCycle(refs) ==
  \E d \in Drvs, cycle \in (SUBSET Paths) \ {{}} :
    \A path \in cycle : \E other \in Together(path, d) \cap cycle :
      refs[other] \cap (cycle \ Together(path, d)) # {}

(* A reference that is neither valid nor in the batch is asked for by a    *)
(* call further out, and the paths of the calls from there to the batch    *)
(* refer to each other in a cycle.                                         *)
LEMMA RefusalIsCycle ==
  ASSUME NEW calls \in Seq(ClosureCalls), calls # <<>>, NEW d \in Drvs, NEW seen, NEW valid, NEW refs,
         Nested(calls, d), UnderWay(calls, seen, valid), Referred(calls, seen, refs), Disjoint(calls),
         \A i \in DOMAIN calls : calls[i].at = "references" => calls[i].paths = {},
         calls[1].at = "references", calls[1].references = {},
         NEW path \in calls[1].missing, NEW r \in refs[path], r \notin valid \cup calls[1].missing
  PROVE  HasCycle(refs)
  <1>1. PICK n : n = Len(calls)
    OBVIOUS
  <1>2. n \in Nat /\ n >= 1 /\ DOMAIN calls = 1 .. n /\ \A i \in 1 .. n : calls[i] \in ClosureCalls
    <2>1. /\ Tail(calls) \in Seq(ClosureCalls)
          /\ Len(calls) \in Nat /\ Len(calls) >= 1
          /\ DOMAIN calls = 1 .. Len(calls)
      BY TailFacts
    <2> QED
      BY <1>1, <2>1, ElementOfSeq
  <1>3. \A i \in 1 .. n : i # 1 => i - 1 \in 1 .. n - 1 /\ i - 1 \in 1 .. n /\ (i - 1) + 1 = i
    BY <1>2
  <1>4. \A i \in 1 .. n : /\ calls[i].at = "references" /\ Asked(calls[i]) = calls[i].missing
                          /\ calls[i].missing # {} /\ calls[i].missing \subseteq Paths
    <2> SUFFICES ASSUME NEW i \in 1 .. n
                 PROVE  /\ calls[i].at = "references" /\ Asked(calls[i]) = calls[i].missing
                        /\ calls[i].missing # {} /\ calls[i].missing \subseteq Paths
      OBVIOUS
    <2>1. calls[i].at = "references"
      <3>1. CASE i = 1
        BY <3>1
      <3>2. CASE i # 1
        <4>1. i - 1 \in 1 .. n - 1 /\ (i - 1) + 1 = i
          BY <1>3, <3>2
        <4>2. calls[(i - 1) + 1].at = "references"
          BY <1>1, <4>1 DEF Nested
        <4> QED
          BY <4>1, <4>2
      <3> QED
        BY <3>1, <3>2
    <2> QED
      BY <1>2, <2>1 DEF Asked, Nested, ClosureCalls
  <1>5. PICK j \in 1 .. n : r \in calls[j].missing /\ j # 1
    <2>1. 1 \in 1 .. n
      BY <1>2
    <2>2. r \in seen
      BY <1>2, <2>1 DEF Referred
    <2>3. PICK j \in 1 .. n : r \in Asked(calls[j])
      BY <1>2, <2>2 DEF UnderWay
    <2> QED
      BY <1>4, <2>3
  <1> DEFINE cycle == UNION {calls[i].missing : i \in 1 .. j}
  <1>6. /\ \A i \in 1 .. j : i \in 1 .. n /\ calls[i].missing \subseteq cycle
        /\ 1 \in 1 .. j /\ j \in 1 .. j /\ \A i \in 1 .. j : i # 1 => i - 1 \in 1 .. j
    <2>1. \A i \in 1 .. j : i \in 1 .. n
      BY <1>2
    <2>2. 1 \in 1 .. j /\ j \in 1 .. j /\ \A i \in 1 .. j : i # 1 => i - 1 \in 1 .. j
      BY <1>2
    <2> QED
      BY <2>1, <2>2
  <1>7. cycle \in (SUBSET Paths) \ {{}}
    <2>1. path \in cycle
      BY <1>6
    <2>2. \A i \in 1 .. j : calls[i].missing \subseteq Paths
      BY <1>4, <1>6
    <2> QED
      BY <2>1, <2>2
  \* Every call but the innermost has a path that refers to the one inside.
  <1>8. ASSUME NEW i \in 1 .. j, i # 1
        PROVE  \E q \in calls[i].missing, x \in calls[i - 1].missing :
                 x \in refs[q] /\ x \in cycle /\ x \notin Outputs[d] /\ x \notin calls[i].missing
    <2>1. i \in 1 .. n /\ i - 1 \in 1 .. n - 1 /\ i - 1 \in 1 .. n /\ (i - 1) + 1 = i /\ i - 1 \in 1 .. j
          /\ i - 1 # i
      <3>1. i \in 1 .. n /\ i - 1 \in 1 .. j
        BY <1>6, <1>8
      <3>2. i - 1 # i
        BY <1>2, <3>1
      <3> QED
        BY <1>3, <1>8, <3>1, <3>2
    <2>2. PICK x \in calls[i - 1].missing : x \in Asked(calls[i - 1])
      BY <1>4, <2>1
    <2>3. \E q \in calls[(i - 1) + 1].missing : x \in refs[q]
      BY <1>1, <2>1, <2>2 DEF Referred
    <2>4. x \notin Outputs[d]
      BY <1>1, <2>1, <2>2 DEF Nested
    <2>5. x \notin calls[i].missing
      BY <1>2, <2>1, <2>2 DEF Disjoint
    <2>6. x \in cycle
      BY <1>6, <2>1, <2>2
    <2>7. PICK q \in calls[i].missing : x \in refs[q]
      BY <2>1, <2>3
    <2> QED
      BY <2>2, <2>4, <2>5, <2>6, <2>7
  <1> HIDE DEF cycle
  <1>9. ASSUME NEW p \in cycle
        PROVE  \E other \in Together(p, d) \cap cycle : refs[other] \cap (cycle \ Together(p, d)) # {}
    <2>1. PICK i \in 1 .. j : p \in calls[i].missing
      BY DEF cycle
    <2>2. i \in 1 .. n /\ p \in Asked(calls[i])
      BY <1>4, <1>6, <2>1
    <2>3. CASE i = n
      <3>1. Together(p, d) = Outputs[d] /\ calls[i].missing \subseteq Outputs[d]
        BY <1>1, <1>4, <2>1, <2>2, <2>3 DEF Nested, Together
      <3>2. i # 1
        BY <1>2, <1>5, <2>3
      <3>3. PICK q \in calls[i].missing, x \in calls[i - 1].missing :
                   x \in refs[q] /\ x \in cycle /\ x \notin Outputs[d]
        BY <1>8, <3>2
      <3>4. q \in Together(p, d) \cap cycle
        BY <1>6, <3>1, <3>3
      <3> QED
        BY <3>1, <3>3, <3>4
    <2>4. CASE i # n
      <3>1. i \in 1 .. n - 1
        BY <1>2, <2>2, <2>4
      <3>2. Together(p, d) = {p} /\ calls[i].missing = {p}
        <4>1. Asked(calls[i]) \cap Outputs[d] = {} /\ \A y, z \in Asked(calls[i]) : y = z
          BY <1>1, <3>1 DEF Nested
        <4> QED
          BY <1>4, <2>1, <2>2, <4>1 DEF Together
      <3>3. CASE i = 1
        <4>1. path = p /\ r # p /\ r \in cycle
          BY <1>5, <1>6, <3>2, <3>3
        <4> QED
          BY <3>2, <4>1
      <3>4. CASE i # 1
        <4>1. PICK q \in calls[i].missing, x \in calls[i - 1].missing :
                     x \in refs[q] /\ x \in cycle /\ x \notin calls[i].missing
          BY <1>8, <3>4
        <4>2. q = p /\ x # p
          BY <3>2, <4>1
        <4> QED
          BY <3>2, <4>1, <4>2
      <3> QED
        BY <3>3, <3>4
    <2> QED
      BY <2>3, <2>4
  <1> QED
    BY <1>7, <1>9 DEF HasCycle

(* What the outputs need, call by call down to the innermost: a set of     *)
(* paths that has all of it has what the innermost call misses.            *)
LEMMA MissingIsNeeded ==
  ASSUME NEW calls \in Seq(ClosureCalls), calls # <<>>, NEW d, NEW seen, NEW valid, NEW refs,
         Nested(calls, d), Referred(calls, seen, refs), MissingStill(calls, valid),
         NEW closure, Outputs[d] \subseteq closure \cup valid,
         \A q \in closure : refs[q] \subseteq closure \cup valid
  PROVE  calls[1].missing \subseteq closure
  <1>1. PICK n : n = Len(calls)
    OBVIOUS
  <1>2. n \in Nat /\ n >= 1 /\ DOMAIN calls = 1 .. n
    <2>1. /\ Tail(calls) \in Seq(ClosureCalls)
          /\ Len(calls) \in Nat /\ Len(calls) >= 1
          /\ DOMAIN calls = 1 .. Len(calls)
      BY TailFacts
    <2> QED
      BY <1>1, <2>1
  <1> DEFINE short == {i \in 1 .. n : ~ (calls[i].missing \subseteq closure)}
  <1>3. ASSUME short # {} PROVE FALSE
    <2>1. PICK m \in short : \A y \in short : y <= m
      BY <1>2, <1>3, GreatestUpTo
    <2>2. PICK x \in calls[m].missing : x \notin closure
      OBVIOUS
    <2>3. x \notin valid /\ m \in 1 .. n
      BY <1>2, <2>2 DEF MissingStill
    <2>4. m # n
      BY <1>1, <2>2, <2>3 DEF Nested, Asked
    <2>5. m \in 1 .. n - 1 /\ m + 1 \in 1 .. n /\ ~ (m + 1 <= m)
      BY <1>2, <2>3, <2>4
    <2>6. calls[m + 1].missing \subseteq closure
      BY <2>1, <2>5
    <2>7. \E q \in calls[m + 1].missing : x \in refs[q]
      BY <1>1, <2>2, <2>5 DEF Referred, Asked
    <2> QED
      BY <2>2, <2>3, <2>6, <2>7
  <1>4. 1 \in 1 .. n
    BY <1>2
  <1> QED
    BY <1>3, <1>4

-----------------------------------------------------------------------------
(* The steps keep what the calls know, and a refusal means a cycle.        *)

RefusedOnCycle == "refused" \in trouble /\ "strayed" \notin trouble => HasCycle(References)

LEMMA RefusalByCycle == RefusalMeansCycle <=> RefusedOnCycle
  <1> DEFINE Cyclic(d, cycle, next(_)) ==
        \A path \in cycle : \E other \in Together(path, d) \cap cycle :
          next(other) \cap (cycle \ Together(path, d)) # {}
  <1>1. ASSUME NEW d, NEW cycle \in (SUBSET Paths) \ {{}}
        PROVE  Cyclic(d, cycle, LAMBDA x : References[x]) <=> Cyclic(d, cycle, Declared)
    BY DEF References
  <1> QED
    BY <1>1 DEF RefusalMeansCycle, RefusedOnCycle, HasCycle

LEMMA RefusalByCycleNext == RefusalMeansCycle' <=> RefusedOnCycle'
  BY RefusalByCycle, PTL

LEMMA ReferencesKept ==
  ASSUME holds' = holds
  PROVE  /\ References' = References
         /\ /\ RefusalMeansCycle
            /\ trouble \subseteq trouble'
            /\ ("refused" \in trouble' => "refused" \in trouble)
            => RefusalMeansCycle'
  <1>1. References' = References
    BY DEF References, Declared, Holders
  <1> QED
    BY <1>1, RefusalByCycle, RefusalByCycleNext DEF RefusedOnCycle

LEMMA NoCalls ==
  /\ \A d : Nested(<<>>, d)
  /\ \A seen, refs : Referred(<<>>, seen, refs)
  /\ \A valid : MissingStill(<<>>, valid)
  <1>1. Len(<<>>) = 0 /\ DOMAIN <<>> = {} /\ 1 .. 0 - 1 = {}
    OBVIOUS
  <1> QED
    BY <1>1 DEF Nested, Referred, MissingStill

\* What a step starts from.
LEMMA TopOfClosures ==
  ASSUME RealiseInv, ReferencesInv, closures # <<>>
  PROVE  /\ closures \in Seq(ClosureCalls) /\ Call = closures[1] /\ Call \in ClosureCalls
         /\ Nested(closures, Node.drv) /\ UnderWay(closures, seenPaths, validPaths) /\ Disjoint(closures)
         /\ Outputs[Node.drv] \subseteq seenPaths
         /\ Call.at = "references" => Call.paths = {} /\ Call.missing # {}
         /\ nodes # <<>> /\ Node \in NodeCalls
  <1>1. /\ Call \in ClosureCalls /\ Call = closures[1] /\ closures \in Seq(ClosureCalls)
        /\ Len(closures) \in Nat /\ Len(closures) >= 1 /\ DOMAIN closures = 1 .. Len(closures)
    BY CallTyped, Halves
  <1>2. 1 \in DOMAIN closures
    BY <1>1
  <1>3. nodes # <<>> /\ Node \in NodeCalls
    BY NothingFailed, NodeTyped, Halves
  <1> QED
    BY <1>1, <1>2, <1>3, Halves DEF ReferencesInv, ClosuresInv, OutputsCovered, Nested

LEMMA ReferencesRevised ==
  ASSUME RealiseInv, ReferencesInv, closures # <<>>, StepOfClosure, seenPaths' = seenPaths,
         validPaths' = validPaths, trouble \subseteq trouble',
         NEW x \in ClosureCalls, CallRevised(x),
         Asked(x) \subseteq Asked(Call), Asked(Call) \subseteq Asked(x) \cup validPaths,
         x.missing \cap validPaths \subseteq Call.missing,
         x.at = "references" => x.missing # {},
         x.at = "references" /\ "strayed" \notin trouble' =>
           /\ \A q \in x.missing : References[q] \subseteq x.missing \cup x.references \cup seenPaths
           /\ \A r \in x.references : \E q \in x.missing : r \in References[q]
  PROVE  ReferencesInv'
  <1>1. /\ closures \in Seq(ClosureCalls) /\ Call = closures[1]
        /\ Nested(closures, Node.drv) /\ UnderWay(closures, seenPaths, validPaths)
    BY TopOfClosures
  <1>2. /\ Nested(closures', Node.drv)
        /\ UnderWay(closures', seenPaths, validPaths)
        /\ MissingStill(closures, validPaths) /\ x.missing \cap validPaths = {}
           => MissingStill(closures', validPaths)
        /\ /\ Referred(closures, seenPaths, References)
           /\ x.at = "references" =>
                /\ \A q \in x.missing : References[q] \subseteq x.missing \cup x.references \cup seenPaths
                /\ \A r \in x.references : \E q \in x.missing : r \in References[q]
           => Referred(closures', seenPaths, References)
    BY <1>1, StackRevised DEF CallRevised
  <1>3. Node' = Node /\ References' = References /\ Outputs[Node.drv] \subseteq seenPaths
    BY TopOfClosures, ReferencesKept DEF StepOfClosure, Node
  <1>4. trouble = {} => MissingStill(closures, validPaths) /\ x.missing \cap validPaths = {}
    <2> SUFFICES ASSUME trouble = {} PROVE MissingStill(closures, validPaths) /\ x.missing \cap validPaths = {}
      OBVIOUS
    <2>1. MissingStill(closures, validPaths)
      BY DEF ReferencesInv
    <2>2. 1 \in DOMAIN closures
      BY Halves, CallTyped
    <2> QED
      BY <1>1, <2>1, <2>2 DEF MissingStill
  <1>5. trouble' = {} => MissingStill(closures', validPaths)
    BY <1>2, <1>4
  <1>6. "strayed" \notin trouble' => Referred(closures', seenPaths, References)
    BY <1>2 DEF ReferencesInv
  <1> QED
    BY <1>2, <1>3, <1>5, <1>6 DEF ReferencesInv

LEMMA ReferencesReturned ==
  ASSUME RealiseInv, ReferencesInv, closures # <<>>, StepOfClosure, seenPaths' = seenPaths,
         trouble \subseteq trouble', NEW o, Return(o),
         o = "complete" => Asked(Call) \subseteq validPaths' /\ validPaths' \subseteq validPaths \cup Call.missing
  PROVE  ReferencesInv'
  <1>1. /\ closures \in Seq(ClosureCalls) /\ Call = closures[1]
        /\ Nested(closures, Node.drv) /\ UnderWay(closures, seenPaths, validPaths) /\ Disjoint(closures)
        /\ Outputs[Node.drv] \subseteq seenPaths
    BY TopOfClosures
  <1>2. Node' = Node /\ References' = References /\ validPaths \subseteq validPaths'
    BY ReferencesKept DEF StepOfClosure, Node
  <1>3. CASE closures' = <<>>
    BY <1>3, NoCalls DEF ReferencesInv
  <1>4. CASE closures' # <<>>
    <2>1. closures' = Tail(closures) /\ o = "complete"
      BY <1>4 DEF Return
    <2>2. /\ Nested(Tail(closures), Node.drv)
          /\ UnderWay(Tail(closures), seenPaths, validPaths')
          /\ Disjoint(closures) /\ MissingStill(closures, validPaths)
             /\ validPaths' \subseteq validPaths \cup closures[1].missing
             => MissingStill(Tail(closures), validPaths')
          /\ Referred(closures, seenPaths, References) => Referred(Tail(closures), seenPaths, References)
      BY <1>1, <1>2, <1>4, <2>1, StackPopped
    <2>3. "strayed" \notin trouble' => Referred(closures, seenPaths, References)
      BY DEF ReferencesInv
    <2>4. trouble' = {} => MissingStill(closures, validPaths)
      BY DEF ReferencesInv
    <2> QED
      BY <1>1, <1>2, <2>1, <2>2, <2>3, <2>4 DEF ReferencesInv
  <1> QED
    BY <1>3, <1>4

LEMMA LookUpReferences ==
  ASSUME RealiseInv, ReferencesInv, NEW path \in Paths, LookUp(path)
  PROVE  ReferencesInv'
  <1> DEFINE x == [Call EXCEPT !.paths = @ \ {path}, !.missing = @ \cup ({path} \ validPaths)]
  <1>1. closures # <<>> /\ Call.at = "valid" /\ path \in Call.paths /\ StepOfClosure
        /\ UNCHANGED <<seenPaths, validPaths, trouble>>
    BY LookUpClosures DEF LookUp, InClosure, Least, dbVars
  <1>2. Call \in ClosureCalls
    BY <1>1, TopOfClosures
  <1>3. /\ x \in ClosureCalls /\ x.at = "valid" /\ x.paths = Call.paths \ {path}
        /\ x.missing = Call.missing \cup ({path} \ validPaths)
    BY <1>1, <1>2 DEF ClosureCalls
  <1>4. CallRevised(x)
    BY DEF LookUp, CallRevised
  <1> HIDE DEF x
  <1>5. Asked(x) \subseteq Asked(Call) /\ Asked(Call) \subseteq Asked(x) \cup validPaths
    BY <1>1, <1>3 DEF Asked
  <1>6. x.missing \cap validPaths \subseteq Call.missing
    BY <1>3
  <1>7. trouble \subseteq trouble'
    BY <1>1
  <1> QED
    BY <1>1, <1>3, <1>4, <1>5, <1>6, <1>7, ReferencesRevised

LEMMA NothingMissingReferences == ASSUME RealiseInv, ReferencesInv, NothingMissing PROVE ReferencesInv'
  <1>1. /\ closures # <<>> /\ Call.paths = {} /\ Call.missing = {} /\ Return("complete") /\ StepOfClosure
        /\ UNCHANGED <<validPaths, seenPaths, trouble>>
    BY NothingMissingClosures DEF NothingMissing, InClosure, dbVars
  <1>2. Asked(Call) \subseteq validPaths' /\ validPaths' \subseteq validPaths \cup Call.missing
    BY <1>1 DEF Asked
  <1>3. trouble \subseteq trouble'
    BY <1>1
  <1> QED
    BY <1>1, <1>2, <1>3, ReferencesReturned

\* A query that went smoothly says what the first holder of each path says.
LEMMA SmoothQuery ==
  ASSUME NEW path
  PROVE  Decisive(path, {}) = Holders(path) /\ OfferedReferences(path, {}) = Declared(path)
  <1>1. Decisive(path, {}) = Holders(path)
    BY DEF Decisive, Holders
  <1> QED
    BY <1>1 DEF OfferedReferences, Declared

LEMMA QueryReferences == ASSUME RealiseInv, ReferencesInv, Query PROVE ReferencesInv'
  <1>1. /\ closures # <<>> /\ Call.at = "valid" /\ Call.paths = {} /\ Call.missing # {} /\ StepOfClosure
        /\ UNCHANGED <<validPaths, seenPaths>>
    BY QueryClosures DEF Query, InClosure, dbVars
  <1>2. Call \in ClosureCalls
    BY <1>1, TopOfClosures
  <1>3. PICK down \in [Call.missing -> SUBSET Caches] :
          /\ \/ Return("queryFailed") \/ Return("unavailable")
             \/ closures' = Revise([Call EXCEPT !.at = "references",
                                                !.references = (UNION {OfferedReferences(path, down[path]) :
                                                                         path \in Call.missing})
                                                               \ Call.missing], closures)
          /\ trouble \subseteq trouble'
          /\ "strayed" \notin trouble' => \A path \in Call.missing : down[path] = {}
    BY DEF Query
  <1> DEFINE references == UNION {OfferedReferences(path, down[path]) : path \in Call.missing}
             x == [Call EXCEPT !.at = "references", !.references = references \ Call.missing]
  <1>4. CASE Return("queryFailed") \/ Return("unavailable")
    BY <1>1, <1>3, <1>4, ReferencesReturned
  <1>5. CASE closures' = Revise(x, closures)
    <2>1. references \subseteq Paths
      <3>1. ASSUME NEW path \in Call.missing PROVE OfferedReferences(path, down[path]) \subseteq Paths
        <4>1. path \in Paths
          BY <1>2 DEF ClosureCalls
        <4> QED
          BY <4>1, ReferencesAssumption DEF OfferedReferences
      <3> QED
        BY <3>1
    <2>2. "strayed" \notin trouble' => \A q \in Call.missing : OfferedReferences(q, down[q]) = References[q]
      <3> SUFFICES ASSUME "strayed" \notin trouble', NEW q \in Call.missing
                   PROVE  OfferedReferences(q, down[q]) = References[q]
        OBVIOUS
      <3>1. down[q] = {} /\ q \in Paths
        BY <1>2, <1>3 DEF ClosureCalls
      <3> QED
        BY <3>1, SmoothQuery DEF References
    <2>3. "strayed" \notin trouble' =>
            /\ \A q \in Call.missing : References[q] \subseteq references
            /\ \A r \in references : \E q \in Call.missing : r \in References[q]
      BY <2>2
    <2> HIDE DEF references
    <2>4. /\ x \in ClosureCalls /\ x.at = "references" /\ x.paths = Call.paths /\ x.missing = Call.missing
          /\ x.references = references \ Call.missing
      BY <1>2, <2>1 DEF ClosureCalls
    <2>5. CallRevised(x)
      BY <1>5 DEF CallRevised
    <2> HIDE DEF x
    <2>6. Asked(x) \subseteq Asked(Call) /\ Asked(Call) \subseteq Asked(x) \cup validPaths
      BY <2>4 DEF Asked
    <2>7. x.at = "references" /\ "strayed" \notin trouble' =>
            /\ \A q \in x.missing : References[q] \subseteq x.missing \cup x.references \cup seenPaths
            /\ \A r \in x.references : \E q \in x.missing : r \in References[q]
      BY <2>3, <2>4
    <2> QED
      BY <1>1, <1>3, <2>4, <2>5, <2>6, <2>7, ReferencesRevised
  <1> QED
    BY <1>3, <1>4, <1>5

LEMMA NextReferenceReferences ==
  ASSUME RealiseInv, ReferencesInv, NEW path \in Paths, NextReference(path)
  PROVE  ReferencesInv'
  <1> DEFINE x == [Call EXCEPT !.references = @ \ {path}]
  <1>1. /\ closures # <<>> /\ Call.at = "references" /\ path \in Call.references /\ StepOfClosure
        /\ UNCHANGED <<validPaths, trouble>>
    BY NextReferenceClosures DEF NextReference, InClosure, Least, dbVars
  <1>2. /\ closures \in Seq(ClosureCalls) /\ Call = closures[1] /\ Call \in ClosureCalls
        /\ Nested(closures, Node.drv) /\ UnderWay(closures, seenPaths, validPaths)
        /\ Outputs[Node.drv] \subseteq seenPaths /\ Call.missing # {} /\ 1 \in DOMAIN closures
    BY <1>1, TopOfClosures, CallTyped, Halves
  <1>3. x \in ClosureCalls /\ x.at = "references" /\ x.paths = Call.paths /\ x.missing = Call.missing
        /\ x.references = Call.references \ {path}
    BY <1>1, <1>2 DEF ClosureCalls
  <1>4. "strayed" \notin trouble =>
          /\ \A q \in Call.missing : References[q] \subseteq Call.missing \cup Call.references \cup seenPaths
          /\ \A r \in Call.references : \E q \in Call.missing : r \in References[q]
    BY <1>1, <1>2 DEF ReferencesInv, Referred
  <1> HIDE DEF x
  <1>5. Asked(x) = Asked(Call)
    BY <1>3 DEF Asked
  <1>6. CASE path \in seenPaths /\ closures' = Revise(x, closures) /\ UNCHANGED seenPaths
    <2>1. CallRevised(x)
      BY <1>6 DEF CallRevised
    <2>2. "strayed" \notin trouble' =>
            /\ \A q \in x.missing : References[q] \subseteq x.missing \cup x.references \cup seenPaths
            /\ \A r \in x.references : \E q \in x.missing : r \in References[q]
      BY <1>1, <1>3, <1>4, <1>6
    <2>3. trouble \subseteq trouble'
      BY <1>1
    <2> QED
      BY <1>1, <1>2, <1>3, <1>5, <1>6, <2>1, <2>2, <2>3, ReferencesRevised
  <1>7. CASE /\ path \notin seenPaths /\ closures' = Push(ClosureCall({path}), Revise(x, closures))
             /\ seenPaths' = seenPaths \cup {path}
    <2>1. PICK m : m = Revise(x, closures)
      OBVIOUS
    <2>2. m \in Seq(ClosureCalls) /\ m # <<>> /\ m[1] = x
      BY <1>1, <1>2, <1>3, <2>1, ReviseFacts
    <2>3. /\ Nested(m, Node.drv)
          /\ UnderWay(m, seenPaths, validPaths)
          /\ MissingStill(closures, validPaths) /\ x.missing \cap validPaths = {} => MissingStill(m, validPaths)
      BY <1>1, <1>2, <1>3, <1>5, <2>1, StackRevised
    <2>4. "strayed" \notin trouble => Referred(m, seenPaths \cup {path}, References)
      <3> SUFFICES ASSUME "strayed" \notin trouble PROVE Referred(m, seenPaths \cup {path}, References)
        OBVIOUS
      <3>1. UnderWay(closures, seenPaths \cup {path}, validPaths \cup {path})
        BY <1>2 DEF UnderWay
      <3>2. Referred(closures, seenPaths \cup {path}, References)
        <4>1. Referred(closures, seenPaths, References)
          BY <1>1 DEF ReferencesInv
        <4> QED
          BY <4>1 DEF Referred
      <3>3. /\ \A q \in x.missing : References[q] \subseteq x.missing \cup x.references \cup (seenPaths \cup {path})
            /\ \A r \in x.references : \E q \in x.missing : r \in References[q]
        BY <1>3, <1>4
      <3>4. Asked(x) \subseteq Asked(closures[1])
            /\ Asked(closures[1]) \subseteq Asked(x) \cup (validPaths \cup {path})
        BY <1>2, <1>5
      <3> QED
        BY <1>1, <1>2, <1>3, <2>1, <3>1, <3>2, <3>3, <3>4, StackRevised
    <2>5. "strayed" \notin trouble => \E q \in m[1].missing : path \in References[q]
      BY <1>1, <1>3, <1>4, <2>2
    <2>6. trouble = {} => MissingStill(m, validPaths)
      <3> SUFFICES ASSUME trouble = {} PROVE MissingStill(m, validPaths)
        OBVIOUS
      <3>1. MissingStill(closures, validPaths)
        BY <1>1 DEF ReferencesInv
      <3>2. x.missing \cap validPaths = {}
        BY <1>2, <1>3, <3>1 DEF MissingStill
      <3> QED
        BY <2>3, <3>1, <3>2
    <2>7. path \notin Outputs[Node.drv]
      BY <1>2, <1>7
    <2>8. /\ Nested(Push(ClosureCall({path}), m), Node.drv)
          /\ UnderWay(Push(ClosureCall({path}), m), seenPaths \cup {path}, validPaths)
          /\ MissingStill(m, validPaths) => MissingStill(Push(ClosureCall({path}), m), validPaths)
          /\ /\ Referred(m, seenPaths \cup {path}, References)
             /\ \E q \in m[1].missing : path \in References[q]
             => Referred(Push(ClosureCall({path}), m), seenPaths \cup {path}, References)
      BY <1>3, <2>2, <2>3, <2>7, StackPushed
    <2>9. Node' = Node /\ References' = References /\ closures' = Push(ClosureCall({path}), m)
      BY <1>1, <1>7, <2>1, ReferencesKept DEF StepOfClosure, Node
    <2>10. /\ Nested(closures', Node.drv) /\ UnderWay(closures', seenPaths', validPaths')
           /\ trouble' = {} => MissingStill(closures', validPaths')
           /\ "strayed" \notin trouble' => Referred(closures', seenPaths', References)
      BY <1>1, <1>7, <2>4, <2>5, <2>6, <2>8, <2>9
    <2> QED
      BY <1>2, <1>7, <2>9, <2>10 DEF ReferencesInv
  <1> QED
    BY <1>6, <1>7 DEF NextReference, x

\* A batch that came from the first holders is refused for a reference to
\* what an outer call is still asking for.
LEMMA SmoothRefusal ==
  ASSUME RealiseInv, ReferencesInv, closures # <<>>, Call.at = "references", Call.references = {},
         "strayed" \notin trouble,
         NEW from \in [Call.missing \ validPaths -> Caches],
         \A path \in Call.missing \ validPaths : Least(from[path], Holders(path)),
         ~ BatchAccepted([path \in Call.missing \ validPaths |->
                            [prPath |-> path, prReferences |-> Declares[from[path]][path]]])
  PROVE  HasCycle(References)
  <1> DEFINE fresh == Call.missing \ validPaths
             rows == [path \in fresh |-> [prPath |-> path, prReferences |-> Declares[from[path]][path]]]
  <1>1. /\ closures \in Seq(ClosureCalls) /\ Call = closures[1] /\ Call \in ClosureCalls
        /\ Nested(closures, Node.drv) /\ UnderWay(closures, seenPaths, validPaths) /\ Disjoint(closures)
        /\ Node.drv \in Drvs
        /\ \A i \in DOMAIN closures : closures[i].at = "references" => closures[i].paths = {}
    BY TopOfClosures, NodeTyped, Halves DEF ClosuresInv, OutputsCovered
  <1>2. Referred(closures, seenPaths, References)
    BY DEF ReferencesInv
  <1>3. fresh \subseteq BatchPaths(rows)
    BY DEF BatchPaths
  <1>4. PICK path \in fresh : ~ (rows[path].prReferences \subseteq validPaths \cup BatchPaths(rows))
    BY DEF BatchAccepted
  <1>5. rows[path].prReferences = References[path]
    <2>1. path \in Paths
      BY <1>1 DEF ClosureCalls
    <2>2. \A c \in Caches : c \in Nat
      BY OrderAssumption
    <2>3. Least(from[path], Holders(path)) /\ from[path] \in Caches
      OBVIOUS
    <2>4. \A c \in Caches : Least(c, Holders(path)) <=> c = from[path]
      BY <2>2, <2>3 DEF Least, Holders
    <2>5. Declared(path) = Declares[from[path]][path]
      BY <2>3, <2>4 DEF Declared
    <2> QED
      BY <2>1, <2>5 DEF References
  <1>6. PICK r \in References[path] : r \notin validPaths \cup fresh
    BY <1>3, <1>4, <1>5
  <1>7. r \notin validPaths \cup closures[1].missing /\ path \in closures[1].missing
    BY <1>1, <1>6
  <1>8. closures[1].at = "references" /\ closures[1].references = {}
    BY <1>1
  <1> HIDE DEF fresh, rows
  <1> QED
    BY <1>1, <1>2, <1>6, <1>7, <1>8, RefusalIsCycle

LEMMA FetchReferences ==
  ASSUME RealiseInv, ReferencesInv, RefusalMeansCycle, Fetch
  PROVE  ReferencesInv' /\ RefusalMeansCycle'
  <1> DEFINE fresh == Call.missing \ validPaths
             rows(from) == [path \in fresh |-> [prPath |-> path, prReferences |-> Declares[from[path]][path]]]
  <1>1. /\ closures # <<>> /\ Call.at = "references" /\ Call.references = {} /\ StepOfClosure
        /\ seenPaths' = seenPaths /\ holds' = holds
    BY FetchClosures DEF Fetch, InClosure, world
  <1>2. Call \in ClosureCalls /\ Call.paths = {} /\ fresh \in SUBSET Paths /\ DBTypeOK
    BY <1>1, TopOfClosures, Halves DEF ClosureCalls, ClosuresInv
  <1>3. ASSUME NEW o \in {"failed", "unavailable"}, Return(o), trouble \subseteq trouble',
               "refused" \in trouble' => "refused" \in trouble
        PROVE  ReferencesInv' /\ RefusalMeansCycle'
    <2>1. ReferencesInv'
      BY <1>1, <1>3, ReferencesReturned
    <2>2. RefusalMeansCycle'
      BY <1>1, <1>3, ReferencesKept
    <2> QED
      BY <2>1, <2>2
  <1>4. ASSUME NEW from \in [fresh -> Caches],
               trouble' = trouble \cup {kind \in {"strayed"} :
                                         \E path \in fresh : ~Least(from[path], Holders(path))}
                                 \cup {kind \in {"failed", "refused"} : ~BatchAccepted(rows(from))},
               registerPaths(rows(from)) /\ Return("complete")
        PROVE  ReferencesInv' /\ RefusalMeansCycle'
    <2>1. BatchAccepted(rows(from))
      BY <1>4 DEF registerPaths
    <2>2. trouble \subseteq trouble' /\ ("refused" \in trouble' => "refused" \in trouble)
      BY <1>4, <2>1
    <2>3. RefusalMeansCycle'
      BY <1>1, <2>2, ReferencesKept
    <2> DEFINE refs == [path \in fresh |-> Declares[from[path]][path]]
    <2>4. registerPaths([path \in fresh |-> [prPath |-> path, prReferences |-> refs[path]]])
      <3>1. rows(from) = [path \in fresh |-> [prPath |-> path, prReferences |-> refs[path]]]
        OBVIOUS
      <3> QED
        BY <1>4, <3>1, Zenon
    <2> HIDE DEF refs, rows, fresh
    <2>5. validPaths' = validPaths \cup fresh
      BY <1>2, <2>4, Registered
    <2>6. Asked(Call) \subseteq validPaths' /\ validPaths' \subseteq validPaths \cup Call.missing
      BY <1>2, <2>5 DEF Asked, fresh
    <2>7. ReferencesInv'
      BY <1>1, <1>4, <2>2, <2>6, ReferencesReturned
    <2> QED
      BY <2>3, <2>7
  <1>5. ASSUME NEW from \in [fresh -> Caches],
               trouble' = trouble \cup {kind \in {"strayed"} :
                                         \E path \in fresh : ~Least(from[path], Holders(path))}
                                 \cup {kind \in {"failed", "refused"} : ~BatchAccepted(rows(from))},
               registerPathsRefused(rows(from)) /\ Return("failed")
        PROVE  ReferencesInv' /\ RefusalMeansCycle'
    <2>1. trouble \subseteq trouble' /\ ~BatchAccepted(rows(from))
      BY <1>5 DEF registerPathsRefused
    <2>2. ReferencesInv'
      BY <1>1, <1>5, <2>1, ReferencesReturned
    <2>3. ASSUME "strayed" \notin trouble' PROVE HasCycle(References')
      <3>1. \A path \in fresh : Least(from[path], Holders(path))
        BY <1>5, <2>3
      <3>2. "strayed" \notin trouble
        BY <2>1, <2>3
      <3>3. HasCycle(References)
        BY <1>1, <2>1, <3>1, <3>2, SmoothRefusal
      <3> QED
        BY <1>1, <3>3, ReferencesKept
    <2>4. RefusedOnCycle'
      BY <2>3 DEF RefusedOnCycle
    <2> QED
      BY <2>2, <2>4, RefusalByCycleNext
  <1>6. \/ \E from \in [fresh -> Caches] :
             /\ trouble' = trouble \cup {kind \in {"strayed"} :
                                         \E path \in fresh : ~Least(from[path], Holders(path))}
                                   \cup {kind \in {"failed", "refused"} : ~BatchAccepted(rows(from))}
             /\ \/ registerPaths(rows(from)) /\ Return("complete")
                \/ registerPathsRefused(rows(from)) /\ Return("failed")
        \/ /\ trouble' = trouble \cup {"failed"}
           /\ Return("failed")
        \/ /\ trouble' = trouble \cup {"strayed"}
           /\ Return("unavailable")
    BY DEF Fetch
  <1>7. CASE trouble' = trouble \cup {"failed"} /\ Return("failed")
    BY <1>3, <1>7
  <1>8. CASE trouble' = trouble \cup {"strayed"} /\ Return("unavailable")
    BY <1>3, <1>8
  <1> HIDE DEF rows, fresh
  <1> QED
    BY <1>4, <1>5, <1>6, <1>7, <1>8

LEMMA NodeStepReferences ==
  ASSUME RealiseInv, ReferencesInv, NodeStep
  PROVE  ReferencesInv'
  <1>1. closures = <<>> /\ UNCHANGED <<holds, trouble>> /\ NodesInv
    BY NodeStepPlace, Halves
  <1>2. CASE closures' = <<>>
    BY <1>2, NoCalls DEF ReferencesInv
  <1>3. CASE SubstituteClosure(Outputs[Node.drv]) /\ nodes # <<>> /\ Node'.drv = Node.drv
    <2> DEFINE call == ClosureCall(Outputs[Node.drv])
    <2>1. Outputs[Node.drv] \subseteq Paths
      BY <1>1, <1>3, InnermostAgrees, GraphAssumption
    <2>2. call.at = "valid" /\ Asked(call) = Outputs[Node.drv] /\ call.missing = {}
      BY DEF ClosureCall, Asked
    <2>3. closures' = <<call>> /\ seenPaths' = Outputs[Node.drv]
      BY <1>3 DEF SubstituteClosure
    <2> HIDE DEF call
    <2>4. Len(closures') = 1 /\ closures'[1] = call /\ DOMAIN closures' = {1} /\ 1 .. 1 - 1 = {}
      BY <2>3
    <2>5. Nested(closures', Node.drv)
      BY <2>2, <2>4 DEF Nested
    <2>6. UnderWay(closures', seenPaths', validPaths') /\ MissingStill(closures', validPaths')
          /\ Referred(closures', seenPaths', References')
      BY <2>2, <2>3, <2>4 DEF UnderWay, MissingStill, Referred
    <2> QED
      BY <1>3, <2>3, <2>5, <2>6 DEF ReferencesInv
  <1> QED
    BY <1>1, <1>2, <1>3, NodeStepPlace

LEMMA OtherRegistersReferences ==
  ASSUME RealiseInv, ReferencesInv, NEW path \in Paths, OtherRegisters(path)
  PROVE  ReferencesInv'
  <1>1. /\ UNCHANGED <<holds, nodes, closures, seenPaths>> /\ trouble' = trouble \cup {"met"}
        /\ validPaths \subseteq validPaths'
    BY DEF OtherRegisters, world, callVars, registerPaths, insertPathRows
  <1>2. Node' = Node /\ References' = References /\ trouble' # {}
    BY <1>1, ReferencesKept DEF Node
  <1>3. UnderWay(closures, seenPaths, validPaths) => UnderWay(closures, seenPaths, validPaths')
    BY <1>1 DEF UnderWay
  <1> QED
    BY <1>1, <1>2, <1>3 DEF ReferencesInv

LEMMA ReferencesInductive ==
  ASSUME RealiseInv, ReferencesInv, RefusalMeansCycle, [Next]_vars
  PROVE  ReferencesInv' /\ RefusalMeansCycle'
  <1>1. CASE UNCHANGED vars
    <2>1. UNCHANGED <<holds, trouble, closures, seenPaths, validPaths, nodes>>
      BY <1>1 DEF vars
    <2>2. Node' = Node /\ References' = References /\ RefusalMeansCycle'
      BY <2>1, ReferencesKept DEF Node
    <2> QED
      BY <2>1, <2>2 DEF ReferencesInv
  <1>2. CASE Fetch
    BY <1>2, FetchReferences
  <1>3. CASE ClosureStep /\ ~Fetch
    <2>1. ReferencesInv'
      BY <1>3, LookUpReferences, NothingMissingReferences, QueryReferences, NextReferenceReferences
      DEF ClosureStep
    <2>2. holds' = holds /\ trouble \subseteq trouble' /\ ("refused" \in trouble' => "refused" \in trouble)
      BY <1>3 DEF ClosureStep, LookUp, NothingMissing, Query, NextReference, world
    <2> QED
      BY <2>1, <2>2, ReferencesKept
  <1>4. CASE NodeStep
    BY <1>4, NodeStepReferences, NodeStepPlace, ReferencesKept
  <1>5. CASE \E path \in Paths : OtherRegisters(path)
    <2>1. ReferencesInv'
      BY <1>5, OtherRegistersReferences
    <2>2. holds' = holds /\ trouble' = trouble \cup {"met"}
      BY <1>5 DEF OtherRegisters, world
    <2> QED
      BY <2>1, <2>2, ReferencesKept
  <1> QED
    BY <1>1, <1>2, <1>3, <1>4, <1>5 DEF Next, Ended

LEMMA ReferencesStart == Init => ReferencesInv /\ RefusalMeansCycle
  <1> SUFFICES ASSUME Init PROVE ReferencesInv /\ RefusalMeansCycle
    OBVIOUS
  <1>1. closures = <<>> /\ trouble = {}
    BY DEF Init
  <1> QED
    BY <1>1, NoCalls DEF ReferencesInv, RefusalMeansCycle

LEMMA ReferencesHold == Spec => [](ReferencesInv /\ RefusalMeansCycle)
  <1>1. RealiseInv /\ ReferencesInv /\ RefusalMeansCycle /\ [Next]_vars => ReferencesInv' /\ RefusalMeansCycle'
    BY ReferencesInductive
  <1> QED
    BY <1>1, ReferencesStart, Inductive, PTL DEF Spec

(* The database refuses a batch only when caches disagree, or when the     *)
(* references they declare form a cycle, in which the outputs of the       *)
(* derivation being substituted count as one (closureOf).                  *)
THEOREM RefusalMeansCycleHolds == Spec => []RefusalMeansCycle
  BY ReferencesHold, PTL

-----------------------------------------------------------------------------
(* What a failed substitution says of what the caches hold.                *)

\* An output is nowhere to be had.
Hole(d) == \E path \in Outputs[d] \ validPaths : Holders(path) = {}

Holes == {d \in Drvs : Hole(d)}

\* What the first tries of the calls around inputs came to.
KnownTries(calls, holes) ==
  \A i \in DOMAIN calls : calls[i].at = "inputs" =>
    /\ calls[i].firstTry \in {"unavailable", "incomplete"}
    /\ calls[i].firstTry = "unavailable" => calls[i].drv \in holes

OutcomeKnown ==
  trouble = {} =>
    /\ outcome \notin {"failed", "queryFailed"}
    /\ AtNode("tried") \/ AtNode("retried") =>
         /\ outcome = "unavailable" => Node.drv \in Holes
         /\ outcome = "incomplete" => ~Obtainable(Outputs[Node.drv])

BuildsInv ==
  /\ OutcomeKnown
  /\ trouble = {} => KnownTries(nodes, Holes)
  /\ NeverBuildsWhatCachesHold

LEMMA HoleBars == ASSUME NEW d \in Holes PROVE ~Obtainable(Outputs[d])
  BY DEF Holes, Hole, Obtainable

LEMMA HolesKept ==
  ASSUME holds' = holds, validPaths' = validPaths
  PROVE  Holes' = Holes /\ \A d : Obtainable(Outputs[d])' <=> Obtainable(Outputs[d])
  <1>1. Holes' = Holes
    BY DEF Holes, Hole, Holders
  <1>2. \A d : Obtainable(Outputs[d])' <=> Obtainable(Outputs[d])
    BY DEF Obtainable, Holders, Declared
  <1> QED
    BY <1>1, <1>2

LEMMA TriesRevised ==
  ASSUME NEW calls \in Seq(NodeCalls), calls # <<>>, NEW holes, KnownTries(calls, holes),
         NEW x \in NodeCalls,
         x.at = "inputs" => /\ x.firstTry \in {"unavailable", "incomplete"}
                            /\ x.firstTry = "unavailable" => x.drv \in holes
  PROVE  KnownTries(Revise(x, calls), holes)
  <1>1. /\ Len(calls) \in Nat /\ Len(calls) >= 1 /\ DOMAIN calls = 1 .. Len(calls)
    BY TailFacts
  <1>2. /\ Revise(x, calls) \in Seq(NodeCalls) /\ Revise(x, calls) # <<>>
        /\ Len(Revise(x, calls)) = Len(calls) /\ DOMAIN Revise(x, calls) = DOMAIN calls
        /\ Revise(x, calls)[1] = x /\ Head(Revise(x, calls)) = x
        /\ \A i \in DOMAIN calls : i > 1 => Revise(x, calls)[i] = calls[i]
    BY ReviseFacts
  <1>3. \A i \in DOMAIN calls : i = 1 \/ i > 1
    BY <1>1
  <1> QED
    BY <1>2, <1>3 DEF KnownTries

LEMMA TriesPushed ==
  ASSUME NEW calls \in Seq(NodeCalls), NEW holes, KnownTries(calls, holes), NEW x \in NodeCalls,
         x.at # "inputs"
  PROVE  KnownTries(Push(x, calls), holes)
  <1>1. Len(calls) \in Nat /\ DOMAIN calls = 1 .. Len(calls)
    BY LenProperties
  <1>2. /\ Push(x, calls) \in Seq(NodeCalls) /\ Push(x, calls) # <<>>
        /\ Len(Push(x, calls)) = Len(calls) + 1
        /\ DOMAIN Push(x, calls) = 1 .. Len(calls) + 1
        /\ Push(x, calls)[1] = x
        /\ \A i \in 1 .. Len(calls) : Push(x, calls)[i + 1] = calls[i]
        /\ Head(Push(x, calls)) = x
    BY PushFacts
  <1>3. \A i \in 1 .. Len(calls) + 1 : i = 1 \/ \E j \in 1 .. Len(calls) : i = j + 1
    <2> SUFFICES ASSUME NEW i \in 1 .. Len(calls) + 1, i # 1 PROVE \E j \in 1 .. Len(calls) : i = j + 1
      OBVIOUS
    <2>1. i - 1 \in 1 .. Len(calls) /\ i = (i - 1) + 1
      BY <1>1
    <2> QED
      BY <2>1
  <1> QED
    BY <1>1, <1>2, <1>3 DEF KnownTries

LEMMA TriesPopped ==
  ASSUME NEW calls \in Seq(NodeCalls), calls # <<>>, NEW holes, NEW more, KnownTries(calls, holes),
         \A i \in DOMAIN calls : i > 1 /\ calls[i].drv \in holes => calls[i].drv \in more
  PROVE  KnownTries(Tail(calls), more)
  <1>1. /\ Tail(calls) \in Seq(NodeCalls)
        /\ Len(calls) \in Nat /\ Len(calls) >= 1
        /\ DOMAIN calls = 1 .. Len(calls)
        /\ Len(Tail(calls)) = Len(calls) - 1
        /\ DOMAIN Tail(calls) = 1 .. Len(calls) - 1
        /\ \A i \in 1 .. Len(calls) - 1 : Tail(calls)[i] = calls[i + 1]
    BY TailFacts
  <1>2. \A i \in 1 .. Len(calls) - 1 : i + 1 \in 1 .. Len(calls) /\ i + 1 > 1
    BY <1>1
  <1> QED
    BY <1>1, <1>2 DEF KnownTries

(* A path of the innermost call that nothing offers is a hole in the       *)
(* outputs, or in what they need.                                          *)
LEMMA UnofferedIsMissed ==
  ASSUME RealiseInv, ReferencesInv, closures # <<>>, trouble = {}, NEW path \in Call.missing, Holders(path) = {}
  PROVE  /\ Len(closures) = 1 => Node.drv \in Holes
         /\ ~Obtainable(Outputs[Node.drv])
  <1>1. /\ closures \in Seq(ClosureCalls) /\ Call = closures[1] /\ Call \in ClosureCalls
        /\ Nested(closures, Node.drv) /\ Node.drv \in Drvs
        /\ Referred(closures, seenPaths, References) /\ MissingStill(closures, validPaths)
    BY TopOfClosures, NodeTyped, Halves DEF ReferencesInv
  <1>2. Len(closures) = 1 => Node.drv \in Holes
    <2> SUFFICES ASSUME Len(closures) = 1 PROVE Node.drv \in Holes
      OBVIOUS
    <2>1. path \in Outputs[Node.drv]
      BY <1>1 DEF Nested, Asked
    <2>2. path \notin validPaths
      BY <1>1, CallTyped, Halves DEF MissingStill
    <2> QED
      BY <1>1, <2>1, <2>2 DEF Holes, Hole
  <1>3. ASSUME Obtainable(Outputs[Node.drv]) PROVE FALSE
    <2>1. PICK closure \in SUBSET Paths :
            /\ Outputs[Node.drv] \subseteq closure \cup validPaths
            /\ \A q \in closure : Holders(q) # {} /\ Declared(q) \subseteq closure \cup validPaths
      BY <1>3 DEF Obtainable
    <2>2. \A q \in closure : References[q] \subseteq closure \cup validPaths
      BY <2>1 DEF References
    <2>3. closures[1].missing \subseteq closure
      BY <1>1, <2>1, <2>2, MissingIsNeeded
    <2> QED
      BY <1>1, <2>1, <2>3
  <1> QED
    BY <1>2, <1>3

\* What arrives from a cache leaves the holes.
LEMMA HolesLast ==
  ASSUME holds' = holds, \A path \in validPaths' \ validPaths : Holders(path) # {}
  PROVE  Holes \subseteq Holes'
  <1> SUFFICES ASSUME NEW d \in Holes PROVE d \in Holes'
    OBVIOUS
  <1>1. PICK path \in Outputs[d] \ validPaths : Holders(path) = {}
    BY DEF Holes, Hole
  <1>2. path \in Outputs[d] \ validPaths'
    BY <1>1
  <1>3. {c \in Caches : path \in holds'[c]} = {}
    BY <1>1 DEF Holders
  <1> QED
    BY <1>2, <1>3 DEF Holes, Hole, Holders

LEMMA NeverEmptied ==
  ASSUME NEW S, NEW s \in Seq(S), s # <<>>, NEW x, NEW y
  PROVE  Revise(x, s) # <<>> /\ Push(y, Revise(x, s)) # <<>>
  <1>1. PICK T : T = S \cup {x, y}
    OBVIOUS
  <1>2. PICK t : t = Tail(s)
    OBVIOUS
  <1>3. x \in T /\ y \in T
    BY <1>1
  <1>4. t \in Seq(T)
    BY <1>1, <1>2, TailFacts
  <1>5. Push(x, t) # <<>> /\ Push(x, t) \in Seq(T)
    BY <1>3, <1>4, PushFacts
  <1>6. PICK u \in Seq(T) : u = Push(x, t)
    BY <1>5
  <1>7. Push(y, u) # <<>>
    BY <1>3, PushFacts
  <1> QED
    BY <1>2, <1>5, <1>6, <1>7 DEF Revise

LEMMA Returned ==
  ASSUME ClosuresInv, closures # <<>>, NEW o, Return(o)
  PROVE  \/ closures' # <<>> /\ outcome' = outcome
         \/ closures' = <<>> /\ Len(closures) = 1 /\ outcome' = o
         \/ closures' = <<>> /\ o # "complete" /\ outcome' = OfReference(o)
  <1>1. closures \in Seq(ClosureCalls)
    BY CallTyped
  <1>2. Tail(closures) = <<>> <=> Len(closures) = 1
    BY <1>1, TailFacts
  <1> QED
    BY <1>2 DEF Return

LEMMA FetchArrives ==
  ASSUME RealiseInv, ReferencesInv, Fetch
  PROVE  /\ \A path \in validPaths' \ validPaths : Holders(path) # {}
         /\ trouble' = {} => Return("complete")
  <1> DEFINE fresh == Call.missing \ validPaths
             rows(from) == [path \in fresh |-> [prPath |-> path, prReferences |-> Declares[from[path]][path]]]
  <1>1. closures # <<>> /\ DBTypeOK
    BY Halves DEF Fetch, InClosure, ClosuresInv
  <1>2. fresh \in SUBSET Paths
    BY <1>1, TopOfClosures DEF ClosureCalls
  <1>3. \/ \E from \in [fresh -> Caches] :
             /\ \A path \in fresh : from[path] \in Holders(path)
             /\ trouble' = trouble \cup {kind \in {"strayed"} :
                                         \E path \in fresh : ~Least(from[path], Holders(path))}
                                   \cup {kind \in {"failed", "refused"} : ~BatchAccepted(rows(from))}
             /\ \/ registerPaths(rows(from)) /\ Return("complete")
                \/ registerPathsRefused(rows(from)) /\ Return("failed")
        \/ trouble' = trouble \cup {"failed"} /\ UNCHANGED dbVars
        \/ trouble' = trouble \cup {"strayed"} /\ UNCHANGED dbVars
    BY DEF Fetch
  <1>4. ASSUME NEW from \in [fresh -> Caches], \A path \in fresh : from[path] \in Holders(path),
               registerPaths(rows(from)) /\ Return("complete")
        PROVE  \A path \in validPaths' \ validPaths : Holders(path) # {}
    <2> DEFINE refs == [path \in fresh |-> Declares[from[path]][path]]
    <2>1. registerPaths([path \in fresh |-> [prPath |-> path, prReferences |-> refs[path]]])
      <3>1. rows(from) = [path \in fresh |-> [prPath |-> path, prReferences |-> refs[path]]]
        OBVIOUS
      <3> QED
        BY <1>4, <3>1, Zenon
    <2> HIDE DEF refs, rows, fresh
    <2>2. validPaths' = validPaths \cup fresh
      BY <1>1, <1>2, <2>1, Registered
    <2> QED
      BY <1>4, <2>2
  <1>5. ASSUME NEW from \in [fresh -> Caches],
               trouble' = trouble \cup {kind \in {"strayed"} :
                                         \E path \in fresh : ~Least(from[path], Holders(path))}
                                 \cup {kind \in {"failed", "refused"} : ~BatchAccepted(rows(from))},
               registerPathsRefused(rows(from)) /\ Return("failed")
        PROVE  validPaths' = validPaths /\ trouble' # {}
    <2>1. ~BatchAccepted(rows(from)) /\ validPaths' = validPaths
      BY <1>5 DEF registerPathsRefused, dbVars
    <2>2. "refused" \in trouble'
      BY <1>5, <2>1
    <2> QED
      BY <2>1, <2>2
  <1> HIDE DEF rows, fresh
  <1> QED
    BY <1>3, <1>4, <1>5 DEF dbVars

\* A query that no cache failed at ends the calls only over a hole.
LEMMA QueryEnds ==
  ASSUME RealiseInv, ReferencesInv, Query, trouble' = {}
  PROVE  \/ closures' # <<>> /\ outcome' = outcome
         \/ Return("unavailable") /\ \E path \in Call.missing : Holders(path) = {}
  <1>1. closures # <<>> /\ Call.missing # {}
    BY DEF Query, InClosure
  <1>2. PICK down \in [Call.missing -> SUBSET Caches] :
          LET fails == \E path \in Call.missing : QueryFails(path, down[path])
              offered == \A path \in Call.missing : IsOffered(path, down[path])
              references == UNION {OfferedReferences(path, down[path]) : path \in Call.missing}
          IN
          /\ \/ /\ fails
                /\ Return("queryFailed")
             \/ /\ ~fails /\ ~offered
                /\ Return("unavailable")
             \/ /\ ~fails /\ offered
                /\ closures' = Revise([Call EXCEPT !.at = "references",
                                                   !.references = references \ Call.missing], closures)
                /\ UNCHANGED outcome
          /\ trouble' = trouble \cup {kind \in {"failed"} : fails}
                                \cup {kind \in {"strayed"} : \E path \in Call.missing : down[path] # {}}
    BY DEF Query
  <1>3. \A path \in Call.missing : down[path] = {}
    <2>1. "strayed" \notin trouble'
      OBVIOUS
    <2> QED
      BY <1>2, <2>1
  <1>4. ~ \E path \in Call.missing : QueryFails(path, down[path])
    BY <1>3 DEF QueryFails
  <1>5. CASE ~ \A path \in Call.missing : IsOffered(path, down[path])
    <2>1. PICK path \in Call.missing : ~IsOffered(path, down[path])
      BY <1>5
    <2>2. Holders(path) = {}
      BY <1>3, <2>1, SmoothQuery DEF IsOffered
    <2>3. Return("unavailable")
      BY <1>2, <1>4, <1>5
    <2> QED
      BY <2>2, <2>3
  <1>6. CASE \A path \in Call.missing : IsOffered(path, down[path])
    <2>1. \E x : closures' = Revise(x, closures) /\ outcome' = outcome
      BY <1>2, <1>4, <1>6
    <2>2. closures \in Seq(ClosureCalls)
      BY <1>1, TopOfClosures
    <2>3. \A x : Revise(x, closures) # <<>>
      BY <1>1, <2>2, NeverEmptied
    <2> QED
      BY <2>1, <2>3
  <1> QED
    BY <1>5, <1>6

LEMMA ClosureStepBuilds ==
  ASSUME RealiseInv, ReferencesInv, BuildsInv, ClosureStep
  PROVE  BuildsInv'
  <1>1. /\ closures # <<>> /\ StepOfClosure /\ NodesInv /\ ClosuresInv
        /\ trouble \subseteq trouble'
    <2>1. trouble \subseteq trouble'
      BY DEF ClosureStep, LookUp, NothingMissing, Query, NextReference, Fetch
    <2>2. closures # <<>>
      BY DEF ClosureStep, LookUp, NothingMissing, Query, NextReference, Fetch, InClosure
    <2> QED
      BY <2>1, <2>2, Halves, LookUpClosures, NothingMissingClosures, QueryClosures, NextReferenceClosures,
         FetchClosures
      DEF ClosureStep
  <1>2. /\ Node' = Node /\ Node.at \in {"tried", "retried"} /\ nodes # <<>> /\ nodes' = nodes
        /\ holds' = holds
    BY <1>1, NothingFailed DEF StepOfClosure, Node
  <1>3. NeverBuildsWhatCachesHold'
    BY <1>2 DEF NeverBuildsWhatCachesHold, AtNode
  <1>4. Holes \subseteq Holes'
    <2>1. \A path \in validPaths' \ validPaths : Holders(path) # {}
      <3>1. CASE Fetch
        BY <3>1, FetchArrives
      <3>2. CASE ~Fetch
        BY <3>2 DEF ClosureStep, LookUp, NothingMissing, Query, NextReference, dbVars
      <3> QED
        BY <3>1, <3>2
    <2> QED
      BY <1>2, <2>1, HolesLast
  <1>5. trouble' = {} => trouble = {}
    BY <1>1
  <1>6. trouble' = {} => KnownTries(nodes', Holes')
    <2>1. KnownTries(nodes, Holes) => KnownTries(nodes, Holes')
      BY <1>4 DEF KnownTries
    <2> QED
      BY <1>2, <1>5, <2>1 DEF BuildsInv
  <1>7. ASSUME trouble' = {}
        PROVE  \/ closures' # <<>> /\ outcome' = outcome
               \/ closures' = <<>> /\ outcome' = "complete"
               \/ /\ closures' = <<>> /\ validPaths' = validPaths
                  /\ \/ outcome' = "unavailable" /\ Node.drv \in Holes
                     \/ outcome' = "incomplete" /\ ~Obtainable(Outputs[Node.drv])
    <2>1. CASE \E path \in Paths : LookUp(path) \/ NextReference(path)
      <3>1. outcome' = outcome /\ validPaths' = validPaths
        BY <2>1 DEF LookUp, NextReference, dbVars
      <3>2. closures' # <<>>
        <4>1. closures \in Seq(ClosureCalls)
          BY <1>1, TopOfClosures
        <4>2. \A x, y : Revise(x, closures) # <<>> /\ Push(y, Revise(x, closures)) # <<>>
          BY <1>1, <4>1, NeverEmptied
        <4> QED
          BY <2>1, <4>2 DEF LookUp, NextReference
      <3> QED
        BY <3>1, <3>2
    <2>2. CASE NothingMissing
      BY <1>1, <2>2, Returned DEF NothingMissing
    <2>3. CASE Fetch
      BY <1>1, <1>7, <2>3, Returned, FetchArrives
    <2>4. CASE Query
      <3>1. validPaths' = validPaths
        BY <2>4 DEF Query, dbVars
      <3>2. CASE closures' # <<>> /\ outcome' = outcome
        BY <3>2
      <3>3. CASE Return("unavailable") /\ \E path \in Call.missing : Holders(path) = {}
        <4>1. (Len(closures) = 1 => Node.drv \in Holes) /\ ~Obtainable(Outputs[Node.drv])
          BY <1>1, <1>5, <1>7, <3>3, UnofferedIsMissed
        <4>2. OfReference("unavailable") = "incomplete"
          BY DEF OfReference
        <4> QED
          BY <1>1, <3>1, <3>3, <4>1, <4>2, Returned
      <3> QED
        BY <1>7, <2>4, <3>2, <3>3, QueryEnds
    <2> QED
      BY <2>1, <2>2, <2>3, <2>4 DEF ClosureStep
  <1>8. OutcomeKnown'
    <2> SUFFICES ASSUME trouble' = {}
                 PROVE  /\ outcome' \notin {"failed", "queryFailed"}
                        /\ (AtNode("tried") \/ AtNode("retried"))' =>
                             /\ outcome' = "unavailable" => Node.drv \in Holes'
                             /\ outcome' = "incomplete" => ~Obtainable(Outputs[Node.drv])'
      BY <1>2 DEF OutcomeKnown
    <2>1. outcome \notin {"failed", "queryFailed"}
      BY <1>5 DEF BuildsInv, OutcomeKnown
    <2>2. closures' # <<>> => ~(AtNode("tried") \/ AtNode("retried"))'
      BY DEF AtNode
    <2>3. validPaths' = validPaths => (Obtainable(Outputs[Node.drv])' <=> Obtainable(Outputs[Node.drv]))
      BY <1>2 DEF Obtainable, Holders, Declared
    <2> QED
      BY <1>4, <1>7, <2>1, <2>2, <2>3
  <1> QED
    BY <1>3, <1>6, <1>8 DEF BuildsInv

\* The calls around the innermost are for other derivations, whose outputs
\* are others too.
LEMMA BuildKeepsHoles ==
  ASSUME RealiseInv, Build, NEW i \in DOMAIN nodes, i > 1, nodes[i].drv \in Holes
  PROVE  nodes[i].drv \in Holes'
  <1> DEFINE S == Outputs[Node.drv] \ validPaths
  <1>1. NodesInv /\ nodes # <<>> /\ holds' = holds
    BY Halves DEF Build, AtNode, world
  <1>2. 1 \in DOMAIN nodes /\ Node = nodes[1] /\ Node.drv \in Drvs /\ nodes[i].drv \in Drvs
    BY <1>1, NodeTyped DEF NodeCalls
  <1>3. validPaths' \subseteq validPaths \cup Outputs[Node.drv]
    BY DEF Build, registerPaths, insertPathRows, BatchPaths
  <1>4. nodes[i].drv # Node.drv
    <2>1. PICK depth \in Numberings : TRUE
      BY AcyclicAssumption
    <2>2. depth[nodes[1].drv] < depth[nodes[i].drv]
      BY <1>1, <1>2, <2>1 DEF NodesInv, StackDescends
    <2>3. depth[nodes[1].drv] \in Nat
      BY <1>2, <2>1, NumberingTyped
    <2> QED
      BY <1>2, <2>2, <2>3
  <1>5. PICK path \in Outputs[nodes[i].drv] \ validPaths : Holders(path) = {}
    BY DEF Holes, Hole
  <1>6. path \in Outputs[nodes[i].drv] \ validPaths'
    BY <1>2, <1>3, <1>4, <1>5, GraphAssumption
  <1>7. {c \in Caches : path \in holds'[c]} = {}
    BY <1>1, <1>5 DEF Holders
  <1> QED
    BY <1>2, <1>6, <1>7 DEF Holes, Hole, Holders

\* What a step of realiseNode needs to say of the innermost call it leaves.
TryKnown(x) ==
  /\ x \in NodeCalls
  /\ x.at = "inputs" => /\ x.firstTry \in {"unavailable", "incomplete"}
                        /\ x.firstTry = "unavailable" => x.drv \in Holes

LEMMA NodeStepTries ==
  ASSUME RealiseInv, OutcomeKnown, KnownTries(nodes, Holes), trouble = {}, NodeStep
  PROVE  KnownTries(nodes', Holes')
  <1>1. nodes \in Seq(NodeCalls) /\ NodesInv /\ nodes # <<>>
    BY Halves DEF NodesInv, NodeStep, AlreadyValid, SubstituteFirst, Substituted, SubstitutionStops,
                  InputsFirst, Retry, NotSubstituted, Build, BuildFails, NextInput, AtNode
  <1>2. holds' = holds /\ (~Build => validPaths' = validPaths)
    BY NodeStepPlace
    DEF NodeStep, AlreadyValid, SubstituteFirst, Substituted, SubstitutionStops, InputsFirst, Retry,
        NotSubstituted, BuildFails, NextInput, dbVars
  <1>3. ~Build => Holes' = Holes
    BY <1>2, HolesKept
  <1>4. Node \in NodeCalls /\ Node = nodes[1] /\ 1 \in DOMAIN nodes
    BY <1>1, NodeTyped
  <1>5. TryKnown(Node)
    BY <1>4 DEF TryKnown, KnownTries
  <1>6. \A x : TryKnown(x) => KnownTries(Revise(x, nodes), Holes)
    BY <1>1, TriesRevised DEF TryKnown
  <1>7. CASE AlreadyValid \/ Substituted \/ Build
    <2>1. nodes' = Tail(nodes)
      BY <1>7 DEF AlreadyValid, Substituted, Build, Realised
    <2>2. \A i \in DOMAIN nodes : i > 1 /\ nodes[i].drv \in Holes => nodes[i].drv \in Holes'
      BY <1>3, BuildKeepsHoles
    <2> QED
      BY <1>1, <2>1, <2>2, TriesPopped
  <1>8. CASE \E at \in {"tried", "retried", "build"} : Go(at)
    <2>1. PICK at \in {"tried", "retried", "build"} : Go(at)
      BY <1>8
    <2>2. PICK x : x = [Node EXCEPT !.at = at]
      OBVIOUS
    <2>3. TryKnown(x)
      BY <1>4, <2>2 DEF TryKnown, NodeCalls
    <2>4. nodes' = Revise(x, nodes)
      BY <2>1, <2>2 DEF Go
    <2>5. ~Build
      <3>1. nodes' # Tail(nodes)
        <4>1. Len(Revise(x, nodes)) = Len(nodes) /\ Len(Tail(nodes)) = Len(nodes) - 1 /\ Len(nodes) \in Nat
          BY <1>1, <2>3, ReviseFacts, TailFacts DEF TryKnown
        <4> QED
          BY <2>4, <4>1
      <3> QED
        BY <3>1 DEF Build, Realised
    <2> QED
      BY <1>3, <1>6, <2>3, <2>4, <2>5
  <1>9. CASE SubstitutionStops \/ BuildFails
    <2>1. nodes' = <<>>
      BY <1>9 DEF SubstitutionStops, BuildFails, Stop
    <2> QED
      BY <2>1 DEF KnownTries
  <1>10. CASE InputsFirst
    <2>1. PICK x : x = [Node EXCEPT !.at = "inputs", !.firstTry = outcome]
      OBVIOUS
    <2>2. outcome \in ClosureOutcomes /\ outcome # "complete" /\ AtNode("tried")
          /\ outcome \notin {"failed", "queryFailed"}
      BY <1>10, Halves DEF ClosuresInv, InputsFirst, OutcomeKnown
    <2>3. TryKnown(x)
      BY <1>4, <2>1, <2>2 DEF TryKnown, NodeCalls, ClosureOutcomes, OutcomeKnown
    <2>4. nodes' = Revise(x, nodes) /\ ~Build
      BY <1>10, <2>1, <1>4 DEF InputsFirst, Build, AtNode
    <2> QED
      BY <1>3, <1>6, <2>3, <2>4
  <1>11. CASE \E d \in Drvs : NextInput(d)
    <2>1. PICK d \in Drvs : NextInput(d)
      BY <1>11
    <2>2. PICK x : x = [Node EXCEPT !.inputs = @ \ {d}]
      OBVIOUS
    <2>3. TryKnown(x)
      BY <1>4, <1>5, <2>2 DEF TryKnown, NodeCalls
    <2>4. PICK rest : rest = Revise(x, nodes)
      OBVIOUS
    <2>5. rest \in Seq(NodeCalls) /\ KnownTries(rest, Holes)
      BY <1>1, <1>6, <2>3, <2>4, ReviseFacts DEF TryKnown
    <2>6. NodeCall(d) \in NodeCalls /\ NodeCall(d).at = "enter"
      BY GraphAssumption DEF NodeCall, NodeCalls, ClosureOutcomes
    <2>7. KnownTries(Push(NodeCall(d), rest), Holes)
      BY <2>5, <2>6, TriesPushed
    <2>8. nodes' = rest \/ nodes' = Push(NodeCall(d), rest)
      BY <2>1, <2>2, <2>4 DEF NextInput
    <2>9. ~Build
      BY <2>1 DEF NextInput, Build, AtNode
    <2> QED
      BY <1>3, <2>5, <2>7, <2>8, <2>9
  <1>12. SubstituteFirst \/ Retry \/ NotSubstituted => \E at \in {"tried", "retried", "build"} : Go(at)
    BY DEF SubstituteFirst, Retry, NotSubstituted
  <1> QED
    BY <1>7, <1>8, <1>9, <1>10, <1>11, <1>12 DEF NodeStep

\* A build comes after a try that found a hole, or an incomplete closure.
LEMMA BuildIsNeeded ==
  ASSUME RealiseInv, OutcomeKnown, KnownTries(nodes, Holes), trouble = {}, NodeStep, nodes' # <<>>, Node'.at = "build"
  PROVE  Node'.drv = Node.drv /\ validPaths' = validPaths /\ ~Obtainable(Outputs[Node.drv])
  <1>1. NodesInv /\ nodes # <<>>
    BY Halves DEF NodeStep, AlreadyValid, SubstituteFirst, Substituted, SubstitutionStops,
                  InputsFirst, Retry, NotSubstituted, Build, BuildFails, NextInput, AtNode
  <1>2. Node = nodes[1] /\ 1 \in DOMAIN nodes /\ Node.drv \in Drvs
    BY <1>1, NodeTyped
  <1>3. Retry \/ NotSubstituted
    <2>1. CASE AlreadyValid \/ Substituted \/ Build
      BY <1>1, <2>1, PoppedTo DEF AlreadyValid, Substituted, Build
    <2>2. CASE SubstituteFirst
      BY <1>1, <2>2, GoneTo DEF SubstituteFirst
    <2>3. CASE SubstitutionStops \/ BuildFails
      BY <2>3 DEF SubstitutionStops, BuildFails, Stop
    <2>4. CASE InputsFirst
      <3>1. PICK x : x = [Node EXCEPT !.at = "inputs", !.firstTry = outcome]
        OBVIOUS
      <3>2. x \in NodeCalls /\ x.at = "inputs"
        BY <1>1, <3>1, NodeTyped, Halves DEF NodeCalls, ClosuresInv
      <3>3. NodeRevised(x)
        BY <2>4, <3>1 DEF InputsFirst, NodeRevised
      <3> QED
        BY <1>1, <3>2, <3>3, RevisedHead DEF Node
    <2>5. CASE \E d \in Drvs : NextInput(d)
      BY <1>1, <2>5, NextInputPlace
    <2> QED
      BY <2>1, <2>2, <2>3, <2>4, <2>5 DEF NodeStep
  <1>4. CASE Retry
    <2>1. Node.firstTry # "incomplete" /\ Go("build") /\ Node.at = "inputs" /\ validPaths' = validPaths
      <3>1. Go("build") \/ Go("retried")
        BY <1>4 DEF Retry
      <3>2. ~Go("retried")
        BY <1>1, GoneTo
      <3> QED
        BY <1>4, <3>1, <3>2 DEF Retry, AtNode, dbVars
    <2>2. Node.drv \in Holes
      BY <1>2, <2>1 DEF KnownTries
    <2> QED
      BY <1>1, <2>1, <2>2, GoneTo, HoleBars
  <1>5. CASE NotSubstituted
    <2>1. Go("build") /\ AtNode("retried") /\ outcome # "complete" /\ validPaths' = validPaths
          /\ outcome \in ClosureOutcomes
      BY <1>5, Halves DEF NotSubstituted, dbVars, ClosuresInv
    <2>2. ~Obtainable(Outputs[Node.drv])
      BY <2>1, HoleBars DEF OutcomeKnown, ClosureOutcomes
    <2> QED
      BY <1>1, <2>1, <2>2, GoneTo
  <1> QED
    BY <1>3, <1>4, <1>5

LEMMA NodeStepBuilds ==
  ASSUME RealiseInv, BuildsInv, NodeStep
  PROVE  BuildsInv'
  <1>1. UNCHANGED <<holds, outcome, trouble>>
    BY NodeStepPlace
  <1>2. trouble = {} => OutcomeKnown /\ KnownTries(nodes, Holes)
    BY DEF BuildsInv
  <1>3. trouble' = {} => KnownTries(nodes', Holes')
    BY <1>1, <1>2, NodeStepTries
  <1>4. OutcomeKnown'
    <2>1. ~(AtNode("tried") \/ AtNode("retried"))'
      <3>1. closures' # <<>> \/ (nodes' # <<>> => Node'.at \in {"enter", "inputs", "build"})
        <4>1. \A x : <<x>> # <<>>
          OBVIOUS
        <4> QED
          BY <4>1, NodeStepPlace DEF SubstituteClosure
      <3> QED
        BY <3>1 DEF AtNode
    <2> QED
      BY <1>1, <1>2, <2>1 DEF OutcomeKnown
  <1>5. NeverBuildsWhatCachesHold'
    <2> SUFFICES ASSUME AtNode("build")', trouble' = {} PROVE ~Obtainable(Outputs[Node.drv])'
      BY DEF NeverBuildsWhatCachesHold
    <2>1. nodes' # <<>> /\ Node'.at = "build" /\ trouble = {}
      BY <1>1 DEF AtNode
    <2>2. Node'.drv = Node.drv /\ validPaths' = validPaths /\ ~Obtainable(Outputs[Node.drv])
      BY <1>2, <2>1, BuildIsNeeded
    <2>3. PICK needed : needed = Outputs[Node.drv]
      OBVIOUS
    <2>4. Outputs[Node.drv]' = needed
      BY <2>2, <2>3
    <2>5. Obtainable(Outputs[Node.drv])' <=> Obtainable(needed)'
      BY <2>4 DEF Obtainable
    <2>6. Obtainable(needed)' <=> Obtainable(needed)
      BY <1>1, <2>2 DEF Obtainable, Holders, Declared
    <2> QED
      BY <2>2, <2>3, <2>5, <2>6
  <1> QED
    BY <1>3, <1>4, <1>5 DEF BuildsInv

LEMMA BuildsInductive ==
  ASSUME RealiseInv, ReferencesInv, BuildsInv, [Next]_vars
  PROVE  BuildsInv'
  <1>1. CASE UNCHANGED vars
    <2>1. UNCHANGED <<holds, trouble, closures, validPaths, nodes, outcome>>
      BY <1>1 DEF vars
    <2>2. Node' = Node /\ Holes' = Holes
      BY <2>1, HolesKept DEF Node
    <2>3. Obtainable(Outputs[Node.drv])' <=> Obtainable(Outputs[Node.drv])
      BY <2>1, <2>2 DEF Obtainable, Holders, Declared
    <2> QED
      BY <2>1, <2>2, <2>3 DEF BuildsInv, OutcomeKnown, NeverBuildsWhatCachesHold, AtNode
  <1>2. CASE \E path \in Paths : OtherRegisters(path)
    <2>1. trouble' # {}
      BY <1>2 DEF OtherRegisters
    <2> QED
      BY <2>1 DEF BuildsInv, OutcomeKnown, NeverBuildsWhatCachesHold
  <1> QED
    BY <1>1, <1>2, ClosureStepBuilds, NodeStepBuilds DEF Next, Ended

LEMMA BuildsStart == Init => BuildsInv
  <1> SUFFICES ASSUME Init PROVE BuildsInv
    OBVIOUS
  <1> DEFINE call == NodeCall(Root)
  <1>1. call.at = "enter" /\ nodes = <<call>> /\ outcome = "complete"
    BY DEF Init, NodeCall
  <1> HIDE DEF call
  <1>2. DOMAIN nodes = {1} /\ nodes[1].at = "enter" /\ Node.at = "enter"
    BY <1>1 DEF Node
  <1> QED
    BY <1>1, <1>2 DEF BuildsInv, OutcomeKnown, KnownTries, NeverBuildsWhatCachesHold, AtNode

(* While nothing goes wrong with the caches, a derivation is built only if *)
(* some path it needs is nowhere to be had, inputs just built included.    *)
THEOREM NeverBuildsNeedlessly == Spec => []NeverBuildsWhatCachesHold
  <1>1. RealiseInv /\ ReferencesInv /\ BuildsInv /\ [Next]_vars => BuildsInv'
    BY BuildsInductive
  <1>2. BuildsInv => NeverBuildsWhatCachesHold
    BY DEF BuildsInv
  <1> QED
    BY <1>1, <1>2, BuildsStart, ReferencesHold, Inductive, PTL DEF Spec
=============================================================================
