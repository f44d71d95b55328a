----------------------------- MODULE ThunksProofs -----------------------------
(***************************************************************************)
(* Theorems about Thunks, for any values, StablePtrs, sizes of the arena   *)
(* and of its blocks, ceiling and stack.                                   *)
(***************************************************************************)
EXTENDS Thunks, SequenceTheorems, FiniteSetTheorems, TLAPS

-----------------------------------------------------------------------------
(* The stack.                                                              *)

LEMMA PushFacts ==
  ASSUME TypeOK, NEW kind \in {"force", "call", "try"}, NEW thunk \in Places \cup {None},
         NEW env \in StablePtrs \cup {None}, NEW inner, Push(kind, thunk, env, inner)
  PROVE  /\ frames' \in Seq(Frame) /\ Len(frames') = Len(frames) + 1
         /\ Len(frames') <= MaxStack
         /\ DOMAIN frames' = 1 .. Len(frames) + 1
         /\ \A i \in 1 .. Len(frames) : frames'[i] = frames[i]
         /\ frames'[Len(frames) + 1] =
              [kind |-> kind, thunk |-> thunk, env |-> env, phase |-> "marked", outer |-> depth]
  <1> DEFINE f == [kind |-> kind, thunk |-> thunk, env |-> env, phase |-> "marked",
                   outer |-> depth]
  <1>1. f \in Frame
    BY DEF Frame, Phases, TypeOK
  <1>2. frames \in Seq(Frame) /\ frames' = Append(frames, f) /\ Len(frames) < MaxStack
    BY DEF TypeOK, Push
  <1> HIDE DEF f
  <1>3. /\ Append(frames, f) \in Seq(Frame)
        /\ Len(Append(frames, f)) = Len(frames) + 1
        /\ \A i \in 1 .. Len(frames) : Append(frames, f)[i] = frames[i]
        /\ Append(frames, f)[Len(frames) + 1] = f
    BY <1>1, <1>2, AppendProperties
  <1>4. Len(frames) \in Nat /\ DOMAIN frames' = 1 .. Len(frames')
    BY <1>2, <1>3, LenProperties
  <1>5. Len(frames) + 1 <= MaxStack
    BY <1>2, <1>4, SizesAreNat
  <1> QED
    BY <1>2, <1>3, <1>4, <1>5 DEF f

LEMMA TopFacts ==
  ASSUME TypeOK, frames # << >>
  PROVE  /\ Len(frames) \in Nat \ {0} /\ DOMAIN frames = 1 .. Len(frames)
         /\ Len(frames) \in DOMAIN frames /\ Top = frames[Len(frames)] /\ Top \in Frame
  <1>1. frames \in Seq(Frame)
    BY DEF TypeOK
  <1>2. Len(frames) \in Nat /\ DOMAIN frames = 1 .. Len(frames) /\ Len(frames) # 0
    BY <1>1, LenProperties, EmptySeq
  <1>3. Len(frames) \in 1 .. Len(frames)
    BY <1>2
  <1>4. frames[Len(frames)] \in Frame
    BY <1>1, <1>3, ElementOfSeq
  <1> QED
    BY <1>2, <1>3, <1>4 DEF Top

LEMMA LeaveFacts ==
  ASSUME TypeOK, frames # << >>, Leave
  PROVE  /\ frames' \in Seq(Frame) /\ Len(frames') = Len(frames) - 1
         /\ Len(frames') <= MaxStack
         /\ DOMAIN frames' = 1 .. Len(frames) - 1
         /\ \A i \in 1 .. Len(frames) - 1 : frames'[i] = frames[i]
         /\ depth' = frames[Len(frames)].outer
  <1>1. frames \in Seq(Frame) /\ frames' = SubSeq(frames, 1, Len(frames) - 1)
        /\ Len(frames) <= MaxStack
    BY DEF TypeOK, Leave, Pop
  <1>2. Len(frames) \in Nat \ {0} /\ DOMAIN frames = 1 .. Len(frames)
    BY TopFacts
  <1>3. /\ 1 \in Int /\ Len(frames) - 1 \in Int
        /\ \A i \in 1 .. Len(frames) - 1 : frames[i] \in Frame
    <2>1. ASSUME NEW i \in 1 .. Len(frames) - 1 PROVE frames[i] \in Frame
      <3>1. i \in 1 .. Len(frames)
        BY <1>2
      <3> QED
        BY <1>1, <3>1, ElementOfSeq
    <2> QED
      BY <1>2, <2>1
  <1>4. /\ SubSeq(frames, 1, Len(frames) - 1) \in Seq(Frame)
        /\ Len(SubSeq(frames, 1, Len(frames) - 1)) =
             IF 1 <= Len(frames) - 1 THEN (Len(frames) - 1) - 1 + 1 ELSE 0
        /\ \A i \in 1 .. (Len(frames) - 1) - 1 + 1 :
             SubSeq(frames, 1, Len(frames) - 1)[i] = frames[1 + i - 1]
    BY <1>3, SubSeqProperties
  <1>5. Len(frames') = Len(frames) - 1 /\ frames' \in Seq(Frame)
    BY <1>1, <1>2, <1>4
  <1>6. DOMAIN frames' = 1 .. Len(frames) - 1
    BY <1>5, LenProperties
  <1>7. ASSUME NEW i \in 1 .. Len(frames) - 1 PROVE frames'[i] = frames[i]
    <2>1. i \in 1 .. (Len(frames) - 1) - 1 + 1 /\ 1 + i - 1 = i
      BY <1>2
    <2> QED
      BY <1>1, <1>4, <2>1
  <1>8. Len(frames') <= MaxStack
    BY <1>1, <1>2, <1>5, SizesAreNat
  <1>9. depth' = frames[Len(frames)].outer
    BY DEF Leave, Top
  <1> QED
    BY <1>5, <1>6, <1>7, <1>8, <1>9

LEMMA PhaseFacts ==
  ASSUME TypeOK, frames # << >>, NEW p \in Phases, SetPhase(p)
  PROVE  /\ frames' \in Seq(Frame) /\ Len(frames') = Len(frames)
         /\ DOMAIN frames' = 1 .. Len(frames)
         /\ \A i \in 1 .. Len(frames) - 1 : frames'[i] = frames[i]
         /\ frames'[Len(frames)] = [frames[Len(frames)] EXCEPT !.phase = p]
         /\ frames'[Len(frames)] \in Frame
  <1> DEFINE n == Len(frames)  f == [frames[n] EXCEPT !.phase = p]
  <1>1. /\ frames \in Seq(Frame) /\ n \in Nat \ {0} /\ DOMAIN frames = 1 .. n
        /\ n \in DOMAIN frames /\ frames[n] \in Frame
    BY TopFacts DEF TypeOK
  <1>2. f \in Frame
    BY <1>1 DEF Frame
  <1>3. frames' = [frames EXCEPT ![n] = f]
    BY <1>1 DEF SetPhase
  <1> HIDE DEF n, f
  <1>4. [frames EXCEPT ![n] = f] \in Seq(Frame) /\ Len([frames EXCEPT ![n] = f]) = n
    BY <1>1, <1>2, ExceptSeq DEF n
  <1>5. DOMAIN frames' = 1 .. n
    BY <1>1, <1>3
  <1>6. \A i \in 1 .. n - 1 : frames'[i] = frames[i]
    BY <1>1, <1>3
  <1>7. frames'[n] = f
    BY <1>1, <1>3
  <1> QED
    BY <1>2, <1>3, <1>4, <1>5, <1>6, <1>7 DEF n, f

-----------------------------------------------------------------------------
(* The inductive invariant: TypeOK needs the payload a cell's state calls   *)
(* for, and the depth the one each frame keeps.                             *)

\* A cell that is not computed holds its environment's StablePtr; a boxed one
\* holds that of a value, which the runtime has not still to hand out.
PayloadFits(cell, uses, targets) ==
  /\ cell.state \in {"pending", "blackhole"} => cell.payload \in StablePtrs
  /\ cell.state = "computed" => cell.payload # None
  /\ cell.payload \in StablePtrs => uses[cell.payload] # "unused"
  /\ cell.state = "computed" /\ cell.payload \in StablePtrs =>
       targets[cell.payload] \in Boxed

PayloadInv == \A a \in Places : PayloadFits(cells[a], stable, points)

\* A force knows its thunk, and the StablePtr it found there.
EnvInv == \A i \in DOMAIN frames : frames[i].kind = "force" =>
            frames[i].thunk \in Places /\ frames[i].env \in StablePtrs

\* The calls among the first n frames, which is the depth around the next.
CallsIn(fs, n) == {i \in 1 .. n : fs[i].kind = "call"}
DepthInv ==
  /\ depth = Cardinality(CallsIn(frames, Len(frames)))
  /\ \A i \in DOMAIN frames : frames[i].outer = Cardinality(CallsIn(frames, i - 1))

-----------------------------------------------------------------------------
(* The depth.                                                               *)

\* What a step may do to the stack, and to the depth with it.
FrameStep ==
  \/ UNCHANGED <<frames, depth>>
  \/ \E kind \in {"force", "call", "try"}, thunk \in Places \cup {None},
        env \in StablePtrs \cup {None} :
       /\ Push(kind, thunk, env, IF kind = "call" THEN depth + 1 ELSE depth)
       /\ kind = "force" => thunk \in Places /\ env \in StablePtrs
  \/ frames # << >> /\ Leave
  \/ frames # << >> /\ depth' = depth /\ \E p \in Phases : SetPhase(p)

LEMMA FrameSteps ==
  ASSUME TypeOK, PayloadInv, Next
  PROVE  FrameStep
  <1>1. CASE \/ arenaInit \/ arenaDestroy \/ nn_thunk_new_bc \/ nn_thunk_new_computed
             \/ \E v \in Inline \ Statics : nn_thunk_new_inline(v)
    BY <1>1 DEF arenaInit, arenaDestroy, nn_thunk_new_bc, nn_thunk_new_computed,
       nn_thunk_new, nn_thunk_new_inline, FrameStep
  <1>2. CASE (\E v \in Inline : StoreInline(v)) \/ (\E v \in Boxed : StoreBoxed(v))
    BY <1>2 DEF StoreInline, StoreBoxed, FrameStep, Phases
  <1>3. CASE \E a \in Places : ForceComputed(a) \/ ForceBlackhole(a)
    BY <1>3 DEF ForceComputed, ForceBlackhole, FrameStep
  <1>4. CASE \E a \in Places : ForcePending(a)
    <2>1. PICK a \in Places : ForcePending(a)
      BY <1>4
    <2>2. cells[a].payload \in StablePtrs
      BY <2>1 DEF ForcePending, PayloadInv, PayloadFits
    <2>3. Push("force", a, cells[a].payload, IF "force" = "call" THEN depth + 1 ELSE depth)
      BY <2>1 DEF ForcePending
    <2> QED
      BY <2>2, <2>3 DEF FrameStep
  <1>5. CASE RunThunk \/ LeaveHandler
    BY <1>5 DEF RunThunk, LeaveHandler, FrameStep, Phases
  <1>6. CASE FreePendingEnv \/ Answer \/ UnwindForce \/ UnwindCall \/ UnwindTry
    BY <1>6 DEF FreePendingEnv, Answer, UnwindForce, UnwindCall, UnwindTry, FrameStep
  <1>7. CASE withCallFrame
    <2>1. UNCHANGED <<frames, depth>> \/ Push("call", None, None, depth + 1)
      BY <1>7 DEF withCallFrame
    <2>2. ASSUME Push("call", None, None, depth + 1)
          PROVE  Push("call", None, None, IF "call" = "call" THEN depth + 1 ELSE depth)
      BY <2>2
    <2> QED
      BY <2>1, <2>2 DEF FrameStep
  <1>8. CASE catchEvalError
    <2>1. Push("try", None, None, IF "try" = "call" THEN depth + 1 ELSE depth)
      BY <1>8 DEF catchEvalError
    <2> QED
      BY <2>1 DEF FrameStep
  <1>9. CASE \/ \E kind \in Errors : Throw(kind)
             \/ Interrupt \/ \E t \in Boxed \cup {Env} : InterruptAllocation(t)
             \/ runEvalIO
    BY <1>9 DEF Throw, Interrupt, InterruptAllocation, runEvalIO, FrameStep
  <1> QED
    BY <1>1, <1>2, <1>3, <1>4, <1>5, <1>6, <1>7, <1>8, <1>9 DEF Next

\* The calls among n frames are finite in number, and only the frames tell.
LEMMA CallsInFacts ==
  ASSUME NEW n \in Nat, NEW fs
  PROVE  /\ IsFiniteSet(CallsIn(fs, n)) /\ Cardinality(CallsIn(fs, n)) \in Nat
         /\ CallsIn(fs, n + 1) = CallsIn(fs, n) \cup
                                   (IF fs[n + 1].kind = "call" THEN {n + 1} ELSE {})
         /\ Cardinality(CallsIn(fs, n + 1)) =
              Cardinality(CallsIn(fs, n)) + (IF fs[n + 1].kind = "call" THEN 1 ELSE 0)
  <1>1. IsFiniteSet(1 .. n)
    BY FS_Interval
  <1>2. CallsIn(fs, n) \subseteq 1 .. n
    BY DEF CallsIn
  <1>3. IsFiniteSet(CallsIn(fs, n))
    BY <1>1, <1>2, FS_Subset
  <1>4. Cardinality(CallsIn(fs, n)) \in Nat
    BY <1>3, FS_CardinalityType
  <1>5. 1 .. n + 1 = (1 .. n) \cup {n + 1}
    OBVIOUS
  <1>6. CallsIn(fs, n + 1) = CallsIn(fs, n) \cup
                               (IF fs[n + 1].kind = "call" THEN {n + 1} ELSE {})
    BY <1>5 DEF CallsIn
  <1>7. n + 1 \notin CallsIn(fs, n)
    BY <1>2
  <1>8. Cardinality(CallsIn(fs, n) \cup {n + 1}) = Cardinality(CallsIn(fs, n)) + 1
    BY <1>3, <1>7, FS_AddElement
  <1>9. CASE fs[n + 1].kind = "call"
    BY <1>3, <1>4, <1>6, <1>8, <1>9
  <1>10. CASE fs[n + 1].kind # "call"
    <2>1. CallsIn(fs, n + 1) = CallsIn(fs, n)
      BY <1>6, <1>10
    <2> QED
      BY <1>3, <1>4, <1>6, <1>10, <2>1
  <1> QED
    BY <1>9, <1>10

LEMMA SameCalls ==
  ASSUME NEW n \in Nat, NEW fs, NEW gs, \A i \in 1 .. n : fs[i].kind = gs[i].kind
  PROVE  CallsIn(fs, n) = CallsIn(gs, n)
  BY DEF CallsIn

\* Every step keeps the stack's type, and in each frame the calls below it.
LEMMA DepthKept ==
  ASSUME TypeOK, DepthInv, FrameStep
  PROVE  frames' \in Seq(Frame) /\ Len(frames') <= MaxStack /\ depth' \in Nat /\ DepthInv'
  <1>1. /\ frames \in Seq(Frame) /\ Len(frames) <= MaxStack /\ depth \in Nat
        /\ Len(frames) \in Nat /\ DOMAIN frames = 1 .. Len(frames)
    BY LenProperties DEF TypeOK
  <1>2. CASE UNCHANGED <<frames, depth>>
    BY <1>1, <1>2 DEF DepthInv, CallsIn
  <1>3. ASSUME NEW kind \in {"force", "call", "try"}, NEW thunk \in Places \cup {None},
               NEW env \in StablePtrs \cup {None},
               Push(kind, thunk, env, IF kind = "call" THEN depth + 1 ELSE depth)
        PROVE  frames' \in Seq(Frame) /\ Len(frames') <= MaxStack /\ depth' \in Nat /\ DepthInv'
    <2> DEFINE n == Len(frames)
    <2>1. /\ frames' \in Seq(Frame) /\ Len(frames') = n + 1
          /\ Len(frames') <= MaxStack
          /\ DOMAIN frames' = 1 .. n + 1
          /\ \A i \in 1 .. n : frames'[i] = frames[i]
          /\ frames'[n + 1] =
               [kind |-> kind, thunk |-> thunk, env |-> env, phase |-> "marked",
                outer |-> depth]
      BY <1>3, PushFacts
    <2>2. depth' = IF kind = "call" THEN depth + 1 ELSE depth
      BY <1>3 DEF Push
    <2> HIDE DEF n
    <2>3. n \in Nat /\ \A i \in 1 .. n : frames'[i].kind = frames[i].kind
      BY <1>1, <2>1 DEF n
    <2>4. \A k \in 0 .. n : CallsIn(frames', k) = CallsIn(frames, k)
      <3>1. ASSUME NEW k \in 0 .. n PROVE CallsIn(frames', k) = CallsIn(frames, k)
        <4>1. k \in Nat /\ \A i \in 1 .. k : frames'[i].kind = frames[i].kind
          BY <2>3
        <4> QED
          BY <4>1, SameCalls
      <3> QED
        BY <3>1
    <2>5. depth = Cardinality(CallsIn(frames, n))
          /\ \A i \in 1 .. n : frames[i].outer = Cardinality(CallsIn(frames, i - 1))
      BY <1>1 DEF DepthInv, n
    <2>6. CallsIn(frames', n) = CallsIn(frames, n)
      BY <2>3, <2>4
    <2>7. Cardinality(CallsIn(frames', n + 1)) = depth'
      <3>1. Cardinality(CallsIn(frames', n + 1)) =
              Cardinality(CallsIn(frames', n)) + (IF frames'[n + 1].kind = "call" THEN 1 ELSE 0)
        BY <2>3, CallsInFacts
      <3>2. frames'[n + 1].kind = kind
        BY <2>1
      <3> QED
        BY <1>1, <2>2, <2>5, <2>6, <3>1, <3>2
    <2>8. ASSUME NEW i \in 1 .. n + 1
          PROVE  frames'[i].outer = Cardinality(CallsIn(frames', i - 1))
      <3>1. CASE i \in 1 .. n
        <4>1. i - 1 \in 0 .. n
          BY <2>3, <3>1
        <4> QED
          BY <2>1, <2>4, <2>5, <3>1, <4>1
      <3>2. CASE i = n + 1
        <4>1. i - 1 = n /\ frames'[i].outer = depth
          BY <2>1, <2>3, <3>2
        <4> QED
          BY <2>5, <2>6, <4>1
      <3> QED
        BY <2>3, <3>1, <3>2
    <2>9. DepthInv'
      BY <2>1, <2>7, <2>8 DEF DepthInv
    <2> QED
      BY <1>1, <2>1, <2>2, <2>9
  <1>4. CASE frames # << >> /\ Leave
    <2> DEFINE n == Len(frames)
    <2>1. n \in Nat \ {0} /\ frames[n] \in Frame
      BY <1>4, TopFacts
    <2>2. /\ frames' \in Seq(Frame) /\ Len(frames') = n - 1
          /\ Len(frames') <= MaxStack
          /\ DOMAIN frames' = 1 .. n - 1
          /\ \A i \in 1 .. n - 1 : frames'[i] = frames[i]
          /\ depth' = frames[n].outer
      BY <1>4, LeaveFacts
    <2> HIDE DEF n
    <2>3. \A k \in 0 .. n - 1 : CallsIn(frames', k) = CallsIn(frames, k)
      <3>1. ASSUME NEW k \in 0 .. n - 1 PROVE CallsIn(frames', k) = CallsIn(frames, k)
        <4>1. k \in Nat /\ \A i \in 1 .. k : frames'[i].kind = frames[i].kind
          BY <2>1, <2>2
        <4> QED
          BY <4>1, SameCalls
      <3> QED
        BY <3>1
    <2>4. \A i \in 1 .. n : frames[i].outer = Cardinality(CallsIn(frames, i - 1))
      BY <1>1 DEF DepthInv, n
    <2>5. depth' = Cardinality(CallsIn(frames', n - 1))
      <3>1. n - 1 \in 0 .. n - 1 /\ n \in 1 .. n
        BY <2>1
      <3> QED
        BY <2>2, <2>3, <2>4, <3>1
    <2>6. ASSUME NEW i \in 1 .. n - 1
          PROVE  frames'[i].outer = Cardinality(CallsIn(frames', i - 1))
      <3>1. i - 1 \in 0 .. n - 1 /\ i \in 1 .. n
        BY <2>1
      <3> QED
        BY <2>2, <2>3, <2>4, <3>1
    <2>7. DepthInv'
      BY <2>2, <2>5, <2>6 DEF DepthInv
    <2> QED
      BY <2>1, <2>2, <2>7 DEF Frame
  <1>5. ASSUME frames # << >>, depth' = depth, NEW p \in Phases, SetPhase(p)
        PROVE  frames' \in Seq(Frame) /\ Len(frames') <= MaxStack /\ depth' \in Nat /\ DepthInv'
    <2> DEFINE n == Len(frames)
    <2>1. n \in Nat \ {0} /\ frames[n] \in Frame
      BY <1>5, TopFacts
    <2>2. /\ frames' \in Seq(Frame) /\ Len(frames') = n
          /\ DOMAIN frames' = 1 .. n
          /\ \A i \in 1 .. n - 1 : frames'[i] = frames[i]
          /\ frames'[n] = [frames[n] EXCEPT !.phase = p]
          /\ frames'[n] \in Frame
      BY <1>5, PhaseFacts
    <2>3. frames'[n].kind = frames[n].kind /\ frames'[n].outer = frames[n].outer
      BY <2>1, <2>2 DEF Frame
    <2> HIDE DEF n
    <2>4. \A i \in 1 .. n : frames'[i].kind = frames[i].kind /\ frames'[i].outer = frames[i].outer
      <3>1. ASSUME NEW i \in 1 .. n
            PROVE  frames'[i].kind = frames[i].kind /\ frames'[i].outer = frames[i].outer
        <4>1. i \in 1 .. n - 1 \/ i = n
          BY <2>1
        <4> QED
          BY <2>2, <2>3, <4>1
      <3> QED
        BY <3>1
    <2>5. \A k \in 0 .. n : CallsIn(frames', k) = CallsIn(frames, k)
      <3>1. ASSUME NEW k \in 0 .. n PROVE CallsIn(frames', k) = CallsIn(frames, k)
        <4>1. k \in Nat /\ \A i \in 1 .. k : frames'[i].kind = frames[i].kind
          BY <2>1, <2>4
        <4> QED
          BY <4>1, SameCalls
      <3> QED
        BY <3>1
    <2>6. /\ depth = Cardinality(CallsIn(frames, n))
          /\ \A i \in 1 .. n : frames[i].outer = Cardinality(CallsIn(frames, i - 1))
      BY <1>1 DEF DepthInv, n
    <2>7. depth' = Cardinality(CallsIn(frames', n))
      <3>1. n \in 0 .. n
        BY <2>1
      <3> QED
        BY <1>5, <2>5, <2>6, <3>1
    <2>8. ASSUME NEW i \in 1 .. n
          PROVE  frames'[i].outer = Cardinality(CallsIn(frames', i - 1))
      <3>1. i - 1 \in 0 .. n
        BY <2>1
      <3> QED
        BY <2>4, <2>5, <2>6, <3>1
    <2>9. DepthInv'
      BY <2>2, <2>7, <2>8 DEF DepthInv
    <2> QED
      BY <1>1, <1>5, <2>2, <2>9 DEF n
  <1> QED
    BY <1>2, <1>3, <1>4, <1>5 DEF FrameStep

LEMMA EnvKept ==
  ASSUME TypeOK, EnvInv, FrameStep
  PROVE  EnvInv'
  <1>1. DOMAIN frames = 1 .. Len(frames) /\ Len(frames) \in Nat
    BY LenProperties DEF TypeOK
  <1>2. CASE UNCHANGED <<frames, depth>>
    BY <1>2 DEF EnvInv
  <1>3. ASSUME NEW kind \in {"force", "call", "try"}, NEW thunk \in Places \cup {None},
               NEW env \in StablePtrs \cup {None},
               Push(kind, thunk, env, IF kind = "call" THEN depth + 1 ELSE depth),
               kind = "force" => thunk \in Places /\ env \in StablePtrs
        PROVE  EnvInv'
    <2>1. /\ DOMAIN frames' = 1 .. Len(frames) + 1
          /\ \A i \in 1 .. Len(frames) : frames'[i] = frames[i]
          /\ frames'[Len(frames) + 1] =
               [kind |-> kind, thunk |-> thunk, env |-> env, phase |-> "marked",
                outer |-> depth]
      BY <1>3, PushFacts
    <2> QED
      BY <1>1, <1>3, <2>1 DEF EnvInv
  <1>4. CASE frames # << >> /\ Leave
    <2>1. /\ DOMAIN frames' = 1 .. Len(frames) - 1
          /\ \A i \in 1 .. Len(frames) - 1 : frames'[i] = frames[i]
      BY <1>4, LeaveFacts
    <2> QED
      BY <1>1, <2>1 DEF EnvInv
  <1>5. ASSUME frames # << >>, NEW p \in Phases, SetPhase(p)
        PROVE  EnvInv'
    <2>1. /\ DOMAIN frames' = 1 .. Len(frames)
          /\ \A i \in 1 .. Len(frames) - 1 : frames'[i] = frames[i]
          /\ frames'[Len(frames)] = [frames[Len(frames)] EXCEPT !.phase = p]
      BY <1>5, PhaseFacts
    <2>2. Len(frames) \in DOMAIN frames /\ frames[Len(frames)] \in Frame
      BY <1>5, TopFacts
    <2>3. /\ frames'[Len(frames)].kind = frames[Len(frames)].kind
          /\ frames'[Len(frames)].thunk = frames[Len(frames)].thunk
          /\ frames'[Len(frames)].env = frames[Len(frames)].env
      BY <2>1, <2>2 DEF Frame
    <2>4. ASSUME NEW i \in DOMAIN frames', frames'[i].kind = "force"
          PROVE  frames'[i].thunk \in Places /\ frames'[i].env \in StablePtrs
      <3>1. i \in DOMAIN frames /\ (i \in 1 .. Len(frames) - 1 \/ i = Len(frames))
        BY <1>1, <2>1
      <3> QED
        BY <2>1, <2>3, <2>4, <3>1 DEF EnvInv
    <2> QED
      BY <2>4 DEF EnvInv
  <1> QED
    BY <1>2, <1>3, <1>4, <1>5 DEF FrameStep

-----------------------------------------------------------------------------
(* The cells and the StablePtrs.                                            *)

\* The type of what the arena and the runtime hold.
CellsTyped ==
  /\ current \in 1 .. MaxBlocks /\ count \in 0 .. BlockCapacity
  /\ cells \in [Places -> Cell]
  /\ stable \in [StablePtrs -> {"unused", "live", "freed", "freed twice"}]
  /\ points \in [StablePtrs -> Values \cup {Env, None}]

LEMMA FreshFacts ==
  ASSUME CellsTyped, PayloadInv, NEW target \in Boxed \cup {Env}, newStablePtr(target)
  PROVE  /\ Fresh \in StablePtrs /\ stable[Fresh] = "unused"
         /\ stable' = [stable EXCEPT ![Fresh] = "live"]
         /\ points' = [points EXCEPT ![Fresh] = target]
         /\ stable' \in [StablePtrs -> {"unused", "live", "freed", "freed twice"}]
         /\ points' \in [StablePtrs -> Values \cup {Env, None}]
         /\ stable'[Fresh] = "live" /\ points'[Fresh] = target
         /\ \A cell : PayloadFits(cell, stable, points) => PayloadFits(cell, stable', points')
  <1>1. Fresh \in StablePtrs /\ stable[Fresh] = "unused"
    BY DEF newStablePtr, Fresh
  <1>2. /\ stable' = [stable EXCEPT ![Fresh] = "live"]
        /\ points' = [points EXCEPT ![Fresh] = target]
    BY DEF newStablePtr
  <1>3. /\ stable \in [StablePtrs -> {"unused", "live", "freed", "freed twice"}]
        /\ points \in [StablePtrs -> Values \cup {Env, None}]
        /\ target \in Values \cup {Env, None}
    BY DEF CellsTyped, Values
  <1>4. /\ stable' \in [StablePtrs -> {"unused", "live", "freed", "freed twice"}]
        /\ points' \in [StablePtrs -> Values \cup {Env, None}]
        /\ stable'[Fresh] = "live" /\ points'[Fresh] = target
        /\ \A p \in StablePtrs : p # Fresh => stable'[p] = stable[p] /\ points'[p] = points[p]
    BY <1>1, <1>2, <1>3
  <1>5. ASSUME NEW cell, PayloadFits(cell, stable, points)
        PROVE  PayloadFits(cell, stable', points')
    <2>1. cell.payload \in StablePtrs => cell.payload # Fresh
      BY <1>1, <1>5 DEF PayloadFits
    <2> QED
      BY <1>4, <1>5, <2>1 DEF PayloadFits
  <1> QED
    BY <1>1, <1>2, <1>4, <1>5

LEMMA FreedFacts ==
  ASSUME CellsTyped, NEW p, stable' = [stable EXCEPT ![p] = Freed(p)], points' = points
  PROVE  /\ stable' \in [StablePtrs -> {"unused", "live", "freed", "freed twice"}]
         /\ \A cell : PayloadFits(cell, stable, points) => PayloadFits(cell, stable', points')
  <1>1. /\ stable' \in [StablePtrs -> {"unused", "live", "freed", "freed twice"}]
        /\ \A q \in StablePtrs : stable[q] # "unused" => stable'[q] # "unused"
    BY DEF CellsTyped, Freed
  <1> QED
    BY <1>1 DEF PayloadFits

\* One cell written with what fits leaves every cell fitting.
LEMMA CellWritten ==
  ASSUME CellsTyped, PayloadInv, NEW a, NEW cell \in Cell,
         cells' = [cells EXCEPT ![a] = cell], PayloadFits(cell, stable', points'),
         \A c : PayloadFits(c, stable, points) => PayloadFits(c, stable', points')
  PROVE  cells' \in [Places -> Cell] /\ PayloadInv'
  <1>1. cells \in [Places -> Cell] /\ \A b \in Places : PayloadFits(cells[b], stable, points)
    BY DEF CellsTyped, PayloadInv
  <1>2. cells' \in [Places -> Cell]
        /\ \A b \in Places : cells'[b] = IF b = a THEN cell ELSE cells[b]
    BY <1>1
  <1>3. \A b \in Places : PayloadFits(cells'[b], stable', points')
    BY <1>1, <1>2
  <1> QED
    BY <1>2, <1>3 DEF PayloadInv

LEMMA AllocFacts ==
  ASSUME CellsTyped, CanAlloc, NEW cell, arena_alloc(cell)
  PROVE  /\ NextSlot \in Addrs /\ cells' = [cells EXCEPT ![NextSlot] = cell]
         /\ current' \in 1 .. MaxBlocks /\ count' \in 0 .. BlockCapacity
  <1>1. NextSlot \in (1 .. MaxBlocks) \X (1 .. BlockCapacity)
    BY DEF CanAlloc, Addrs
  <1>2. NextSlot[1] \in 1 .. MaxBlocks /\ NextSlot[2] \in 1 .. BlockCapacity
    BY <1>1
  <1>3. current' = NextSlot[1] /\ count' = NextSlot[2]
        /\ cells' = [cells EXCEPT ![NextSlot] = cell]
    BY DEF arena_alloc
  <1> QED
    BY <1>1, <1>2, <1>3, SizesAreNat DEF Addrs

\* The state of a cell that is not computed may change between pending and
\* blackhole, where its payload still fits.
LEMMA Restated ==
  ASSUME CellsTyped, PayloadInv, NEW a, NEW s \in {"pending", "blackhole"},
         cells' = [cells EXCEPT ![a].state = s], cells[a].state \in {"pending", "blackhole"},
         \A c : PayloadFits(c, stable, points) => PayloadFits(c, stable', points')
  PROVE  cells' \in [Places -> Cell] /\ PayloadInv'
  <1>1. cells \in [Places -> Cell] /\ \A b \in Places : PayloadFits(cells[b], stable, points)
    BY DEF CellsTyped, PayloadInv
  <1>2. CASE a \in Places
    <2> DEFINE cell == [cells[a] EXCEPT !.state = s]
    <2>1. cells[a] \in Cell /\ PayloadFits(cells[a], stable', points')
      BY <1>1, <1>2
    <2>2. cell \in Cell
      BY <2>1 DEF Cell, States
    <2>3. cell.state = s /\ cell.payload = cells[a].payload
      BY <2>1 DEF Cell
    <2>4. PayloadFits(cell, stable', points')
      BY <2>1, <2>3 DEF PayloadFits
    <2>5. cells' = [cells EXCEPT ![a] = cell]
      BY <1>1, <1>2
    <2> QED
      BY <2>2, <2>4, <2>5, CellWritten
  <1>3. CASE a \notin Places
    <2>1. cells' = cells
      BY <1>1, <1>3
    <2> QED
      BY <1>1, <2>1 DEF PayloadInv
  <1> QED
    BY <1>2, <1>3

LEMMA UntouchedFacts ==
  ASSUME NEW uses, NEW targets
  PROVE  /\ Untouched \in [Places -> Cell]
         /\ \A a \in Places : PayloadFits(Untouched[a], uses, targets)
  <1>1. ASSUME NEW a \in Places
        PROVE  Untouched[a] \in Cell /\ PayloadFits(Untouched[a], uses, targets)
    <2>1. CASE a \in Statics
      <3>1. a \in Inline /\ a # None /\ a \notin StablePtrs
        BY <2>1, KindsAreDistinct
      <3>2. Untouched[a] = [state |-> "computed", payload |-> a]
        BY <2>1 DEF Untouched
      <3> QED
        BY <3>1, <3>2 DEF Cell, States, PayloadFits
    <2>2. CASE a \notin Statics
      <3>1. Untouched[a] = [state |-> "free", payload |-> None]
        BY <2>2 DEF Untouched, Free
      <3>2. None \notin StablePtrs
        BY KindsAreDistinct
      <3> QED
        BY <3>1, <3>2 DEF Cell, States, PayloadFits
    <2> QED
      BY <2>1, <2>2
  <1>2. DOMAIN Untouched = Places
    BY DEF Untouched
  <1>3. Untouched = [a \in Places |-> Untouched[a]]
    BY DEF Untouched
  <1> QED
    BY <1>1, <1>3

LEMMA MarkedFacts ==
  ASSUME CellsTyped, PayloadInv, NEW a,
         nn_thunk_mark_pending(a) \/ nn_thunk_mark_blackhole(a) \/ UNCHANGED cells,
         \A c : PayloadFits(c, stable, points) => PayloadFits(c, stable', points')
  PROVE  cells' \in [Places -> Cell] /\ PayloadInv'
  <1>1. cells \in [Places -> Cell]
    BY DEF CellsTyped
  <1>2. ASSUME cells' = cells PROVE cells' \in [Places -> Cell] /\ PayloadInv'
    BY <1>1, <1>2 DEF PayloadInv
  <1>3. CASE nn_thunk_mark_pending(a)
    <2>1. CASE cells[a].state = "blackhole"
      <3>1. cells' = [cells EXCEPT ![a].state = "pending"]
        BY <1>1, <1>3, <2>1 DEF nn_thunk_mark_pending
      <3> QED
        BY <2>1, <3>1, Restated
    <2>2. CASE cells[a].state # "blackhole"
      <3>1. cells' = cells
        BY <1>1, <1>3, <2>2 DEF nn_thunk_mark_pending, Cell
      <3> QED
        BY <1>2, <3>1
    <2> QED
      BY <2>1, <2>2
  <1>4. CASE nn_thunk_mark_blackhole(a)
    <2>1. CASE cells[a].state = "pending"
      <3>1. cells' = [cells EXCEPT ![a].state = "blackhole"]
        BY <1>1, <1>4, <2>1 DEF nn_thunk_mark_blackhole
      <3> QED
        BY <2>1, <3>1, Restated
    <2>2. CASE cells[a].state # "pending"
      <3>1. cells' = cells
        BY <1>1, <1>4, <2>2 DEF nn_thunk_mark_blackhole, Cell
      <3> QED
        BY <1>2, <3>1
    <2> QED
      BY <2>1, <2>2
  <1> QED
    BY <1>2, <1>3, <1>4

\* No step breaks what a cell, or a StablePtr, may be.
LEMMA CellsKept ==
  ASSUME CellsTyped, PayloadInv, Next
  PROVE  CellsTyped' /\ PayloadInv'
  <1>1. ASSUME UNCHANGED <<current, count, cells, stable, points>>
        PROVE  CellsTyped' /\ PayloadInv'
    BY <1>1 DEF CellsTyped, PayloadInv
  <1>2. ASSUME UNCHANGED <<stable, points>>
        PROVE  \A c : PayloadFits(c, stable, points) => PayloadFits(c, stable', points')
    BY <1>2
  <1>3. CASE arenaDestroy
    <2> DEFINE holders(p) == {a \in nn_thunk_collect_stableptrs : cells[a].payload = p}
    <2>1. stable' = [p \in StablePtrs |->
            IF holders(p) = {} THEN stable[p]
            ELSE IF Cardinality(holders(p)) = 1 THEN Freed(p) ELSE "freed twice"]
      BY <1>3 DEF arenaDestroy
    <2> HIDE DEF holders
    <2>2. stable' \in [StablePtrs -> {"unused", "live", "freed", "freed twice"}]
      BY <2>1 DEF CellsTyped, Freed
    <2>3. cells' = Untouched /\ current' = 1 /\ count' = 0 /\ points' = points
      BY <1>3 DEF arenaDestroy
    <2>4. cells' \in [Places -> Cell] /\ PayloadInv'
      BY <2>3, UntouchedFacts DEF PayloadInv
    <2>5. 1 \in 1 .. MaxBlocks /\ 0 \in 0 .. BlockCapacity
      BY SizesAreNat
    <2>6. points' \in [StablePtrs -> Values \cup {Env, None}]
      BY <2>3 DEF CellsTyped
    <2>7. current' \in 1 .. MaxBlocks /\ count' \in 0 .. BlockCapacity
      BY <2>3, <2>5
    <2> QED
      BY <2>2, <2>4, <2>6, <2>7 DEF CellsTyped
  <1>4. ASSUME NEW target \in Boxed \cup {Env}, nn_thunk_new(target)
        PROVE  CellsTyped' /\ PayloadInv'
    <2>1. newStablePtr(target)
      BY <1>4 DEF nn_thunk_new
    <2>2. /\ Fresh \in StablePtrs
          /\ stable' \in [StablePtrs -> {"unused", "live", "freed", "freed twice"}]
          /\ points' \in [StablePtrs -> Values \cup {Env, None}]
          /\ stable'[Fresh] = "live" /\ points'[Fresh] = target
          /\ \A c : PayloadFits(c, stable, points) => PayloadFits(c, stable', points')
      BY <2>1, FreshFacts
    <2> DEFINE cell == [state |-> IF target = Env THEN "pending" ELSE "computed",
                        payload |-> Fresh]
    <2>3. CASE CanAlloc
      <3>1. arena_alloc(cell)
        BY <1>4, <2>3 DEF nn_thunk_new
      <3>2. cell \in Cell /\ PayloadFits(cell, stable', points')
        BY <2>2, KindsAreDistinct DEF Cell, States, PayloadFits
      <3> HIDE DEF cell
      <3>3. /\ cells' = [cells EXCEPT ![NextSlot] = cell]
            /\ current' \in 1 .. MaxBlocks /\ count' \in 0 .. BlockCapacity
        BY <2>3, <3>1, AllocFacts
      <3>4. cells' \in [Places -> Cell] /\ PayloadInv'
        BY <2>2, <3>2, <3>3, CellWritten
      <3> QED
        BY <2>2, <3>3, <3>4 DEF CellsTyped
    <2>4. CASE ~ CanAlloc
      <3>1. UNCHANGED <<cells, current, count>>
        BY <1>4, <2>4 DEF nn_thunk_new
      <3> QED
        BY <2>2, <3>1 DEF CellsTyped, PayloadInv
    <2> QED
      BY <2>3, <2>4
  <1>5. CASE nn_thunk_new_bc \/ nn_thunk_new_computed
    BY <1>4, <1>5 DEF nn_thunk_new_bc, nn_thunk_new_computed
  <1>6. ASSUME NEW v \in Inline, cells' = cells \/ \E a : cells' = [cells EXCEPT ![a] =
                                   [state |-> "computed", payload |-> v]],
               UNCHANGED <<stable, points>>
        PROVE  cells' \in [Places -> Cell] /\ PayloadInv'
    <2> DEFINE cell == [state |-> "computed", payload |-> v]
    <2>1. cell \in Cell /\ PayloadFits(cell, stable', points')
      BY KindsAreDistinct DEF Cell, States, PayloadFits
    <2>2. CASE cells' = cells
      BY <1>6, <2>2 DEF CellsTyped, PayloadInv
    <2>3. ASSUME NEW a, cells' = [cells EXCEPT ![a] = cell]
          PROVE  cells' \in [Places -> Cell] /\ PayloadInv'
      <3> HIDE DEF cell
      <3> QED
        BY <1>2, <1>6, <2>1, <2>3, CellWritten
    <2> QED
      BY <1>6, <2>2, <2>3
  <1>7. ASSUME NEW v \in Inline, nn_thunk_new_inline(v)
        PROVE  CellsTyped' /\ PayloadInv'
    <2> DEFINE cell == [state |-> "computed", payload |-> v]
    <2>1. UNCHANGED <<stable, points>>
      BY <1>7 DEF nn_thunk_new_inline
    <2>2. CASE CanAlloc
      <3>1. arena_alloc(cell)
        BY <1>7, <2>2 DEF nn_thunk_new_inline
      <3>2. /\ cells' = [cells EXCEPT ![NextSlot] = cell]
            /\ current' \in 1 .. MaxBlocks /\ count' \in 0 .. BlockCapacity
        BY <2>2, <3>1, AllocFacts
      <3>3. cells' \in [Places -> Cell] /\ PayloadInv'
        BY <1>6, <2>1, <3>2
      <3> QED
        BY <2>1, <3>2, <3>3 DEF CellsTyped
    <2>3. CASE ~ CanAlloc
      BY <1>1, <1>7, <2>3 DEF nn_thunk_new_inline
    <2> QED
      BY <2>2, <2>3
  <1>8. ASSUME NEW v \in Inline, StoreInline(v)
        PROVE  CellsTyped' /\ PayloadInv'
    <2>1. /\ cells' = [cells EXCEPT ![Top.thunk] = [state |-> "computed", payload |-> v]]
          /\ UNCHANGED <<current, count, stable, points>>
      BY <1>8 DEF StoreInline, nn_thunk_set_computed
    <2>2. cells' \in [Places -> Cell] /\ PayloadInv'
      BY <1>6, <2>1
    <2> QED
      BY <2>1, <2>2 DEF CellsTyped
  <1>9. ASSUME NEW v \in Boxed, StoreBoxed(v)
        PROVE  CellsTyped' /\ PayloadInv'
    <2> DEFINE cell == [state |-> "computed", payload |-> Fresh]
    <2>1. /\ cells' = [cells EXCEPT ![Top.thunk] = cell]
          /\ UNCHANGED <<current, count>> /\ newStablePtr(v)
      BY <1>9 DEF StoreBoxed, nn_thunk_set_computed
    <2>2. /\ Fresh \in StablePtrs
          /\ stable' \in [StablePtrs -> {"unused", "live", "freed", "freed twice"}]
          /\ points' \in [StablePtrs -> Values \cup {Env, None}]
          /\ stable'[Fresh] = "live" /\ points'[Fresh] = v
          /\ \A c : PayloadFits(c, stable, points) => PayloadFits(c, stable', points')
      BY <2>1, FreshFacts
    <2>3. cell \in Cell /\ PayloadFits(cell, stable', points')
      BY <2>2, KindsAreDistinct DEF Cell, States, PayloadFits
    <2> HIDE DEF cell
    <2>4. cells' \in [Places -> Cell] /\ PayloadInv'
      BY <2>1, <2>2, <2>3, CellWritten
    <2> QED
      BY <2>1, <2>2, <2>4 DEF CellsTyped
  <1>10. CASE \E a \in Places : ForcePending(a)
    <2>1. PICK a \in Places : ForcePending(a)
      BY <1>10
    <2>2. nn_thunk_mark_blackhole(a) /\ UNCHANGED <<current, count, stable, points>>
      BY <2>1 DEF ForcePending
    <2>3. cells' \in [Places -> Cell] /\ PayloadInv'
      BY <1>2, <2>2, MarkedFacts
    <2> QED
      BY <2>2, <2>3 DEF CellsTyped
  <1>11. CASE FreePendingEnv
    <2>1. /\ stable' = [stable EXCEPT ![Top.env] = Freed(Top.env)] /\ points' = points
          /\ UNCHANGED <<current, count, cells>>
      BY <1>11 DEF FreePendingEnv
    <2>2. /\ stable' \in [StablePtrs -> {"unused", "live", "freed", "freed twice"}]
          /\ \A c : PayloadFits(c, stable, points) => PayloadFits(c, stable', points')
      BY <2>1, FreedFacts
    <2> QED
      BY <2>1, <2>2 DEF CellsTyped, PayloadInv
  <1>12. CASE UnwindForce
    <2>1. /\ nn_thunk_mark_pending(Top.thunk) \/ UNCHANGED cells
          /\ UNCHANGED <<current, count, stable, points>>
      BY <1>12 DEF UnwindForce
    <2>2. cells' \in [Places -> Cell] /\ PayloadInv'
      BY <1>2, <2>1, MarkedFacts
    <2> QED
      BY <2>1, <2>2 DEF CellsTyped
  <1>13. CASE \E t \in Boxed \cup {Env} : InterruptAllocation(t)
    <2>1. PICK t \in Boxed \cup {Env} : InterruptAllocation(t)
      BY <1>13
    <2>2. newStablePtr(t) /\ UNCHANGED <<current, count, cells>>
      BY <2>1 DEF InterruptAllocation
    <2>3. /\ stable' \in [StablePtrs -> {"unused", "live", "freed", "freed twice"}]
          /\ points' \in [StablePtrs -> Values \cup {Env, None}]
          /\ \A c : PayloadFits(c, stable, points) => PayloadFits(c, stable', points')
      BY <2>2, FreshFacts
    <2> QED
      BY <2>2, <2>3 DEF CellsTyped, PayloadInv
  <1>14. CASE \/ arenaInit \/ RunThunk \/ LeaveHandler \/ withCallFrame \/ catchEvalError
              \/ Answer \/ Interrupt \/ UnwindCall \/ UnwindTry \/ runEvalIO
              \/ \E a \in Places : ForceComputed(a) \/ ForceBlackhole(a)
              \/ \E kind \in Errors : Throw(kind)
    <2>1. UNCHANGED <<current, count, cells, stable, points>>
      BY <1>14 DEF arenaInit, RunThunk, LeaveHandler, withCallFrame, catchEvalError, Answer,
         Interrupt, UnwindCall, UnwindTry, runEvalIO, ForceComputed, ForceBlackhole, Throw
    <2> QED
      BY <1>1, <2>1
  <1> QED
    BY <1>3, <1>5, <1>7, <1>8, <1>9, <1>10, <1>11, <1>12, <1>13, <1>14 DEF Next

-----------------------------------------------------------------------------
(* Type correctness, and the depth.                                         *)

LEMMA RestTyped ==
  ASSUME TypeOK, PayloadInv, EnvInv, Next
  PROVE  /\ arena' \in {"none", "live", "gone"}
         /\ raised' \in Errors \cup {"none", "interrupt"}
         /\ lost' \subseteq StablePtrs
         /\ answers' \in [Places -> SUBSET Values]
  <1>1. /\ arena \in {"none", "live", "gone"} /\ raised \in Errors \cup {"none", "interrupt"}
        /\ lost \subseteq StablePtrs /\ answers \in [Places -> SUBSET Values]
    BY DEF TypeOK
  <1>2. ASSUME NEW target, newStablePtr(target) PROVE Fresh \in StablePtrs
    BY <1>2 DEF newStablePtr, Fresh
  <1>3. CASE nn_thunk_new_bc \/ nn_thunk_new_computed
    <2>1. PICK t : nn_thunk_new(t)
      BY <1>3 DEF nn_thunk_new_bc, nn_thunk_new_computed
    <2>2. newStablePtr(t) /\ UNCHANGED <<arena, answers>>
      BY <2>1 DEF nn_thunk_new
    <2>3. \/ UNCHANGED <<raised, lost>>
          \/ raised' = "error" /\ lost' = lost \cup {Fresh}
      BY <2>1 DEF nn_thunk_new
    <2>4. Fresh \in StablePtrs
      BY <1>2, <2>2
    <2> QED
      BY <1>1, <2>2, <2>3, <2>4 DEF Errors
  <1>4. CASE \E v \in Inline \ Statics : nn_thunk_new_inline(v)
    <2>1. UNCHANGED <<arena, lost, answers>> /\ (raised' = raised \/ raised' = "error")
      BY <1>4 DEF nn_thunk_new_inline
    <2> QED
      BY <1>1, <2>1 DEF Errors
  <1>5. ASSUME NEW v \in Values, NEW a,
               answers' = [answers EXCEPT ![a] = @ \cup {v}]
        PROVE  answers' \in [Places -> SUBSET Values]
    BY <1>1, <1>5
  <1>6. CASE (\E v \in Inline : StoreInline(v)) \/ (\E v \in Boxed : StoreBoxed(v))
    <2>1. PICK v \in Values : StoreInline(v) \/ StoreBoxed(v)
      BY <1>6 DEF Values
    <2>2. UNCHANGED <<arena, raised, lost>>
          /\ answers' = [answers EXCEPT ![Top.thunk] = @ \cup {v}]
      BY <2>1 DEF StoreInline, StoreBoxed
    <2> QED
      BY <1>1, <1>5, <2>2
  <1>7. CASE \E a \in Places : ForceComputed(a)
    <2>1. PICK a \in Places : ForceComputed(a)
      BY <1>7
    <2>2. UNCHANGED <<arena, raised, lost>>
          /\ answers' = [answers EXCEPT ![a] = @ \cup {readComputed(a)}]
          /\ cells[a].state = "computed"
      BY <2>1 DEF ForceComputed
    <2>3. cells[a] \in Cell /\ PayloadFits(cells[a], stable, points)
      BY DEF TypeOK, PayloadInv
    <2>4. readComputed(a) \in Values
      BY <2>2, <2>3 DEF readComputed, Values, Cell, PayloadFits
    <2> QED
      BY <1>1, <1>5, <2>2, <2>4
  <1>8. CASE \/ \E a \in Places : ForceBlackhole(a) \/ ForcePending(a)
             \/ RunThunk \/ LeaveHandler \/ FreePendingEnv \/ arenaInit \/ arenaDestroy
             \/ withCallFrame \/ catchEvalError \/ Answer
             \/ \E kind \in Errors : Throw(kind)
             \/ Interrupt \/ UnwindCall \/ UnwindTry \/ runEvalIO
    <2>1. answers' = answers /\ lost' = lost
      BY <1>8 DEF ForceBlackhole, ForcePending, RunThunk, LeaveHandler, FreePendingEnv,
         arenaInit, arenaDestroy, withCallFrame, catchEvalError, Answer, Throw, Interrupt,
         UnwindCall, UnwindTry, runEvalIO
    <2>2. arena' = arena \/ arena' = "live" \/ arena' = "gone"
      BY <1>8 DEF ForceBlackhole, ForcePending, RunThunk, LeaveHandler, FreePendingEnv,
         arenaInit, arenaDestroy, withCallFrame, catchEvalError, Answer, Throw, Interrupt,
         UnwindCall, UnwindTry, runEvalIO
    <2>3. raised' \in Errors \cup {raised, "none", "interrupt"}
      BY <1>8 DEF ForceBlackhole, ForcePending, RunThunk, LeaveHandler, FreePendingEnv,
         arenaInit, arenaDestroy, withCallFrame, catchEvalError, Answer, Throw, Interrupt,
         UnwindCall, UnwindTry, runEvalIO, Errors
    <2> QED
      BY <1>1, <2>1, <2>2, <2>3
  <1>9. CASE \E t \in Boxed \cup {Env} : InterruptAllocation(t)
    <2>1. PICK t : InterruptAllocation(t)
      BY <1>9
    <2>2. newStablePtr(t) /\ UNCHANGED <<arena, answers>> /\ raised' = "interrupt"
          /\ lost' = lost \cup {Fresh}
      BY <2>1 DEF InterruptAllocation
    <2> QED
      BY <1>1, <1>2, <2>2
  <1>10. CASE UnwindForce
    <2>1. UNCHANGED <<arena, raised, answers>> /\ frames # << >> /\ Top.kind = "force"
          /\ lost' = IF Top.phase \in {"stored", "leaving"} THEN lost \cup {Top.env} ELSE lost
      BY <1>10 DEF UnwindForce
    <2>2. Top.env \in StablePtrs
      BY <2>1, TopFacts DEF EnvInv
    <2> QED
      BY <1>1, <2>1, <2>2
  <1> QED
    BY <1>3, <1>4, <1>6, <1>7, <1>8, <1>9, <1>10 DEF Next

CoreInv == TypeOK /\ PayloadInv /\ EnvInv /\ DepthInv

LEMMA CoreKept ==
  ASSUME CoreInv, [Next]_vars
  PROVE  CoreInv'
  <1>1. CASE Next
    <2>1. TypeOK /\ PayloadInv /\ EnvInv /\ DepthInv /\ CellsTyped
      BY DEF CoreInv, TypeOK, CellsTyped
    <2>2. FrameStep
      BY <1>1, <2>1, FrameSteps
    <2>3. frames' \in Seq(Frame) /\ Len(frames') <= MaxStack /\ depth' \in Nat /\ DepthInv'
      BY <2>1, <2>2, DepthKept
    <2>4. EnvInv'
      BY <2>1, <2>2, EnvKept
    <2>5. CellsTyped' /\ PayloadInv'
      BY <1>1, <2>1, CellsKept
    <2>6. /\ arena' \in {"none", "live", "gone"}
          /\ raised' \in Errors \cup {"none", "interrupt"}
          /\ lost' \subseteq StablePtrs
          /\ answers' \in [Places -> SUBSET Values]
      BY <1>1, <2>1, RestTyped
    <2>7. TypeOK'
      BY <2>3, <2>5, <2>6 DEF TypeOK, CellsTyped
    <2> QED
      BY <2>3, <2>4, <2>5, <2>7 DEF CoreInv
  <1>2. CASE UNCHANGED vars
    BY <1>2 DEF vars, CoreInv, TypeOK, PayloadInv, EnvInv, DepthInv
  <1> QED
    BY <1>1, <1>2

LEMMA CoreInit ==
  ASSUME Init
  PROVE  CoreInv
  <1>1. frames = << >> /\ Len(frames) = 0 /\ frames \in Seq(Frame) /\ DOMAIN frames = {}
    BY EmptySeq, LenProperties DEF Init
  <1>2. Untouched \in [Places -> Cell]
        /\ \A a \in Places : PayloadFits(Untouched[a], stable, points)
    BY UntouchedFacts
  <1>3. TypeOK
    BY <1>1, <1>2, SizesAreNat DEF Init, TypeOK, Values
  <1>4. PayloadInv
    BY <1>2 DEF Init, PayloadInv
  <1>5. CallsIn(frames, 0) = {}
    BY DEF CallsIn
  <1>6. DepthInv
    BY <1>1, <1>5, FS_EmptySet DEF Init, DepthInv
  <1> QED
    BY <1>1, <1>3, <1>4, <1>6 DEF CoreInv, EnvInv

LEMMA CoreHolds == Spec => []CoreInv
  <1>1. Init => CoreInv
    BY CoreInit
  <1>2. CoreInv /\ [Next]_vars => CoreInv'
    BY CoreKept
  <1> QED
    BY <1>1, <1>2, PTL DEF Spec

\* Cells, StablePtrs and stack stay what the code takes them for.  It takes
\* CoreInv: the payload of a pending or blackholed cell is the StablePtr of its
\* environment, that of a boxed one points at a value, and every force on the
\* stack holds the pointer it has to release.
THEOREM Typed == Spec => []TypeOK
  <1>1. CoreInv => TypeOK
    BY DEF CoreInv
  <1> QED
    BY <1>1, CoreHolds, PTL

LEMMA DepthCounts ==
  ASSUME CoreInv
  PROVE  DepthIsFrames
  <1>1. DOMAIN frames = 1 .. Len(frames)
    BY LenProperties DEF CoreInv, TypeOK
  <1>2. {i \in DOMAIN frames : frames[i].kind = "call"} = CallsIn(frames, Len(frames))
    BY <1>1 DEF CallsIn
  <1> QED
    BY <1>2 DEF CoreInv, DepthInv, DepthIsFrames

\* max-call-depth counts the calls the evaluation is in: whatever mixture of
\* results, errors caught by tryEval and interrupts left the others, the
\* counter of withCallFrame is the number of calls on the stack.
THEOREM DepthIsFramesHolds == Spec => []DepthIsFrames
  <1>1. CoreInv => DepthIsFrames
    BY DepthCounts
  <1> QED
    BY <1>1, CoreHolds, PTL

-----------------------------------------------------------------------------
(* A thunk is a blackhole while it is being forced.                         *)

\* What the arena is: slots that were never handed out are free, the shared
\* cells computed for good, and without an arena there are no others.
ArenaInv ==
  /\ \A a \in Addrs : ~ Used(a) => cells[a] = Free
  /\ \A a \in Statics : cells[a] = [state |-> "computed", payload |-> a]
  /\ arena # "live" => cells = Untouched

\* Only the innermost force is between its steps, and none is when an error
\* comes from the code it runs.
StackInv ==
  /\ \A i \in DOMAIN frames : frames[i].kind = "force" /\ i < Len(frames) =>
       frames[i].phase = "running"
  /\ frames # << >> /\ raised \in Errors /\ Top.kind = "force" => Top.phase = "running"

\* A force owns its thunk until it has stored the value.
ForceInv ==
  /\ \A i \in DOMAIN frames : Forcing(i) =>
       cells[frames[i].thunk] = [state |-> "blackhole", payload |-> frames[i].env]
  /\ \A i \in DOMAIN frames : frames[i].kind = "force" /\ ~ Forcing(i) =>
       cells[frames[i].thunk].state = "computed"
  /\ \A i, j \in DOMAIN frames :
       Forcing(i) /\ Forcing(j) /\ frames[i].thunk = frames[j].thunk => i = j
  /\ \A a \in Places : cells[a].state = "blackhole" /\ raised # "interrupt" =>
       \E i \in DOMAIN frames : Forcing(i) /\ frames[i].thunk = a

\* An interrupt that is under way is never taken back.
LEMMA InterruptStays ==
  ASSUME Next, raised = "interrupt"
  PROVE  raised' = "interrupt"
  BY DEF Next, arenaInit, arenaDestroy, nn_thunk_new_bc, nn_thunk_new_computed, nn_thunk_new,
     nn_thunk_new_inline, StoreInline, StoreBoxed, ForceComputed, ForceBlackhole, ForcePending,
     RunThunk, LeaveHandler, FreePendingEnv, withCallFrame, catchEvalError, Answer, Throw,
     Interrupt, InterruptAllocation, UnwindForce, UnwindCall, UnwindTry, runEvalIO, Evaluating,
     Errors

\* The steps of the stack, with the phase and the exception they start from.
LEMMA StackKept ==
  ASSUME CoreInv, StackInv, Next
  PROVE  StackInv'
  <1> DEFINE n == Len(frames)
  <1>1. TypeOK /\ PayloadInv
    BY DEF CoreInv
  <1>2. n \in Nat /\ DOMAIN frames = 1 .. n
    BY <1>1, LenProperties DEF TypeOK
  <1>3. ASSUME frames # << >> PROVE n \in 1 .. n /\ Top = frames[n] /\ Top \in Frame
    BY <1>1, <1>3, TopFacts
  <1>4. ASSUME frames' = frames, frames # << >> /\ raised' \in Errors /\ Top.kind = "force" =>
                                   raised \in Errors \/ Evaluating
        PROVE  StackInv'
    <2>1. Top' = Top
      BY <1>4 DEF Top
    <2> QED
      BY <1>4, <2>1 DEF StackInv, Evaluating
  <1>5. ASSUME Evaluating, raised' = raised, NEW kind \in {"force", "call", "try"},
               NEW thunk \in Places \cup {None}, NEW env \in StablePtrs \cup {None}, NEW inner,
               Push(kind, thunk, env, inner)
        PROVE  StackInv'
    <2>1. /\ Len(frames') = n + 1 /\ DOMAIN frames' = 1 .. n + 1
          /\ \A i \in 1 .. n : frames'[i] = frames[i]
      BY <1>1, <1>5, PushFacts
    <2>2. raised' = "none" /\ "none" \notin Errors
      BY <1>5 DEF Evaluating, Errors
    <2>3. ASSUME NEW i \in 1 .. n, frames[i].kind = "force"
          PROVE  frames[i].phase = "running"
      <3>1. CASE i = n
        <4>1. frames # << >> /\ Top = frames[n]
          BY <1>2, <1>3, <2>3, EmptySeq
        <4> QED
          BY <1>5, <2>3, <3>1, <4>1 DEF Evaluating
      <3>2. CASE i # n
        <4> HIDE DEF n
        <4>1. i \in DOMAIN frames /\ i < n
          BY <1>2, <2>3, <3>2
        <4>2. i < Len(frames)
          BY <4>1 DEF n
        <4> QED
          BY <2>3, <4>1, <4>2 DEF StackInv
      <3> QED
        BY <3>1, <3>2
    <2> HIDE DEF n
    <2>4. ASSUME NEW i \in DOMAIN frames', frames'[i].kind = "force", i < Len(frames')
          PROVE  frames'[i].phase = "running"
      <3>1. i \in 1 .. n
        BY <1>2, <2>1, <2>4
      <3> QED
        BY <2>1, <2>3, <2>4, <3>1
    <2> QED
      BY <2>2, <2>4 DEF StackInv
  <1>6. ASSUME frames # << >>, Leave
        PROVE  StackInv'
    <2>1. /\ frames' \in Seq(Frame) /\ Len(frames') = n - 1
          /\ DOMAIN frames' = 1 .. n - 1
          /\ \A i \in 1 .. n - 1 : frames'[i] = frames[i]
      BY <1>1, <1>6, LeaveFacts
    <2>2. \A i \in 1 .. n - 1 : frames[i].kind = "force" => frames[i].phase = "running"
      BY <1>2 DEF StackInv
    <2> HIDE DEF n
    <2>3. ASSUME frames' # << >> PROVE Top' = frames[n - 1] /\ n - 1 \in 1 .. n - 1
      <3>1. Len(frames') # 0
        BY <2>1, <2>3, EmptySeq
      <3>2. n - 1 \in 1 .. n - 1
        BY <1>2, <1>3, <1>6, <2>1, <3>1
      <3> QED
        BY <2>1, <3>2 DEF Top
    <2> QED
      BY <2>1, <2>2, <2>3 DEF StackInv
  <1>7. ASSUME frames # << >>, raised = "none", raised' = raised, NEW q \in Phases, SetPhase(q)
        PROVE  StackInv'
    <2>1. /\ Len(frames') = n /\ DOMAIN frames' = 1 .. n
          /\ \A i \in 1 .. n - 1 : frames'[i] = frames[i]
      BY <1>1, <1>7, PhaseFacts
    <2>2. raised' \notin Errors
      BY <1>7 DEF Errors
    <2>3. ASSUME NEW i \in DOMAIN frames', frames'[i].kind = "force", i < Len(frames')
          PROVE  frames'[i].phase = "running"
      <3>1. i \in 1 .. n - 1 /\ i \in DOMAIN frames /\ i < Len(frames)
        BY <1>2, <2>1, <2>3
      <3> QED
        BY <2>1, <2>3, <3>1 DEF StackInv
    <2> QED
      BY <2>2, <2>3 DEF StackInv
  <1> HIDE DEF n
  <1>8. CASE \/ arenaInit \/ arenaDestroy \/ nn_thunk_new_bc \/ nn_thunk_new_computed
             \/ \E v \in Inline \ Statics : nn_thunk_new_inline(v)
             \/ \E a \in Places : ForceComputed(a) \/ ForceBlackhole(a)
             \/ \E kind \in Errors : Throw(kind)
             \/ Interrupt \/ \E t \in Boxed \cup {Env} : InterruptAllocation(t)
             \/ runEvalIO
    <2>1. frames' = frames
      BY <1>8 DEF arenaInit, arenaDestroy, nn_thunk_new_bc, nn_thunk_new_computed,
         nn_thunk_new, nn_thunk_new_inline, ForceComputed, ForceBlackhole, Throw, Interrupt,
         InterruptAllocation, runEvalIO
    <2>2. raised' = raised \/ Evaluating \/ raised' \notin Errors
      BY <1>8 DEF arenaInit, arenaDestroy, nn_thunk_new_bc, nn_thunk_new_computed,
         nn_thunk_new, nn_thunk_new_inline, ForceComputed, ForceBlackhole, Throw, Interrupt,
         InterruptAllocation, runEvalIO, Errors
    <2> QED
      BY <1>4, <2>1, <2>2
  <1>9. CASE \E a \in Places : ForcePending(a)
    <2>1. PICK a \in Places : ForcePending(a)
      BY <1>9
    <2>2. /\ Evaluating /\ raised' = raised /\ cells[a].state = "pending"
          /\ Push("force", a, cells[a].payload, depth)
      BY <2>1 DEF ForcePending
    <2>3. cells[a].payload \in StablePtrs
      BY <1>1, <2>2 DEF PayloadInv, PayloadFits
    <2> QED
      BY <1>5, <2>2, <2>3
  <1>10. CASE withCallFrame \/ catchEvalError
    <2>1. Evaluating
      BY <1>10 DEF withCallFrame, catchEvalError
    <2>2. \/ frames' = frames
          \/ raised' = raised /\ Push("call", None, None, depth + 1)
          \/ raised' = raised /\ Push("try", None, None, depth)
      BY <1>10 DEF withCallFrame, catchEvalError
    <2> QED
      BY <1>4, <1>5, <2>1, <2>2
  <1>11. CASE FreePendingEnv \/ Answer \/ UnwindForce \/ UnwindCall \/ UnwindTry
    <2>1. frames # << >> /\ Leave
      BY <1>11 DEF FreePendingEnv, Answer, UnwindForce, UnwindCall, UnwindTry
    <2> QED
      BY <1>6, <2>1
  <1>12. CASE \/ RunThunk \/ LeaveHandler \/ (\E v \in Inline : StoreInline(v))
              \/ (\E v \in Boxed : StoreBoxed(v))
    <2>1. /\ frames # << >> /\ raised = "none" /\ raised' = raised
          /\ \E q \in Phases : SetPhase(q)
      BY <1>12 DEF RunThunk, LeaveHandler, StoreInline, StoreBoxed, Evaluating, Phases
    <2> QED
      BY <1>7, <2>1
  <1> QED
    BY <1>8, <1>9, <1>10, <1>11, <1>12 DEF Next

\* A cell that a force, or the teardown, may change: not the one arena_alloc
\* hands out.
LEMMA NextSlotFree ==
  ASSUME CoreInv, ArenaInv, CanAlloc, NEW cell, arena_alloc(cell)
  PROVE  /\ NextSlot \in Addrs /\ cells[NextSlot] = Free
         /\ cells' = [cells EXCEPT ![NextSlot] = cell]
         /\ \A a \in Addrs : ~ Used(a)' => a # NextSlot /\ ~ Used(a)
  <1>1. CellsTyped
    BY DEF CoreInv, TypeOK, CellsTyped
  <1>2. NextSlot \in Addrs /\ cells' = [cells EXCEPT ![NextSlot] = cell]
    BY <1>1, AllocFacts
  <1>3. current' = NextSlot[1] /\ count' = NextSlot[2]
    BY DEF arena_alloc
  <1>4. current \in Nat /\ count \in Nat /\ BlockCapacity \in Nat \ {0} /\ MaxBlocks \in Nat
        /\ count <= BlockCapacity
    <2>1. current \in 1 .. MaxBlocks /\ count \in 0 .. BlockCapacity
      BY <1>1 DEF CellsTyped
    <2> QED
      BY <2>1, SizesAreNat
  <1>5. \/ count < BlockCapacity /\ NextSlot = <<current, count + 1>>
        \/ count = BlockCapacity /\ NextSlot = <<current + 1, 1>>
    BY <1>4 DEF NextSlot
  <1>6. \/ count < BlockCapacity /\ current' = current /\ count' = count + 1
        \/ count = BlockCapacity /\ current' = current + 1 /\ count' = 1
    BY <1>3, <1>5
  <1>7. NextSlot[1] = current' /\ NextSlot[2] = count'
    BY <1>3
  <1>8. ~ Used(NextSlot)
    BY <1>4, <1>6, <1>7 DEF Used
  <1>9. ASSUME NEW a \in Addrs, ~ Used(a)'
        PROVE  a # NextSlot /\ ~ Used(a)
    <2>1. a[1] \in Nat /\ a[2] \in 1 .. BlockCapacity
      BY SizesAreNat DEF Addrs
    <2>2. ~ (a[1] < current' \/ (a[1] = current' /\ a[2] <= count'))
      BY <1>9 DEF Used
    <2>3. a # NextSlot
      BY <1>4, <1>6, <1>7, <2>1, <2>2
    <2>4. ~ (a[1] < current \/ (a[1] = current /\ a[2] <= count))
      BY <1>4, <1>6, <2>1, <2>2
    <2> QED
      BY <2>3, <2>4 DEF Used
  <1>10. cells[NextSlot] = Free
    BY <1>2, <1>8 DEF ArenaInv
  <1> QED
    BY <1>2, <1>9, <1>10

\* What a step may do to the cells.
CellStep ==
  \/ UNCHANGED <<current, count, cells>> /\ arena' \in {arena, "live"}
  \/ CanAlloc /\ arena' = arena /\ \E cell : arena_alloc(cell)
  \/ /\ UNCHANGED <<arena, current, count>>
     /\ \E a \in Places, cell \in Cell :
          /\ cells[a].state \in {"pending", "blackhole"} /\ cell.state # "free"
          /\ cells' = [cells EXCEPT ![a] = cell]
  \/ arena' = "gone" /\ cells' = Untouched /\ frames' = << >>

LEMMA TopForcing ==
  ASSUME CoreInv, ForceInv, frames # << >>, Top.kind = "force"
  PROVE  /\ Top.thunk \in Places /\ Top.env \in StablePtrs
         /\ Top.phase \in {"marked", "running"} =>
              cells[Top.thunk] = [state |-> "blackhole", payload |-> Top.env]
         /\ Top.phase \in {"stored", "leaving"} => cells[Top.thunk].state = "computed"
         /\ Top.phase \in {"marked", "running", "stored", "leaving"}
  <1>1. /\ Len(frames) \in DOMAIN frames /\ Top = frames[Len(frames)] /\ Top \in Frame
    BY TopFacts DEF CoreInv
  <1>2. Top.thunk \in Places /\ Top.env \in StablePtrs
    BY <1>1 DEF CoreInv, EnvInv
  <1> QED
    BY <1>1, <1>2 DEF ForceInv, Forcing, Frame, Phases

LEMMA CellSteps ==
  ASSUME CoreInv, StackInv, ForceInv, Next
  PROVE  CellStep
  <1>1. TypeOK /\ cells \in [Places -> Cell]
    BY DEF CoreInv, TypeOK
  <1>2. ASSUME NEW a \in Places, NEW s \in {"pending", "blackhole"},
               UNCHANGED <<arena, current, count>>,
               cells' = [cells EXCEPT ![a].state = s],
               cells[a].state \in {"pending", "blackhole"}
        PROVE  CellStep
    <2> DEFINE cell == [cells[a] EXCEPT !.state = s]
    <2>1. cell \in Cell /\ cell.state = s
      BY <1>1 DEF Cell, States
    <2>2. cells' = [cells EXCEPT ![a] = cell]
      BY <1>1, <1>2
    <2> HIDE DEF cell
    <2> QED
      BY <1>2, <2>1, <2>2 DEF CellStep
  <1>3. ASSUME NEW payload \in Inline \cup StablePtrs, frames # << >>, Top.kind = "force",
               Top.phase = "running", nn_thunk_set_computed(Top.thunk, payload),
               UNCHANGED <<arena, current, count>>
        PROVE  CellStep
    <2> DEFINE cell == [state |-> "computed", payload |-> payload]
    <2>1. Top.thunk \in Places /\ cells[Top.thunk].state = "blackhole"
      BY <1>3, TopForcing
    <2>2. cell \in Cell /\ cell.state # "free"
      BY DEF Cell, States
    <2>3. cells' = [cells EXCEPT ![Top.thunk] = cell]
      BY <1>3 DEF nn_thunk_set_computed
    <2> HIDE DEF cell
    <2> QED
      BY <1>3, <2>1, <2>2, <2>3 DEF CellStep
  <1>4. CASE arenaDestroy
    BY <1>4 DEF arenaDestroy, CellStep
  <1>5. CASE \/ nn_thunk_new_bc \/ nn_thunk_new_computed
             \/ \E v \in Inline \ Statics : nn_thunk_new_inline(v)
    BY <1>5 DEF nn_thunk_new_bc, nn_thunk_new_computed, nn_thunk_new, nn_thunk_new_inline,
       CellStep
  <1>6. CASE \E v \in Inline : StoreInline(v)
    <2>1. PICK v \in Inline : StoreInline(v)
      BY <1>6
    <2>2. /\ frames # << >> /\ Top.kind = "force" /\ Top.phase = "running"
          /\ nn_thunk_set_computed(Top.thunk, v) /\ UNCHANGED <<arena, current, count>>
      BY <2>1 DEF StoreInline, Evaluating
    <2> QED
      BY <1>3, <2>2
  <1>7. CASE \E v \in Boxed : StoreBoxed(v)
    <2>1. PICK v \in Boxed : StoreBoxed(v)
      BY <1>7
    <2>2. /\ frames # << >> /\ Top.kind = "force" /\ Top.phase = "running"
          /\ nn_thunk_set_computed(Top.thunk, Fresh) /\ UNCHANGED <<arena, current, count>>
          /\ newStablePtr(v)
      BY <2>1 DEF StoreBoxed, Evaluating
    <2>3. Fresh \in StablePtrs
      BY <2>2 DEF newStablePtr, Fresh
    <2> QED
      BY <1>3, <2>2, <2>3
  <1>8. CASE \E a \in Places : ForcePending(a)
    <2>1. PICK a \in Places : ForcePending(a)
      BY <1>8
    <2>2. /\ cells[a].state = "pending" /\ UNCHANGED <<arena, current, count>>
          /\ nn_thunk_mark_blackhole(a)
      BY <2>1 DEF ForcePending
    <2>3. cells' = [cells EXCEPT ![a].state = "blackhole"]
      BY <1>1, <2>2 DEF nn_thunk_mark_blackhole
    <2> QED
      BY <1>2, <2>2, <2>3
  <1>9. CASE UnwindForce
    <2>1. /\ frames # << >> /\ Top.kind = "force" /\ UNCHANGED <<arena, current, count>>
          /\ nn_thunk_mark_pending(Top.thunk) \/ UNCHANGED cells
      BY <1>9 DEF UnwindForce
    <2>2. Top.thunk \in Places
      BY <2>1, TopForcing
    <2>3. CASE cells' = cells
      BY <2>1, <2>3 DEF CellStep
    <2>4. CASE nn_thunk_mark_pending(Top.thunk) /\ cells[Top.thunk].state = "blackhole"
      <3>1. cells' = [cells EXCEPT ![Top.thunk].state = "pending"]
        BY <1>1, <2>4 DEF nn_thunk_mark_pending
      <3> QED
        BY <1>2, <2>1, <2>2, <2>4, <3>1
    <2>5. CASE nn_thunk_mark_pending(Top.thunk) /\ cells[Top.thunk].state # "blackhole"
      <3>1. cells' = cells
        BY <1>1, <2>5 DEF nn_thunk_mark_pending, Cell
      <3> QED
        BY <2>3, <3>1
    <2> QED
      BY <2>1, <2>3, <2>4, <2>5
  <1>10. CASE \/ arenaInit \/ RunThunk \/ LeaveHandler \/ FreePendingEnv
              \/ withCallFrame \/ catchEvalError \/ Answer
              \/ \E a \in Places : ForceComputed(a) \/ ForceBlackhole(a)
              \/ \E kind \in Errors : Throw(kind)
              \/ Interrupt \/ \E t \in Boxed \cup {Env} : InterruptAllocation(t)
              \/ UnwindCall \/ UnwindTry \/ runEvalIO
    <2>1. UNCHANGED <<current, count, cells>> /\ (arena' = arena \/ arena' = "live")
      BY <1>10 DEF arenaInit, RunThunk, LeaveHandler, FreePendingEnv, withCallFrame,
         catchEvalError, Answer, ForceComputed, ForceBlackhole, Throw, Interrupt,
         InterruptAllocation, UnwindCall, UnwindTry, runEvalIO
    <2> QED
      BY <2>1 DEF CellStep
  <1> QED
    BY <1>4, <1>5, <1>6, <1>7, <1>8, <1>9, <1>10 DEF Next

\* The cells of a fresh arena, and of one that is gone.
LEMMA UntouchedCells ==
  /\ \A a \in Addrs : Untouched[a] = Free
  /\ \A a \in Statics : Untouched[a] = [state |-> "computed", payload |-> a]
  <1>1. \A a \in Addrs : a \in Places /\ a \notin Statics
    BY KindsAreDistinct DEF Addrs, Places
  <1>2. \A a \in Statics : a \in Places
    BY DEF Places
  <1> QED
    BY <1>1, <1>2 DEF Untouched

LEMMA ArenaKept ==
  ASSUME CoreInv, ArenaInv, CellStep
  PROVE  ArenaInv'
  <1>1. cells \in [Places -> Cell] /\ Addrs \subseteq Places /\ Statics \subseteq Places
        /\ Addrs \cap Statics = {}
    BY KindsAreDistinct DEF CoreInv, TypeOK, Places, Addrs
  <1>2. CASE UNCHANGED <<current, count, cells>> /\ arena' \in {arena, "live"}
    BY <1>2 DEF ArenaInv, Used
  <1>3. ASSUME CanAlloc, arena' = arena, NEW cell, arena_alloc(cell)
        PROVE  ArenaInv'
    <2>1. /\ NextSlot \in Addrs /\ cells' = [cells EXCEPT ![NextSlot] = cell]
          /\ \A a \in Addrs : ~ Used(a)' => a # NextSlot /\ ~ Used(a)
      BY <1>3, NextSlotFree
    <2>2. \A a \in Places : a # NextSlot => cells'[a] = cells[a]
      BY <1>1, <2>1
    <2>3. arena' = "live"
      BY <1>3 DEF CanAlloc
    <2>4. \A a \in Addrs : ~ Used(a)' => cells'[a] = Free
      BY <1>1, <2>1, <2>2 DEF ArenaInv
    <2>5. \A a \in Statics : cells'[a] = [state |-> "computed", payload |-> a]
      BY <1>1, <2>1, <2>2 DEF ArenaInv
    <2> QED
      BY <2>3, <2>4, <2>5 DEF ArenaInv
  <1>4. ASSUME UNCHANGED <<arena, current, count>>, NEW a \in Places, NEW cell \in Cell,
               cells[a].state \in {"pending", "blackhole"},
               cells' = [cells EXCEPT ![a] = cell]
        PROVE  ArenaInv'
    <2>1. \A b \in Addrs : Used(b)' = Used(b)
      BY <1>4 DEF Used
    <2>2. \A b \in Places : b # a => cells'[b] = cells[b]
      BY <1>1, <1>4
    <2>3. cells[a] # Free /\ a \notin Statics
      <3>1. cells[a].state # "free" /\ cells[a].state # "computed"
        BY <1>4
      <3>2. Free.state = "free"
        BY DEF Free
      <3>3. ASSUME NEW b \in Statics PROVE cells[b].state = "computed"
        <4>1. cells[b] = [state |-> "computed", payload |-> b]
          BY DEF ArenaInv
        <4> QED
          BY <4>1
      <3> QED
        BY <3>1, <3>2, <3>3
    <2>4. arena = "live"
      <3>1. a \in Addrs
        BY <2>3 DEF Places
      <3> QED
        BY <2>3, <3>1, UntouchedCells DEF ArenaInv
    <2>5. \A b \in Addrs : ~ Used(b)' => cells'[b] = Free
      BY <1>1, <2>1, <2>2, <2>3 DEF ArenaInv
    <2>6. \A b \in Statics : cells'[b] = [state |-> "computed", payload |-> b]
      BY <1>1, <2>2, <2>3 DEF ArenaInv
    <2> QED
      BY <1>4, <2>4, <2>5, <2>6 DEF ArenaInv
  <1>5. CASE arena' = "gone" /\ cells' = Untouched
    BY <1>5, UntouchedCells DEF ArenaInv
  <1> QED
    BY <1>2, <1>3, <1>4, <1>5 DEF CellStep

\* A computed cell is not written again, up to the teardown, and a shared one
\* never.
LEMMA Settled ==
  ASSUME CoreInv, ArenaInv, CellStep, NEW a \in Places, cells[a].state = "computed",
         arena' # "gone" \/ a \in Statics
  PROVE  cells'[a] = cells[a]
  <1>1. cells \in [Places -> Cell]
    BY DEF CoreInv, TypeOK
  <1>2. CASE UNCHANGED <<current, count, cells>> /\ arena' \in {arena, "live"}
    BY <1>2
  <1>3. ASSUME CanAlloc, NEW cell, arena_alloc(cell)
        PROVE  cells'[a] = cells[a]
    <2>1. cells[NextSlot] = Free /\ cells' = [cells EXCEPT ![NextSlot] = cell]
      BY <1>3, NextSlotFree
    <2>2. a # NextSlot
      BY <2>1 DEF Free
    <2> QED
      BY <1>1, <2>1, <2>2
  <1>4. ASSUME NEW b \in Places, NEW cell \in Cell, cells[b].state \in {"pending", "blackhole"},
               cells' = [cells EXCEPT ![b] = cell]
        PROVE  cells'[a] = cells[a]
    BY <1>1, <1>4
  <1>5. CASE arena' = "gone" /\ cells' = Untouched
    BY <1>5, UntouchedCells DEF ArenaInv
  <1> QED
    BY <1>2, <1>3, <1>4, <1>5 DEF CellStep

\* The stack and the cells of the forces on it are left alone.
LEMMA ForcesUntouched ==
  ASSUME CoreInv, ForceInv, frames' = frames, raised = "interrupt" => raised' = "interrupt",
         \A a \in Places : cells[a].state \in {"blackhole", "computed"} => cells'[a] = cells[a],
         \A a \in Places : cells'[a].state = "blackhole" => cells[a].state = "blackhole"
  PROVE  ForceInv'
  <1>1. \A i \in DOMAIN frames : Forcing(i)' = Forcing(i)
    BY DEF Forcing
  <1>2. \A i \in DOMAIN frames : frames[i].kind = "force" => frames[i].thunk \in Places
    BY DEF CoreInv, EnvInv
  <1>3. \A i \in DOMAIN frames : Forcing(i) => frames[i].kind = "force"
    BY DEF Forcing
  <1>4. ASSUME NEW i \in DOMAIN frames', Forcing(i)'
        PROVE  cells'[frames'[i].thunk] = [state |-> "blackhole", payload |-> frames'[i].env]
    <2>1. cells[frames[i].thunk] = [state |-> "blackhole", payload |-> frames[i].env]
          /\ frames[i].thunk \in Places
      BY <1>1, <1>2, <1>3, <1>4 DEF ForceInv
    <2>2. cells[frames[i].thunk].state = "blackhole"
      BY <2>1
    <2> QED
      BY <2>1, <2>2
  <1>5. ASSUME NEW i \in DOMAIN frames', frames'[i].kind = "force", ~ Forcing(i)'
        PROVE  cells'[frames'[i].thunk].state = "computed"
    <2>1. cells[frames[i].thunk].state = "computed" /\ frames[i].thunk \in Places
      BY <1>1, <1>2, <1>5 DEF ForceInv
    <2> QED
      BY <2>1
  <1>6. \A i, j \in DOMAIN frames' :
          Forcing(i)' /\ Forcing(j)' /\ frames'[i].thunk = frames'[j].thunk => i = j
    BY <1>1 DEF ForceInv
  <1>7. \A a \in Places : cells'[a].state = "blackhole" /\ raised' # "interrupt" =>
          \E i \in DOMAIN frames' : Forcing(i)' /\ frames'[i].thunk = a
    BY <1>1 DEF ForceInv
  <1> QED
    BY <1>4, <1>5, <1>6, <1>7 DEF ForceInv

\* The innermost frame goes; its cell, if it was forcing one, is pending again,
\* or a blackhole that an interrupt leaves behind.
LEMMA ForceLeft ==
  ASSUME CoreInv, StackInv, ForceInv, frames # << >>, Leave,
         raised = "interrupt" => raised' = "interrupt",
         \A a \in Places : \/ cells'[a] = cells[a]
                           \/ /\ Top.kind = "force" /\ a = Top.thunk
                              /\ Top.phase \in {"marked", "running"},
         Top.kind = "force" /\ Top.phase \in {"marked", "running"} =>
           cells'[Top.thunk].state = "pending" \/ raised' = "interrupt"
  PROVE  ForceInv'
  <1> DEFINE n == Len(frames)
  <1>1. TypeOK /\ DOMAIN frames = 1 .. n /\ n \in Nat \ {0} /\ n \in DOMAIN frames
        /\ Top = frames[n]
    BY TopFacts DEF CoreInv
  <1>2. /\ DOMAIN frames' = 1 .. n - 1
        /\ \A i \in 1 .. n - 1 : frames'[i] = frames[i]
    BY <1>1, LeaveFacts
  <1> HIDE DEF n
  <1>3. \A i \in 1 .. n - 1 : i \in DOMAIN frames /\ i # n /\ i < n
    BY <1>1
  <1>4. \A i \in 1 .. n - 1 : Forcing(i)' = Forcing(i)
    BY <1>2 DEF Forcing
  <1>5. ASSUME NEW i \in 1 .. n - 1, frames[i].kind = "force"
        PROVE  Forcing(i) /\ frames[i].thunk \in Places
    <2>1. i \in DOMAIN frames /\ i < Len(frames)
      BY <1>3 DEF n
    <2> QED
      BY <1>5, <2>1 DEF StackInv, Forcing, CoreInv, EnvInv
  <1>6. ASSUME NEW i \in 1 .. n - 1, Forcing(i)
        PROVE  cells'[frames[i].thunk] = cells[frames[i].thunk]
    <2>1. frames[i].thunk \in Places
      BY <1>5, <1>6 DEF Forcing
    <2>2. CASE Top.kind = "force" /\ frames[i].thunk = Top.thunk
      <3>1. cells[Top.thunk].state = "blackhole"
        <4>1. cells[frames[i].thunk] = [state |-> "blackhole", payload |-> frames[i].env]
          BY <1>3, <1>6 DEF ForceInv
        <4> QED
          BY <2>2, <4>1
      <3>2. Forcing(n)
        BY <1>1, <2>2, <3>1, TopForcing DEF Forcing
      <3> QED
        BY <1>1, <1>3, <1>6, <2>2, <3>2 DEF ForceInv
    <2> QED
      BY <2>1, <2>2
  <1>7. \A i \in DOMAIN frames' : Forcing(i)' =>
          cells'[frames'[i].thunk] = [state |-> "blackhole", payload |-> frames'[i].env]
    BY <1>2, <1>3, <1>4, <1>6 DEF ForceInv
  <1>8. \A i \in DOMAIN frames' : frames'[i].kind = "force" => Forcing(i)'
    BY <1>2, <1>4, <1>5
  <1>9. \A i, j \in DOMAIN frames' :
          Forcing(i)' /\ Forcing(j)' /\ frames'[i].thunk = frames'[j].thunk => i = j
    BY <1>2, <1>3, <1>4 DEF ForceInv
  <1>10. ASSUME NEW a \in Places, cells'[a].state = "blackhole", raised' # "interrupt"
         PROVE  \E i \in DOMAIN frames' : Forcing(i)' /\ frames'[i].thunk = a
    <2>1. cells[a].state = "blackhole"
      <3>1. CASE cells'[a] = cells[a]
        BY <1>10, <3>1
      <3>2. CASE /\ Top.kind = "force" /\ a = Top.thunk
                 /\ Top.phase \in {"marked", "running"}
        BY <1>10, <3>2
      <3> QED
        BY <3>1, <3>2
    <2>2. PICK i \in DOMAIN frames : Forcing(i) /\ frames[i].thunk = a
      BY <1>10, <2>1 DEF ForceInv
    <2>3. i # n
      <3>1. SUFFICES ASSUME i = n PROVE FALSE
        OBVIOUS
      <3>2. Top.kind = "force" /\ Top.phase \in {"marked", "running"} /\ Top.thunk = a
        BY <1>1, <2>2, <3>1 DEF Forcing
      <3> QED
        BY <1>10, <3>2
    <2>4. i \in 1 .. n - 1
      BY <1>1, <2>3
    <2> QED
      BY <1>2, <1>4, <2>2, <2>4
  <1> QED
    BY <1>7, <1>8, <1>9, <1>10 DEF ForceInv

\* A call or a tryEval goes on top.
LEMMA ForceBelow ==
  ASSUME CoreInv, ForceInv, NEW kind \in {"call", "try"}, NEW inner,
         Push(kind, None, None, inner), cells' = cells, raised' = raised
  PROVE  ForceInv'
  <1>0. PICK n : n = Len(frames)
    OBVIOUS
  <1>1. TypeOK /\ DOMAIN frames = 1 .. n /\ n \in Nat
    BY <1>0, LenProperties DEF CoreInv, TypeOK
  <1>2. /\ DOMAIN frames' = 1 .. n + 1
        /\ \A i \in 1 .. n : frames'[i] = frames[i]
        /\ frames'[n + 1] =
             [kind |-> kind, thunk |-> None, env |-> None, phase |-> "marked", outer |-> depth]
    BY <1>0, <1>1, PushFacts
  <1>3. \A i \in 1 .. n : Forcing(i)' = Forcing(i)
    BY <1>2 DEF Forcing
  <1>4. frames'[n + 1].kind # "force" /\ ~ Forcing(n + 1)'
    BY <1>2 DEF Forcing
  <1>5. \A i \in DOMAIN frames' : i \in 1 .. n \/ i = n + 1
    BY <1>1, <1>2
  <1>6. \A i \in 1 .. n : i \in DOMAIN frames'
    BY <1>1, <1>2
  <1>7. \A i \in DOMAIN frames' : Forcing(i)' =>
          cells'[frames'[i].thunk] = [state |-> "blackhole", payload |-> frames'[i].env]
    BY <1>1, <1>2, <1>3, <1>4, <1>5 DEF ForceInv
  <1>8. \A i \in DOMAIN frames' : frames'[i].kind = "force" /\ ~ Forcing(i)' =>
          cells'[frames'[i].thunk].state = "computed"
    BY <1>1, <1>2, <1>3, <1>4, <1>5 DEF ForceInv
  <1>9. \A i, j \in DOMAIN frames' :
          Forcing(i)' /\ Forcing(j)' /\ frames'[i].thunk = frames'[j].thunk => i = j
    BY <1>1, <1>2, <1>3, <1>4, <1>5 DEF ForceInv
  <1>10. \A a \in Places : cells'[a].state = "blackhole" /\ raised' # "interrupt" =>
          \E i \in DOMAIN frames' : Forcing(i)' /\ frames'[i].thunk = a
    BY <1>1, <1>2, <1>3, <1>6 DEF ForceInv
  <1> QED
    BY <1>7, <1>8, <1>9, <1>10 DEF ForceInv

\* A force goes on top, and its thunk is a blackhole now.
LEMMA ForceEntered ==
  ASSUME CoreInv, ForceInv, NEW a \in Places, ForcePending(a)
  PROVE  ForceInv'
  <1>0. PICK n : n = Len(frames)
    OBVIOUS
  <1>1. TypeOK /\ PayloadInv /\ DOMAIN frames = 1 .. n /\ n \in Nat
        /\ cells \in [Places -> Cell]
    BY <1>0, LenProperties DEF CoreInv, TypeOK
  <1>2. /\ Push("force", a, cells[a].payload, depth) /\ raised' = raised
        /\ nn_thunk_mark_blackhole(a) /\ cells[a].state = "pending"
    BY DEF ForcePending
  <1>3. cells[a].payload \in StablePtrs
    BY <1>1, <1>2 DEF PayloadInv, PayloadFits
  <1>4. /\ DOMAIN frames' = 1 .. n + 1
        /\ \A i \in 1 .. n : frames'[i] = frames[i]
        /\ frames'[n + 1] = [kind |-> "force", thunk |-> a, env |-> cells[a].payload,
                             phase |-> "marked", outer |-> depth]
    BY <1>0, <1>1, <1>2, <1>3, PushFacts
  <1>5. /\ \A b \in Places : b # a => cells'[b] = cells[b]
        /\ cells'[a] = [state |-> "blackhole", payload |-> cells[a].payload]
    <2>1. cells' = [cells EXCEPT ![a].state = "blackhole"]
      BY <1>1, <1>2 DEF nn_thunk_mark_blackhole
    <2>2. cells[a] \in Cell
      BY <1>1
    <2>3. [cells[a] EXCEPT !.state = "blackhole"] =
            [state |-> "blackhole", payload |-> cells[a].payload]
      BY <2>2 DEF Cell
    <2> QED
      BY <1>1, <2>1, <2>3
  <1>6. \A i \in 1 .. n : Forcing(i)' = Forcing(i)
    BY <1>4 DEF Forcing
  <1>7. /\ Forcing(n + 1)' /\ frames'[n + 1].thunk = a
        /\ frames'[n + 1].env = cells[a].payload
    BY <1>4 DEF Forcing
  <1>8. /\ \A i \in DOMAIN frames' : i \in 1 .. n \/ i = n + 1
        /\ \A i \in 1 .. n : i \in DOMAIN frames /\ i \in DOMAIN frames'
        /\ n + 1 \in DOMAIN frames'
    BY <1>1, <1>4
  <1>9. ASSUME NEW i \in 1 .. n, frames[i].kind = "force"
        PROVE  /\ frames[i].thunk \in Places /\ frames[i].thunk # a
               /\ cells'[frames[i].thunk] = cells[frames[i].thunk]
    <2>1. frames[i].thunk \in Places
      BY <1>8, <1>9 DEF CoreInv, EnvInv
    <2>2. Forcing(i) => cells[frames[i].thunk] =
                          [state |-> "blackhole", payload |-> frames[i].env]
      BY <1>8, <1>9 DEF ForceInv
    <2>3. ~ Forcing(i) => cells[frames[i].thunk].state = "computed"
      BY <1>8, <1>9 DEF ForceInv
    <2>4. frames[i].thunk # a
      BY <1>2, <2>2, <2>3
    <2> QED
      BY <1>5, <2>1, <2>4
  <1>10. \A i \in 1 .. n : Forcing(i) => frames[i].kind = "force"
    BY DEF Forcing
  <1>11. ASSUME NEW i \in DOMAIN frames', Forcing(i)'
         PROVE  cells'[frames'[i].thunk] =
                  [state |-> "blackhole", payload |-> frames'[i].env]
    <2>1. CASE i = n + 1
      BY <1>5, <1>7, <2>1
    <2>2. CASE i \in 1 .. n
      BY <1>4, <1>6, <1>8, <1>9, <1>10, <1>11, <2>2 DEF ForceInv
    <2> QED
      BY <1>8, <2>1, <2>2
  <1>12. ASSUME NEW i \in DOMAIN frames', frames'[i].kind = "force", ~ Forcing(i)'
         PROVE  cells'[frames'[i].thunk].state = "computed"
    <2>1. i \in 1 .. n
      BY <1>7, <1>8, <1>12
    <2> QED
      BY <1>4, <1>6, <1>8, <1>9, <1>12, <2>1 DEF ForceInv
  <1>13. ASSUME NEW i \in DOMAIN frames', NEW j \in DOMAIN frames', Forcing(i)', Forcing(j)',
                frames'[i].thunk = frames'[j].thunk
         PROVE  i = j
    <2>1. CASE i \in 1 .. n /\ j \in 1 .. n
      BY <1>4, <1>6, <1>8, <1>13, <2>1 DEF ForceInv
    <2>2. CASE i \in 1 .. n /\ j = n + 1
      BY <1>4, <1>6, <1>7, <1>9, <1>10, <1>13, <2>2
    <2>3. CASE j \in 1 .. n /\ i = n + 1
      BY <1>4, <1>6, <1>7, <1>9, <1>10, <1>13, <2>3
    <2> QED
      BY <1>8, <2>1, <2>2, <2>3
  <1>14. ASSUME NEW b \in Places, cells'[b].state = "blackhole", raised' # "interrupt"
         PROVE  \E i \in DOMAIN frames' : Forcing(i)' /\ frames'[i].thunk = b
    <2>1. CASE b = a
      BY <1>7, <1>8, <2>1
    <2>2. CASE b # a
      <3>1. PICK i \in DOMAIN frames : Forcing(i) /\ frames[i].thunk = b
        BY <1>2, <1>5, <1>14, <2>2 DEF ForceInv
      <3>2. i \in 1 .. n
        BY <1>1
      <3> QED
        BY <1>4, <1>6, <1>8, <3>1, <3>2
    <2> QED
      BY <2>1, <2>2
  <1> QED
    BY <1>11, <1>12, <1>13, <1>14 DEF ForceInv

\* The innermost force goes on to its next phase; storing its value, it gives
\* up its thunk.
LEMMA ForceStepped ==
  ASSUME CoreInv, ForceInv, frames # << >>, Top.kind = "force", raised' = raised,
         NEW q \in Phases, SetPhase(q),
         \/ Top.phase = "marked" /\ q = "running" /\ cells' = cells
         \/ Top.phase = "stored" /\ q = "leaving" /\ cells' = cells
         \/ /\ Top.phase = "running" /\ q = "stored" /\ cells'[Top.thunk].state = "computed"
            /\ \A a \in Places : a # Top.thunk => cells'[a] = cells[a]
  PROVE  ForceInv'
  <1>0. PICK n : n = Len(frames)
    OBVIOUS
  <1>1. TypeOK /\ DOMAIN frames = 1 .. n /\ n \in Nat \ {0} /\ n \in DOMAIN frames
        /\ Top = frames[n] /\ Top \in Frame
    BY <1>0, TopFacts DEF CoreInv
  <1>2. /\ DOMAIN frames' = 1 .. n
        /\ \A i \in 1 .. n - 1 : frames'[i] = frames[i]
        /\ frames'[n] = [frames[n] EXCEPT !.phase = q]
    BY <1>0, <1>1, PhaseFacts
  <1>3. /\ frames'[n].kind = "force" /\ frames'[n].thunk = Top.thunk
        /\ frames'[n].env = Top.env /\ frames'[n].phase = q
    BY <1>1, <1>2 DEF Frame
  <1>4. \A i \in DOMAIN frames : i \in 1 .. n - 1 \/ i = n
    BY <1>1
  <1>5. /\ \A i \in 1 .. n - 1 : Forcing(i)' = Forcing(i) /\ i \in DOMAIN frames /\ i # n
        /\ DOMAIN frames' = DOMAIN frames
    BY <1>1, <1>2 DEF Forcing
  <1>6. \A i \in DOMAIN frames : /\ frames'[i].kind = frames[i].kind
                                 /\ frames'[i].thunk = frames[i].thunk
                                 /\ frames'[i].env = frames[i].env
    BY <1>1, <1>2, <1>3, <1>4
  <1>7. CASE /\ cells' = cells
             /\ \/ Top.phase = "marked" /\ q = "running"
                \/ Top.phase = "stored" /\ q = "leaving"
    <2>1. Forcing(n)' = Forcing(n)
      BY <1>1, <1>3, <1>7 DEF Forcing
    <2>2. \A i \in DOMAIN frames : Forcing(i)' = Forcing(i)
      BY <1>4, <1>5, <2>1
    <2>3. \A i \in DOMAIN frames' : Forcing(i)' =>
            cells'[frames'[i].thunk] = [state |-> "blackhole", payload |-> frames'[i].env]
      BY <1>5, <1>6, <1>7, <2>2 DEF ForceInv
    <2>4. \A i \in DOMAIN frames' : frames'[i].kind = "force" /\ ~ Forcing(i)' =>
            cells'[frames'[i].thunk].state = "computed"
      BY <1>5, <1>6, <1>7, <2>2 DEF ForceInv
    <2>5. \A i, j \in DOMAIN frames' :
            Forcing(i)' /\ Forcing(j)' /\ frames'[i].thunk = frames'[j].thunk => i = j
      BY <1>5, <1>6, <2>2 DEF ForceInv
    <2>6. \A a \in Places : cells'[a].state = "blackhole" /\ raised' # "interrupt" =>
            \E i \in DOMAIN frames' : Forcing(i)' /\ frames'[i].thunk = a
      BY <1>5, <1>6, <1>7, <2>2 DEF ForceInv
    <2> QED
      BY <2>3, <2>4, <2>5, <2>6 DEF ForceInv
  <1>8. CASE /\ Top.phase = "running" /\ q = "stored" /\ cells'[Top.thunk].state = "computed"
             /\ \A a \in Places : a # Top.thunk => cells'[a] = cells[a]
    <2>1. Forcing(n) /\ ~ Forcing(n)'
      BY <1>1, <1>3, <1>8 DEF Forcing
    <2>2. ASSUME NEW i \in 1 .. n - 1, frames[i].kind = "force", Forcing(i)
          PROVE  /\ frames[i].thunk # Top.thunk
                 /\ cells'[frames[i].thunk] = cells[frames[i].thunk]
      <3>1. frames[i].thunk # Top.thunk
        BY <1>1, <1>5, <2>1, <2>2 DEF ForceInv
      <3>2. frames[i].thunk \in Places
        BY <1>5, <2>2 DEF CoreInv, EnvInv
      <3> QED
        BY <1>8, <3>1, <3>2
    <2>3. ASSUME NEW i \in 1 .. n - 1, frames[i].kind = "force", ~ Forcing(i)
          PROVE  cells'[frames[i].thunk].state = "computed"
      <3>1. frames[i].thunk \in Places /\ cells[frames[i].thunk].state = "computed"
        BY <1>5, <2>3 DEF CoreInv, EnvInv, ForceInv
      <3> QED
        BY <1>8, <3>1
    <2>4. \A i \in 1 .. n - 1 : Forcing(i) => frames[i].kind = "force"
      BY DEF Forcing
    <2>5. ASSUME NEW i \in DOMAIN frames', Forcing(i)'
          PROVE  i \in 1 .. n - 1 /\ Forcing(i) /\ i \in DOMAIN frames
      BY <1>4, <1>5, <2>1, <2>5
    <2>6. ASSUME NEW i \in DOMAIN frames', Forcing(i)'
          PROVE  cells'[frames'[i].thunk] =
                   [state |-> "blackhole", payload |-> frames'[i].env]
      BY <1>6, <2>2, <2>4, <2>5, <2>6 DEF ForceInv
    <2>7. ASSUME NEW i \in DOMAIN frames', frames'[i].kind = "force", ~ Forcing(i)'
          PROVE  cells'[frames'[i].thunk].state = "computed"
      BY <1>3, <1>4, <1>5, <1>6, <1>8, <2>3, <2>7
    <2>8. \A i, j \in DOMAIN frames' :
            Forcing(i)' /\ Forcing(j)' /\ frames'[i].thunk = frames'[j].thunk => i = j
      BY <1>6, <2>5 DEF ForceInv
    <2>9. ASSUME NEW a \in Places, cells'[a].state = "blackhole", raised' # "interrupt"
          PROVE  \E i \in DOMAIN frames' : Forcing(i)' /\ frames'[i].thunk = a
      <3>1. a # Top.thunk
        BY <1>8, <2>9
      <3>2. PICK i \in DOMAIN frames : Forcing(i) /\ frames[i].thunk = a
        BY <1>8, <2>9, <3>1 DEF ForceInv
      <3>3. i \in 1 .. n - 1
        BY <1>1, <1>4, <3>1, <3>2
      <3> QED
        BY <1>5, <1>6, <3>2, <3>3
    <2> QED
      BY <2>6, <2>7, <2>8, <2>9 DEF ForceInv
  <1> QED
    BY <1>7, <1>8

LEMMA ForceKept ==
  ASSUME CoreInv, ArenaInv, StackInv, ForceInv, Next
  PROVE  ForceInv'
  <1>1. cells \in [Places -> Cell] /\ (raised = "interrupt" => raised' = "interrupt")
    BY InterruptStays DEF CoreInv, TypeOK
  <1>2. ASSUME frames' = frames, cells' = cells
        PROVE  ForceInv'
    BY <1>1, <1>2, ForcesUntouched
  <1>3. ASSUME frames' = frames, CanAlloc, NEW cell, arena_alloc(cell),
               cell.state # "blackhole"
        PROVE  ForceInv'
    <2>1. cells[NextSlot] = Free /\ cells' = [cells EXCEPT ![NextSlot] = cell]
      BY <1>3, NextSlotFree
    <2>2. cells[NextSlot].state = "free"
      BY <2>1 DEF Free
    <2>3. \A a \in Places : a # NextSlot => cells'[a] = cells[a]
      BY <1>1, <2>1
    <2>4. \A a \in Places : a = NextSlot => cells'[a].state # "blackhole"
      BY <1>1, <1>3, <2>1
    <2> QED
      BY <1>1, <1>3, <2>2, <2>3, <2>4, ForcesUntouched
  <1>4. CASE arenaDestroy
    <2>1. frames = << >> /\ frames' = << >> /\ cells' = Untouched
      BY <1>4 DEF arenaDestroy
    <2>2. DOMAIN frames' = {}
      BY <2>1
    <2>3. ASSUME NEW a \in Places PROVE cells'[a].state # "blackhole"
      BY <2>1, <2>3 DEF Untouched, Free
    <2> QED
      BY <2>2, <2>3 DEF ForceInv
  <1>5. CASE \/ nn_thunk_new_bc \/ nn_thunk_new_computed
             \/ \E v \in Inline \ Statics : nn_thunk_new_inline(v)
    <2>1. /\ frames' = frames
          /\ \/ cells' = cells
             \/ CanAlloc /\ \E cell : cell.state # "blackhole" /\ arena_alloc(cell)
      BY <1>5 DEF nn_thunk_new_bc, nn_thunk_new_computed, nn_thunk_new, nn_thunk_new_inline
    <2> QED
      BY <1>2, <1>3, <2>1
  <1>6. ASSUME frames # << >>, Top.kind = "force", Top.phase = "running", raised' = raised,
               NEW payload, nn_thunk_set_computed(Top.thunk, payload), SetPhase("stored")
        PROVE  ForceInv'
    <2>1. cells' = [cells EXCEPT ![Top.thunk] = [state |-> "computed", payload |-> payload]]
      BY <1>6 DEF nn_thunk_set_computed
    <2>2. Top.thunk \in Places
      BY <1>6, TopForcing
    <2>3. cells'[Top.thunk].state = "computed"
          /\ \A a \in Places : a # Top.thunk => cells'[a] = cells[a]
      BY <1>1, <2>1, <2>2
    <2>4. "stored" \in Phases
      BY DEF Phases
    <2> QED
      BY <1>6, <2>3, <2>4, ForceStepped
  <1>7. CASE (\E v \in Inline : StoreInline(v)) \/ (\E v \in Boxed : StoreBoxed(v))
    <2>1. /\ frames # << >> /\ Top.kind = "force" /\ Top.phase = "running"
          /\ raised' = raised /\ SetPhase("stored")
          /\ \E payload : nn_thunk_set_computed(Top.thunk, payload)
      BY <1>7 DEF StoreInline, StoreBoxed, Evaluating
    <2> QED
      BY <1>6, <2>1
  <1>8. CASE RunThunk \/ LeaveHandler
    <2>1. /\ frames # << >> /\ Top.kind = "force" /\ raised' = raised /\ cells' = cells
          /\ \/ Top.phase = "marked" /\ SetPhase("running")
             \/ Top.phase = "stored" /\ SetPhase("leaving")
      BY <1>8 DEF RunThunk, LeaveHandler
    <2>2. "running" \in Phases /\ "leaving" \in Phases
      BY DEF Phases
    <2> QED
      BY <2>1, <2>2, ForceStepped
  <1>9. CASE \E a \in Places : ForcePending(a)
    BY <1>9, ForceEntered
  <1>10. CASE withCallFrame \/ catchEvalError
    <2>1. /\ cells' = cells
          /\ \/ frames' = frames
             \/ raised' = raised /\ Push("call", None, None, depth + 1)
             \/ raised' = raised /\ Push("try", None, None, depth)
      BY <1>10 DEF withCallFrame, catchEvalError
    <2> QED
      BY <1>2, <2>1, ForceBelow
  <1>11. CASE UnwindForce
    <2>1. /\ frames # << >> /\ Leave /\ Top.kind = "force" /\ raised' = raised
          /\ raised # "none"
          /\ IF Top.phase \in {"running", "stored"} THEN nn_thunk_mark_pending(Top.thunk)
                                                    ELSE cells' = cells
      BY <1>11 DEF UnwindForce
    <2>2. /\ Top.thunk \in Places
          /\ Top.phase \in {"marked", "running"} => cells[Top.thunk].state = "blackhole"
          /\ Top.phase \in {"stored", "leaving"} => cells[Top.thunk].state = "computed"
          /\ Top.phase \in {"marked", "running", "stored", "leaving"}
      BY <2>1, TopForcing
    <2>3. CASE Top.phase = "running"
      <3>1. cells' = [cells EXCEPT ![Top.thunk].state = "pending"]
        BY <1>1, <2>1, <2>2, <2>3 DEF nn_thunk_mark_pending
      <3>2. cells[Top.thunk] \in Cell
        BY <1>1, <2>2
      <3>3. cells'[Top.thunk] = [cells[Top.thunk] EXCEPT !.state = "pending"]
            /\ \A a \in Places : a # Top.thunk => cells'[a] = cells[a]
        BY <1>1, <2>2, <3>1
      <3>4. cells'[Top.thunk].state = "pending"
        BY <3>2, <3>3 DEF Cell
      <3> QED
        BY <1>1, <2>1, <2>3, <3>3, <3>4, ForceLeft
    <2>4. CASE Top.phase # "running"
      <3>1. cells' = cells
        <4>1. CASE Top.phase = "stored"
          <5>1. cells' = [cells EXCEPT ![Top.thunk].state = cells[Top.thunk].state]
            BY <1>1, <2>1, <2>2, <4>1 DEF nn_thunk_mark_pending
          <5>2. cells[Top.thunk] \in Cell
            BY <1>1, <2>2
          <5> QED
            BY <1>1, <5>1, <5>2 DEF Cell
        <4>2. CASE Top.phase # "stored"
          BY <2>1, <2>2, <2>4, <4>2
        <4> QED
          BY <4>1, <4>2
      <3>2. Top.phase = "marked" => raised' = "interrupt"
        <4>1. raised \in Errors \cup {"none", "interrupt"}
          BY DEF CoreInv, TypeOK
        <4>2. raised \in Errors => Top.phase = "running"
          BY <2>1 DEF StackInv
        <4> QED
          BY <2>1, <2>4, <4>1, <4>2
      <3> QED
        BY <1>1, <2>1, <2>4, <3>1, <3>2, ForceLeft
    <2> QED
      BY <2>3, <2>4
  <1>12. CASE FreePendingEnv \/ Answer \/ UnwindCall \/ UnwindTry
    <2>1. /\ frames # << >> /\ Leave /\ cells' = cells
          /\ Top.kind = "force" => Top.phase = "leaving"
      BY <1>12 DEF FreePendingEnv, Answer, UnwindCall, UnwindTry
    <2> QED
      BY <1>1, <2>1, ForceLeft
  <1>13. CASE \/ arenaInit
              \/ \E a \in Places : ForceComputed(a) \/ ForceBlackhole(a)
              \/ \E kind \in Errors : Throw(kind)
              \/ Interrupt \/ \E t \in Boxed \cup {Env} : InterruptAllocation(t)
              \/ runEvalIO
    <2>1. frames' = frames /\ cells' = cells
      BY <1>13 DEF arenaInit, ForceComputed, ForceBlackhole, Throw, Interrupt,
         InterruptAllocation, runEvalIO
    <2> QED
      BY <1>2, <2>1
  <1> QED
    BY <1>4, <1>5, <1>7, <1>8, <1>9, <1>10, <1>11, <1>12, <1>13 DEF Next

ForcingInv == CoreInv /\ ArenaInv /\ StackInv /\ ForceInv

LEMMA ForcingKept ==
  ASSUME ForcingInv, [Next]_vars
  PROVE  ForcingInv' /\ (Next => CellStep)
  <1>1. CoreInv'
    BY CoreKept DEF ForcingInv
  <1>2. CASE Next
    <2>1. CellStep
      BY <1>2, CellSteps DEF ForcingInv
    <2>2. ArenaInv'
      BY <2>1, ArenaKept DEF ForcingInv
    <2>3. StackInv' /\ ForceInv'
      BY <1>2, StackKept, ForceKept DEF ForcingInv
    <2> QED
      BY <1>1, <2>1, <2>2, <2>3 DEF ForcingInv
  <1>3. CASE UNCHANGED vars
    <2>1. ArenaInv'
      BY <1>3 DEF vars, ForcingInv, ArenaInv, Used
    <2>2. StackInv'
      BY <1>3 DEF vars, ForcingInv, StackInv, Top
    <2>3. ForceInv'
      BY <1>3, ForcesUntouched DEF vars, ForcingInv
    <2>4. CASE Next
      BY <1>2, <2>4
    <2>5. CASE ~ Next
      BY <1>1, <2>1, <2>2, <2>3, <2>5 DEF ForcingInv
    <2> QED
      BY <2>4, <2>5
  <1> QED
    BY <1>2, <1>3

LEMMA ForcingInit ==
  ASSUME Init
  PROVE  ForcingInv
  <1>1. frames = << >> /\ DOMAIN frames = {} /\ cells = Untouched /\ arena = "none"
    BY DEF Init
  <1>2. ArenaInv
    BY <1>1, UntouchedCells DEF ArenaInv
  <1>3. StackInv
    BY <1>1 DEF StackInv
  <1>4. \A a \in Places : cells[a].state # "blackhole"
    BY <1>1 DEF Untouched, Free
  <1>5. ForceInv
    BY <1>1, <1>4 DEF ForceInv
  <1> QED
    BY <1>2, <1>3, <1>5, CoreInit DEF ForcingInv

LEMMA Forced == Spec => []ForcingInv
  <1>1. Init => ForcingInv
    BY ForcingInit
  <1>2. ForcingInv /\ [Next]_vars => ForcingInv'
    BY ForcingKept
  <1> QED
    BY <1>1, <1>2, PTL DEF Spec

LEMMA BlackholesAreForced ==
  ASSUME ForcingInv
  PROVE  BlackholeMeansRecursion
  <1>1. \A i \in DOMAIN frames : Forcing(i) => cells[frames[i].thunk].state = "blackhole"
    <2>1. ASSUME NEW i \in DOMAIN frames, Forcing(i)
          PROVE  cells[frames[i].thunk].state = "blackhole"
      <3>1. cells[frames[i].thunk] = [state |-> "blackhole", payload |-> frames[i].env]
        BY <2>1 DEF ForcingInv, ForceInv
      <3> QED
        BY <3>1
    <2> QED
      BY <2>1
  <1> QED
    BY <1>1 DEF ForcingInv, ForceInv, BlackholeMeansRecursion

\* "infinite recursion encountered" is never a lie: forceThunk, its handler and
\* the setters keep a thunk a blackhole exactly while it is being forced, except
\* that an interrupt which is ending the evaluation may leave one behind.
THEOREM BlackholeMeansRecursionHolds == Spec => []BlackholeMeansRecursion
  <1>1. ForcingInv => BlackholeMeansRecursion
    BY BlackholesAreForced
  <1> QED
    BY <1>1, Forced, PTL

-----------------------------------------------------------------------------
(* Memoization.                                                             *)

\* Nothing was answered that the cell does not still hold; after the teardown
\* the cells of the arena are not used again.
AnswerInv ==
  /\ \A a \in Places : \A v, w \in answers[a] : v = w
  /\ \A a \in Places : arena # "gone" \/ a \in Statics =>
       \A v \in answers[a] : cells[a].state = "computed" /\ v = readComputed(a)

\* The StablePtr of a computed cell keeps pointing at its value.
LEMMA PointsKept ==
  ASSUME CoreInv, Next, NEW p \in StablePtrs, stable[p] # "unused"
  PROVE  points'[p] = points[p]
  <1>1. points \in [StablePtrs -> Values \cup {Env, None}]
    BY DEF CoreInv, TypeOK
  <1>2. ASSUME NEW target, newStablePtr(target) PROVE points'[p] = points[p]
    <2>1. stable[Fresh] = "unused"
      BY <1>2 DEF newStablePtr, Fresh
    <2>2. points' = [points EXCEPT ![Fresh] = target]
      BY <1>2 DEF newStablePtr
    <2> QED
      BY <1>1, <2>1, <2>2
  <1>3. points' = points \/ \E target : newStablePtr(target)
    BY DEF Next, arenaInit, arenaDestroy, nn_thunk_new_bc, nn_thunk_new_computed, nn_thunk_new,
       nn_thunk_new_inline, StoreInline, StoreBoxed, ForceComputed, ForceBlackhole,
       ForcePending, RunThunk, LeaveHandler, FreePendingEnv, withCallFrame, catchEvalError,
       Answer, Throw, Interrupt, InterruptAllocation, UnwindForce, UnwindCall, UnwindTry,
       runEvalIO
  <1> QED
    BY <1>2, <1>3

\* What a computed cell reads as does not change.
LEMMA ReadKept ==
  ASSUME ForcingInv, Next, NEW a \in Places, cells[a].state = "computed",
         arena' # "gone" \/ a \in Statics
  PROVE  cells'[a] = cells[a] /\ readComputed(a)' = readComputed(a)
  <1>1. CellStep /\ CoreInv /\ ArenaInv
    BY ForcingKept DEF ForcingInv
  <1>2. cells'[a] = cells[a]
    BY <1>1, Settled
  <1>3. cells[a].payload \in StablePtrs =>
          points'[cells[a].payload] = points[cells[a].payload]
    <2>1. cells[a].payload \in StablePtrs => stable[cells[a].payload] # "unused"
      BY <1>1 DEF CoreInv, PayloadInv, PayloadFits
    <2> QED
      BY <1>1, <2>1, PointsKept
  <1> QED
    BY <1>2, <1>3 DEF readComputed

\* No step but the two setters and ForceComputed answers anything.
LEMMA AnswersOld ==
  ASSUME ForcingInv, AnswerInv, Next, answers' = answers, arena' = arena \/ arena # "gone"
  PROVE  AnswerInv'
  <1>1. ASSUME NEW a \in Places, arena' # "gone" \/ a \in Statics, NEW v \in answers'[a]
        PROVE  cells'[a].state = "computed" /\ v = readComputed(a)'
    <2>1. v \in answers[a]
      BY <1>1
    <2>2. arena # "gone" \/ a \in Statics
      BY <1>1
    <2>3. cells[a].state = "computed" /\ v = readComputed(a)
      BY <2>1, <2>2 DEF AnswerInv
    <2> QED
      BY <1>1, <2>3, ReadKept
  <1>2. \A a \in Places : \A v, w \in answers'[a] : v = w
    BY DEF AnswerInv
  <1> QED
    BY <1>1, <1>2 DEF AnswerInv

\* A value is answered: by a thunk that answered nothing yet, or the same again.
LEMMA AnswersOne ==
  ASSUME ForcingInv, AnswerInv, Next, NEW a \in Places, NEW v \in Values,
         answers' = [answers EXCEPT ![a] = @ \cup {v}], arena' = arena,
         arena = "live" \/ a \in Statics,
         cells[a].state # "computed" \/ v = readComputed(a),
         cells'[a].state = "computed" /\ v = readComputed(a)'
  PROVE  AnswerInv'
  <1>1. answers \in [Places -> SUBSET Values]
    BY DEF ForcingInv, CoreInv, TypeOK
  <1>2. /\ \A b \in Places : b # a => answers'[b] = answers[b]
        /\ answers'[a] = answers[a] \cup {v}
    BY <1>1
  <1>3. \A w \in answers[a] : w = v
    <2>1. ASSUME NEW w \in answers[a] PROVE w = v
      <3>1. cells[a].state = "computed" /\ w = readComputed(a)
        BY DEF AnswerInv
      <3> QED
        BY <3>1
    <2> QED
      BY <2>1
  <1>4. \A b \in Places : \A w, x \in answers'[b] : w = x
    BY <1>2, <1>3 DEF AnswerInv
  <1>5. ASSUME NEW b \in Places, arena' # "gone" \/ b \in Statics, NEW w \in answers'[b]
        PROVE  cells'[b].state = "computed" /\ w = readComputed(b)'
    <2>1. CASE b = a
      BY <1>2, <1>3, <1>5, <2>1
    <2>2. CASE b # a
      <3>1. w \in answers[b] /\ (arena # "gone" \/ b \in Statics)
        BY <1>2, <1>5, <2>2
      <3>2. cells[b].state = "computed" /\ w = readComputed(b)
        BY <3>1 DEF AnswerInv
      <3> QED
        BY <1>5, <3>2, ReadKept
    <2> QED
      BY <2>1, <2>2
  <1> QED
    BY <1>4, <1>5 DEF AnswerInv

\* Without an arena the cells that are not shared are free.
LEMMA LiveOrShared ==
  ASSUME ArenaInv, NEW a \in Places, cells[a].state # "free"
  PROVE  arena = "live" \/ a \in Statics
  <1>1. arena # "live" /\ a \notin Statics => cells[a] = Free
    BY UntouchedCells DEF ArenaInv, Places
  <1> QED
    BY <1>1 DEF Free

LEMMA AnswerKept ==
  ASSUME ForcingInv, AnswerInv, Next
  PROVE  AnswerInv'
  <1>1. CASE \E a \in Places : ForceComputed(a)
    <2>1. PICK a \in Places : ForceComputed(a)
      BY <1>1
    <2>2. /\ cells[a].state = "computed" /\ arena' = arena /\ cells' = cells
          /\ points' = points
          /\ answers' = [answers EXCEPT ![a] = @ \cup {readComputed(a)}]
      BY <2>1 DEF ForceComputed
    <2>3. arena = "live" \/ a \in Statics
      BY <2>2, LiveOrShared DEF ForcingInv
    <2>4. readComputed(a)' = readComputed(a)
      BY <2>2 DEF readComputed
    <2>5. readComputed(a) \in Values
      <3>1. cells[a] \in Cell /\ PayloadFits(cells[a], stable, points)
        BY DEF ForcingInv, CoreInv, TypeOK, PayloadInv
      <3> QED
        BY <2>2, <3>1 DEF readComputed, Values, Cell, PayloadFits
    <2> QED
      BY <2>2, <2>3, <2>4, <2>5, AnswersOne
  <1>2. ASSUME frames # << >>, Top.kind = "force", NEW v \in Values, NEW payload,
               nn_thunk_set_computed(Top.thunk, payload), arena' = arena,
               Top.phase = "running",
               v = IF payload \in StablePtrs THEN points'[payload] ELSE payload,
               answers' = [answers EXCEPT ![Top.thunk] = @ \cup {v}]
        PROVE  AnswerInv'
    <2>1. Top.thunk \in Places /\ cells[Top.thunk].state = "blackhole"
      BY <1>2, TopForcing DEF ForcingInv
    <2>2. arena = "live" \/ Top.thunk \in Statics
      BY <2>1, LiveOrShared DEF ForcingInv
    <2>3. cells'[Top.thunk] = [state |-> "computed", payload |-> payload]
      BY <1>2, <2>1 DEF nn_thunk_set_computed, ForcingInv, CoreInv, TypeOK
    <2>4. PICK a \in Places : a = Top.thunk
      BY <2>1
    <2>5. v = readComputed(a)' /\ cells'[a].state = "computed"
      BY <1>2, <2>3, <2>4 DEF readComputed
    <2> QED
      BY <1>2, <2>1, <2>2, <2>4, <2>5, AnswersOne
  <1>3. CASE \E v \in Inline : StoreInline(v)
    <2>1. PICK v \in Inline : StoreInline(v)
      BY <1>3
    <2>2. /\ frames # << >> /\ Top.kind = "force" /\ Top.phase = "running" /\ arena' = arena
          /\ nn_thunk_set_computed(Top.thunk, v)
          /\ answers' = [answers EXCEPT ![Top.thunk] = @ \cup {v}]
      BY <2>1 DEF StoreInline, Evaluating
    <2>3. v \notin StablePtrs /\ v \in Values
      BY KindsAreDistinct DEF Values
    <2> QED
      BY <1>2, <2>2, <2>3
  <1>4. CASE \E v \in Boxed : StoreBoxed(v)
    <2>1. PICK v \in Boxed : StoreBoxed(v)
      BY <1>4
    <2>2. /\ frames # << >> /\ Top.kind = "force" /\ Top.phase = "running" /\ arena' = arena
          /\ nn_thunk_set_computed(Top.thunk, Fresh) /\ newStablePtr(v)
          /\ answers' = [answers EXCEPT ![Top.thunk] = @ \cup {v}]
      BY <2>1 DEF StoreBoxed, Evaluating
    <2>3. Fresh \in StablePtrs /\ points'[Fresh] = v
      BY <2>2 DEF newStablePtr, Fresh, ForcingInv, CoreInv, TypeOK
    <2>4. v \in Values
      BY DEF Values
    <2> QED
      BY <1>2, <2>2, <2>3, <2>4
  <1>5. CASE \/ arenaInit \/ arenaDestroy \/ nn_thunk_new_bc \/ nn_thunk_new_computed
             \/ \E v \in Inline \ Statics : nn_thunk_new_inline(v)
             \/ \E a \in Places : ForceBlackhole(a) \/ ForcePending(a)
             \/ RunThunk \/ LeaveHandler \/ FreePendingEnv
             \/ withCallFrame \/ catchEvalError \/ Answer
             \/ \E kind \in Errors : Throw(kind)
             \/ Interrupt \/ \E t \in Boxed \cup {Env} : InterruptAllocation(t)
             \/ UnwindForce \/ UnwindCall \/ UnwindTry \/ runEvalIO
    <2>1. answers' = answers /\ (arena' = arena \/ arena # "gone")
      BY <1>5 DEF arenaInit, arenaDestroy, nn_thunk_new_bc, nn_thunk_new_computed,
         nn_thunk_new, nn_thunk_new_inline, ForceBlackhole, ForcePending, RunThunk,
         LeaveHandler, FreePendingEnv, withCallFrame, catchEvalError, Answer, Throw,
         Interrupt, InterruptAllocation, UnwindForce, UnwindCall, UnwindTry, runEvalIO
    <2> QED
      BY <2>1, AnswersOld
  <1> QED
    BY <1>1, <1>3, <1>4, <1>5 DEF Next

\* Memoization holds for any code of the thunks: forces of one thunk, whichever
\* of them ran it, answer one value.
THEOREM OneAnswerHolds == Spec => []OneAnswer
  <1>1. Init => AnswerInv
    BY DEF Init, AnswerInv
  <1>2. ForcingInv /\ AnswerInv /\ [Next]_vars => AnswerInv'
    <2>1. ASSUME AnswerInv, UNCHANGED vars PROVE AnswerInv'
      BY <2>1 DEF vars, AnswerInv, readComputed
    <2> QED
      BY <2>1, AnswerKept
  <1>3. AnswerInv => OneAnswer
    BY DEF AnswerInv, OneAnswer
  <1> QED
    BY <1>1, <1>2, <1>3, Forced, PTL DEF Spec

-----------------------------------------------------------------------------
(* The StablePtrs.                                                          *)

\* A StablePtr is live while it has an owner, and then it has one: a cell, the
\* innermost force, which is about to release it, or nobody any more.
CellOwns(a, p) == HoldsStablePtr(cells[a]) /\ cells[a].payload = p
TopFrees(p) == /\ frames # << >> /\ Top.kind = "force"
               /\ Top.phase \in {"stored", "leaving"} /\ Top.env = p
Owned(p) ==
  /\ stable[p] # "freed twice"
  /\ stable[p] = "live" <=> p \in lost \/ TopFrees(p) \/ \E a \in Places : CellOwns(a, p)
  /\ ~ (p \in lost /\ TopFrees(p))
  /\ \A a \in Places : CellOwns(a, p) => /\ p \notin lost /\ ~ TopFrees(p)
                                         /\ \A b \in Places : CellOwns(b, p) => b = a
OwnInv == \A p \in StablePtrs : Owned(p)

\* The force that frees, after each kind of step of the stack.
LEMMA TopFreesSame ==
  ASSUME NEW p, frames' = frames
  PROVE  TopFrees(p)' <=> TopFrees(p)
  BY DEF TopFrees, Top

LEMMA TopFreesPush ==
  ASSUME CoreInv, Evaluating, NEW p, NEW kind \in {"force", "call", "try"},
         NEW thunk \in Places \cup {None}, NEW env \in StablePtrs \cup {None}, NEW inner,
         Push(kind, thunk, env, inner)
  PROVE  ~ TopFrees(p)' /\ ~ TopFrees(p)
  <1>1. /\ Len(frames') = Len(frames) + 1
        /\ frames'[Len(frames) + 1] =
             [kind |-> kind, thunk |-> thunk, env |-> env, phase |-> "marked", outer |-> depth]
    BY PushFacts DEF CoreInv
  <1>2. Top'.phase = "marked"
    BY <1>1 DEF Top
  <1> QED
    BY <1>2 DEF TopFrees, Evaluating

LEMMA TopFreesLeave ==
  ASSUME CoreInv, StackInv, frames # << >>, Leave, NEW p
  PROVE  ~ TopFrees(p)'
  <1>0. PICK n : n = Len(frames)
    OBVIOUS
  <1>1. /\ frames' \in Seq(Frame) /\ Len(frames') = n - 1 /\ n \in Nat \ {0}
        /\ DOMAIN frames = 1 .. n
        /\ \A i \in 1 .. n - 1 : frames'[i] = frames[i]
    BY <1>0, LeaveFacts, TopFacts DEF CoreInv
  <1>2. ASSUME frames' # << >>, Top'.kind = "force" PROVE Top'.phase = "running"
    <2>1. Len(frames') # 0
      BY <1>1, <1>2, EmptySeq
    <2>2. n - 1 \in 1 .. n - 1 /\ n - 1 \in DOMAIN frames /\ n - 1 < Len(frames)
      BY <1>0, <1>1, <2>1
    <2>3. Top' = frames[n - 1]
      BY <1>1, <2>2 DEF Top
    <2> QED
      BY <1>2, <2>2, <2>3 DEF StackInv
  <1> QED
    BY <1>2 DEF TopFrees

LEMMA TopFreesPhase ==
  ASSUME CoreInv, frames # << >>, NEW q \in Phases, SetPhase(q)
  PROVE  /\ frames' # << >> /\ Top'.kind = Top.kind /\ Top'.env = Top.env /\ Top'.phase = q
  <1>0. PICK n : n = Len(frames)
    OBVIOUS
  <1>1. /\ Len(frames') = n /\ frames' \in Seq(Frame)
        /\ frames'[n] = [frames[n] EXCEPT !.phase = q]
    BY <1>0, PhaseFacts DEF CoreInv
  <1>2. n \in Nat \ {0} /\ Top = frames[n] /\ Top \in Frame
    BY <1>0, TopFacts DEF CoreInv
  <1>3. Top' = frames'[n]
    BY <1>1 DEF Top
  <1>4. frames' # << >>
    BY <1>1, <1>2, EmptySeq
  <1> QED
    BY <1>1, <1>2, <1>3, <1>4 DEF Frame

\* Nothing about one StablePtr changes.
LEMMA OwnedSame ==
  ASSUME NEW p, Owned(p), stable'[p] = stable[p], p \in lost' <=> p \in lost,
         TopFrees(p)' <=> TopFrees(p),
         \A a \in Places : CellOwns(a, p)' <=> CellOwns(a, p)
  PROVE  Owned(p)'
  BY DEF Owned

\* The runtime hands out a StablePtr that nobody owned.
LEMMA FreshUnowned ==
  ASSUME CoreInv, OwnInv, NEW target, newStablePtr(target)
  PROVE  /\ Fresh \in StablePtrs /\ Fresh \notin lost /\ ~ TopFrees(Fresh)
         /\ \A a \in Places : ~ CellOwns(a, Fresh)
         /\ stable'[Fresh] = "live"
         /\ \A p \in StablePtrs : p # Fresh => stable'[p] = stable[p]
  <1>1. Fresh \in StablePtrs /\ stable[Fresh] = "unused"
    BY DEF newStablePtr, Fresh
  <1>2. stable' = [stable EXCEPT ![Fresh] = "live"]
        /\ stable \in [StablePtrs -> {"unused", "live", "freed", "freed twice"}]
    BY DEF newStablePtr, CoreInv, TypeOK
  <1>3. Owned(Fresh)
    BY <1>1 DEF OwnInv
  <1> QED
    BY <1>1, <1>2, <1>3 DEF Owned

\* A StablePtr is lost as soon as it is made.
LEMMA OwnedLost ==
  ASSUME CoreInv, OwnInv, NEW target, newStablePtr(target), lost' = lost \cup {Fresh},
         cells' = cells, frames' = frames
  PROVE  OwnInv'
  <1>1. PICK q : q = Fresh
    OBVIOUS
  <1>2. /\ q \in StablePtrs /\ q \notin lost /\ ~ TopFrees(q)
        /\ \A a \in Places : ~ CellOwns(a, q)
        /\ stable'[q] = "live"
        /\ \A p \in StablePtrs : p # q => stable'[p] = stable[p]
    BY <1>1, FreshUnowned
  <1>3. \A p, a : CellOwns(a, p)' <=> CellOwns(a, p)
    BY DEF CellOwns
  <1>4. \A p : TopFrees(p)' <=> TopFrees(p)
    BY TopFreesSame
  <1>5. ASSUME NEW p \in StablePtrs, p # q PROVE Owned(p)'
    <2>1. p \in lost' <=> p \in lost
      BY <1>1, <1>5
    <2> QED
      BY <1>2, <1>3, <1>4, <1>5, <2>1, OwnedSame DEF OwnInv
  <1>6. Owned(q)'
    BY <1>1, <1>2, <1>3, <1>4 DEF Owned
  <1> QED
    BY <1>5, <1>6 DEF OwnInv

\* A StablePtr is made for the cell that is allocated.
LEMMA OwnedAllocated ==
  ASSUME CoreInv, ArenaInv, OwnInv, NEW target, newStablePtr(target), lost' = lost,
         CanAlloc, NEW s \in {"pending", "computed"},
         arena_alloc([state |-> s, payload |-> Fresh]), frames' = frames
  PROVE  OwnInv'
  <1>1. PICK q, slot : q = Fresh /\ slot = NextSlot
    OBVIOUS
  <1>2. /\ q \in StablePtrs /\ q \notin lost /\ ~ TopFrees(q)
        /\ \A a \in Places : ~ CellOwns(a, q)
        /\ stable'[q] = "live"
        /\ \A p \in StablePtrs : p # q => stable'[p] = stable[p]
    BY <1>1, FreshUnowned
  <1>3. /\ slot \in Addrs /\ cells[slot] = Free
        /\ cells' = [cells EXCEPT ![slot] = [state |-> s, payload |-> q]]
    BY <1>1, NextSlotFree
  <1>4. slot \in Places /\ cells \in [Places -> Cell]
    BY <1>3 DEF Places, CoreInv, TypeOK
  <1>5. \A a \in Places : \A p : a # slot => (CellOwns(a, p)' <=> CellOwns(a, p))
    BY <1>3, <1>4 DEF CellOwns
  <1>6. \A p : ~ CellOwns(slot, p)
    BY <1>3 DEF CellOwns, Free, HoldsStablePtr
  <1>7. \A p : CellOwns(slot, p)' <=> p = q
    <2>1. cells'[slot] = [state |-> s, payload |-> q]
      BY <1>3, <1>4
    <2> QED
      BY <1>2, <2>1 DEF CellOwns, HoldsStablePtr
  <1>8. \A p : TopFrees(p)' <=> TopFrees(p)
    BY TopFreesSame
  <1>9. ASSUME NEW p \in StablePtrs, p # q PROVE Owned(p)'
    <2>1. \A a \in Places : CellOwns(a, p)' <=> CellOwns(a, p)
      BY <1>5, <1>6, <1>7, <1>9
    <2> QED
      BY <1>2, <1>8, <1>9, <2>1, OwnedSame DEF OwnInv
  <1>10. \A a \in Places : CellOwns(a, q)' <=> a = slot
    BY <1>2, <1>5, <1>7
  <1>11. Owned(q)'
    BY <1>2, <1>4, <1>8, <1>10 DEF Owned
  <1> QED
    BY <1>9, <1>11 DEF OwnInv

\* The innermost force stores its value: the environment is its own to free now,
\* and a box is owned by the cell.
LEMMA OwnedStored ==
  ASSUME CoreInv, ForceInv, OwnInv, frames # << >>, Top.kind = "force", Top.phase = "running",
         NEW payload, nn_thunk_set_computed(Top.thunk, payload), SetPhase("stored"),
         lost' = lost,
         \/ payload \notin StablePtrs /\ stable' = stable
         \/ payload = Fresh /\ \E target : newStablePtr(target)
  PROVE  OwnInv'
  <1>1. PICK t, e : t = Top.thunk /\ e = Top.env
    OBVIOUS
  <1>2. /\ t \in Places /\ e \in StablePtrs
        /\ cells[t] = [state |-> "blackhole", payload |-> e]
    BY <1>1, TopForcing
  <1>3. cells \in [Places -> Cell]
        /\ cells' = [cells EXCEPT ![t] = [state |-> "computed", payload |-> payload]]
    BY <1>1 DEF nn_thunk_set_computed, CoreInv, TypeOK
  <1>4. \A a \in Places : \A p : a # t => (CellOwns(a, p)' <=> CellOwns(a, p))
    BY <1>2, <1>3 DEF CellOwns
  <1>5. \A p : CellOwns(t, p) <=> p = e
    BY <1>2 DEF CellOwns, HoldsStablePtr
  <1>6. \A p \in StablePtrs : CellOwns(t, p)' <=> p = payload
    <2>1. cells'[t] = [state |-> "computed", payload |-> payload]
      BY <1>2, <1>3
    <2> QED
      BY <2>1 DEF CellOwns, HoldsStablePtr
  <1>7. \A p : ~ TopFrees(p)
    BY DEF TopFrees
  <1>8. \A p : TopFrees(p)' <=> p = e
    <2>1. "stored" \in Phases
      BY DEF Phases
    <2>2. frames' # << >> /\ Top'.kind = "force" /\ Top'.env = e /\ Top'.phase = "stored"
      BY <1>1, <2>1, TopFreesPhase
    <2> QED
      BY <2>2 DEF TopFrees
  <1>9. /\ stable[e] = "live" /\ e \notin lost
        /\ \A a \in Places : CellOwns(a, e) => a = t
    <2>1. Owned(e) /\ CellOwns(t, e)
      BY <1>2, <1>5 DEF OwnInv
    <2> QED
      BY <1>2, <2>1 DEF Owned
  <1>10. CASE payload \notin StablePtrs /\ stable' = stable
    <2>1. \A p \in StablePtrs : ~ CellOwns(t, p)'
      BY <1>6, <1>10
    <2>2. ASSUME NEW p \in StablePtrs, p # e PROVE Owned(p)'
      <3>1. \A a \in Places : CellOwns(a, p)' <=> CellOwns(a, p)
        BY <1>4, <1>5, <2>1, <2>2
      <3> QED
        BY <1>7, <1>8, <1>10, <2>2, <3>1, OwnedSame DEF OwnInv
    <2>3. \A a \in Places : ~ CellOwns(a, e)'
      BY <1>2, <1>4, <1>9, <2>1
    <2>4. Owned(e)'
      BY <1>8, <1>9, <1>10, <2>3 DEF Owned
    <2> QED
      BY <2>2, <2>4 DEF OwnInv
  <1>11. ASSUME payload = Fresh, NEW target, newStablePtr(target)
         PROVE  OwnInv'
    <2>1. PICK q : q = Fresh
      OBVIOUS
    <2>2. /\ q \in StablePtrs /\ q \notin lost
          /\ \A a \in Places : ~ CellOwns(a, q)
          /\ stable'[q] = "live"
          /\ \A p \in StablePtrs : p # q => stable'[p] = stable[p]
      BY <1>11, <2>1, FreshUnowned
    <2>3. q # e
      BY <1>2, <1>5, <2>2
    <2>4. \A p \in StablePtrs : CellOwns(t, p)' <=> p = q
      BY <1>6, <1>11, <2>1
    <2>5. ASSUME NEW p \in StablePtrs, p # e, p # q PROVE Owned(p)'
      <3>1. \A a \in Places : CellOwns(a, p)' <=> CellOwns(a, p)
        BY <1>4, <1>5, <2>4, <2>5
      <3> QED
        BY <1>7, <1>8, <2>2, <2>5, <3>1, OwnedSame DEF OwnInv
    <2>6. Owned(e)'
      <3>1. \A a \in Places : ~ CellOwns(a, e)'
        BY <1>2, <1>4, <1>9, <2>3, <2>4
      <3> QED
        BY <1>2, <1>8, <1>9, <2>2, <2>3, <3>1 DEF Owned
    <2>7. Owned(q)'
      <3>1. \A a \in Places : CellOwns(a, q)' <=> a = t
        BY <1>4, <2>2, <2>4
      <3> QED
        BY <1>2, <1>8, <2>2, <2>3, <3>1 DEF Owned
    <2> QED
      BY <2>5, <2>6, <2>7 DEF OwnInv
  <1> QED
    BY <1>10, <1>11

\* The innermost force ends: its environment is freed, or lost, or still the
\* cell's.
LEMMA OwnedLeft ==
  ASSUME CoreInv, StackInv, OwnInv, frames # << >>, Leave,
         \A a \in Places : \A p : CellOwns(a, p)' <=> CellOwns(a, p),
         \/ /\ \A p : ~ TopFrees(p)
            /\ stable' = stable /\ lost' = lost
         \/ /\ TopFrees(Top.env) /\ Top.env \in StablePtrs
            /\ stable' = [stable EXCEPT ![Top.env] = Freed(Top.env)] /\ lost' = lost
         \/ /\ TopFrees(Top.env) /\ Top.env \in StablePtrs
            /\ stable' = stable /\ lost' = lost \cup {Top.env}
  PROVE  OwnInv'
  <1>1. \A p : ~ TopFrees(p)'
    BY TopFreesLeave
  <1>2. CASE (\A p : ~ TopFrees(p)) /\ stable' = stable /\ lost' = lost
    <2>1. ASSUME NEW p \in StablePtrs PROVE Owned(p)'
      BY <1>1, <1>2, OwnedSame DEF OwnInv
    <2> QED
      BY <2>1 DEF OwnInv
  <1>3. ASSUME TopFrees(Top.env), Top.env \in StablePtrs
        PROVE  /\ stable[Top.env] = "live" /\ Top.env \notin lost
               /\ \A a \in Places : ~ CellOwns(a, Top.env)
               /\ \A p : p # Top.env => ~ TopFrees(p)
    <2>1. Owned(Top.env)
      BY <1>3 DEF OwnInv
    <2>2. /\ stable[Top.env] = "live" /\ Top.env \notin lost
          /\ \A a \in Places : ~ CellOwns(a, Top.env)
      BY <1>3, <2>1 DEF Owned
    <2>3. \A p : TopFrees(p) => p = Top.env
      BY DEF TopFrees
    <2> QED
      BY <2>2, <2>3
  <1>4. PICK e : e = Top.env
    OBVIOUS
  <1>5. CASE /\ TopFrees(Top.env) /\ Top.env \in StablePtrs
             /\ stable' = [stable EXCEPT ![Top.env] = Freed(Top.env)] /\ lost' = lost
    <2>1. /\ stable[e] = "live" /\ e \notin lost /\ e \in StablePtrs
          /\ \A a \in Places : ~ CellOwns(a, e)
          /\ \A p : p # e => ~ TopFrees(p)
      BY <1>3, <1>4, <1>5
    <2>2. stable'[e] = "freed" /\ \A p \in StablePtrs : p # e => stable'[p] = stable[p]
      BY <1>4, <1>5, <2>1 DEF Freed, CoreInv, TypeOK
    <2>3. ASSUME NEW p \in StablePtrs, p # e PROVE Owned(p)'
      BY <1>1, <1>5, <2>1, <2>2, <2>3, OwnedSame DEF OwnInv
    <2>4. Owned(e)'
      BY <1>1, <1>5, <2>1, <2>2 DEF Owned
    <2> QED
      BY <2>3, <2>4 DEF OwnInv
  <1>6. CASE /\ TopFrees(Top.env) /\ Top.env \in StablePtrs
             /\ stable' = stable /\ lost' = lost \cup {Top.env}
    <2>1. /\ stable[e] = "live" /\ e \notin lost /\ e \in StablePtrs
          /\ \A a \in Places : ~ CellOwns(a, e)
          /\ \A p : p # e => ~ TopFrees(p)
      BY <1>3, <1>4, <1>6
    <2>2. e \in lost' /\ \A p : p # e => (p \in lost' <=> p \in lost)
      BY <1>4, <1>6
    <2>3. ASSUME NEW p \in StablePtrs, p # e PROVE Owned(p)'
      BY <1>1, <1>6, <2>1, <2>2, <2>3, OwnedSame DEF OwnInv
    <2>4. Owned(e)'
      BY <1>1, <1>6, <2>1, <2>2 DEF Owned
    <2> QED
      BY <2>3, <2>4 DEF OwnInv
  <1> QED
    BY <1>2, <1>5, <1>6

\* The teardown frees what the cells of the arena hold, each of it once.
LEMMA OwnedDestroyed ==
  ASSUME CoreInv, ArenaInv, OwnInv, arenaDestroy
  PROVE  OwnInv'
  <1> DEFINE holders(p) == {a \in nn_thunk_collect_stableptrs : cells[a].payload = p}
  <1>1. /\ stable' = [p \in StablePtrs |->
              IF holders(p) = {} THEN stable[p]
              ELSE IF Cardinality(holders(p)) = 1 THEN Freed(p) ELSE "freed twice"]
        /\ cells' = Untouched /\ lost' = lost /\ frames = << >> /\ frames' = << >>
    BY DEF arenaDestroy
  <1>2. ASSUME NEW a \in Places, HoldsStablePtr(cells[a])
        PROVE  a \in nn_thunk_collect_stableptrs
    <2>1. cells[a] # Free
      BY <1>2 DEF HoldsStablePtr, Free
    <2>2. a \notin Statics
      <3>1. SUFFICES ASSUME a \in Statics PROVE FALSE
        OBVIOUS
      <3>2. cells[a] = [state |-> "computed", payload |-> a] /\ a \notin StablePtrs
        BY <3>1, KindsAreDistinct DEF ArenaInv
      <3> QED
        BY <1>2, <3>2 DEF HoldsStablePtr
    <2>3. a \in Addrs
      BY <2>2 DEF Places
    <2> QED
      BY <1>2, <2>1, <2>3 DEF ArenaInv, nn_thunk_collect_stableptrs
  <1>3. Addrs \subseteq Places
    BY DEF Places
  <1>4. ASSUME NEW p PROVE holders(p) = {a \in Places : CellOwns(a, p)}
    BY <1>2, <1>3 DEF CellOwns, nn_thunk_collect_stableptrs
  <1>5. \A p : ~ TopFrees(p) /\ ~ TopFrees(p)'
    BY <1>1 DEF TopFrees
  <1>6. ASSUME NEW a \in Places, NEW p \in StablePtrs PROVE ~ CellOwns(a, p)'
    <2>1. CASE a \in Statics
      <3>1. cells'[a] = [state |-> "computed", payload |-> a] /\ a \notin StablePtrs
        BY <1>1, <2>1, UntouchedCells, KindsAreDistinct
      <3> QED
        BY <3>1 DEF CellOwns, HoldsStablePtr
    <2>2. CASE a \in Addrs
      <3>1. cells'[a] = Free
        BY <1>1, <2>2, UntouchedCells
      <3> QED
        BY <3>1 DEF CellOwns, HoldsStablePtr, Free
    <2> QED
      BY <2>1, <2>2 DEF Places
  <1>7. ASSUME NEW p \in StablePtrs PROVE Owned(p)'
    <2>1. Owned(p)
      BY DEF OwnInv
    <2>2. CASE \A a \in Places : ~ CellOwns(a, p)
      <3>1. holders(p) = {}
        BY <1>4, <2>2
      <3>2. stable'[p] = stable[p]
        BY <1>1, <3>1
      <3> QED
        BY <1>1, <1>5, <1>6, <2>1, <2>2, <3>2, OwnedSame
    <2>3. ASSUME NEW a \in Places, CellOwns(a, p)
          PROVE  Owned(p)'
      <3>1. stable[p] = "live" /\ p \notin lost /\ \A b \in Places : CellOwns(b, p) => b = a
        BY <2>1, <2>3 DEF Owned
      <3>2. holders(p) = {a}
        BY <1>4, <2>3, <3>1
      <3>3. Cardinality(holders(p)) = 1
        BY <3>2, FS_Singleton
      <3> HIDE DEF holders
      <3>4. stable'[p] = "freed"
        BY <1>1, <3>1, <3>2, <3>3 DEF Freed
      <3> QED
        BY <1>1, <1>5, <1>6, <3>1, <3>4 DEF Owned
    <2> QED
      BY <2>2, <2>3
  <1> QED
    BY <1>7 DEF OwnInv

\* A mark changes a cell's state between pending and blackhole: it owns what it
\* owned.
LEMMA MarkedOwns ==
  ASSUME CoreInv, NEW t \in Places, NEW s \in {"pending", "blackhole"},
         cells' = [cells EXCEPT ![t].state = s],
         cells[t].state \in {"pending", "blackhole"}
  PROVE  \A a \in Places : \A p : CellOwns(a, p)' <=> CellOwns(a, p)
  <1>1. cells \in [Places -> Cell]
    BY DEF CoreInv, TypeOK
  <1>2. /\ \A a \in Places : a # t => cells'[a] = cells[a]
        /\ cells'[t] = [cells[t] EXCEPT !.state = s] /\ cells[t] \in Cell
    BY <1>1
  <1>3. cells'[t].state = s /\ cells'[t].payload = cells[t].payload
    BY <1>2 DEF Cell
  <1>4. \A p : CellOwns(t, p)' <=> CellOwns(t, p)
    BY <1>3 DEF CellOwns, HoldsStablePtr
  <1> QED
    BY <1>2, <1>4 DEF CellOwns

LEMMA OwnKept ==
  ASSUME ForcingInv, OwnInv, Next
  PROVE  OwnInv'
  <1>1. CoreInv /\ ArenaInv /\ StackInv /\ ForceInv /\ cells \in [Places -> Cell]
    BY DEF ForcingInv, CoreInv, TypeOK
  <1>2. ASSUME stable' = stable, lost' = lost,
               \A p : TopFrees(p)' <=> TopFrees(p),
               \A a \in Places : \A p : CellOwns(a, p)' <=> CellOwns(a, p)
        PROVE  OwnInv'
    <2>1. ASSUME NEW p \in StablePtrs PROVE Owned(p)'
      BY <1>2, OwnedSame DEF OwnInv
    <2> QED
      BY <2>1 DEF OwnInv
  <1>3. ASSUME cells' = cells PROVE \A a \in Places : \A p : CellOwns(a, p)' <=> CellOwns(a, p)
    BY <1>3 DEF CellOwns
  <1>4. CASE nn_thunk_new_bc \/ nn_thunk_new_computed
    <2>1. PICK target : nn_thunk_new(target)
      BY <1>4 DEF nn_thunk_new_bc, nn_thunk_new_computed
    <2>2. newStablePtr(target) /\ frames' = frames
      BY <2>1 DEF nn_thunk_new
    <2>3. CASE CanAlloc
      <3>1. /\ lost' = lost
            /\ arena_alloc([state |-> IF target = Env THEN "pending" ELSE "computed",
                            payload |-> Fresh])
        BY <2>1, <2>3 DEF nn_thunk_new
      <3>2. CASE target = Env
        BY <1>1, <2>2, <2>3, <3>1, <3>2, OwnedAllocated
      <3>3. CASE target # Env
        BY <1>1, <2>2, <2>3, <3>1, <3>3, OwnedAllocated
      <3> QED
        BY <3>2, <3>3
    <2>4. CASE ~ CanAlloc
      <3>1. lost' = lost \cup {Fresh} /\ cells' = cells
        BY <2>1, <2>4 DEF nn_thunk_new
      <3> QED
        BY <1>1, <2>2, <3>1, OwnedLost
    <2> QED
      BY <2>3, <2>4
  <1>5. ASSUME NEW v \in Inline \ Statics, nn_thunk_new_inline(v)
        PROVE  OwnInv'
    <2>1. stable' = stable /\ lost' = lost /\ frames' = frames
      BY <1>5 DEF nn_thunk_new_inline
    <2>2. CASE CanAlloc
      <3>1. arena_alloc([state |-> "computed", payload |-> v])
        BY <1>5, <2>2 DEF nn_thunk_new_inline
      <3>2. PICK slot : slot = NextSlot
        OBVIOUS
      <3>3. /\ slot \in Addrs /\ cells[slot] = Free
            /\ cells' = [cells EXCEPT ![slot] = [state |-> "computed", payload |-> v]]
        BY <1>1, <2>2, <3>1, <3>2, NextSlotFree
      <3>4. \A a \in Places : a # slot => cells'[a] = cells[a]
        BY <1>1, <3>3
      <3>5. slot \in Places => cells'[slot] = [state |-> "computed", payload |-> v]
        BY <1>1, <3>3
      <3>6. v \notin StablePtrs
        BY KindsAreDistinct
      <3>7. \A p : ~ CellOwns(slot, p)
        BY <3>3 DEF CellOwns, HoldsStablePtr, Free
      <3>8. slot \in Places => \A p : ~ CellOwns(slot, p)'
        BY <3>5, <3>6 DEF CellOwns, HoldsStablePtr
      <3>9. \A a \in Places : \A p : CellOwns(a, p)' <=> CellOwns(a, p)
        BY <3>4, <3>7, <3>8 DEF CellOwns
      <3> QED
        BY <1>2, <2>1, <3>9, TopFreesSame
    <2>3. CASE ~ CanAlloc
      <3>1. cells' = cells
        BY <1>5, <2>3 DEF nn_thunk_new_inline
      <3> QED
        BY <1>2, <1>3, <2>1, <3>1, TopFreesSame
    <2> QED
      BY <2>2, <2>3
  <1>6. CASE \E v \in Inline : StoreInline(v)
    <2>1. PICK v \in Inline : StoreInline(v)
      BY <1>6
    <2>2. /\ frames # << >> /\ Top.kind = "force" /\ Top.phase = "running"
          /\ nn_thunk_set_computed(Top.thunk, v) /\ SetPhase("stored")
          /\ lost' = lost /\ stable' = stable
      BY <2>1 DEF StoreInline, Evaluating
    <2>3. v \notin StablePtrs
      BY KindsAreDistinct
    <2> QED
      BY <1>1, <2>2, <2>3, OwnedStored
  <1>7. CASE \E v \in Boxed : StoreBoxed(v)
    <2>1. PICK v \in Boxed : StoreBoxed(v)
      BY <1>7
    <2>2. /\ frames # << >> /\ Top.kind = "force" /\ Top.phase = "running"
          /\ nn_thunk_set_computed(Top.thunk, Fresh) /\ SetPhase("stored")
          /\ lost' = lost /\ newStablePtr(v)
      BY <2>1 DEF StoreBoxed, Evaluating
    <2> QED
      BY <1>1, <2>2, OwnedStored
  <1>8. CASE \E a \in Places : ForcePending(a)
    <2>1. PICK a \in Places : ForcePending(a)
      BY <1>8
    <2>2. /\ Evaluating /\ cells[a].state = "pending" /\ nn_thunk_mark_blackhole(a)
          /\ Push("force", a, cells[a].payload, depth) /\ stable' = stable /\ lost' = lost
      BY <2>1 DEF ForcePending
    <2>3. cells[a].payload \in StablePtrs
      BY <2>2 DEF ForcingInv, CoreInv, PayloadInv, PayloadFits
    <2>4. \A p : TopFrees(p)' <=> TopFrees(p)
      BY <1>1, <2>2, <2>3, TopFreesPush
    <2>5. cells' = [cells EXCEPT ![a].state = "blackhole"]
      BY <1>1, <2>2 DEF nn_thunk_mark_blackhole
    <2> QED
      BY <1>1, <1>2, <2>2, <2>4, <2>5, MarkedOwns
  <1>9. CASE RunThunk \/ LeaveHandler
    <2>1. /\ frames # << >> /\ Top.kind = "force" /\ stable' = stable /\ lost' = lost
          /\ cells' = cells
          /\ \/ Top.phase = "marked" /\ SetPhase("running")
             \/ Top.phase = "stored" /\ SetPhase("leaving")
      BY <1>9 DEF RunThunk, LeaveHandler
    <2>2. "running" \in Phases /\ "leaving" \in Phases
      BY DEF Phases
    <2>3. /\ frames' # << >> /\ Top'.kind = Top.kind /\ Top'.env = Top.env
          /\ \/ Top.phase = "marked" /\ Top'.phase = "running"
             \/ Top.phase = "stored" /\ Top'.phase = "leaving"
      BY <1>1, <2>1, <2>2, TopFreesPhase
    <2>4. \A p : TopFrees(p)' <=> TopFrees(p)
      BY <2>1, <2>3 DEF TopFrees
    <2> QED
      BY <1>2, <1>3, <2>1, <2>4
  <1>10. CASE withCallFrame \/ catchEvalError
    <2>1. /\ cells' = cells /\ stable' = stable /\ lost' = lost /\ Evaluating
          /\ \/ frames' = frames
             \/ Push("call", None, None, depth + 1)
             \/ Push("try", None, None, depth)
      BY <1>10 DEF withCallFrame, catchEvalError
    <2>2. \A p : TopFrees(p)' <=> TopFrees(p)
      BY <1>1, <2>1, TopFreesSame, TopFreesPush
    <2> QED
      BY <1>2, <1>3, <2>1, <2>2
  <1>11. CASE FreePendingEnv
    <2>1. /\ frames # << >> /\ Leave /\ Top.kind = "force" /\ Top.phase = "leaving"
          /\ cells' = cells /\ lost' = lost
          /\ stable' = [stable EXCEPT ![Top.env] = Freed(Top.env)]
      BY <1>11 DEF FreePendingEnv
    <2>2. TopFrees(Top.env) /\ Top.env \in StablePtrs
      BY <1>1, <2>1, TopForcing DEF TopFrees
    <2> QED
      BY <1>1, <1>3, <2>1, <2>2, OwnedLeft
  <1>12. CASE Answer \/ UnwindCall \/ UnwindTry
    <2>1. /\ frames # << >> /\ Leave /\ Top.kind # "force" /\ cells' = cells
          /\ lost' = lost /\ stable' = stable
      BY <1>12 DEF Answer, UnwindCall, UnwindTry
    <2>2. \A p : ~ TopFrees(p)
      BY <2>1 DEF TopFrees
    <2> QED
      BY <1>1, <1>3, <2>1, <2>2, OwnedLeft
  <1>13. CASE UnwindForce
    <2>1. /\ frames # << >> /\ Leave /\ Top.kind = "force" /\ stable' = stable
          /\ lost' = IF Top.phase \in {"stored", "leaving"} THEN lost \cup {Top.env} ELSE lost
          /\ IF Top.phase \in {"running", "stored"} THEN nn_thunk_mark_pending(Top.thunk)
                                                    ELSE cells' = cells
      BY <1>13 DEF UnwindForce
    <2>2. /\ Top.thunk \in Places /\ Top.env \in StablePtrs
          /\ Top.phase \in {"marked", "running"} => cells[Top.thunk].state = "blackhole"
          /\ Top.phase \in {"stored", "leaving"} => cells[Top.thunk].state = "computed"
          /\ Top.phase \in {"marked", "running", "stored", "leaving"}
      BY <1>1, <2>1, TopForcing
    <2>3. \A a \in Places : \A p : CellOwns(a, p)' <=> CellOwns(a, p)
      <3>1. CASE Top.phase = "running"
        <4>1. cells' = [cells EXCEPT ![Top.thunk].state = "pending"]
          BY <1>1, <2>1, <2>2, <3>1 DEF nn_thunk_mark_pending
        <4> QED
          BY <1>1, <2>2, <3>1, <4>1, MarkedOwns
      <3>2. CASE Top.phase = "stored"
        <4>1. cells' = [cells EXCEPT ![Top.thunk].state = cells[Top.thunk].state]
          BY <1>1, <2>1, <2>2, <3>2 DEF nn_thunk_mark_pending
        <4>2. cells[Top.thunk] \in Cell
          BY <1>1, <2>2
        <4>3. cells' = cells
          BY <1>1, <4>1, <4>2 DEF Cell
        <4> QED
          BY <1>3, <4>3
      <3>3. CASE Top.phase \in {"marked", "leaving"}
        BY <1>3, <2>1, <3>3
      <3> QED
        BY <2>2, <3>1, <3>2, <3>3
    <2>4. CASE Top.phase \in {"stored", "leaving"}
      <3>1. TopFrees(Top.env) /\ lost' = lost \cup {Top.env}
        BY <2>1, <2>4 DEF TopFrees
      <3> QED
        BY <1>1, <2>1, <2>2, <2>3, <3>1, OwnedLeft
    <2>5. CASE Top.phase \notin {"stored", "leaving"}
      <3>1. (\A p : ~ TopFrees(p)) /\ lost' = lost
        BY <2>1, <2>5 DEF TopFrees
      <3> QED
        BY <1>1, <2>1, <2>3, <3>1, OwnedLeft
    <2> QED
      BY <2>4, <2>5
  <1>14. CASE \E t \in Boxed \cup {Env} : InterruptAllocation(t)
    <2>1. PICK t : InterruptAllocation(t)
      BY <1>14
    <2>2. newStablePtr(t) /\ lost' = lost \cup {Fresh} /\ cells' = cells /\ frames' = frames
      BY <2>1 DEF InterruptAllocation
    <2> QED
      BY <1>1, <2>2, OwnedLost
  <1>15. CASE arenaDestroy
    BY <1>1, <1>15, OwnedDestroyed
  <1>16. CASE \/ arenaInit
              \/ \E a \in Places : ForceComputed(a) \/ ForceBlackhole(a)
              \/ \E kind \in Errors : Throw(kind)
              \/ Interrupt \/ runEvalIO
    <2>1. frames' = frames /\ cells' = cells /\ stable' = stable /\ lost' = lost
      BY <1>16 DEF arenaInit, ForceComputed, ForceBlackhole, Throw, Interrupt, runEvalIO
    <2> QED
      BY <1>2, <1>3, <2>1, TopFreesSame
  <1> QED
    BY <1>4, <1>5, <1>6, <1>7, <1>8, <1>9, <1>10, <1>11, <1>12, <1>13, <1>14, <1>15, <1>16
       DEF Next

\* The owners TLC counts are those of Owned.
LEMMA OwnersCounted ==
  ASSUME ForcingInv, OwnInv, NEW p \in StablePtrs
  PROVE  /\ stable[p] # "freed twice"
         /\ stable[p] = "live" <=> Cardinality(Owners(p)) = 1
         /\ stable[p] # "live" => Owners(p) = {}
  <1>1. Owned(p)
    BY DEF OwnInv
  <1>2. CellsOwning(p) = {a \in Places : CellOwns(a, p)}
    BY DEF CellsOwning, CellOwns
  <1>3. ForcesOwning(p) = IF TopFrees(p) THEN {Len(frames)} ELSE {}
    <2>1. CASE frames = << >>
      BY <2>1 DEF ForcesOwning, TopFrees
    <2>2. CASE frames # << >>
      <3>1. /\ Len(frames) \in Nat \ {0} /\ DOMAIN frames = 1 .. Len(frames)
            /\ Len(frames) \in DOMAIN frames /\ Top = frames[Len(frames)]
        BY <2>2, TopFacts DEF ForcingInv, CoreInv
      <3>2. ASSUME NEW i \in ForcesOwning(p)
            PROVE  i = Len(frames) /\ TopFrees(p)
        <4>1. /\ i \in DOMAIN frames /\ frames[i].kind = "force"
              /\ frames[i].phase \in {"stored", "leaving"} /\ frames[i].env = p
          BY <3>2 DEF ForcesOwning
        <4>2. i = Len(frames) \/ i < Len(frames)
          BY <3>1, <4>1
        <4>3. i = Len(frames)
          BY <4>1, <4>2 DEF ForcingInv, StackInv
        <4> QED
          BY <2>2, <3>1, <4>1, <4>3 DEF TopFrees
      <3>3. TopFrees(p) => Len(frames) \in ForcesOwning(p)
        BY <3>1 DEF TopFrees, ForcesOwning
      <3> QED
        BY <3>2, <3>3
    <2> QED
      BY <2>1, <2>2
  <1>4. CASE stable[p] # "live"
    <2>1. p \notin lost /\ CellsOwning(p) = {} /\ ForcesOwning(p) = {}
      BY <1>1, <1>2, <1>3, <1>4 DEF Owned
    <2>2. Owners(p) = {}
      BY <2>1 DEF Owners
    <2>3. Cardinality(Owners(p)) # 1
      <3>1. Cardinality(Owners(p)) = 0
        BY <2>2, FS_EmptySet
      <3> QED
        BY <3>1
    <2>4. stable[p] # "freed twice"
      BY <1>1 DEF Owned
    <2> QED
      BY <1>4, <2>2, <2>3, <2>4
  <1>5. CASE stable[p] = "live"
    <2>1. \E o : Owners(p) = {o}
      <3>1. CASE p \in lost
        <4>1. CellsOwning(p) = {} /\ ForcesOwning(p) = {}
          BY <1>1, <1>2, <1>3, <3>1 DEF Owned
        <4>2. Owners(p) = {<<"nobody">>}
          BY <3>1, <4>1 DEF Owners
        <4> QED
          BY <4>2
      <3>2. CASE TopFrees(p)
        <4>1. CellsOwning(p) = {} /\ ForcesOwning(p) = {Len(frames)} /\ p \notin lost
          BY <1>1, <1>2, <1>3, <3>2 DEF Owned
        <4>2. Owners(p) = {<<"force", Len(frames)>>}
          BY <4>1 DEF Owners
        <4> QED
          BY <4>2
      <3>3. ASSUME NEW a \in Places, CellOwns(a, p)
            PROVE  \E o : Owners(p) = {o}
        <4>1. CellsOwning(p) = {a} /\ ForcesOwning(p) = {} /\ p \notin lost
          BY <1>1, <1>2, <1>3, <3>3 DEF Owned
        <4>2. Owners(p) = {<<"cell", a>>}
          BY <4>1 DEF Owners
        <4> QED
          BY <4>2
      <3> QED
        BY <1>1, <1>5, <3>1, <3>2, <3>3 DEF Owned
    <2>2. Cardinality(Owners(p)) = 1
      BY <2>1, FS_Singleton
    <2> QED
      BY <1>1, <1>5, <2>2 DEF Owned
  <1> QED
    BY <1>4, <1>5

LEMMA Accounted ==
  ASSUME ForcingInv, OwnInv
  PROVE  StablePtrsAccounted
  <1>1. ASSUME arena = "gone", frames = << >>, NEW p \in StablePtrs
        PROVE  stable[p] = "live" <=> p \in lost
    <2>1. ~ TopFrees(p)
      BY <1>1 DEF TopFrees
    <2>2. ASSUME NEW a \in Places PROVE ~ CellOwns(a, p)
      <3>1. cells[a] = Untouched[a]
        BY <1>1 DEF ForcingInv, ArenaInv
      <3>2. CASE a \in Statics
        <4>1. cells[a] = [state |-> "computed", payload |-> a] /\ a \notin StablePtrs
          BY <3>1, <3>2, UntouchedCells, KindsAreDistinct
        <4> QED
          BY <4>1 DEF CellOwns, HoldsStablePtr
      <3>3. CASE a \in Addrs
        <4>1. cells[a] = Free
          BY <3>1, <3>3, UntouchedCells
        <4> QED
          BY <4>1 DEF CellOwns, HoldsStablePtr, Free
      <3> QED
        BY <3>2, <3>3 DEF Places
    <2> QED
      BY <2>1, <2>2 DEF OwnInv, Owned
  <1> QED
    BY <1>1, OwnersCounted DEF StablePtrsAccounted

\* No StablePtr is freed twice, used after it was freed, or forgotten, through
\* every mixture of results, caught errors, refused allocations and interrupts,
\* and after the teardown only those are left that C refused or an interrupt
\* took away: the contract between nn_thunk.c and the garbage collector of GHC.
THEOREM StablePtrsAccountedHolds == Spec => []StablePtrsAccounted
  <1>1. Init => OwnInv
    <2>1. ASSUME Init, NEW p \in StablePtrs PROVE Owned(p)
      <3>1. stable[p] = "unused" /\ p \notin lost /\ frames = << >> /\ cells = Untouched
        BY <2>1 DEF Init
      <3>2. ASSUME NEW a \in Places PROVE ~ CellOwns(a, p)
        <4>1. CASE a \in Statics
          <5>1. cells[a] = [state |-> "computed", payload |-> a] /\ a \notin StablePtrs
            BY <3>1, <4>1, UntouchedCells, KindsAreDistinct
          <5> QED
            BY <5>1 DEF CellOwns, HoldsStablePtr
        <4>2. CASE a \in Addrs
          <5>1. cells[a] = Free
            BY <3>1, <4>2, UntouchedCells
          <5> QED
            BY <5>1 DEF CellOwns, HoldsStablePtr, Free
        <4> QED
          BY <4>1, <4>2 DEF Places
      <3>3. ~ TopFrees(p)
        BY <3>1 DEF TopFrees
      <3> QED
        BY <3>1, <3>2, <3>3 DEF Owned
    <2> QED
      BY <2>1 DEF OwnInv
  <1>2. ForcingInv /\ OwnInv /\ [Next]_vars => OwnInv'
    <2>1. ASSUME OwnInv, UNCHANGED vars PROVE OwnInv'
      BY <2>1 DEF vars, OwnInv, Owned, TopFrees, Top, CellOwns
    <2> QED
      BY <2>1, OwnKept
  <1>3. ForcingInv /\ OwnInv => StablePtrsAccounted
    BY Accounted
  <1> QED
    BY <1>1, <1>2, <1>3, Forced, PTL DEF Spec

=============================================================================
