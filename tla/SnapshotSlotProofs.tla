-------------------------- MODULE SnapshotSlotProofs -------------------------
(***************************************************************************)
(* For any number of readers and any bounds: the slot never serves as      *)
(* fresh a value that an invalidation outdated, a broadcast never carries  *)
(* one, and the slot keeps SlotPromise.                                    *)
(***************************************************************************)
EXTENDS SnapshotSlotProps, TLAPS

\* The build mutex is held exactly by the one caller inside the build loop.
OneBuilder ==
  /\ \A c \in Callers : c \in builder <=> pc[c] \in {"recheck", "build", "store"}
  /\ \A c, d \in builder : c = d

\* An invalidation during a build leaves the slot at the zero time until the
\* build is stored, and a build that none has outdated read the state after the
\* last one.
BuildIsCurrent ==
  \A c \in Callers :
    /\ pc[c] \in {"build", "store"} => /\ call[c].gen <= gen
                                       /\ (call[c].gen # gen => at = "zero")
    /\ pc[c] = "store" => /\ call[c].built # Nil
                          /\ call[c].gen = gen => call[c].built >= acked

\* What a caller was promised when it entered load stays promised.
FloorsHold ==
  /\ acked <= world
  /\ \A c \in Callers : /\ call[c].floor <= acked
                        /\ pc[c] = "try" => call[c].via = "get"

IInv ==
  /\ TypeOK
  /\ OneBuilder
  /\ BuildIsCurrent
  /\ FloorsHold
  /\ FreshCoversInvalidations
  /\ BroadcastCoversCall

USE BoundsAssumption, NilAssumption DEF Unlocked, OnlyTries, Stamp, LastAttempt

\* The invariant holds initially ...
LEMMA InitIInv == Init => IInv
<1> SUFFICES ASSUME Init PROVE IInv
  OBVIOUS
<1> USE DEF Init
<1>1. NoFrame \in Frame
  BY DEF NoFrame, Frame, Bytes, Version, MaxAttempts
<1>2. TypeOK
  <2>1. world \in Version /\ acked \in Version /\ gen \in 0..MaxGen
    BY BoundsAssumption DEF Version
  <2>2. data \in Bytes /\ builder \subseteq Callers
    BY DEF Bytes
  <2>3. at \in {"zero", "recent", "aged"}
    OBVIOUS
  <2>4. pc \in [Callers -> PC]
    BY DEF PC
  <2>5. call \in [Callers -> Frame]
    BY <1>1
  <2>6. QED
    BY <2>1, <2>2, <2>3, <2>4, <2>5 DEF TypeOK
<1>3. OneBuilder
  BY DEF OneBuilder
<1>4. BuildIsCurrent
  BY DEF BuildIsCurrent
<1>5. FloorsHold
  BY DEF FloorsHold, NoFrame
<1>6. FreshCoversInvalidations /\ BroadcastCoversCall
  BY DEF FreshCoversInvalidations, BroadcastCoversCall
<1>7. QED
  BY <1>2, <1>3, <1>4, <1>5, <1>6 DEF IInv

\* The environment's steps: no caller moves.
LEMMA EnvironmentStep ==
  ASSUME IInv, Mutate \/ invalidate \/ Age \/ Lengthen
  PROVE  IInv'
<1> USE DEF IInv
<1>1. UNCHANGED <<data, builder, pc, call>>
  BY DEF Mutate, invalidate, Age, Lengthen, slot
<1>2. /\ world' \in Version /\ acked' \in Version /\ gen' \in 0..MaxGen
      /\ acked <= acked' /\ acked' <= world' /\ gen <= gen'
      /\ gen' = gen => acked' = acked
  BY DEF Mutate, invalidate, Age, Lengthen, slot, TypeOK, Version, FloorsHold
<1>0. /\ at' \in {"zero", "recent", "aged"}
      /\ at' # "zero" => at # "zero" /\ acked' = acked
      /\ at = "zero" => at' = "zero"
      /\ gen' # gen => at' = "zero"
  BY DEF Mutate, invalidate, Age, Lengthen, slot, TypeOK
<1>3. TypeOK'
  BY <1>0, <1>1, <1>2 DEF TypeOK
<1>4. OneBuilder'
  BY <1>1 DEF OneBuilder
<1>5. BuildIsCurrent'
  <2> SUFFICES ASSUME NEW c \in Callers
               PROVE  BuildIsCurrent!(c)'
    BY DEF BuildIsCurrent
  <2>1. call[c].gen \in 0..MaxGen
    BY DEF TypeOK, Frame
  <2>2. QED
    BY <1>0, <1>1, <1>2, <2>1 DEF BuildIsCurrent, TypeOK
<1>6. FloorsHold'
  <2>1. \A c \in Callers : call[c].floor \in Version
    BY DEF TypeOK, Frame
  <2>2. QED
    BY <1>1, <1>2, <2>1 DEF FloorsHold, TypeOK, Version
<1>7. FreshCoversInvalidations' /\ BroadcastCoversCall'
  BY <1>0, <1>1, <1>2 DEF FreshCoversInvalidations, BroadcastCoversCall
<1>8. QED
  BY <1>3, <1>4, <1>5, <1>6, <1>7

\* The paths load returns by.
Paths == {"none", "hit", "busy", "built", "failed", "outdated"}

\* A frame stays a frame when one of its fields is set to a value of its type.
LEMMA FrameUpdates ==
  ASSUME TypeOK, NEW c \in Callers, NEW b \in Bytes, NEW v \in {"get", "fresh"}, NEW p
  PROVE  /\ Return(c, b, p) /\ p \in Paths
            => call' \in [Callers -> Frame]
         /\ [NoFrame EXCEPT !.via = v, !.floor = acked, !.ret = b, !.how = "hit"] \in Frame
         /\ [NoFrame EXCEPT !.via = v, !.floor = acked, !.stale = b] \in Frame
         /\ NoFrame \in Frame
<1>1. NoFrame \in Frame
  BY DEF NoFrame, Frame, Bytes, Version, MaxAttempts
<1>2. ASSUME NEW w \in {"get", "fresh"}, NEW f \in Version, NEW h \in Paths
      PROVE  /\ [NoFrame EXCEPT !.via = w, !.floor = f, !.ret = b, !.how = h] \in Frame
             /\ [NoFrame EXCEPT !.via = w, !.floor = f, !.stale = b] \in Frame
  BY <1>1 DEF Frame, Paths
<1>3. acked \in Version /\ "hit" \in Paths
  BY DEF TypeOK, Paths
<1>4. ASSUME Return(c, b, p), p \in Paths
      PROVE  call' \in [Callers -> Frame]
  <2>1. call \in [Callers -> Frame]
    BY DEF TypeOK
  <2>2. call[c].via \in {"get", "fresh"} /\ call[c].floor \in Version
    BY <2>1 DEF Frame
  <2>3. [NoFrame EXCEPT !.via = call[c].via, !.floor = call[c].floor, !.ret = b, !.how = p] \in Frame
    BY <1>2, <1>4, <2>2
  <2>4. QED
    BY <1>4, <2>1, <2>3 DEF Return
<1>5. QED
  BY <1>1, <1>2, <1>3, <1>4

\* A caller outside the build loop enters load or leaves it.
LEMMA OutsideStep ==
  ASSUME IInv, NEW c \in Callers, Call(c) \/ TryLockFails(c) \/ Again(c)
  PROVE  IInv'
<1> USE DEF IInv, slot
<1>1. CASE \E v \in {"get", "fresh"} : CallHit(c, v)
  <2> PICK v \in {"get", "fresh"} : CallHit(c, v)
    BY <1>1
  <2> USE DEF CallHit
  <2>1. TypeOK'
    BY FrameUpdates DEF TypeOK, PC
  <2>2. OneBuilder'
    BY DEF OneBuilder, TypeOK
  <2>3. BuildIsCurrent'
    BY DEF BuildIsCurrent, TypeOK
  <2>4. FloorsHold'
    BY DEF FloorsHold, TypeOK, NoFrame, Version
  <2>5. FreshCoversInvalidations'
    BY DEF FreshCoversInvalidations
  <2>6. BroadcastCoversCall'
    BY DEF BroadcastCoversCall, FreshCoversInvalidations, Usable, TypeOK, NoFrame
  <2>7. QED
    BY <2>1, <2>2, <2>3, <2>4, <2>5, <2>6
<1>2. CASE \E v \in {"get", "fresh"} : CallMiss(c, v)
  <2> PICK v \in {"get", "fresh"} : CallMiss(c, v)
    BY <1>2
  <2> USE DEF CallMiss
  <2>1. TypeOK'
    BY FrameUpdates DEF TypeOK, PC
  <2>2. OneBuilder'
    BY DEF OneBuilder, TypeOK
  <2>3. BuildIsCurrent'
    BY DEF BuildIsCurrent, TypeOK
  <2>4. FloorsHold'
    BY DEF FloorsHold, TypeOK, NoFrame, Version
  <2>5. FreshCoversInvalidations'
    BY DEF FreshCoversInvalidations
  <2>6. BroadcastCoversCall'
    BY DEF BroadcastCoversCall, TypeOK
  <2>7. QED
    BY <2>1, <2>2, <2>3, <2>4, <2>5, <2>6
<1>3. CASE TryLockFails(c)
  <2> USE <1>3 DEF TryLockFails
  <2>1. call[c].stale \in Bytes
    BY DEF TypeOK, Frame
  <2>2. TypeOK'
    BY <2>1, FrameUpdates DEF TypeOK, PC, Paths, Return
  <2>3. OneBuilder'
    BY DEF OneBuilder, TypeOK, Return
  <2>4. BuildIsCurrent'
    BY DEF BuildIsCurrent, TypeOK, Return
  <2>5. FloorsHold'
    BY DEF FloorsHold, TypeOK, Return, NoFrame
  <2>6. FreshCoversInvalidations'
    BY DEF FreshCoversInvalidations
  <2>7. BroadcastCoversCall'
    BY DEF BroadcastCoversCall, FloorsHold, TypeOK, Return, NoFrame
  <2>8. QED
    BY <2>2, <2>3, <2>4, <2>5, <2>6, <2>7
<1>4. CASE Again(c)
  <2> USE <1>4 DEF Again
  <2>1. TypeOK'
    BY FrameUpdates DEF TypeOK, PC
  <2>2. OneBuilder'
    BY DEF OneBuilder, TypeOK
  <2>3. BuildIsCurrent'
    BY DEF BuildIsCurrent, TypeOK
  <2>4. FloorsHold'
    BY DEF FloorsHold, TypeOK, NoFrame, Version
  <2>5. FreshCoversInvalidations'
    BY DEF FreshCoversInvalidations
  <2>6. BroadcastCoversCall'
    BY DEF BroadcastCoversCall, TypeOK
  <2>7. QED
    BY <2>1, <2>2, <2>3, <2>4, <2>5, <2>6
<1>5. QED
  BY <1>1, <1>2, <1>3, <1>4 DEF Call

\* A caller that holds the build mutex: recheck, build, fail.
LEMMA BuilderStep ==
  ASSUME IInv, NEW c \in Callers,
         TakeBuild(c) \/ RecheckHit(c) \/ RecheckMiss(c) \/ Build(c) \/ BuildFails(c)
  PROVE  IInv'
<1> USE DEF IInv, slot
<1>1. CASE TakeBuild(c)
  <2> USE <1>1 DEF TakeBuild
  <2>1. TypeOK'
    <3>1. call[c] \in Frame
      BY DEF TypeOK
    <3>2. call' \in [Callers -> Frame]
      BY <3>1, FrameUpdates DEF TypeOK, Paths, Frame, Bytes, Version
    <3>3. QED
      BY <3>2 DEF TypeOK, PC
  <2>2. OneBuilder'
    BY DEF OneBuilder, TypeOK
  <2>3. BuildIsCurrent'
    BY DEF BuildIsCurrent, TypeOK, Frame, Usable, FloorsHold, FreshCoversInvalidations, Version
  <2>4. FloorsHold'
    BY DEF FloorsHold, TypeOK
  <2>5. FreshCoversInvalidations'
    BY DEF FreshCoversInvalidations
  <2>6. BroadcastCoversCall'
    BY DEF BroadcastCoversCall, FreshCoversInvalidations, FloorsHold, Usable, TypeOK, Frame, Bytes, Version
  <2>7. QED
    BY <2>1, <2>2, <2>3, <2>4, <2>5, <2>6
<1>2. CASE RecheckHit(c)
  <2> USE <1>2 DEF RecheckHit, Return
  <2>1. TypeOK'
    <3>1. call[c] \in Frame
      BY DEF TypeOK
    <3>2. call' \in [Callers -> Frame]
      BY <3>1, FrameUpdates DEF TypeOK, Paths, Frame, Bytes, Version
    <3>3. QED
      BY <3>2 DEF TypeOK, PC
  <2>2. OneBuilder'
    BY DEF OneBuilder, TypeOK
  <2>3. BuildIsCurrent'
    BY DEF BuildIsCurrent, TypeOK, Frame, Usable, FloorsHold, FreshCoversInvalidations, Version
  <2>4. FloorsHold'
    BY DEF FloorsHold, TypeOK, NoFrame
  <2>5. FreshCoversInvalidations'
    BY DEF FreshCoversInvalidations
  <2>6. BroadcastCoversCall'
    BY DEF BroadcastCoversCall, FreshCoversInvalidations, FloorsHold, Usable, TypeOK, Frame, Bytes, Version, NoFrame
  <2>7. QED
    BY <2>1, <2>2, <2>3, <2>4, <2>5, <2>6
<1>3. CASE RecheckMiss(c)
  <2> USE <1>3 DEF RecheckMiss
  <2>1. TypeOK'
    <3>1. call[c] \in Frame
      BY DEF TypeOK
    <3>2. call' \in [Callers -> Frame]
      BY <3>1, FrameUpdates DEF TypeOK, Paths, Frame, Bytes, Version
    <3>3. QED
      BY <3>2 DEF TypeOK, PC
  <2>2. OneBuilder'
    BY DEF OneBuilder, TypeOK
  <2>3. BuildIsCurrent'
    BY DEF BuildIsCurrent, TypeOK, Frame, Usable, FloorsHold, FreshCoversInvalidations, Version
  <2>4. FloorsHold'
    BY DEF FloorsHold, TypeOK
  <2>5. FreshCoversInvalidations'
    BY DEF FreshCoversInvalidations
  <2>6. BroadcastCoversCall'
    BY DEF BroadcastCoversCall, FreshCoversInvalidations, FloorsHold, Usable, TypeOK, Frame, Bytes, Version
  <2>7. QED
    BY <2>1, <2>2, <2>3, <2>4, <2>5, <2>6
<1>4. CASE Build(c)
  <2> USE <1>4 DEF Build
  <2>1. TypeOK'
    <3>1. call[c] \in Frame
      BY DEF TypeOK
    <3>2. call' \in [Callers -> Frame]
      BY <3>1, FrameUpdates DEF TypeOK, Paths, Frame, Bytes, Version
    <3>3. QED
      BY <3>2 DEF TypeOK, PC
  <2>2. OneBuilder'
    BY DEF OneBuilder, TypeOK
  <2>3. BuildIsCurrent'
    BY DEF BuildIsCurrent, TypeOK, Frame, Usable, FloorsHold, FreshCoversInvalidations, Version
  <2>4. FloorsHold'
    BY DEF FloorsHold, TypeOK
  <2>5. FreshCoversInvalidations'
    BY DEF FreshCoversInvalidations
  <2>6. BroadcastCoversCall'
    BY DEF BroadcastCoversCall, FreshCoversInvalidations, FloorsHold, Usable, TypeOK, Frame, Bytes, Version
  <2>7. QED
    BY <2>1, <2>2, <2>3, <2>4, <2>5, <2>6
<1>5. CASE BuildFails(c)
  <2> USE <1>5 DEF BuildFails, Return
  <2>1. TypeOK'
    <3>1. call[c] \in Frame
      BY DEF TypeOK
    <3>2. call' \in [Callers -> Frame]
      BY <3>1, FrameUpdates DEF TypeOK, Paths, Frame, Bytes, Version
    <3>3. QED
      BY <3>2 DEF TypeOK, PC
  <2>2. OneBuilder'
    BY DEF OneBuilder, TypeOK
  <2>3. BuildIsCurrent'
    BY DEF BuildIsCurrent, TypeOK, Frame, Usable, FloorsHold, FreshCoversInvalidations, Version
  <2>4. FloorsHold'
    BY DEF FloorsHold, TypeOK, NoFrame
  <2>5. FreshCoversInvalidations'
    BY DEF FreshCoversInvalidations
  <2>6. BroadcastCoversCall'
    BY DEF BroadcastCoversCall, FreshCoversInvalidations, FloorsHold, Usable, TypeOK, Frame, Bytes, Version, NoFrame
  <2>7. QED
    BY <2>1, <2>2, <2>3, <2>4, <2>5, <2>6
<1>6. QED
  BY <1>1, <1>2, <1>3, <1>4, <1>5

\* The store, the only step that makes a value fresh.
LEMMA StoreStep ==
  ASSUME IInv, NEW c \in Callers, Store(c)
  PROVE  IInv'
<1> USE DEF IInv
<1>1. /\ UNCHANGED <<world, acked, gen>>
      /\ pc[c] = "store" /\ call[c] \in Frame
      /\ data' = call[c].built
      /\ at' = IF gen = call[c].gen THEN "recent" ELSE at
      /\ gen # call[c].gen => at = "zero"
  BY DEF Store, BuildIsCurrent, TypeOK
<1>2. call[c].built \in Bytes /\ call[c].attempt \in 1..MaxAttempts
  BY <1>1 DEF Frame
<1>3. FreshCoversInvalidations'
  BY <1>1 DEF FreshCoversInvalidations, BuildIsCurrent
<1>4. CASE /\ Return(c, call[c].built, "built")
           /\ gen = call[c].gen \/ call[c].via = "get"
  <2> USE <1>4 DEF Return
  <2>1. TypeOK'
    BY <1>1, <1>2, FrameUpdates DEF TypeOK, PC, Paths
  <2>2. OneBuilder'
    BY <1>1 DEF OneBuilder, TypeOK
  <2>3. BuildIsCurrent'
    BY <1>1 DEF BuildIsCurrent, OneBuilder, TypeOK
  <2>4. FloorsHold'
    BY <1>1 DEF FloorsHold, TypeOK, NoFrame
  <2>5. BroadcastCoversCall'
    <3>1. gen = call[c].gen => call[c].built >= call[c].floor
      BY <1>1, <1>2 DEF BuildIsCurrent, FloorsHold, TypeOK, Frame, Bytes, Version
    <3>2. QED
      BY <1>1, <3>1 DEF BroadcastCoversCall, TypeOK, NoFrame
  <2>6. QED
    BY <1>3, <2>1, <2>2, <2>3, <2>4, <2>5
<1>5. CASE Return(c, Nil, "outdated") /\ call[c].attempt = MaxAttempts /\ gen # call[c].gen
  <2> USE <1>5 DEF Return
  <2>1. TypeOK'
    BY <1>1, <1>2, FrameUpdates DEF TypeOK, PC, Paths, Bytes
  <2>2. OneBuilder'
    BY <1>1 DEF OneBuilder, TypeOK
  <2>3. BuildIsCurrent'
    BY <1>1 DEF BuildIsCurrent, OneBuilder, TypeOK
  <2>4. FloorsHold'
    BY <1>1 DEF FloorsHold, TypeOK, NoFrame
  <2>5. BroadcastCoversCall'
    BY <1>1 DEF BroadcastCoversCall, TypeOK, NoFrame
  <2>6. QED
    BY <1>3, <2>1, <2>2, <2>3, <2>4, <2>5
<1>6. CASE /\ gen # call[c].gen /\ call[c].attempt # MaxAttempts
           /\ call' = [call EXCEPT ![c].attempt = @ + 1, ![c].built = Nil]
           /\ pc' = [pc EXCEPT ![c] = "recheck"]
           /\ UNCHANGED builder
  <2> USE <1>6
  <2>1. TypeOK'
    <3>1. call[c].attempt + 1 \in 1..MaxAttempts
      BY <1>2 DEF MaxAttempts
    <3>2. [call[c] EXCEPT !.attempt = @ + 1, !.built = Nil] \in Frame
      BY <1>1, <3>1 DEF Frame, Bytes
    <3>3. call' = [call EXCEPT ![c] = [call[c] EXCEPT !.attempt = @ + 1, !.built = Nil]]
      BY DEF TypeOK
    <3>4. call' \in [Callers -> Frame]
      BY <3>2, <3>3 DEF TypeOK
    <3>5. QED
      BY <1>1, <1>2, <3>4 DEF TypeOK, PC
  <2>2. OneBuilder'
    BY <1>1 DEF OneBuilder, TypeOK
  <2>3. BuildIsCurrent'
    BY <1>1 DEF BuildIsCurrent, OneBuilder, TypeOK
  <2>4. FloorsHold'
    BY <1>1 DEF FloorsHold, TypeOK
  <2>5. BroadcastCoversCall'
    BY <1>1 DEF BroadcastCoversCall, TypeOK
  <2>6. QED
    BY <1>3, <2>1, <2>2, <2>3, <2>4, <2>5
<1>7. QED
  BY <1>4, <1>5, <1>6 DEF Store

\* ... and every step preserves it.
LEMMA StepIInv == IInv /\ [Next]_vars => IInv'
<1> SUFFICES ASSUME IInv, [Next]_vars
             PROVE  IInv'
  OBVIOUS
<1>1. CASE Mutate \/ invalidate \/ Age \/ Lengthen
  BY <1>1, EnvironmentStep
<1>2. ASSUME NEW c \in Callers, Call(c) \/ load(c) \/ Again(c)
      PROVE  IInv'
  BY <1>2, OutsideStep, BuilderStep, StoreStep DEF load
<1>3. CASE UNCHANGED vars
  BY <1>3 DEF vars, slot, IInv, TypeOK, OneBuilder, BuildIsCurrent, FloorsHold,
              FreshCoversInvalidations, BroadcastCoversCall
<1>4. QED
  BY <1>1, <1>2, <1>3 DEF Next

\* The type invariant holds for every number of readers and every bound.
THEOREM TypeCorrect == Spec => []TypeOK
<1>1. IInv => TypeOK
  BY DEF IInv
<1>2. QED
  BY InitIInv, StepIInv, <1>1, PTL DEF Spec

\* A value served as fresh reflects every mutation an invalidation announced,
\* however rebuilds and invalidations interleave (snapshotSlot.load, invalidate).
THEOREM FreshIsTruthful == Spec => []FreshCoversInvalidations
<1>1. IInv => FreshCoversInvalidations
  BY DEF IInv
<1>2. QED
  BY InitIInv, StepIInv, <1>1, PTL DEF Spec

\* What fresh() ships after a build that succeeded is no older than the
\* invalidations that preceded the call (snapshotSlot.fresh).
THEOREM BroadcastIsTruthful == Spec => []BroadcastCoversCall
<1>1. IInv => BroadcastCoversCall
  BY DEF IInv
<1>2. QED
  BY InitIInv, StepIInv, <1>1, PTL DEF Spec

-----------------------------------------------------------------------------
\* A caller that only tries the build mutex is a get() with a value to fall back on;
\* a get() that built has a value, whatever came in meanwhile.
Fallback == \A c \in Callers : pc[c] = "try" => call[c].stale # Nil

\* Every step keeps both, given the invariant above.
LEMMA GetStep ==
  ASSUME IInv, Fallback, GetAnswersUnlessBuildFailed, [Next]_vars
  PROVE  Fallback' /\ GetAnswersUnlessBuildFailed'
<1> DEFINE Fine(place, frame) ==
      /\ place = "try" => frame.stale # Nil
      /\ place = "done" /\ frame.via = "get" /\ frame.ret = Nil => frame.how = "failed"
<1> SUFFICES ASSUME NEW d \in Callers PROVE Fine(pc[d], call[d])'
  BY DEF Fallback, GetAnswersUnlessBuildFailed
<1>0. Fine(pc[d], call[d]) /\ call[d] \in Frame
      /\ pc \in [Callers -> PC] /\ call \in [Callers -> Frame]
  BY DEF Fallback, GetAnswersUnlessBuildFailed, IInv, TypeOK
<1>1. CASE pc'[d] = pc[d] /\ call'[d] = call[d]
  BY <1>0, <1>1
<1>2. ASSUME NEW c \in Callers, Call(c) PROVE Fine(pc[d], call[d])'
  <2>1. ASSUME NEW v \in {"get", "fresh"}, CallHit(c, v) PROVE Fine(pc[d], call[d])'
    BY <1>0, <2>1 DEF CallHit, Usable, NoFrame
  <2>2. ASSUME NEW v \in {"get", "fresh"}, CallMiss(c, v) PROVE Fine(pc[d], call[d])'
    BY <1>0, <2>2 DEF CallMiss, NoFrame
  <2>3. QED
    BY <1>2, <2>1, <2>2 DEF Call
<1>3. ASSUME NEW c \in Callers, load(c) PROVE Fine(pc[d], call[d])'
  <2>1. CASE TryLockFails(c)
    BY <1>0, <2>1 DEF TryLockFails, Return, NoFrame
  <2>2. CASE TakeBuild(c)
    BY <1>0, <2>2 DEF TakeBuild
  <2>3. CASE RecheckHit(c)
    BY <1>0, <2>3 DEF RecheckHit, Usable, Return, NoFrame
  <2>4. CASE RecheckMiss(c) \/ Build(c)
    BY <1>0, <2>4 DEF RecheckMiss, Build, Frame
  <2>5. CASE BuildFails(c)
    BY <1>0, <2>5 DEF BuildFails, Return, NoFrame
  <2>6. CASE Store(c)
    <3>1. call[c].built # Nil /\ call[c].via \in {"get", "fresh"}
      BY <2>6 DEF Store, IInv, BuildIsCurrent, TypeOK, Frame
    <3>2. CASE d # c
      BY <1>0, <2>6, <3>2 DEF Store, Return
    <3>3. CASE d = c
      <4>1. CASE Return(c, call[c].built, "built") /\ d = c
        BY <1>0, <3>1, <4>1 DEF Return, NoFrame
      <4>2. CASE Return(c, Nil, "outdated") /\ call[c].via = "fresh" /\ d = c
        BY <1>0, <4>2 DEF Return, NoFrame
      <4>3. CASE pc' = [pc EXCEPT ![c] = "recheck"] /\ d = c
        BY <1>0, <4>3
      <4>4. QED
        BY <2>6, <3>3, <4>1, <4>2, <4>3 DEF Store
    <3>4. QED
      BY <3>2, <3>3
  <2>7. QED
    BY <1>3, <2>1, <2>2, <2>3, <2>4, <2>5, <2>6 DEF load
<1>4. ASSUME NEW c \in Callers, Again(c) PROVE Fine(pc[d], call[d])'
  BY <1>0, <1>4 DEF Again, NoFrame
<1>5. CASE Mutate \/ invalidate \/ Age \/ Lengthen \/ UNCHANGED vars
  BY <1>1, <1>5 DEF Mutate, invalidate, Age, Lengthen, vars
<1>6. QED
  BY <1>2, <1>3, <1>4, <1>5 DEF Next

\* get() leaves nobody empty-handed but after a failed build: who has no value waits
\* for one (snapshotSlot.load).
THEOREM GetAnswers == Spec => []GetAnswersUnlessBuildFailed
<1>1. Init => Fallback /\ GetAnswersUnlessBuildFailed
  BY DEF Init, Fallback, GetAnswersUnlessBuildFailed
<1>2. QED
  BY InitIInv, StepIInv, GetStep, <1>1, PTL DEF Spec

-----------------------------------------------------------------------------
(* SnapshotSlot implements SlotPromise: towards its readers the slot with   *)
(* its two mutexes, its locals and its retry loop is an object whose reads  *)
(* are two atomic events.                                                   *)

\* What the mapping needs beyond IInv: no value is ahead of the state it
\* describes, a value about to be stored is no older than its reader's call, and
\* only a caller with a value merely tries the build mutex.
Bounded ==
  /\ data # Nil => data <= world
  /\ \A c \in Callers :
       /\ pc[c] = "store" => call[c].floor <= call[c].built /\ call[c].built <= world
       /\ pc[c] = "try" => call[c].stale # Nil

MInv == IInv /\ Bounded

\* Every step keeps the bounds: only Build takes a version, and it is the present
\* one.
LEMMA BoundedStep == IInv /\ IInv' /\ Bounded /\ [Next]_vars => Bounded'
<1> SUFFICES ASSUME IInv, IInv', Bounded, [Next]_vars PROVE Bounded'
  OBVIOUS
<1> USE DEF IInv, slot
<1>0. /\ world \in Int /\ acked \in Int /\ acked <= world
      /\ pc \in [Callers -> PC] /\ call \in [Callers -> Frame]
      /\ data = Nil \/ data \in Int
      /\ \A c \in Callers : /\ call[c].floor \in Int /\ call[c].floor <= acked
                            /\ call[c].built = Nil \/ call[c].built \in Int
  BY DEF TypeOK, Version, Bytes, FloorsHold, Frame
<1>1. CASE Mutate \/ invalidate \/ Age \/ Lengthen
  <2>1. world' \in Int /\ world <= world' /\ UNCHANGED <<data, pc, call>>
    BY <1>0, <1>1 DEF Mutate, invalidate, Age, Lengthen
  <2>2. \A c \in Callers : pc[c] = "store" => call[c].built \in Int
    BY <1>0 DEF BuildIsCurrent
  <2>3. QED
    BY <1>0, <2>1, <2>2 DEF Bounded
<1>2. ASSUME NEW c \in Callers, Call(c) \/ load(c) \/ Again(c)
      PROVE  Bounded'
  <2>1. CASE Call(c)
    <3>1. CASE \E v \in {"get", "fresh"} : CallHit(c, v)
      BY <1>0, <3>1 DEF CallHit, Bounded
    <3>2. CASE \E v \in {"get", "fresh"} : CallMiss(c, v)
      <4>1. PICK v \in {"get", "fresh"} : CallMiss(c, v)
        BY <3>2
      <4>2. UNCHANGED <<world, data>> /\ pc'[c] \in {"try", "lock"} /\ (pc'[c] = "try" => data # Nil)
        BY <1>0, <4>1 DEF CallMiss
      <4>3. call'[c].stale = data
        BY <1>0, <4>1 DEF CallMiss, NoFrame
      <4>4. \A d \in Callers \ {c} : pc'[d] = pc[d] /\ call'[d] = call[d]
        BY <1>0, <4>1 DEF CallMiss
      <4>5. QED
        BY <1>0, <4>2, <4>3, <4>4 DEF Bounded
    <3>3. QED
      BY <2>1, <3>1, <3>2 DEF Call
  <2>2. CASE TryLockFails(c) \/ RecheckHit(c) \/ BuildFails(c)
    BY <1>0, <2>2 DEF TryLockFails, RecheckHit, BuildFails, Return, Bounded
  <2>3. CASE TakeBuild(c) \/ RecheckMiss(c)
    BY <1>0, <2>3 DEF TakeBuild, RecheckMiss, Bounded
  <2>4. CASE Build(c)
    <3>1. call[c].floor <= world
      BY <1>0
    <3>2. call'[c].built = world /\ call'[c].floor = call[c].floor /\ pc'[c] = "store"
      BY <1>0, <2>4 DEF Build, Frame
    <3>3. \A d \in Callers \ {c} : pc'[d] = pc[d] /\ call'[d] = call[d]
      BY <1>0, <2>4 DEF Build
    <3>4. UNCHANGED <<world, data>>
      BY <2>4 DEF Build
    <3>5. QED
      BY <1>0, <3>1, <3>2, <3>3, <3>4 DEF Bounded
  <2>5. CASE Store(c)
    <3>1. pc[c] = "store" /\ data' = call[c].built /\ UNCHANGED world
      BY <2>5 DEF Store
    <3>2. pc'[c] \in {"done", "recheck"} /\ \A d \in Callers \ {c} : pc'[d] = pc[d] /\ call'[d] = call[d]
      BY <1>0, <2>5 DEF Store, Return
    <3>3. QED
      BY <1>0, <3>1, <3>2 DEF Bounded
  <2>6. CASE Again(c)
    BY <1>0, <2>6 DEF Again, Bounded
  <2>7. QED
    BY <1>2, <2>1, <2>2, <2>3, <2>4, <2>5, <2>6 DEF load
<1>3. CASE UNCHANGED vars
  BY <1>3 DEF vars, Bounded
<1>4. QED
  BY <1>1, <1>2, <1>3 DEF Next

\* How the reads change when only c moves.
LEMMA OneMoves ==
  ASSUME NEW c \in Callers, \A d \in Callers \ {c} : pc'[d] = pc[d] /\ call'[d] = call[d]
  PROVE  Reads' = [Reads EXCEPT ![c] = ReadOf(c)']
BY DEF Reads, ReadOf

\* A read that nobody moved is what it was.
LEMMA NoneMoves == UNCHANGED <<pc, call>> => UNCHANGED Reads
BY DEF Reads, ReadOf

\* What the type invariant says of one caller.
LEMMA CallerFacts ==
  ASSUME TypeOK, NEW c \in Callers
  PROVE  /\ pc[c] \in PC /\ Reads[c] = ReadOf(c)
         /\ call[c] = [via |-> call[c].via, floor |-> call[c].floor, stale |-> call[c].stale, gen |-> call[c].gen,
                       built |-> call[c].built, attempt |-> call[c].attempt, ret |-> call[c].ret, how |-> call[c].how]
         /\ call[c].gen \in Int
BY DEF TypeOK, Reads, Frame

\* The first states are first states of the promise.
LEMMA InitPromise == Init => Promise!Init
<1> SUFFICES ASSUME Init PROVE Promise!Init
  OBVIOUS
<1>1. \A c \in Callers : ReadOf(c) = Promise!NoRead
  BY DEF Init, ReadOf, NoFrame, HowOf, Promise!NoRead
<1>2. Outdated = {}
  BY DEF Init, Outdated
<1>3. QED
  BY <1>1, <1>2 DEF Init, Promise!Init, Reads

\* The environment's steps are the promise's, or stutter.
LEMMA EnvironmentPromise ==
  ASSUME MInv, Mutate \/ invalidate \/ Age \/ Lengthen
  PROVE  Promise!Next \/ UNCHANGED Promise!vars
<1>1. CASE Mutate
  <2>1. UNCHANGED Reads /\ UNCHANGED Outdated
    BY <1>1, NoneMoves DEF Mutate, Outdated, slot
  <2>2. Promise!Mutate
    BY <1>1, <2>1 DEF Mutate, Promise!Mutate, slot
  <2>3. QED
    BY <2>2 DEF Promise!Next
<1>2. CASE invalidate
  <2>1. UNCHANGED Reads
    BY <1>2, NoneMoves DEF invalidate
  <2> DEFINE S == {c \in Callers : pc[c] \in {"build", "store"}}
  <2>2. Outdated' = Outdated \cup S
    <3>1. \A c \in S : call[c].gen <= gen /\ call[c].gen \in Int /\ gen \in Int
      <4>1. TypeOK /\ BuildIsCurrent
        BY DEF MInv, IInv
      <4>2. gen \in Int /\ \A c \in Callers : call[c].gen \in Int
        BY <4>1, CallerFacts DEF TypeOK
      <4>3. QED
        BY <4>1, <4>2 DEF BuildIsCurrent
    <3>2. \A c \in S : call[c].gen # gen + 1
      <4> SUFFICES ASSUME NEW c \in S PROVE call[c].gen # gen + 1
        OBVIOUS
      <4>1. call[c].gen <= gen /\ call[c].gen \in Int /\ gen \in Int
        BY <3>1
      <4>2. QED
        BY <4>1
    <3>3. gen' = gen + 1 /\ pc' = pc /\ call' = call
      BY <1>2 DEF invalidate
    <3>4. Outdated' = S
      BY <3>2, <3>3 DEF Outdated
    <3>5. QED
      BY <3>4 DEF Outdated
  <2>3. S \in SUBSET {c \in Callers : Reads[c].st = "reading"}
    BY DEF Reads, ReadOf
  <2>4. Promise!invalidate
    BY <1>2, <2>1, <2>2, <2>3 DEF invalidate, Promise!invalidate
  <2>5. QED
    BY <2>4 DEF Promise!Next
<1>3. CASE Age \/ Lengthen
  <2>1. UNCHANGED Reads /\ UNCHANGED Outdated
    BY <1>3, NoneMoves DEF Age, Lengthen, Outdated
  <2>2. QED
    BY <1>3, <2>1 DEF Age, Lengthen, Promise!vars
<1>4. QED
  BY <1>1, <1>2, <1>3

\* The builds of the other callers stay as outdated as they are.
LEMMA OutdatedMoves ==
  ASSUME NEW c \in Callers, \A d \in Callers \ {c} : pc'[d] = pc[d] /\ call'[d] = call[d], gen' = gen
  PROVE  Outdated' \ {c} = Outdated \ {c}
BY DEF Outdated

\* A call is answered at once or begins a read.
LEMMA CallPromise ==
  ASSUME MInv, NEW c \in Callers, NEW v \in {"get", "fresh"}, CallHit(c, v) \/ CallMiss(c, v)
  PROVE  Promise!Hit(c, v) \/ Promise!Begin(c, v)
<1>1. /\ pc \in [Callers -> PC] /\ call \in [Callers -> Frame] /\ pc[c] = "idle"
      /\ pc' \in [Callers -> PC]
      /\ \A d \in Callers \ {c} : pc'[d] = pc[d] /\ call'[d] = call[d]
      /\ UNCHANGED <<world, acked, data, gen>>
  BY DEF MInv, IInv, TypeOK, CallHit, CallMiss, slot, PC
<1>2. Reads' = [Reads EXCEPT ![c] = ReadOf(c)'] /\ Reads[c].st = "idle"
  BY <1>1, OneMoves DEF Reads, ReadOf
<1>3. pc'[c] \in {"done", "try", "lock"}
  BY <1>1 DEF CallHit, CallMiss
<1>4. UNCHANGED Outdated
  <2>1. c \notin Outdated /\ c \notin Outdated'
    BY <1>1, <1>3 DEF Outdated
  <2>2. QED
    BY <1>1, <2>1, OutdatedMoves
<1>5. CASE CallHit(c, v)
  <2>1. pc'[c] = "done" /\ call'[c] = [NoFrame EXCEPT !.via = v, !.floor = acked, !.ret = data, !.how = "hit"]
    BY <1>1, <1>5 DEF CallHit
  <2>2. ReadOf(c)' = Promise!Answered(v, acked, data, "current")
    <3>1. /\ call'[c].via = v /\ call'[c].floor = acked /\ call'[c].stale = Nil
          /\ call'[c].attempt = 1 /\ call'[c].ret = data /\ call'[c].how = "hit"
      BY <2>1 DEF NoFrame
    <3>2. QED
      BY <2>1, <3>1 DEF ReadOf, HowOf, Promise!Answered
  <2>3. data \in acked..world
    BY <1>5 DEF CallHit, Usable, MInv, Bounded, IInv, FreshCoversInvalidations, TypeOK, Bytes, Version
  <2>4. QED
    BY <1>1, <1>2, <1>4, <2>2, <2>3 DEF Promise!Hit
<1>6. CASE CallMiss(c, v)
  <2>1. pc'[c] \in {"try", "lock"} /\ call'[c] = [NoFrame EXCEPT !.via = v, !.floor = acked, !.stale = data]
    BY <1>1, <1>6 DEF CallMiss
  <2>2. ReadOf(c)' = Promise!Asked(v)
    <3>1. /\ call'[c].via = v /\ call'[c].floor = acked /\ call'[c].stale = data
          /\ call'[c].attempt = 1 /\ call'[c].ret = Nil /\ call'[c].how = "none"
      BY <2>1 DEF NoFrame
    <3>2. QED
      BY <2>1, <3>1 DEF ReadOf, HowOf, Promise!Asked
  <2>3. QED
    BY <1>1, <1>2, <1>4, <2>2 DEF Promise!Begin
<1>7. QED
  BY <1>5, <1>6

\* A caller that returns b answers its read with b.
LEMMA ReturnAnswers ==
  ASSUME MInv, NEW c \in Callers, NEW b, NEW path \in Paths, Return(c, b, path), gen' = gen,
         pc[c] \notin {"idle", "done"}
  PROVE  /\ Promise!Finish(c, b, HowOf(path))
         /\ Outdated' = Outdated \ {c}
         /\ Reads[c].st = "reading" /\ Reads[c].via = call[c].via
         /\ Reads[c].floor = call[c].floor /\ Reads[c].stale = call[c].stale
<1>1. /\ pc'[c] = "done"
      /\ call'[c] = [NoFrame EXCEPT !.via = call[c].via, !.floor = call[c].floor, !.ret = b, !.how = path]
      /\ \A d \in Callers \ {c} : pc'[d] = pc[d] /\ call'[d] = call[d]
  BY DEF Return, MInv, IInv, TypeOK
<1>2. Reads' = [Reads EXCEPT ![c] = ReadOf(c)']
  BY <1>1, OneMoves
<1>3. Reads[c].via = call[c].via /\ Reads[c].floor = call[c].floor /\ Reads[c].stale = call[c].stale
  BY DEF Reads, ReadOf
<1>4. ReadOf(c)' = Promise!Answered(call[c].via, call[c].floor, b, HowOf(path))
  <2>1. /\ call'[c].via = call[c].via /\ call'[c].floor = call[c].floor /\ call'[c].stale = Nil
        /\ call'[c].attempt = 1 /\ call'[c].ret = b /\ call'[c].how = path
    BY <1>1 DEF NoFrame
  <2>2. ReadOf(c)' = [st |-> "done", via |-> call[c].via, floor |-> call[c].floor, stale |-> Nil,
                      attempt |-> 1, ret |-> b, how |-> HowOf(path)]
    BY <1>1, <2>1 DEF ReadOf
  <2>3. QED
    BY <2>2 DEF Promise!Answered
<1>5. Promise!Finish(c, b, HowOf(path))
  BY <1>2, <1>3, <1>4 DEF Promise!Finish, Reads
<1>6. Outdated' = Outdated \ {c}
  <2>1. c \notin Outdated'
    BY <1>1 DEF Outdated
  <2>2. QED
    BY <1>1, <2>1, OutdatedMoves
<1>7. Reads[c].st = "reading"
  BY DEF Reads, ReadOf
<1>8. QED
  BY <1>3, <1>5, <1>6, <1>7

\* What the invariant says of a caller inside load.
LEMMA LoadFacts ==
  ASSUME MInv, NEW c \in Callers
  PROVE  /\ pc \in [Callers -> PC] /\ call \in [Callers -> Frame] /\ call[c] \in Frame
         /\ world \in Int /\ acked \in Int /\ gen \in Int /\ (data = Nil \/ data \in Int)
         /\ call[c].floor \in Int /\ call[c].floor <= acked /\ acked <= world
         /\ call[c].built = Nil \/ call[c].built \in Int
         /\ call[c].attempt \in 1..MaxAttempts
BY DEF MInv, IInv, TypeOK, FloorsHold, Frame, Version, Bytes

\* The steps inside load that no reader sees.
LEMMA InnerPromise ==
  ASSUME MInv, NEW c \in Callers, TakeBuild(c) \/ RecheckMiss(c) \/ Build(c)
  PROVE  UNCHANGED Promise!vars
<1>1. /\ UNCHANGED <<world, acked, data, gen>>
      /\ pc[c] \in {"try", "lock", "recheck", "build"} /\ pc'[c] \in {"recheck", "build", "store"}
      /\ \A d \in Callers \ {c} : pc'[d] = pc[d] /\ call'[d] = call[d]
      /\ pc'[c] = "build" => call'[c].gen = gen
      /\ pc[c] = "build" <=> pc'[c] = "store"
      /\ pc[c] = "build" => call'[c].gen = call[c].gen
  BY LoadFacts DEF TakeBuild, RecheckMiss, Build, slot, Frame
<1>2. /\ call'[c].via = call[c].via /\ call'[c].floor = call[c].floor /\ call'[c].stale = call[c].stale
      /\ call'[c].attempt = call[c].attempt /\ call'[c].ret = call[c].ret /\ call'[c].how = call[c].how
  BY LoadFacts DEF TakeBuild, RecheckMiss, Build, Frame
<1>3. ReadOf(c)' = ReadOf(c)
  BY <1>1, <1>2 DEF ReadOf
<1>4. UNCHANGED Reads
  <2>1. Reads' = [Reads EXCEPT ![c] = ReadOf(c)]
    BY <1>1, <1>3, OneMoves
  <2>2. QED
    BY <2>1 DEF Reads
<1>5. UNCHANGED Outdated
  <2>1. c \in Outdated' <=> c \in Outdated
    BY <1>1 DEF Outdated
  <2>2. QED
    BY <1>1, <2>1, OutdatedMoves
<1>6. QED
  BY <1>1, <1>4, <1>5 DEF Promise!vars

\* The ways out of load that store nothing.
LEMMA ReturnPromise ==
  ASSUME MInv, NEW c \in Callers, TryLockFails(c) \/ RecheckHit(c) \/ BuildFails(c)
  PROVE  Promise!Answer(c)
<1>0. UNCHANGED <<world, acked, data, gen>>
  BY DEF TryLockFails, RecheckHit, BuildFails, slot
<1>1. CASE TryLockFails(c)
  <2>1. pc[c] = "try" /\ Return(c, call[c].stale, "busy") /\ builder # {}
    BY <1>1 DEF TryLockFails
  <2>2. /\ Promise!Finish(c, call[c].stale, "busy") /\ Outdated' = Outdated \ {c}
        /\ Reads[c].st = "reading" /\ Reads[c].via = call[c].via /\ Reads[c].stale = call[c].stale
    BY <1>0, <2>1, ReturnAnswers DEF Paths, HowOf
  <2>3. call[c].stale # Nil /\ call[c].via = "get"
    BY <2>1 DEF MInv, Bounded, IInv, FloorsHold
  <2>4. \E d \in Callers \ {c} : Reads[d].st = "reading"
    <3>1. PICK d \in Callers : d \in builder
      BY <2>1 DEF MInv, IInv, TypeOK
    <3>2. pc[d] \in {"recheck", "build", "store"}
      BY <3>1 DEF MInv, IInv, OneBuilder
    <3>3. d # c /\ Reads[d].st = "reading"
      BY <2>1, <3>2 DEF Reads, ReadOf
    <3>4. QED
      BY <3>3
  <2>5. QED
    BY <1>0, <2>2, <2>3, <2>4 DEF Promise!Answer
<1>2. CASE RecheckHit(c)
  <2>1. pc[c] = "recheck" /\ Usable /\ Return(c, data, "hit")
    BY <1>2 DEF RecheckHit
  <2>2. /\ Promise!Finish(c, data, "current") /\ Outdated' = Outdated \ {c}
        /\ Reads[c].st = "reading" /\ Reads[c].floor = call[c].floor
    BY <1>0, <2>1, ReturnAnswers DEF Paths, HowOf
  <2>3. data \in call[c].floor .. world
    BY <2>1, LoadFacts DEF Usable, MInv, Bounded, IInv, FreshCoversInvalidations
  <2>4. QED
    BY <1>0, <2>2, <2>3 DEF Promise!Answer
<1>3. CASE BuildFails(c)
  <2>1. pc[c] = "build" /\ Return(c, call[c].stale, "failed")
    BY <1>3 DEF BuildFails
  <2>2. /\ Promise!Finish(c, call[c].stale, "failed") /\ Outdated' = Outdated \ {c}
        /\ Reads[c].st = "reading" /\ Reads[c].stale = call[c].stale
    BY <1>0, <2>1, ReturnAnswers DEF Paths, HowOf
  <2>3. QED
    BY <1>0, <2>2 DEF Promise!Answer
<1>4. QED
  BY <1>1, <1>2, <1>3

\* The store answers the read, or is outdated and builds again or gives up.
LEMMA StorePromise ==
  ASSUME MInv, NEW c \in Callers, Store(c)
  PROVE  Promise!Answer(c) \/ Promise!Retry(c)
<1>1. /\ UNCHANGED <<world, acked, gen>> /\ pc[c] = "store" /\ data' = call[c].built
  BY DEF Store
<1>2. call[c].built \in call[c].floor .. world
  BY <1>1, LoadFacts DEF MInv, Bounded, IInv, BuildIsCurrent
<1>3. CASE Return(c, call[c].built, "built")
  <2>1. /\ Promise!Finish(c, call[c].built, "current") /\ Outdated' = Outdated \ {c}
        /\ Reads[c].st = "reading" /\ Reads[c].floor = call[c].floor
    BY <1>1, <1>3, ReturnAnswers DEF Paths, HowOf
  <2>2. QED
    BY <1>1, <1>2, <2>1 DEF Promise!Answer
<1>4. CASE Return(c, Nil, "outdated") /\ call[c].attempt = MaxAttempts /\ gen # call[c].gen /\ call[c].via = "fresh"
  <2>1. /\ Promise!Finish(c, Nil, "outdated") /\ Outdated' = Outdated \ {c}
        /\ Reads[c].st = "reading" /\ Reads[c].floor = call[c].floor /\ Reads[c].via = call[c].via
    BY <1>1, <1>4, ReturnAnswers DEF Paths, HowOf
  <2>2. Reads[c].attempt = Promise!MaxAttempts
    BY <1>4 DEF Reads, ReadOf, MaxAttempts, Promise!MaxAttempts
  <2>3. c \in Outdated
    BY <1>1, <1>4 DEF Outdated
  <2>4. QED
    BY <1>1, <1>2, <1>4, <2>1, <2>2, <2>3 DEF Promise!Retry
<1>5. CASE /\ gen # call[c].gen /\ call[c].attempt # MaxAttempts /\ call[c].via = "fresh"
           /\ call' = [call EXCEPT ![c].attempt = @ + 1, ![c].built = Nil]
           /\ pc' = [pc EXCEPT ![c] = "recheck"]
  <2>1. /\ \A d \in Callers \ {c} : pc'[d] = pc[d] /\ call'[d] = call[d]
        /\ pc'[c] = "recheck"
    BY <1>5, LoadFacts
  <2>2. /\ call'[c].via = call[c].via /\ call'[c].floor = call[c].floor /\ call'[c].stale = call[c].stale
        /\ call'[c].attempt = call[c].attempt + 1 /\ call'[c].ret = call[c].ret /\ call'[c].how = call[c].how
    BY <1>5, LoadFacts DEF Frame
  <2>3. Reads' = [Reads EXCEPT ![c].attempt = @ + 1]
    <3>1. ReadOf(c)' = [Reads[c] EXCEPT !.attempt = @ + 1]
      BY <1>1, <2>1, <2>2 DEF ReadOf, Reads
    <3>2. Reads' = [Reads EXCEPT ![c] = ReadOf(c)']
      BY <2>1, OneMoves
    <3>3. QED
      BY <3>1, <3>2 DEF Reads
  <2>4. Outdated' = Outdated \ {c} /\ c \in Outdated
    <3>1. c \notin Outdated' /\ c \in Outdated
      BY <1>1, <1>5, <2>1 DEF Outdated
    <3>2. QED
      BY <1>1, <2>1, <3>1, OutdatedMoves
  <2>5. /\ Reads[c].st = "reading" /\ Reads[c].via = "fresh" /\ Reads[c].floor = call[c].floor
        /\ Reads[c].attempt < Promise!MaxAttempts
    BY <1>1, <1>5, LoadFacts DEF Reads, ReadOf, MaxAttempts, Promise!MaxAttempts
  <2>6. QED
    BY <1>1, <1>2, <2>3, <2>4, <2>5 DEF Promise!Retry
<1>6. call[c].via \in {"get", "fresh"}
  BY LoadFacts DEF Frame
<1>7. QED
  BY <1>3, <1>4, <1>5, <1>6 DEF Store

\* A caller that has used its answer is as if it had not called.
LEMMA AgainPromise ==
  ASSUME MInv, NEW c \in Callers, Again(c)
  PROVE  Promise!Again(c)
<1>1. /\ UNCHANGED <<world, acked, data, gen>> /\ pc[c] = "done" /\ pc'[c] = "idle" /\ call'[c] = NoFrame
      /\ \A d \in Callers \ {c} : pc'[d] = pc[d] /\ call'[d] = call[d]
  BY LoadFacts DEF Again, slot
<1>2. ReadOf(c)' = Promise!NoRead
  BY <1>1 DEF ReadOf, NoFrame, HowOf, Promise!NoRead
<1>3. Reads' = [Reads EXCEPT ![c] = ReadOf(c)'] /\ Reads[c].st = "done"
  BY <1>1, OneMoves DEF Reads, ReadOf
<1>4. UNCHANGED Outdated
  <2>1. c \notin Outdated /\ c \notin Outdated'
    BY <1>1 DEF Outdated
  <2>2. QED
    BY <1>1, <2>1, OutdatedMoves
<1>5. QED
  BY <1>1, <1>2, <1>3, <1>4 DEF Promise!Again

\* Every step of the slot is a step of the promise or a stutter.
LEMMA StepPromise == MInv /\ [Next]_vars => [Promise!Next]_Promise!vars
<1> SUFFICES ASSUME MInv, [Next]_vars PROVE Promise!Next \/ UNCHANGED Promise!vars
  OBVIOUS
<1>1. CASE Mutate \/ invalidate \/ Age \/ Lengthen
  BY <1>1, EnvironmentPromise
<1>2. ASSUME NEW c \in Callers, Call(c) \/ load(c) \/ Again(c)
      PROVE  Promise!Next \/ UNCHANGED Promise!vars
  <2>1. CASE Call(c)
    <3>1. PICK v \in {"get", "fresh"} : CallHit(c, v) \/ CallMiss(c, v)
      BY <2>1 DEF Call
    <3>2. Promise!Hit(c, v) \/ Promise!Begin(c, v)
      BY <3>1, CallPromise
    <3>3. QED
      BY <3>2 DEF Promise!Next
  <2>2. CASE TryLockFails(c) \/ RecheckHit(c) \/ BuildFails(c)
    BY <2>2, ReturnPromise DEF Promise!Next
  <2>3. CASE TakeBuild(c) \/ RecheckMiss(c) \/ Build(c)
    BY <2>3, InnerPromise
  <2>4. CASE Store(c)
    BY <2>4, StorePromise DEF Promise!Next
  <2>5. CASE Again(c)
    BY <2>5, AgainPromise DEF Promise!Next
  <2>6. QED
    BY <1>2, <2>1, <2>2, <2>3, <2>4, <2>5 DEF load
<1>3. CASE UNCHANGED vars
  <2>1. UNCHANGED Reads /\ UNCHANGED Outdated
    BY <1>3, NoneMoves DEF vars, slot, Outdated
  <2>2. QED
    BY <1>3, <2>1 DEF vars, slot, Promise!vars
<1>4. QED
  BY <1>1, <1>2, <1>3 DEF Next

\* For any number of readers and any bounds, the slot keeps the safety half of
\* its promise: every behaviour of get, fresh and invalidate is one of the
\* promise's (that a read is answered in the end is the other half).
THEOREM SlotKeepsPromise == Spec => Promise!Spec
<1>1. Init => MInv
  BY InitIInv DEF MInv, Bounded, Init
<1>2. MInv /\ [Next]_vars => MInv'
  BY StepIInv, BoundedStep DEF MInv
<1>3. QED
  BY <1>1, <1>2, InitPromise, StepPromise, PTL DEF Spec, Promise!Spec
=============================================================================
