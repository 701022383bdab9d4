--------------------------- MODULE ExecGuardProofs ---------------------------
(***************************************************************************)
(* For any set of guarded runs: a sweep ends no command whose run goes on, *)
(* and signals another program's group only when that program was given    *)
(* the guard's pid as well as the group's id.                              *)
(***************************************************************************)
EXTENDS DashboardCommandProps, TLAPS

\* A run whose record is marked, or that a sweep took for finished, is past Run,
\* and never comes back.
Past == {"returned", "gone", "killed"}
FinishedIsPast ==
  /\ \A x \in Runs : rec[x] = "ended" => lerd[x] \in Past
  /\ \A x \in sw.doomed : lerd[x] \in Past

\* While its guard lives, and before there can be one, the group's id is the run's;
\* only a run on the host has a group to be given away.
NoGroupYet == {"absent", "spawned"}
GuardKeepsId ==
  \A x \in Runs :
    /\ guard[x] = "up" => groupTaken[x] = "no"
    /\ lerd[x] \in NoGroupYet => rec[x] = "none" /\ groupTaken[x] = "no"
    /\ groupTaken[x] = "yes" => kind[x] = "host"

\* A run that signals another program's group finds its group given away; a sweep
\* finds the guard's pid given away as well.
HarmIsReuse ==
  /\ "sweep" \in harmed => \E x \in Runs : guardPid[x] = "inside"
  /\ "run" \in harmed => \E x \in Runs : groupTaken[x] = "yes"

IInv == GuardTypeOK /\ FinishedIsPast /\ GuardKeepsId /\ HarmIsReuse

USE AttemptsAssumption
USE DEF YesNo, To

LEMMA InitIInv == GuardInit => IInv
<1> SUFFICES ASSUME GuardInit PROVE IInv
  OBVIOUS
<1>1. GuardTypeOK
  BY DEF GuardInit, GuardTypeOK, RunsOK, ProcsOK, WorldOK, Places, SweepState, Idle
<1>2. FinishedIsPast /\ GuardKeepsId /\ HarmIsReuse
  BY DEF GuardInit, FinishedIsPast, GuardKeepsId, HarmIsReuse, Idle
<1>3. QED
  BY <1>1, <1>2 DEF IInv

-----------------------------------------------------------------------------
\* The parts of the type invariant under the helpers of the actions.
LEMMA KillMarkedTypes ==
  ASSUME ProcsOK, NEW xs, KillMarked(xs)
  PROVE  ProcsOK' /\ guard' = guard
BY DEF ProcsOK, KillMarked

LEMMA KillGroupTypes ==
  ASSUME ProcsOK, NEW x \in Runs, NEW who, killGroup(x, who)
  PROVE  ProcsOK' /\ \A y \in Runs : guard'[y] = "up" => guard[y] = "up"
<1>1. guard' \in [Runs -> {"none", "up", "gone"}] /\ \A y \in Runs : guard'[y] = "up" => guard[y] = "up"
  BY DEF ProcsOK, killGroup
<1>2. QED
  BY <1>1 DEF ProcsOK, killGroup

\* What a run's own kill may do to others.
RunHarm(x) == harmed' = harmed \/ (harmed' = harmed \cup {"run"} /\ groupTaken[x] = "yes")

\* A run moves, and its record and its processes with it.
LEMMA RunMoves ==
  ASSUME IInv, NEW x \in Runs, NEW place \in Places, To(x, place),
         lerd[x] \in Past => place \in Past,
         place \notin {"absent", "spawned"} \/ (rec'[x] = "none" /\ groupTaken'[x] = "no"),
         tries' \in [Runs -> 0 .. killAttempts], rec' \in [Runs -> {"none", "live", "ended"}],
         known' \in [Runs -> YesNo], ProcsOK', loose' \in [Runs -> YesNo],
         \A y \in Runs \ {x} : rec'[y] = rec[y] /\ (guard'[y] = "up" => guard[y] = "up"),
         rec'[x] = "ended" => place \in Past,
         guard'[x] = "up" => guard[x] = "up" \/ lerd[x] = "spawned",
         RunHarm(x), UNCHANGED <<kind, ids, sw>>
  PROVE  IInv'
<1>1. lerd' \in [Runs -> Places] /\ lerd'[x] = place /\ \A y \in Runs \ {x} : lerd'[y] = lerd[y]
  BY DEF IInv, GuardTypeOK, RunsOK
<1>2. GuardTypeOK'
  BY <1>1 DEF IInv, GuardTypeOK, RunsOK, WorldOK, ids, RunHarm
<1>3. FinishedIsPast'
  BY <1>1 DEF IInv, FinishedIsPast, GuardTypeOK, WorldOK, SweepState
<1>4. GuardKeepsId'
  BY <1>1 DEF IInv, GuardKeepsId, NoGroupYet, ids
<1>5. HarmIsReuse'
  BY DEF IInv, HarmIsReuse, RunHarm, ids
<1>6. QED
  BY <1>2, <1>3, <1>4, <1>5 DEF IInv

LEMMA BeginKeeps == \A x \in Runs : IInv /\ Begin(x) => IInv'
<1> SUFFICES ASSUME NEW x \in Runs, IInv, Begin(x) PROVE IInv'
  OBVIOUS
<1>1. RunsOK /\ ProcsOK /\ WorldOK
  BY DEF IInv, GuardTypeOK
<1>2. /\ rec' \in [Runs -> {"none", "live", "ended"}] /\ known' \in [Runs -> YesNo]
      /\ loose' \in [Runs -> YesNo]
      /\ \A y \in Runs \ {x} : rec'[y] = rec[y]
      /\ rec'[x] \in {"none", "live", rec[x]}
  BY <1>1 DEF Begin, WriteRecord, RunsOK, WorldOK
<1>3. lerd[x] = "absent" /\ rec[x] = "none" /\ To(x, "recorded")
  BY DEF Begin, IInv, GuardKeepsId, NoGroupYet
<1>4. UNCHANGED <<kind, tries, procs, ids, harmed, sw>>
  BY DEF Begin
<1>5. ProcsOK' /\ tries' \in [Runs -> 0 .. killAttempts] /\ guard' = guard
  BY <1>1, <1>4 DEF procs, ProcsOK, RunsOK
<1>6. "recorded" \in Places /\ rec'[x] # "ended"
  BY <1>2, <1>3 DEF Places
<1>7. QED
  BY <1>1, <1>2, <1>3, <1>4, <1>5, <1>6, RunMoves DEF Past, RunHarm

LEMMA RecordHostKeeps == \A x \in Runs : IInv /\ RecordHost(x) => IInv'
<1> SUFFICES ASSUME NEW x \in Runs, IInv, RecordHost(x) PROVE IInv'
  OBVIOUS
<1>1. RunsOK /\ ProcsOK /\ WorldOK
  BY DEF IInv, GuardTypeOK
<1>2. /\ rec' \in [Runs -> {"none", "live", "ended"}] /\ known' \in [Runs -> YesNo]
      /\ loose' \in [Runs -> YesNo]
      /\ \A y \in Runs \ {x} : rec'[y] = rec[y]
      /\ rec'[x] \in {"none", "live", rec[x]}
  BY <1>1 DEF RecordHost, WriteRecord, RunsOK, WorldOK
<1>3. lerd[x] = "spawned" /\ rec[x] = "none" /\ To(x, "waiting")
  BY DEF RecordHost, IInv, GuardKeepsId, NoGroupYet
<1>4. UNCHANGED <<kind, tries, client, main, kid, ids, harmed, sw>>
      /\ guard' \in {guard, [guard EXCEPT ![x] = "up"]}
  BY DEF RecordHost
<1>5. ProcsOK' /\ tries' \in [Runs -> 0 .. killAttempts]
      /\ \A y \in Runs \ {x} : guard'[y] = guard[y]
  BY <1>1, <1>4 DEF ProcsOK, RunsOK
<1>6. "waiting" \in Places /\ rec'[x] # "ended"
  BY <1>2, <1>3 DEF Places
<1>7. QED
  BY <1>1, <1>2, <1>3, <1>4, <1>5, <1>6, RunMoves DEF Past, RunHarm

\* The steps of a run that leave its record alone.
LEMMA RunGoesOn ==
  ASSUME IInv, NEW x \in Runs, NEW place \in Places, To(x, place),
         lerd[x] \in Past => place \in Past, place # "absent",
         place = "spawned" => lerd[x] = "absent",
         tries' \in [Runs -> 0 .. killAttempts], ProcsOK',
         \A y \in Runs : guard'[y] = "up" => guard[y] = "up",
         RunHarm(x), UNCHANGED <<kind, rec, known, ids, loose, sw>>
  PROVE  IInv'
<1>1. /\ rec' \in [Runs -> {"none", "live", "ended"}] /\ known' \in [Runs -> YesNo]
      /\ loose' \in [Runs -> YesNo]
  BY DEF IInv, GuardTypeOK, RunsOK, WorldOK
<1>2. rec'[x] = "ended" => place \in Past
  BY DEF IInv, FinishedIsPast
<1>3. place \notin {"absent", "spawned"} \/ (rec'[x] = "none" /\ groupTaken'[x] = "no")
  BY DEF IInv, GuardKeepsId, NoGroupYet, ids
<1>4. QED
  BY <1>1, <1>2, <1>3, RunMoves

LEMMA ContainerSteps ==
  \A x \in Runs : IInv /\ (Exec(x) \/ ExecFails(x) \/ Returned(x) \/ Stop(x) \/ StopKill(x) \/ Again(x))
                    => IInv'
<1> SUFFICES ASSUME NEW x \in Runs, IInv,
                    Exec(x) \/ ExecFails(x) \/ Returned(x) \/ Stop(x) \/ StopKill(x) \/ Again(x)
             PROVE IInv'
  OBVIOUS
<1>1. RunsOK /\ ProcsOK
  BY DEF IInv, GuardTypeOK
<1>2. CASE Exec(x)
  <2>1. /\ lerd[x] = "recorded" /\ To(x, "waiting") /\ tries' = tries /\ guard' = guard
        /\ UNCHANGED <<kind, rec, known, ids, loose, harmed, sw>>
    BY <1>2 DEF Exec
  <2>2. ProcsOK' /\ tries' \in [Runs -> 0 .. killAttempts]
    BY <1>1, <1>2 DEF Exec, ProcsOK, RunsOK
  <2>3. QED
    BY <2>1, <2>2, RunGoesOn DEF Places, Past, RunHarm
<1>3. CASE ExecFails(x) \/ Returned(x)
  <2>1. /\ lerd[x] \in {"recorded", "waiting", "pausing"} /\ To(x, "marking") /\ UNCHANGED procs
        /\ UNCHANGED <<kind, rec, known, ids, loose, harmed, sw>>
    BY <1>3 DEF ExecFails, Returned
  <2>2. ProcsOK' /\ tries' \in [Runs -> 0 .. killAttempts] /\ guard' = guard
    BY <1>1, <1>3, <2>1 DEF ExecFails, Returned, ProcsOK, RunsOK, procs
  <2>3. QED
    BY <2>1, <2>2, RunGoesOn DEF Places, Past, RunHarm
<1>4. CASE Stop(x) \/ Again(x)
  <2>1. /\ lerd[x] \in {"waiting", "pausing"} /\ To(x, "stopping") /\ UNCHANGED <<tries, procs>>
        /\ UNCHANGED <<kind, rec, known, ids, loose, harmed, sw>>
    BY <1>4 DEF Stop, Again
  <2>2. ProcsOK' /\ tries' \in [Runs -> 0 .. killAttempts] /\ guard' = guard
    BY <1>1, <2>1 DEF ProcsOK, RunsOK, procs
  <2>3. QED
    BY <2>1, <2>2, RunGoesOn DEF Places, Past, RunHarm
<1>5. CASE StopKill(x)
  <2>1. /\ lerd[x] = "stopping" /\ To(x, "pausing") /\ tries[x] < killAttempts
        /\ tries' = [tries EXCEPT ![x] = @ + 1]
        /\ UNCHANGED <<kind, rec, known, ids, loose, harmed, sw>>
    BY <1>5 DEF StopKill
  <2>2. tries' \in [Runs -> 0 .. killAttempts]
    BY <1>1, <2>1 DEF RunsOK
  <2>3. ProcsOK' /\ guard' = guard
    BY <1>1, <1>5, KillMarkedTypes DEF StopKill, procs, ProcsOK
  <2>4. QED
    BY <2>1, <2>2, <2>3, RunGoesOn DEF Places, Past, RunHarm
<1>6. QED
  BY <1>2, <1>3, <1>4, <1>5

LEMMA HostSteps ==
  \A x \in Runs : IInv /\ (Spawn(x) \/ HostKill(x) \/ Reaped(x) \/ hostFinish(x) \/ LerdLeaves(x)) => IInv'
<1> SUFFICES ASSUME NEW x \in Runs, IInv,
                    Spawn(x) \/ HostKill(x) \/ Reaped(x) \/ hostFinish(x) \/ LerdLeaves(x)
             PROVE IInv'
  OBVIOUS
<1>1. RunsOK /\ ProcsOK
  BY DEF IInv, GuardTypeOK
<1>2. CASE Spawn(x)
  <2>1. /\ lerd[x] = "absent" /\ (To(x, "returned") \/ To(x, "spawned")) /\ tries' = tries /\ guard' = guard
        /\ UNCHANGED <<kind, rec, known, ids, loose, harmed, sw>>
    BY <1>2 DEF Spawn
  <2>2. ProcsOK' /\ tries' \in [Runs -> 0 .. killAttempts]
    BY <1>1, <1>2 DEF Spawn, ProcsOK, RunsOK
  <2>3. QED
    BY <2>1, <2>2, RunGoesOn DEF Places, Past, RunHarm
<1>3. CASE HostKill(x) \/ hostFinish(x)
  <2>1. /\ lerd[x] \in {"stopping", "finishing"} /\ (To(x, "draining") \/ To(x, "dropping"))
        /\ killGroup(x, "run") /\ tries' = tries
        /\ UNCHANGED <<kind, rec, known, ids, loose, sw>>
    BY <1>3 DEF HostKill, hostFinish
  <2>2. ProcsOK' /\ \A y \in Runs : guard'[y] = "up" => guard[y] = "up"
    BY <1>1, <2>1, KillGroupTypes
  <2>3. RunHarm(x)
    BY <2>1 DEF killGroup, RunHarm
  <2>4. QED
    BY <1>1, <2>1, <2>2, <2>3, RunGoesOn DEF Places, Past, RunsOK
<1>4. CASE Reaped(x)
  <2>1. /\ lerd[x] \in {"waiting", "draining"} /\ To(x, "finishing") /\ UNCHANGED <<tries, procs>>
        /\ UNCHANGED <<kind, rec, known, ids, loose, harmed, sw>>
    BY <1>4 DEF Reaped
  <2>2. ProcsOK' /\ tries' \in [Runs -> 0 .. killAttempts] /\ guard' = guard
    BY <1>1, <2>1 DEF ProcsOK, RunsOK, procs
  <2>3. QED
    BY <2>1, <2>2, RunGoesOn DEF Places, Past, RunHarm
<1>5. CASE LerdLeaves(x)
  <2>1. /\ lerd[x] = "returned" /\ To(x, "gone") /\ UNCHANGED <<tries, procs>>
        /\ UNCHANGED <<kind, rec, known, ids, loose, harmed, sw>>
    BY <1>5 DEF LerdLeaves
  <2>2. ProcsOK' /\ tries' \in [Runs -> 0 .. killAttempts] /\ guard' = guard
    BY <1>1, <2>1 DEF ProcsOK, RunsOK, procs
  <2>3. QED
    BY <2>1, <2>2, RunGoesOn DEF Places, Past, RunHarm
<1>6. QED
  BY <1>2, <1>3, <1>4, <1>5

\* The steps that end a run.
LEMMA EndSteps == \A x \in Runs : IInv /\ (markEnded(x) \/ DropRecord(x) \/ Crash(x)) => IInv'
<1> SUFFICES ASSUME NEW x \in Runs, IInv, markEnded(x) \/ DropRecord(x) \/ Crash(x) PROVE IInv'
  OBVIOUS
<1>1. RunsOK /\ ProcsOK /\ WorldOK
  BY DEF IInv, GuardTypeOK
<1>2. /\ To(x, "returned") \/ To(x, "killed")
      /\ UNCHANGED <<kind, tries, known, procs, ids, harmed, sw>>
  BY DEF markEnded, DropRecord, Crash
<1>3. /\ rec' \in [Runs -> {"none", "live", "ended"}] /\ loose' \in [Runs -> YesNo]
      /\ \A y \in Runs \ {x} : rec'[y] = rec[y]
  BY <1>1 DEF markEnded, DropRecord, Crash, RunsOK, WorldOK
<1>4. ProcsOK' /\ tries' \in [Runs -> 0 .. killAttempts] /\ known' \in [Runs -> YesNo] /\ guard' = guard
  BY <1>1, <1>2 DEF ProcsOK, RunsOK, procs
<1>5. QED
  BY <1>2, <1>3, <1>4, RunMoves DEF Places, Past, RunHarm

\* Processes end, start and fork; ids are handed out again.  GiveUp moves no run
\* either.
LEMMA WorldKeeps == \A x \in Runs : IInv /\ (World(x) \/ GiveUp(x)) => IInv'
<1> SUFFICES ASSUME NEW x \in Runs, IInv, World(x) \/ GiveUp(x) PROVE IInv'
  OBVIOUS
<1>1. RunsOK /\ ProcsOK /\ WorldOK
  BY DEF IInv, GuardTypeOK
<1>2. UNCHANGED <<mine, loose, harmed, sw>>
  BY DEF World, Land, Fork, MainEnds, KidEnds, GuardEnds, TakePid, TakeGroup, TakeGuardPid, GiveUp
<1>3. CASE Land(x) \/ Fork(x) \/ MainEnds(x) \/ KidEnds(x) \/ GuardEnds(x) \/ GiveUp(x)
  <2>1. ProcsOK' /\ ids' = ids /\ \A y \in Runs : guard'[y] = "up" => guard[y] = "up"
    BY <1>1, <1>3 DEF Land, Fork, MainEnds, KidEnds, GuardEnds, GiveUp, EndClient, ProcsOK
  <2>2. GuardTypeOK'
    BY <1>1, <1>2, <2>1 DEF GuardTypeOK, RunsOK, WorldOK, mine, ids
  <2>3. FinishedIsPast' /\ GuardKeepsId' /\ HarmIsReuse'
    BY <1>2, <2>1 DEF IInv, FinishedIsPast, GuardKeepsId, HarmIsReuse, mine, ids
  <2>4. QED
    BY <2>2, <2>3 DEF IInv
<1>4. CASE TakePid(x) \/ TakeGroup(x) \/ TakeGuardPid(x)
  <2>1. /\ UNCHANGED procs /\ pidTaken' \in [Runs -> YesNo] /\ groupTaken' \in [Runs -> YesNo]
        /\ guardPid' \in [Runs -> {"no", "elsewhere", "inside"}]
        /\ \A y \in Runs : groupTaken'[y] # groupTaken[y] =>
             /\ guard[y] # "up" /\ kind[y] = "host"
             /\ rec[y] # "none" \/ lerd[y] \notin NoGroupYet
        /\ \A y \in Runs : /\ guardPid[y] = "inside" => guardPid'[y] = "inside"
                           /\ groupTaken[y] = "yes" => groupTaken'[y] = "yes"
    BY <1>1, <1>4 DEF TakePid, TakeGroup, TakeGuardPid, WorldOK, Left, NoGroupYet
  <2>2. GuardTypeOK'
    BY <1>1, <1>2, <2>1 DEF GuardTypeOK, RunsOK, WorldOK, ProcsOK, mine, procs
  <2>3. GuardKeepsId'
    BY <1>1, <1>2, <2>1 DEF IInv, GuardKeepsId, NoGroupYet, WorldOK, mine, procs
  <2>4. FinishedIsPast' /\ HarmIsReuse'
    BY <1>2, <2>1 DEF IInv, FinishedIsPast, HarmIsReuse, mine
  <2>5. QED
    BY <2>2, <2>3, <2>4 DEF IInv
<1>5. QED
  BY <1>3, <1>4 DEF World

-----------------------------------------------------------------------------
(* The sweep. *)

\* A record is taken for finished only when its run is past.
LEMMA LookKeeps == \A x \in Runs : IInv /\ Look(x) => IInv'
<1> SUFFICES ASSUME NEW x \in Runs, IInv, Look(x) PROVE IInv'
  OBVIOUS
<1> DEFINE looked == [sw EXCEPT !.todo = @ \ {x}]
           finished == rec[x] = "ended" \/ (rec[x] = "live" /\ ~ownerAlive(x))
<1>1. RunsOK /\ ProcsOK /\ WorldOK /\ FinishedIsPast /\ GuardKeepsId
  BY DEF IInv, GuardTypeOK
<1>2. finished => lerd[x] \in Past
  BY <1>1 DEF FinishedIsPast, ownerAlive, Over, Past
<1>3. UNCHANGED <<mine, ids, loose>>
  BY DEF Look
<1>4. looked \in SweepState /\ looked.doomed = sw.doomed /\ Idle \in SweepState /\ Idle.doomed = {}
  BY <1>1 DEF WorldOK, SweepState, Idle
<1>5. /\ sw' \in SweepState
      /\ sw'.doomed \subseteq sw.doomed \cup (IF finished THEN {x} ELSE {})
  <2>1. CASE ~finished
    BY <2>1, <1>4 DEF Look, Settled
  <2>2. CASE finished
    <3>1. CASE kind[x] = "container"
      <4>1. sw' = [looked EXCEPT !.doomed = @ \cup {x}, !.containers = @ \cup {x}]
        BY <3>1, <2>2 DEF Look
      <4>2. QED
        BY <4>1, <1>4, <2>2 DEF SweepState
    <3>2. CASE kind[x] # "container"
      <4>1. sw' = [looked EXCEPT !.doomed = @ \cup {x},
                                 !.spared = IF GuardHolds(x) THEN @ ELSE @ \cup {x}]
        BY <3>2, <2>2 DEF Look
      <4>2. CASE ~GuardHolds(x)
        <5>1. sw' = [looked EXCEPT !.doomed = @ \cup {x}, !.spared = @ \cup {x}]
          BY <4>1, <4>2
        <5>2. QED
          BY <5>1, <1>4, <2>2 DEF SweepState
      <4>3. CASE GuardHolds(x)
        <5>1. sw' = [looked EXCEPT !.doomed = @ \cup {x}]
          <6>1. looked.spared = sw.spared /\ looked \in SweepState
            BY <1>4
          <6>2. QED
            BY <4>1, <4>3, <6>1 DEF SweepState
        <5>2. QED
          BY <5>1, <1>4, <2>2 DEF SweepState
      <4>4. QED
        BY <4>2, <4>3
    <3>3. QED
      BY <3>1, <3>2
  <2>3. QED
    BY <2>1, <2>2
<1>6. /\ ProcsOK' /\ harmed' \in SUBSET {"run", "sweep"}
      /\ \A y \in Runs : guard'[y] = "up" => guard[y] = "up"
      /\ harmed' = harmed \/ (harmed' = harmed \cup {"sweep"} /\ guardPid[x] = "inside")
  <2>1. CASE UNCHANGED <<procs, harmed>>
    BY <2>1, <1>1 DEF procs, ProcsOK, WorldOK
  <2>2. CASE sweepHost(x)
    <3>1. CASE ~GuardHolds(x)
      BY <3>1, <2>2, <2>1 DEF sweepHost
    <3>2. CASE GuardHolds(x)
      <4>1. killGroup(x, "sweep") /\ (guardPid[x] = "inside" \/ groupTaken[x] = "no")
        BY <3>2, <2>2, <1>1 DEF sweepHost, GuardHolds, GuardKeepsId
      <4>2. harmed' = harmed \/ (harmed' = harmed \cup {"sweep"} /\ guardPid[x] = "inside")
        BY <4>1 DEF killGroup
      <4>3. harmed' \in SUBSET {"run", "sweep"}
        BY <4>2, <1>1 DEF WorldOK
      <4>4. QED
        BY <4>1, <4>2, <4>3, <1>1, KillGroupTypes
    <3>3. QED
      BY <3>1, <3>2
  <2>3. QED
    BY <2>1, <2>2 DEF Look
<1> HIDE DEF looked, finished
<1>7. GuardTypeOK'
  BY <1>1, <1>3, <1>5, <1>6 DEF GuardTypeOK, RunsOK, WorldOK, mine, ids
<1>8. FinishedIsPast'
  BY <1>1, <1>2, <1>3, <1>5 DEF FinishedIsPast, mine
<1>9. GuardKeepsId' /\ HarmIsReuse'
  BY <1>1, <1>3, <1>6 DEF IInv, GuardKeepsId, HarmIsReuse, mine, ids
<1>10. QED
  BY <1>7, <1>8, <1>9 DEF IInv

LEMMA SweepKeeps == IInv /\ (Glob \/ SweepKill \/ SweepDrop) => IInv'
<1> SUFFICES ASSUME IInv, Glob \/ SweepKill \/ SweepDrop PROVE IInv'
  OBVIOUS
<1>1. RunsOK /\ ProcsOK /\ WorldOK /\ FinishedIsPast /\ GuardKeepsId
  BY DEF IInv, GuardTypeOK
<1>2. UNCHANGED <<kind, lerd, tries, known, ids, harmed>>
  BY DEF Glob, SweepKill, SweepDrop, mine
<1>3. sw' \in SweepState /\ sw'.doomed \subseteq sw.doomed
  <2>1. CASE Glob
    BY <2>1, <1>1 DEF Glob, Idle, SweepState, WorldOK
  <2>2. CASE SweepKill
    <3>1. PICK sp \in SUBSET Runs : sw' = [sw EXCEPT !.pc = "drop", !.containers = {}, !.spared = sp]
      BY <2>2, <1>1 DEF SweepKill, SweepState, WorldOK
    <3>2. QED
      BY <3>1, <1>1 DEF SweepState, WorldOK
  <2>3. CASE SweepDrop
    BY <2>3, <1>1 DEF SweepDrop, Idle, SweepState, WorldOK
  <2>4. QED
    BY <2>1, <2>2, <2>3
<1>4. ProcsOK' /\ guard' = guard
  BY <1>1, KillMarkedTypes DEF Glob, SweepKill, SweepDrop, procs, ProcsOK
<1>5. /\ rec' \in [Runs -> {"none", "live", "ended"}] /\ loose' \in [Runs -> YesNo]
      /\ \A x \in Runs : rec'[x] \in {"none", rec[x]}
  BY <1>1 DEF Glob, SweepKill, SweepDrop, mine, RunsOK, WorldOK
<1>6. GuardTypeOK'
  BY <1>1, <1>2, <1>3, <1>4, <1>5 DEF GuardTypeOK, RunsOK, WorldOK, ids
<1>7. FinishedIsPast' /\ GuardKeepsId' /\ HarmIsReuse'
  BY <1>1, <1>2, <1>3, <1>4, <1>5 DEF FinishedIsPast, GuardKeepsId, HarmIsReuse, ids, IInv
<1>8. QED
  BY <1>6, <1>7 DEF IInv

LEMMA NextIInv == IInv /\ [GuardNext]_guardVars => IInv'
<1> SUFFICES ASSUME IInv, [GuardNext]_guardVars PROVE IInv'
  OBVIOUS
<1>1. ASSUME NEW x \in Runs, GuardSteps(x) \/ Stop(x) \/ LerdLeaves(x) \/ Crash(x) \/ World(x) PROVE IInv'
  BY <1>1, BeginKeeps, RecordHostKeeps, ContainerSteps, HostSteps, EndSteps, WorldKeeps DEF GuardSteps
<1>2. CASE Sweep
  BY <1>2, LookKeeps, SweepKeeps DEF Sweep
<1>3. CASE UNCHANGED guardVars
  BY <1>3 DEF guardVars, mine, procs, ids, IInv, GuardTypeOK, RunsOK, ProcsOK, WorldOK, FinishedIsPast,
              GuardKeepsId, HarmIsReuse
<1>4. QED
  BY <1>1, <1>2, <1>3 DEF GuardNext

LEMMA Inductive == GuardSpec => []IInv
BY InitIInv, NextIInv, PTL DEF GuardSpec

\* The types of the guard hold for any set of runs.
THEOREM TypeCorrect == GuardSpec => []GuardTypeOK
<1>1. IInv => GuardTypeOK
  BY DEF IInv
<1>2. QED
  BY <1>1, Inductive, PTL

\* Sweep's judgement is still right when it kills: a run it took for finished,
\* by its record or by its lerd's pid and start time, never goes on.
THEOREM SweepIsSafe == GuardSpec => []SweepSparesRuns
<1>1. IInv => SweepSparesRuns
  BY DEF IInv, FinishedIsPast, SweepSparesRuns, Going, Past
<1>2. QED
  BY <1>1, Inductive, PTL

\* sweepHost's look at the guard: a pid that was handed out again does not pass for
\* it unless its process is in the group; while the guard lives no end of a run
\* and no sweep signals another program's group.
THEOREM GroupIsOurs == GuardSpec => []StrangersSpared
<1>1. IInv => StrangersSpared
  BY DEF IInv, HarmIsReuse, GuardKeepsId, StrangersSpared
<1>2. QED
  BY <1>1, Inductive, PTL

-----------------------------------------------------------------------------
(* In the dashboard. *)

\* Beside a command run (DashboardCommand) the guard and the run each take their own
\* steps only: what is proved of CommandRun and of ExecGuard holds there.
THEOREM PartsAreKept == Spec => RunSpec /\ GuardSpec
<1>1. Init => RunInit /\ GuardInit
  BY DEF Init
<1>2. [Next]_vars => [RunNext]_runVars /\ [GuardNext]_guardVars
  BY DEF vars, Next, RunPart, CommandWrites, CommandExits, GuardPart, RunNext
<1> QED BY <1>1, <1>2, PTL DEF Spec, RunSpec, GuardSpec
=============================================================================
