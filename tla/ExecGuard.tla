------------------------------ MODULE ExecGuard ------------------------------
(***************************************************************************)
(* The guard around the commands lerd runs (internal/execguard): podman    *)
(* execs into a container under a marker, commands on this machine in a    *)
(* process group of their own, and the watcher's sweep of what they leave. *)
(*                                                                         *)
(* Data.  A guarded run stands for its marker, its record file, its lerd   *)
(* process and its process group; a container run has a podman client, a   *)
(* command and perhaps one child of it; a host run a command, perhaps a    *)
(* child, and the guard.  Kill, killGroup and sweepHost are one step each: *)
(* that the group's id is handed out again within one of them is left out. *)
(* A watcher that dies in a sweep has removed no record it has not dealt   *)
(* with, and begins again: not modelled.                                   *)
(***************************************************************************)
EXTENDS Integers

CONSTANTS
  Runs,         \* guarded runs
  killAttempts  \* kills stopRun sends (3 in the code)

ASSUME AttemptsAssumption == killAttempts \in Nat \ {0}

VARIABLES
  kind,       \* where the run's command runs: "container" or "host"
  lerd,       \* where the lerd process of the run is in Run or runHost
  tries,      \* kills stopRun has sent
  rec,        \* the record on disk: "none", "live" or "ended"
  known,      \* the record holds lerd's start time
  client,     \* the podman client: "none", "up" or "gone"
  main,       \* the command: "none", "coming" (not started inside yet), "up" or "gone"
  kid,        \* it has left a child: "no" or "yes"
  guard,      \* the idle member of the group: "none", "up" or "gone"
  pidTaken,   \* lerd's pid belongs to another process now
  groupTaken, \* the group's id belongs to another group now
  guardPid,   \* the guard's pid belongs now to: "no" process, one "elsewhere",
              \* or one "inside" the group that was given the group's id
  loose,      \* history: no record names the run's processes, for a reason below
  harmed,     \* history: who signalled another program's group, a "run" or a "sweep"
  sw          \* the watcher's sweep

mine == <<kind, lerd, tries, rec, known>>
procs == <<client, main, kid, guard>>
ids == <<pidTaken, groupTaken, guardPid>>
guardVars == <<mine, procs, ids, loose, harmed, sw>>

\* todo: records still to look at; doomed: records to remove; containers: those
\* whose marker is still to kill; spared: doomed runs the kill did not reach.
Idle == [pc |-> "idle", todo |-> {}, doomed |-> {}, containers |-> {}, spared |-> {}]

GuardInit ==
  /\ kind \in [Runs -> {"container", "host"}]
  /\ lerd = [x \in Runs |-> "absent"]
  /\ tries = [x \in Runs |-> 0]
  /\ rec = [x \in Runs |-> "none"]
  /\ known = [x \in Runs |-> "no"]
  /\ client = [x \in Runs |-> "none"]
  /\ main = [x \in Runs |-> "none"]
  /\ kid = [x \in Runs |-> "no"]
  /\ guard = [x \in Runs |-> "none"]
  /\ pidTaken = [x \in Runs |-> "no"]
  /\ groupTaken = [x \in Runs |-> "no"]
  /\ guardPid = [x \in Runs |-> "no"]
  /\ loose = [x \in Runs |-> "no"]
  /\ harmed = {}
  /\ sw = Idle

Over(x) == lerd[x] \in {"gone", "killed"}
Left(x) == main[x] \in {"coming", "up"} \/ kid[x] = "yes" \/ guard[x] = "up"
To(x, place) == lerd' = [lerd EXCEPT ![x] = place]

-----------------------------------------------------------------------------
(* Killing. *)

\* killScript for the markers of xs: what has not started inside is not found.
KillMarked(xs) ==
  /\ main' = [x \in Runs |-> IF x \in xs /\ main[x] = "up" THEN "gone" ELSE main[x]]
  /\ client' = [x \in Runs |-> IF x \in xs /\ main[x] = "up" /\ client[x] = "up" THEN "gone" ELSE client[x]]
  /\ kid' = [x \in Runs |-> IF x \in xs THEN "no" ELSE kid[x]]
  /\ UNCHANGED guard

\* Whatever has the group's id is signalled, whoever it belongs to by now.
killGroup(x, who) ==
  /\ harmed' = harmed \cup (IF groupTaken[x] = "yes" THEN {who} ELSE {})
  /\ main' = [main EXCEPT ![x] = "gone"]
  /\ kid' = [kid EXCEPT ![x] = "no"]
  /\ guard' = [guard EXCEPT ![x] = IF @ = "up" THEN "gone" ELSE @]
  /\ UNCHANGED client

-----------------------------------------------------------------------------
(* Run: a podman exec into a container. *)

\* A record that could not be written leaves the run loose.
WriteRecord(x) ==
  \/ /\ rec' = [rec EXCEPT ![x] = "live"]
     /\ known' \in {known, [known EXCEPT ![x] = "yes"]}
     /\ UNCHANGED loose
  \/ /\ loose' = [loose EXCEPT ![x] = "yes"]
     /\ UNCHANGED <<rec, known>>

Begin(x) ==
  /\ kind[x] = "container" /\ lerd[x] = "absent"
  /\ To(x, "recorded")
  /\ WriteRecord(x)
  /\ UNCHANGED <<kind, tries, procs, ids, harmed, sw>>

Exec(x) ==
  /\ lerd[x] = "recorded"
  /\ To(x, "waiting")
  /\ client' = [client EXCEPT ![x] = "up"]
  /\ main' = [main EXCEPT ![x] = "coming"]
  /\ UNCHANGED <<kind, tries, rec, known, kid, guard, ids, loose, harmed, sw>>

ExecFails(x) ==
  /\ lerd[x] = "recorded"
  /\ To(x, "marking")
  /\ UNCHANGED <<kind, tries, rec, known, procs, ids, loose, harmed, sw>>

\* The exec returned.
Returned(x) ==
  /\ kind[x] = "container" /\ lerd[x] \in {"waiting", "pausing"} /\ client[x] = "gone"
  /\ To(x, "marking")
  /\ tries' = [tries EXCEPT ![x] = 0]
  /\ UNCHANGED <<kind, rec, known, procs, ids, loose, harmed, sw>>

\* The context ends, or lerd is told to stop.
Stop(x) ==
  /\ lerd[x] = "waiting"
  /\ To(x, "stopping")
  /\ UNCHANGED <<kind, tries, rec, known, procs, ids, loose, harmed, sw>>

\* One killFn of stopRun; podman may fail it.
StopKill(x) ==
  /\ kind[x] = "container" /\ lerd[x] = "stopping" /\ tries[x] < killAttempts
  /\ To(x, "pausing")
  /\ tries' = [tries EXCEPT ![x] = @ + 1]
  /\ KillMarked({x}) \/ UNCHANGED procs
  /\ UNCHANGED <<kind, rec, known, ids, loose, harmed, sw>>

\* killWait passes: another kill, or the end of a client that still hangs on.
Again(x) ==
  /\ lerd[x] = "pausing" /\ client[x] = "up" /\ tries[x] < killAttempts
  /\ To(x, "stopping")
  /\ UNCHANGED <<kind, tries, rec, known, procs, ids, loose, harmed, sw>>

\* A mutated form waits for the client for ever.
LeaveClient(x) == UNCHANGED client
EndClient(x) == client' = [client EXCEPT ![x] = "gone"]
GiveUp(x) ==
  /\ lerd[x] = "pausing" /\ client[x] = "up" /\ tries[x] = killAttempts
  /\ EndClient(x)
  /\ main' \in {main, [main EXCEPT ![x] = IF @ = "coming" THEN "gone" ELSE @]}
  /\ UNCHANGED <<mine, kid, guard, ids, loose, harmed, sw>>

\* markEnded, whose write may fail.
markEnded(x) ==
  /\ lerd[x] = "marking"
  /\ To(x, "returned")
  /\ rec' \in {rec, [rec EXCEPT ![x] = IF @ = "live" THEN "ended" ELSE @]}
  /\ UNCHANGED <<kind, tries, known, procs, ids, loose, harmed, sw>>

-----------------------------------------------------------------------------
(* runHost: a process group of its own. *)

Spawn(x) ==
  /\ kind[x] = "host" /\ lerd[x] = "absent"
  /\ \/ To(x, "returned") /\ UNCHANGED main
     \/ To(x, "spawned") /\ main' = [main EXCEPT ![x] = "up"]
  /\ UNCHANGED <<kind, tries, rec, known, client, kid, guard, ids, loose, harmed, sw>>

\* startGuard and writeRecord; either may fail.
RecordHost(x) ==
  /\ lerd[x] = "spawned"
  /\ To(x, "waiting")
  /\ WriteRecord(x)
  /\ guard' \in {guard, [guard EXCEPT ![x] = "up"]}
  /\ UNCHANGED <<kind, tries, client, main, kid, ids, harmed, sw>>

\* ctx.Done or a signal, after Stop.
HostKill(x) ==
  /\ kind[x] = "host" /\ lerd[x] = "stopping"
  /\ To(x, "draining")
  /\ killGroup(x, "run")
  /\ UNCHANGED <<kind, tries, rec, known, ids, loose, sw>>

\* cmd.Wait returned.
Reaped(x) ==
  /\ kind[x] = "host" /\ lerd[x] \in {"waiting", "draining"} /\ main[x] = "gone"
  /\ To(x, "finishing")
  /\ UNCHANGED <<kind, tries, rec, known, procs, ids, loose, harmed, sw>>

\* hostFinish: end what is left of the group, then drop the record.  The command
\* has been waited for and nothing asks for the guard.
hostFinish(x) ==
  /\ lerd[x] = "finishing"
  /\ To(x, "dropping")
  /\ killGroup(x, "run")
  /\ UNCHANGED <<kind, tries, rec, known, ids, loose, sw>>

DropRecord(x) ==
  /\ lerd[x] = "dropping"
  /\ To(x, "returned")
  /\ rec' = [rec EXCEPT ![x] = "none"]
  /\ UNCHANGED <<kind, tries, known, procs, ids, loose, harmed, sw>>

-----------------------------------------------------------------------------
(* lerd itself, and the world. *)

LerdLeaves(x) ==
  /\ lerd[x] = "returned"
  /\ To(x, "gone")
  /\ UNCHANGED <<kind, tries, rec, known, procs, ids, loose, harmed, sw>>

\* SIGKILL.  A host run killed before it wrote its record is loose.
Crash(x) ==
  /\ lerd[x] \notin {"absent", "gone", "killed"}
  /\ To(x, "killed")
  /\ loose' = [loose EXCEPT ![x] = IF lerd[x] = "spawned" THEN "yes" ELSE @]
  /\ UNCHANGED <<kind, tries, rec, known, procs, ids, harmed, sw>>

\* The exec starts the command inside, the command starts a child, either ends.
Land(x) ==
  /\ main[x] = "coming"
  /\ main' = [main EXCEPT ![x] = "up"]
  /\ UNCHANGED <<mine, client, kid, guard, ids, loose, harmed, sw>>
Fork(x) ==
  /\ main[x] = "up" /\ kid[x] = "no"
  /\ kid' = [kid EXCEPT ![x] = "yes"]
  /\ UNCHANGED <<mine, client, main, guard, ids, loose, harmed, sw>>
MainEnds(x) ==
  /\ main[x] = "up"
  /\ main' = [main EXCEPT ![x] = "gone"]
  /\ client' = [client EXCEPT ![x] = IF @ = "up" THEN "gone" ELSE @]
  /\ UNCHANGED <<mine, kid, guard, ids, loose, harmed, sw>>
KidEnds(x) ==
  /\ kid[x] = "yes"
  /\ kid' = [kid EXCEPT ![x] = "no"]
  /\ UNCHANGED <<mine, client, main, guard, ids, loose, harmed, sw>>
GuardEnds(x) ==
  /\ guard[x] = "up"
  /\ guard' = [guard EXCEPT ![x] = "gone"]
  /\ UNCHANGED <<mine, client, main, kid, ids, loose, harmed, sw>>

\* The kernel hands out a free pid or group id again, which matters as long as a
\* record names it or the run is to end it; lerd waits for its command as soon as
\* it ends.  The guard's pid matters beside a group that is no longer the run's: a
\* child of the run that was given it would only be one more the sweep may end.
TakePid(x) ==
  /\ Over(x) /\ rec[x] # "none" /\ pidTaken[x] = "no"
  /\ pidTaken' = [pidTaken EXCEPT ![x] = "yes"]
  /\ UNCHANGED <<mine, procs, groupTaken, guardPid, loose, harmed, sw>>
TakeGroup(x) ==
  /\ rec[x] # "none" \/ lerd[x] \in {"waiting", "stopping", "draining", "finishing"}
  /\ kind[x] = "host" /\ main[x] = "gone" /\ ~Left(x) /\ groupTaken[x] = "no"
  /\ groupTaken' = [groupTaken EXCEPT ![x] = "yes"]
  /\ UNCHANGED <<mine, procs, pidTaken, guardPid, loose, harmed, sw>>
TakeGuardPid(x) ==
  /\ rec[x] # "none" /\ guard[x] = "gone" /\ groupTaken[x] = "yes" /\ guardPid[x] = "no"
  /\ \E place \in {"elsewhere", "inside"} : guardPid' = [guardPid EXCEPT ![x] = place]
  /\ UNCHANGED <<mine, procs, pidTaken, groupTaken, loose, harmed, sw>>

-----------------------------------------------------------------------------
(* Sweep. *)

\* ownerAlive, and mutated forms that trust a pid or need a start time.
SameStart(x) == ~Over(x) /\ known[x] = "yes"
PidInUse(x) == ~Over(x) \/ pidTaken[x] = "yes"
ownerAlive(x) == ~Over(x) \/ (pidTaken[x] = "yes" /\ known[x] = "no")

Glob ==
  /\ sw.pc = "idle" /\ \E x \in Runs : rec[x] # "none"
  /\ sw' = [Idle EXCEPT !.pc = "look", !.todo = {x \in Runs : rec[x] # "none"}]
  /\ UNCHANGED <<mine, procs, ids, loose, harmed>>

\* A sweep that has nothing to remove is over after its last record.
Settled(s) == IF s.todo = {} /\ s.doomed = {} THEN Idle ELSE s

\* sweepHost asks whether a process has the guard's pid and whether that process is
\* in the group of the record's id.  A mutated form asks the first only.
PidAlive(x) == guard[x] = "up" \/ guardPid[x] # "no"
GuardHolds(x) == guard[x] = "up" \/ guardPid[x] = "inside"
sweepHost(x) ==
  \/ GuardHolds(x) /\ killGroup(x, "sweep")
  \/ ~GuardHolds(x) /\ UNCHANGED <<procs, harmed>>

\* ReadFile and the judgement of one record: one that is gone by now is passed
\* over, as is one whose run goes on; a host run is dealt with at once.  A run may
\* end between the two, which is as good as before or after both.
Look(x) ==
  LET looked == [sw EXCEPT !.todo = @ \ {x}]
      finished == rec[x] = "ended" \/ (rec[x] = "live" /\ ~ownerAlive(x))
  IN /\ sw.pc = "look" /\ x \in sw.todo
     /\ \/ /\ ~finished
           /\ sw' = Settled(looked)
           /\ UNCHANGED <<procs, harmed>>
        \/ /\ finished /\ kind[x] = "container"
           /\ sw' = [looked EXCEPT !.doomed = @ \cup {x}, !.containers = @ \cup {x}]
           /\ UNCHANGED <<procs, harmed>>
        \/ /\ finished /\ kind[x] = "host"
           /\ sweepHost(x)
           /\ sw' = [looked EXCEPT !.doomed = @ \cup {x},
                                   !.spared = IF GuardHolds(x) THEN @ ELSE @ \cup {x}]
     /\ UNCHANGED <<mine, ids, loose>>

\* killFn, one exec for all the markers, which podman may fail; and a mutated
\* form that leaves the commands alone.
NoTargets == {}
Targets == sw.containers
SweepKill ==
  /\ sw.pc = "look" /\ sw.todo = {} /\ sw.containers # {}
  /\ \/ /\ KillMarked(Targets)
        /\ sw' = [sw EXCEPT !.pc = "drop", !.containers = {},
                            !.spared = @ \cup {x \in sw.containers : main[x] = "coming"}]
     \/ /\ sw' = [sw EXCEPT !.pc = "drop", !.containers = {}, !.spared = @ \cup sw.containers]
        /\ UNCHANGED procs
  /\ UNCHANGED <<mine, ids, loose, harmed>>

\* os.Remove of what was dealt with.
SweepDrop ==
  /\ sw.pc \in {"look", "drop"} /\ sw.todo = {} /\ sw.containers = {}
  /\ rec' = [x \in Runs |-> IF x \in sw.doomed THEN "none" ELSE rec[x]]
  /\ loose' = [x \in Runs |-> IF x \in sw.spared THEN "yes" ELSE loose[x]]
  /\ sw' = Idle
  /\ UNCHANGED <<kind, lerd, tries, known, procs, ids, harmed>>

-----------------------------------------------------------------------------
GuardSteps(x) ==
  \/ Begin(x) \/ Exec(x) \/ ExecFails(x) \/ Returned(x) \/ StopKill(x) \/ Again(x) \/ GiveUp(x)
  \/ markEnded(x) \/ Spawn(x) \/ RecordHost(x) \/ HostKill(x) \/ Reaped(x) \/ hostFinish(x)
  \/ DropRecord(x)
World(x) ==
  \/ Land(x) \/ Fork(x) \/ MainEnds(x) \/ KidEnds(x) \/ GuardEnds(x)
  \/ TakePid(x) \/ TakeGroup(x) \/ TakeGuardPid(x)
Sweep == Glob \/ (\E x \in Runs : Look(x)) \/ SweepKill \/ SweepDrop

GuardNext ==
  \/ \E x \in Runs : GuardSteps(x) \/ Stop(x) \/ LerdLeaves(x) \/ Crash(x) \/ World(x)
  \/ Sweep

GuardSpec == GuardInit /\ [][GuardNext]_guardVars
=============================================================================
