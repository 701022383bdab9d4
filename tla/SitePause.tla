------------------------------ MODULE SitePause ------------------------------
(***************************************************************************)
(* `lerd pause` and `lerd unpause` (internal/cli/pause.go) beside the idle *)
(* engine.  A pause stops the workers of a site and remembers them in the  *)
(* site's record; the record it writes back is the one it read at its      *)
(* start, so that what the engine wrote in between is undone.  The engine  *)
(* leaves a paused site to itself only where the tick begins: jobs,        *)
(* activity and drains do not look at Paused.                              *)
(*                                                                         *)
(* Data.  The workers of a worktree are those it is opted in to.  What one *)
(* phase of a command stops or starts is one step; vhosts, containers and  *)
(* the stop of unused services are left out.                               *)
(* Bounds.  MaxPauses runs of pause; one command at a time works on a      *)
(* site.                                                                   *)
(***************************************************************************)
EXTENDS IdleEngine

CONSTANT MaxPauses  \* bound: runs of `lerd pause`

ASSUME PausesAssumption == MaxPauses \in Nat

VARIABLES
  parked,   \* on disk: PausedWorkers
  command,  \* the pause or unpause at work on each site
  pauses    \* runs of `lerd pause`

pausing == <<parked, command, pauses>>
allVars == <<vars, pausing>>

\* pc: where the command is; caught: the workers it has to stop or to start;
\* copy, pin: IdleSuspendedWorkers (of the site and its worktrees) and Pinned
\* in the record it read.
Command == [pc : {"rest", "collect", "stop", "save", "worktrees", "restart", "resume", "write"},
            caught : SUBSET Workers, copy : [Keys -> SUBSET Workers], pin : SUBSET Sites]

Resting == [pc |-> "rest", caught |-> {}, copy |-> [k \in Keys |-> {}], pin |-> {}]

PauseInit ==
  /\ Init
  /\ parked = [s \in Sites |-> {}]
  /\ command = [s \in Sites |-> Resting]
  /\ pauses = 0

-----------------------------------------------------------------------------
(* What the commands do to the registry. *)

\* config.FindSite: a copy of the record, for all that follows.
FindSite(s, pc, caught) ==
  command' = [command EXCEPT ![s] =
    [pc |-> pc, caught |-> caught, pin |-> pinned \cap {s},
     copy |-> [k \in Keys |-> IF SiteOf(k) = s THEN list[k] ELSE {}]]]

\* config.AddSite: the whole record, as it was read but for Paused and
\* PausedWorkers.
AddSite(s, isPaused, workers) ==
  /\ list' = [k \in Keys |-> IF SiteOf(k) = s THEN command[s].copy[k] ELSE list[k]]
  /\ pinned' = (pinned \ {s}) \cup command[s].pin
  /\ paused' = IF isPaused THEN paused \cup {s} ELSE paused \ {s}
  /\ parked' = [parked EXCEPT ![s] = workers]
  /\ UNCHANGED <<enabled, declared>>

At(s, pc) == command[s].pc = pc
To(s, pc) == command' = [command EXCEPT ![s].pc = pc]

-----------------------------------------------------------------------------
(* PauseSite. *)

Pause(s) ==
  /\ pauses < MaxPauses /\ At(s, "rest") /\ s \notin paused
  /\ FindSite(s, "collect", {})
  /\ pauses' = pauses + 1
  /\ UNCHANGED <<disk, machine, parked>>

\* collectRunningWorkers.
CollectWorkers(s) ==
  /\ At(s, "collect")
  /\ command' = [command EXCEPT ![s].pc = "stop", ![s].caught = running[s]]
  /\ UNCHANGED <<disk, machine, parked, pauses>>

\* stopWorkersByName: .lerd.yaml keeps them.
StopWorkers(s) ==
  /\ At(s, "stop")
  /\ running' = [running EXCEPT ![s] = @ \ command[s].caught]
  /\ To(s, "save")
  /\ UNCHANGED <<disk, checkouts, parked, pauses>>

\* The page or its vhost cannot be written: the error returns with the workers
\* stopped and nothing saved.
PauseFails(s) ==
  /\ At(s, "save")
  /\ command' = [command EXCEPT ![s] = Resting]
  /\ UNCHANGED <<disk, machine, parked, pauses>>

SavePaused(s) ==
  /\ At(s, "save")
  /\ AddSite(s, TRUE, command[s].caught)
  /\ To(s, "worktrees")
  /\ UNCHANGED <<machine, pauses>>

\* pauseWorktrees.
StopWorktrees(s) ==
  /\ At(s, "worktrees")
  /\ running' = [k \in Keys |-> IF k \in checkouts /\ ParentOf[k] = s THEN {} ELSE running[k]]
  /\ command' = [command EXCEPT ![s] = Resting]
  /\ UNCHANGED <<disk, checkouts, parked, pauses>>

-----------------------------------------------------------------------------
(* UnpauseSite. *)

Unpause(s) ==
  /\ At(s, "rest") /\ s \in paused
  /\ FindSite(s, "restart", parked[s])
  /\ UNCHANGED <<disk, machine, parked, pauses>>

\* worktreeWorkersToStart: those the engine has put to sleep stay down, by the
\* record that was read.
ToStart(s, k) == WorkersOf[k] \ command[s].copy[k]

\* restartWorktreeWorkers: each start clears its worker's mark.
RestartWorktrees(s) ==
  LET started == [k \in Keys |-> IF k \in checkouts /\ ParentOf[k] = s THEN ToStart(s, k) ELSE {}]
  IN /\ At(s, "restart")
     /\ running' = [k \in Keys |-> running[k] \cup started[k]]
     /\ list' = [k \in Keys |-> list[k] \ started[k]]
     /\ To(s, "resume")
     /\ UNCHANGED <<enabled, pinned, paused, declared, checkouts, parked, pauses>>

\* resumeWorkersByName: each start clears its worker's mark and records it in
\* .lerd.yaml.
ResumeParked(s) ==
  LET workers == command[s].caught
  IN /\ At(s, "resume")
     /\ running' = [running EXCEPT ![s] = @ \cup workers]
     /\ list' = [list EXCEPT ![s] = @ \ workers]
     /\ declared' = [declared EXCEPT ![s] = @ \cup (workers \ AppWorkers)]
     /\ To(s, "write")
     /\ UNCHANGED <<enabled, pinned, paused, checkouts, parked, pauses>>

SaveUnpaused(s) ==
  /\ At(s, "write")
  /\ AddSite(s, FALSE, {})
  /\ command' = [command EXCEPT ![s] = Resting]
  /\ UNCHANGED <<machine, pauses>>

-----------------------------------------------------------------------------
PauseStep(s) ==
  \/ CollectWorkers(s) \/ StopWorkers(s) \/ PauseFails(s) \/ SavePaused(s) \/ StopWorktrees(s)
  \/ RestartWorktrees(s) \/ ResumeParked(s) \/ SaveUnpaused(s)

Commands ==
  /\ \E s \in Sites : Pause(s) \/ Unpause(s) \/ PauseStep(s)
  /\ UNCHANGED <<watcher, cli>>

\* A step of the engine or of another command.
Engine == Next /\ UNCHANGED pausing

PauseNext == Commands \/ Engine

PauseSpec == PauseInit /\ [][PauseNext]_allVars

\* As FairSpec; and a command that has begun goes on.
FairPauseSpec ==
  /\ PauseSpec
  /\ \A k \in Keys :
       /\ WF_allVars((\E j \in jobs : j.key = k /\ JobStep(j)) /\ UNCHANGED pausing)
       /\ WF_allVars(UserStarted(k) /\ UNCHANGED <<watcher, pausing>>)
  /\ WF_allVars((\E t \in tickers : t.ctx = "live" /\ TickStep(t)) /\ UNCHANGED pausing)
  /\ WF_allVars((\E t \in tickers : t.ctx = "cancelled" /\ TickStep(t)) /\ UNCHANGED pausing)
  /\ WF_allVars((\E d \in drains : DrainStep(d) /\ ~DrainGivesUp(d)) /\ UNCHANGED pausing)
  /\ WF_allVars(Dispatch /\ UNCHANGED pausing) /\ WF_allVars(Boot /\ UNCHANGED pausing)
  /\ \A s \in Sites : WF_allVars(PauseStep(s) /\ UNCHANGED <<watcher, cli>>)
=============================================================================
