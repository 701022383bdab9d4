-------------------------- MODULE DashboardCommand --------------------------
(***************************************************************************)
(* A command run of the dashboard whose lerd runs something under the      *)
(* guard: CommandRun and ExecGuard side by side, joined at the pipe.       *)
(*                                                                         *)
(* lerd-ui's cmd.Wait returns when lerd has exited and every process that  *)
(* inherited its output has closed it: the podman client, or what runs in  *)
(* the host group (internal/cli/php_exec.go and host_command.go pass       *)
(* os.Stdout on).  The guard of a group has no output of its own.          *)
(***************************************************************************)
EXTENDS CommandRun, ExecGuard

CONSTANT Lerd  \* the guarded run of the command's lerd
ASSUME LerdAssumption == Runs = {Lerd}

vars == <<runVars, guardVars>>

Init == RunInit /\ GuardInit

\* Who holds the write end of the command's output.
LerdUp == command = "up" /\ ~Over(Lerd)
ClientHolds == client[Lerd] = "up"
GroupHolds == kind[Lerd] = "host" /\ (main[Lerd] = "up" \/ kid[Lerd] = "yes")
OutputHeld == ClientHolds \/ GroupHolds

\* lerd may exit without a guarded command, and one that was killed fails.
LerdExited == lerd[Lerd] \in {"absent", "gone", "killed"}
CommandExits ==
  /\ LerdExited /\ ~OutputHeld
  /\ Exit
  /\ lerd[Lerd] = "killed" => result' = "err"
  /\ UNCHANGED guardVars

CommandWrites ==
  /\ LerdUp \/ OutputHeld
  /\ Write
  /\ UNCHANGED guardVars

RunPart ==
  /\ \/ Start \/ Runner \/ sweep
     \/ \E p \in Pages : Open(p) \/ Stream(p) \/ LeaveRun(p)
  /\ UNCHANGED guardVars

\* Nothing of lerd happens before the command is started or once it has exited
\* without a guarded run; what it left lives on.
GuardPart ==
  /\ command = "up" \/ lerd[Lerd] # "absent"
  /\ GuardNext
  /\ UNCHANGED runVars

Next == RunPart \/ CommandWrites \/ CommandExits \/ GuardPart

Spec == Init /\ [][Next]_vars

\* The goroutines of lerd-ui and of lerd, and the minute ticker, run on: a lerd that
\* is done exits.  A command need never end, a page need neither come nor leave.
LerdSteps == GuardSteps(Lerd) \/ LerdLeaves(Lerd)
Fairness ==
  /\ WF_vars((Runner /\ UNCHANGED guardVars) \/ CommandExits)
  /\ \A p \in Pages : WF_vars(Stream(p) /\ UNCHANGED guardVars)
  /\ WF_vars(Sweep /\ UNCHANGED runVars)
  /\ WF_vars(LerdSteps /\ command = "up" /\ UNCHANGED runVars)
FairSpec == Spec /\ Fairness
=============================================================================
