--------------------------- MODULE ExecGuardProps ---------------------------
(* What the guard promises of the processes lerd starts. *)
EXTENDS ExecGuard

Places == {"absent", "recorded", "spawned", "waiting", "stopping", "pausing", "draining", "marking",
           "finishing", "dropping", "returned", "gone", "killed"}
YesNo == {"no", "yes"}
SweepState ==
  [pc : {"idle", "look", "drop"}, todo : SUBSET Runs, doomed : SUBSET Runs,
   containers : SUBSET Runs, spared : SUBSET Runs]

\* Type correctness.
RunsOK ==
  /\ kind \in [Runs -> {"container", "host"}] /\ lerd \in [Runs -> Places]
  /\ tries \in [Runs -> 0 .. killAttempts]
  /\ rec \in [Runs -> {"none", "live", "ended"}] /\ known \in [Runs -> YesNo]
ProcsOK ==
  /\ client \in [Runs -> {"none", "up", "gone"}] /\ main \in [Runs -> {"none", "coming", "up", "gone"}]
  /\ kid \in [Runs -> YesNo] /\ guard \in [Runs -> {"none", "up", "gone"}]
WorldOK ==
  /\ pidTaken \in [Runs -> YesNo] /\ groupTaken \in [Runs -> YesNo]
  /\ guardPid \in [Runs -> {"no", "elsewhere", "inside"}]
  /\ loose \in [Runs -> YesNo] /\ harmed \in SUBSET {"run", "sweep"}
  /\ sw \in SweepState
GuardTypeOK == RunsOK /\ ProcsOK /\ WorldOK

\* The sweep never ends a command whose run is still in progress: between its
\* reading of a record and its kill the run may end, never come back.
Going(x) == lerd[x] \in {"recorded", "spawned", "waiting", "stopping", "pausing", "draining"}
SweepSparesRuns == \A x \in sw.doomed : ~Going(x)

\* A sweep signals a group whose id another program was given only when one of
\* that program's own processes was given the guard's pid as well, which sweepHost
\* cannot tell from the guard: a pid that is in use is not enough for it.  A run's
\* own end, which does not ask, does so only when its guard is gone or never was.
StrangersSpared ==
  /\ "sweep" \in harmed => \E x \in Runs : guardPid[x] = "inside"
  /\ "run" \in harmed => \E x \in Runs : kind[x] = "host" /\ guard[x] # "up"

\* What a run leaves in its container, or in its group, ends: a record whose lerd
\* is gone or that is marked ended leads to a kill that reaches everything, also
\* when the pid is used again.  Not when the kill failed or came before the
\* command had started inside (loose), and not while a process has the pid of a
\* record without a start time.
Masked(x) == rec[x] = "live" /\ known[x] = "no" /\ pidTaken[x] = "yes"
Sweepable(x) == rec[x] = "ended" \/ (rec[x] = "live" /\ Over(x))
LeftoversEnd == \A x \in Runs : Sweepable(x) ~> (~Left(x) \/ loose[x] = "yes" \/ Masked(x))
=============================================================================
