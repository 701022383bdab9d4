------------------------ MODULE DashboardCommandProps ------------------------
(* What the dashboard's command runs and the guard promise together: what        *)
(* CommandRunProps and ExecGuardProps state, and                                 *)
EXTENDS DashboardCommand, CommandRunProps, ExecGuardProps

\* A run whose lerd is gone or was told to stop ends, and a page that stays is
\* told: what still holds the command's output ends with its group or is swept,
\* unless nothing names it any more.
RunEnds ==
  \A p \in Pages :
    (Over(Lerd) \/ lerd[Lerd] = "stopping") ~>
      \/ status # "running" /\ pc[p] \in {"told", "away"}
      \/ loose[Lerd] = "yes" \/ Masked(Lerd)
=============================================================================
