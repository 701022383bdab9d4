-------------------------- MODULE ServiceImageProps --------------------------
(* What the operations on a service's image promise. *)
EXTENDS ServiceImage

Locked == {"choose", "store", "previous", "engine", "dump", "stop", "swap", "mkdir",
           "pull", "config", "quadlet", "restart", "wait", "restore", "record",
           "undo_data", "undo_rename", "undo_config", "undo_quadlet", "undo_start"}

\* Types; a lock names one of its own process's callers, and who is past
\* lockService holds it (locks.go).
TypeOK ==
  /\ config \in Config /\ quadlet \in Images /\ unit \in Images \cup {None}
  /\ dirs \in Seq(Dir \cup {None}) /\ data \in 0..Len(dirs) /\ mount \in 0..Len(dirs)
  /\ data # 0 => dirs[data] # None
  /\ lock \in [Processes -> Callers \cup {None}]
  /\ offer \in [Processes -> Images \cup {None}]
  /\ pc \in [Callers -> Locked \cup {"idle", "lock", "poll"}]
  /\ op \in [Callers -> {"none", "update", "migrate", "rollback"}]
  /\ image \in [Callers -> Images \cup {None}]
  /\ saved \in [Callers -> Config \cup {None}]
  /\ dump \in [Callers -> {"none", "all"}] /\ backup \in [Callers -> 0..Len(dirs)]
  /\ ops \in 0..MaxOps /\ again \in {"yes", "no"}
  /\ \A c \in Callers : pc[c] \in Locked => lock[ProcessOf[c]] = c

\* Whatever fails or is killed, the directory that holds the user's rows, or a
\* directory they were restored into, is on disk (swapDataDirAside,
\* restoreDataDirFromBackup).
DataKept == \E n \in DOMAIN dirs : dirs[n] # None /\ dirs[n].rows = "all"

Fits(i, n) == n = 0 \/ dirs[n] = None \/ dirs[n].line \in {None, LineOf[i]}

\* No engine runs on a directory another line wrote: the gate keeps an update on
\* its line, a migrate brings an empty directory, and a rollback is refused after
\* one (enforceMajorUpgradeGate, RollbackService).
EngineFitsData == (again = "no" /\ unit # None) => Fits(unit, mount)

\* EngineFitsData, with updates to the image that is already pinned.
AlwaysFits == unit # None => Fits(unit, mount)

\* When no operation is under way, the pin, the quadlet and the directory agree,
\* whatever failed in the last one (lockService, persistImageChoice).
Consistent ==
  (again = "no" /\ \A p \in Processes : lock[p] = None) =>
     config.image \in {None, quadlet} /\ Fits(quadlet, data)

\* A migrate that is undone leaves the entry it found and, as Consistent has it, a
\* quadlet that fits the directory it put back (serviceConfigSnapshot, abortMigrate).
AbortUndoes ==
  [][\A c \in Callers :
       pc[c] = "undo_start" /\ pc'[c] = "idle" /\ saved[c] # None =>
          config' = saved[c] /\ (again = "no" => Fits(quadlet, data)')]_vars
=============================================================================
