------------------------- MODULE SiteRegistryProps -------------------------
(***************************************************************************)
(* What sharing sites.yaml must keep true.                                 *)
(***************************************************************************)
EXTENDS SiteRegistry

\* Under the lock a save is one step: it makes of the registry on disk what its
\* operation makes of it, and undoes nothing another process has written since it
\* read the file (lockSites, loadSitesFresh).  Except across a save without the lock.
Saves(a) == pc[a] = "save" /\ pc'[a] = "saved" /\ ~Bare(a)
SavesWhatItRead ==
  [][\A a \in Actors : Saves(a) /\ a \notin crossed =>
       file'.reg = Applied(op[a], file.reg)]_vars

\* What a save replaces is the newest backup, so that restoring that one undoes the
\* save (backupSitesFile).  Except where a save without the lock has come between.
UndoneByRestore ==
  [][\A a \in Actors : Saves(a) /\ a \notin crossed /\ file'.reg # file.reg =>
       Newest(backups).reg = file.reg]_vars

\* A cached registry that passes for the file is the file's, in every process
\* (LoadSites), but for two versions of one size in one tick of the clock.
Twin == <<file.at, Size(file.reg)>> \in past
CacheIsHonest == \A p \in Procs : Hit(p) => cache[p].reg = file.reg \/ Twin

\* Whoever waits for the lock gets it, though its holder may have failed or be killed.
LockComesFree == \A a \in Actors : pc[a] = "lock" ~> pc[a] # "lock"
=============================================================================
