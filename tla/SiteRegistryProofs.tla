------------------------- MODULE SiteRegistryProofs -------------------------
(***************************************************************************)
(* For any actors, processes, operations and any number of crashes: a save *)
(* under the lock undoes nobody's and is undone by its backup, and a cache *)
(* that passes for the file is the file's.                                 *)
(***************************************************************************)
EXTENDS SiteRegistryProps, FiniteSetTheorems, TLAPS

Points == {"idle", "stat", "fresh", "store", "loaded", "lock", "read", "keep", "save", "saved"}
IsFun(f, S) == f = [x \in S |-> f[x]]
Shape ==
  /\ pc \in [Actors -> Points] /\ IsFun(op, Actors) /\ IsFun(got, Actors) /\ IsFun(stamp, Actors)
  /\ IsFun(cache, Procs)
  /\ now \in Nat /\ file.at \in Nat
  /\ \A a \in Actors : pc[a] = "save" => stamp[a].at \in Nat

\* Whoever is past lockSites and has not returned holds the lock.
Locked(a) == pc[a] = "read" \/ (pc[a] \in {"keep", "save", "saved"} /\ ~Bare(a))
OneWriter == \A a \in Actors : Locked(a) => lock = a

\* What a writer is about to save is made of the registry on disk.
UpToDate ==
  \A a \in Actors : InHand(a) /\ ~Bare(a) /\ a \notin crossed => got[a] = Applied(op[a], file.reg)

\* A time and size once seen are those of a version replaced since, or of the file;
\* and what was read for them is then the file's.
Seen(s) == <<s.at, s.size>> \in past \/ (s.at = file.at /\ s.size = Size(file.reg))
MadeOf(s, reg) == <<s.at, s.size>> \in past \/ (s.at = file.at /\ s.size = Size(file.reg) /\ reg = file.reg)
CachesMatch ==
  /\ \A p \in Procs : cache[p] # NoCache => MadeOf(cache[p], cache[p].reg)
  /\ \A a \in Actors : pc[a] = "fresh" => Seen(stamp[a])
  /\ \A a \in Actors : pc[a] = "store" => MadeOf(stamp[a], got[a])

\* Backups are numbered as they are taken: of those of this second, if any, one has the
\* highest counter.  And what a writer is about to replace is the newest of them.
Numbered ==
  /\ \A b \in backups : b.at \in Nat /\ b.ctr \in Nat /\ b.at <= now
  /\ \/ \A b \in backups : b.at # now
     \/ \E b \in backups : b.at = now /\ \A c \in backups : c.at = now => c.ctr <= b.ctr
IsKept == backups # {} /\ Newest(backups).reg = file.reg
KeptFirst ==
  \A a \in Actors : pc[a] = "save" /\ ~Bare(a) /\ a \notin crossed /\ got[a] # file.reg => IsKept

IInv == Shape /\ OneWriter /\ UpToDate /\ CachesMatch /\ Numbered /\ KeptFirst

USE ActorsAssumption, NobodyAssumption, BoundsAssumption

-----------------------------------------------------------------------------

LEMMA InitInv == Init => IInv
BY DEF Init, IInv, Shape, Points, IsFun, OneWriter, Locked, UpToDate, InHand, CachesMatch, NoCache,
       Numbered, KeptFirst

LEMMA ShapeStep == Shape /\ [Next]_vars => Shape'
<1> SUFFICES ASSUME Shape, [Next]_vars PROVE Shape'
  OBVIOUS
<1> USE DEF Shape, Points, IsFun
<1>1. CASE UNCHANGED vars BY <1>1 DEF vars, disk, actors, bounds
<1>2. ASSUME NEW a \in Actors, Begin(a) PROVE Shape'
  BY <1>2 DEF Begin, Goes, disk
<1>3. ASSUME NEW a \in Actors, Step(a) PROVE Shape'
  <2> USE DEF disk, bounds, Goes
  <2>1. CASE Stat(a) BY <2>1 DEF Stat
  <2>2. CASE Fresh(a) BY <2>2 DEF Fresh
  <2>3. CASE Store(a) BY <2>3 DEF Store
  <2>4. CASE Use(a) BY <2>4 DEF Use
  <2>5. CASE Leave(a) BY <2>5 DEF Leave, Over, Forgotten
  <2>6. CASE Lock(a) BY <2>6 DEF Lock
  <2>7. CASE Read(a) BY <2>7 DEF Read
  <2>8. CASE ReadBackup(a) BY <2>8 DEF ReadBackup
  <2>9. CASE NotThere(a) BY <2>9 DEF NotThere, Over, Forgotten
  <2>10. CASE Backup(a) BY <2>10 DEF Backup
  <2>11. CASE Save(a) BY <2>11 DEF Save
  <2>12. CASE Done(a) BY <2>12 DEF Done, Over
  <2> QED BY <1>3, <2>1, <2>2, <2>3, <2>4, <2>5, <2>6, <2>7, <2>8, <2>9, <2>10, <2>11, <2>12 DEF Step
<1>4. CASE Tick BY <1>4 DEF Tick, disk, actors
<1>5. ASSUME NEW p \in Procs, Crash(p) PROVE Shape'
  BY <1>5 DEF Crash, disk
<1> QED BY <1>1, <1>2, <1>3, <1>4, <1>5 DEF Next

-----------------------------------------------------------------------------
(* The lock, and what is in hand under it. *)

LEMMA WriterStep == Shape /\ OneWriter /\ UpToDate /\ [Next]_vars => OneWriter' /\ UpToDate'
<1> SUFFICES ASSUME Shape, OneWriter, UpToDate, [Next]_vars PROVE OneWriter' /\ UpToDate'
  OBVIOUS
<1> USE DEF Shape, Points, IsFun, OneWriter, UpToDate, Locked, InHand, Bare
<1>1. CASE UNCHANGED vars BY <1>1 DEF vars, disk, actors, bounds
<1>2. ASSUME NEW a \in Actors, Begin(a) PROVE OneWriter' /\ UpToDate'
  BY <1>2 DEF Begin, Goes, disk
<1>3. ASSUME NEW a \in Actors, Step(a) PROVE OneWriter' /\ UpToDate'
  <2> USE DEF disk, bounds, Goes
  <2>1. CASE Stat(a) BY <2>1 DEF Stat
  <2>2. CASE Fresh(a) BY <2>2 DEF Fresh
  <2>3. CASE Store(a) BY <2>3 DEF Store
  <2>4. CASE Use(a) BY <2>4 DEF Use, Wants
  <2>5. CASE Leave(a) BY <2>5 DEF Leave, Over
  <2>6. CASE Lock(a) BY <2>6 DEF Lock, LockFree
  <2>7. CASE Read(a) BY <2>7 DEF Read, Current
  <2>8. CASE ReadBackup(a)
    <3>1. PICK b \in backups :
            /\ op' = [op EXCEPT ![a] = [kind |-> "write", reg |-> b.reg]]
            /\ got' = [got EXCEPT ![a] = b.reg]
      BY <2>8 DEF ReadBackup
    <3>2. op'[a] = [kind |-> "write", reg |-> b.reg] /\ got'[a] = b.reg
      BY <3>1
    <3>3. Applied(op'[a], file'.reg) = b.reg
      BY <3>2 DEF Applied
    <3>4. \A c \in Actors \ {a} : op'[c] = op[c] /\ got'[c] = got[c]
      BY <3>1
    <3>5. lock = a /\ lock' = a /\ file' = file /\ crossed' = crossed
      BY <2>8 DEF ReadBackup
    <3>6. pc'[a] = "keep" /\ \A c \in Actors \ {a} : pc'[c] = pc[c]
      BY <2>8 DEF ReadBackup
    <3>7. OneWriter'
      BY <3>4, <3>5, <3>6
    <3>8. \A c \in Actors \ {a} : (InHand(c) /\ ~Bare(c) /\ c \notin crossed => got[c] = Applied(op[c], file.reg))'
      BY <3>4, <3>5, <3>6 DEF Applied
    <3>9. got'[a] = Applied(op'[a], file'.reg)
      BY <3>2, <3>3
    <3> QED BY <3>7, <3>8, <3>9
  <2>9. CASE NotThere(a) BY <2>9 DEF NotThere, Over, Unlocked
  <2>10. CASE Backup(a) BY <2>10 DEF Backup
  <2>11. CASE Save(a) BY <2>11 DEF Save
  <2>12. CASE Done(a) BY <2>12 DEF Done, Over
  <2> QED BY <1>3, <2>1, <2>2, <2>3, <2>4, <2>5, <2>6, <2>7, <2>8, <2>9, <2>10, <2>11, <2>12 DEF Step
<1>4. CASE Tick BY <1>4 DEF Tick, disk, actors
<1>5. ASSUME NEW p \in Procs, Crash(p) PROVE OneWriter' /\ UpToDate'
  BY <1>5 DEF Crash, disk
<1> QED BY <1>1, <1>2, <1>3, <1>4, <1>5 DEF Next

-----------------------------------------------------------------------------
(* The caches. *)

LEMMA CacheStep == Shape /\ CachesMatch /\ [Next]_vars => CachesMatch'
<1> SUFFICES ASSUME Shape, CachesMatch, [Next]_vars PROVE CachesMatch'
  OBVIOUS
<1> USE DEF Shape, Points, IsFun, CachesMatch, Seen, MadeOf
<1>1. CASE UNCHANGED vars BY <1>1 DEF vars, disk, actors, bounds
<1>2. ASSUME NEW a \in Actors, Begin(a) PROVE CachesMatch'
  BY <1>2 DEF Begin, Goes, disk, Reads
<1>3. ASSUME NEW a \in Actors, Step(a) PROVE CachesMatch'
  <2> USE DEF disk, bounds, Goes
  <2>1. CASE Stat(a) BY <2>1 DEF Stat
  <2>2. CASE Fresh(a) BY <2>2 DEF Fresh
  <2>3. CASE Store(a) BY <2>3 DEF Store, Entry
  <2>4. CASE Use(a) BY <2>4 DEF Use
  <2>5. CASE Leave(a) BY <2>5 DEF Leave, Over, Forgotten
  <2>6. CASE Lock(a) BY <2>6 DEF Lock
  <2>7. CASE Read(a) BY <2>7 DEF Read
  <2>8. CASE ReadBackup(a) BY <2>8 DEF ReadBackup
  <2>9. CASE NotThere(a) BY <2>9 DEF NotThere, Over, Forgotten
  <2>10. CASE Backup(a) BY <2>10 DEF Backup
  <2>11. CASE Save(a) BY <2>11 DEF Save
  <2>12. CASE Done(a) BY <2>12 DEF Done, Over
  <2> QED BY <1>3, <2>1, <2>2, <2>3, <2>4, <2>5, <2>6, <2>7, <2>8, <2>9, <2>10, <2>11, <2>12 DEF Step
<1>4. CASE Tick BY <1>4 DEF Tick, disk, actors
<1>5. ASSUME NEW p \in Procs, Crash(p) PROVE CachesMatch'
  BY <1>5 DEF Crash, disk
<1> QED BY <1>1, <1>2, <1>3, <1>4, <1>5 DEF Next

-----------------------------------------------------------------------------
(* The backups. *)

\* The counter of a new backup is above those taken in the same second.
LEMMA NextIsHigher ==
  ASSUME Numbered
  PROVE  /\ NextCounter(now) \in Nat
         /\ \A b \in backups : b.at = now => b.ctr < NextCounter(now)
<1> DEFINE taken == {b.ctr : b \in {c \in backups : c.at = now}}
<1>1. taken \subseteq Nat
  BY DEF Numbered
<1>2. CASE \A b \in backups : b.at # now
  <2>1. taken = {}
    BY <1>2
  <2> QED BY <1>2, <2>1 DEF NextCounter
<1>3. CASE \E b \in backups : b.at = now /\ \A c \in backups : c.at = now => c.ctr <= b.ctr
  <2>1. \E n \in taken : \A k \in taken : k <= n
    BY <1>3
  <2>2. PICK high \in taken : high = (CHOOSE n \in taken : \A k \in taken : k <= n) /\ \A k \in taken : k <= high
    BY <2>1
  <2>3. NextCounter(now) = 1 + high
    BY <2>1, <2>2 DEF NextCounter
  <2>4. \A b \in backups : b.at = now => b.ctr \in taken
    OBVIOUS
  <2> HIDE DEF taken
  <2>5. high \in Nat /\ \A k \in taken : k \in Nat /\ k <= high
    BY <1>1, <2>2
  <2>6. \A k \in taken : k < 1 + high
    BY <2>5
  <2>7. NextCounter(now) \in Nat
    BY <2>3, <2>5
  <2>8. \A b \in backups : b.at = now => b.ctr < NextCounter(now)
    <3> SUFFICES ASSUME NEW b \in backups, b.at = now PROVE b.ctr < NextCounter(now)
      OBVIOUS
    <3>1. b.ctr \in taken
      BY <2>4
    <3> QED BY <2>3, <2>6, <3>1
  <2> QED BY <2>7, <2>8
<1> QED BY <1>2, <1>3 DEF Numbered

\* The one that is newer than all others survives the pruning, and is the newest.
LEMMA NewIsNewest ==
  ASSUME Numbered, NEW new, new.at = now, new.ctr = NextCounter(now), now \in Nat
  PROVE  /\ new \in Pruned(backups \cup {new}) /\ Pruned(backups \cup {new}) \subseteq backups \cup {new}
         /\ Newest(Pruned(backups \cup {new})) = new
<1> DEFINE kept == backups \cup {new}
<1>1. \A b \in backups : Older(b, new) /\ ~Older(new, b)
  BY NextIsHigher DEF Numbered, Older
<1>2. ~Older(new, new)
  BY NextIsHigher DEF Older
<1>3. {c \in kept : Older(new, c)} = {}
  BY <1>1, <1>2
<1>4. new \in Pruned(kept) /\ Pruned(kept) \subseteq kept
  BY <1>3, FS_EmptySet DEF Pruned
<1>5. \A c \in Pruned(kept) : c = new \/ Older(c, new)
  BY <1>1, <1>4
<1>6. \A b \in Pruned(kept) : (\A c \in Pruned(kept) : c = b \/ Older(c, b)) => b = new
  BY <1>1, <1>4
<1>7. Newest(Pruned(kept)) = new
  <2> HIDE DEF kept
  <2> QED BY <1>4, <1>5, <1>6 DEF Newest
<1> QED BY <1>4, <1>7

\* A backup keeps them numbered, and keeps the file's registry where it will be replaced.
LEMMA BackupKeeps ==
  ASSUME Shape, Numbered, NEW a \in Actors, Backup(a)
  PROVE  Numbered' /\ (IsKept => IsKept') /\ (got[a] # file.reg => IsKept')
<1>1. now' = now /\ file' = file /\ now \in Nat
  BY DEF Backup, bounds, Shape
<1>2. CASE backups' = backups
  <2>1. got[a] # file.reg => IsKept
    <3> DEFINE new == [at |-> now, ctr |-> NextCounter(now), reg |-> file.reg]
    <3>1. new.at = now /\ new.ctr = NextCounter(now)
      OBVIOUS
    <3>2. new \notin backups
      BY <3>1, NextIsHigher
    <3>3. file.reg = got[a] \/ IsKept \/ backups' = Pruned(backups \cup {new})
      BY DEF Backup, IsKept
    <3> HIDE DEF new
    <3> QED BY <1>1, <1>2, <3>1, <3>2, <3>3, NewIsNewest
  <2> QED BY <1>1, <1>2, <2>1 DEF Numbered, IsKept
<1>3. CASE backups' # backups
  <2> DEFINE new == [at |-> now, ctr |-> NextCounter(now), reg |-> file.reg]
  <2>1. new.at = now /\ new.ctr = NextCounter(now) /\ new.reg = file.reg
    OBVIOUS
  <2>2. backups' = Pruned(backups \cup {new})
    BY <1>3 DEF Backup
  <2> HIDE DEF new
  <2>3. new \in backups' /\ backups' \subseteq backups \cup {new} /\ Newest(backups') = new
    BY <1>1, <2>1, <2>2, NewIsNewest
  <2>4. IsKept'
    BY <1>1, <2>1, <2>3 DEF IsKept
  <2>5. Numbered'
    BY <1>1, <2>1, <2>3, NextIsHigher DEF Numbered
  <2> QED BY <2>4, <2>5
<1> QED BY <1>2, <1>3

LEMMA BackupStep == Shape /\ OneWriter /\ Numbered /\ KeptFirst /\ [Next]_vars => Numbered' /\ KeptFirst'
<1> SUFFICES ASSUME Shape, OneWriter, Numbered, KeptFirst, [Next]_vars PROVE Numbered' /\ KeptFirst'
  OBVIOUS
<1> USE DEF Points, IsFun, Bare
<1>1. CASE UNCHANGED vars BY <1>1 DEF vars, disk, actors, bounds, Numbered, KeptFirst, IsKept
<1>2. ASSUME NEW a \in Actors, Begin(a) PROVE Numbered' /\ KeptFirst'
  BY <1>2 DEF Begin, Goes, disk, Shape, Numbered, KeptFirst, IsKept
<1>3. ASSUME NEW a \in Actors, Step(a) PROVE Numbered' /\ KeptFirst'
  <2> USE DEF disk, bounds, Goes
  <2>1. CASE Backup(a)
    <3>1. Numbered' /\ (IsKept => IsKept') /\ (got[a] # file.reg => IsKept')
      BY <2>1, BackupKeeps
    <3>2. file' = file /\ got' = got /\ op' = op /\ crossed' = crossed
      BY <2>1 DEF Backup
    <3>3. \A b \in Actors : b # a => pc'[b] = pc[b]
      BY <2>1 DEF Backup, Shape
    <3>4. KeptFirst'
      BY <3>1, <3>2, <3>3 DEF KeptFirst
    <3> QED BY <3>1, <3>4
  <2>2. CASE Save(a)
    <3>1. Numbered'
      BY <2>2 DEF Save, Numbered
    <3>2. ASSUME NEW b \in Actors, pc'[b] = "save", ~Bare(b)' PROVE b \in crossed'
      BY <2>2, <3>2 DEF Save, Shape, OneWriter, Locked, InHand
    <3> QED BY <3>1, <3>2 DEF KeptFirst
  <2>3. CASE ~Backup(a) /\ ~Save(a)
    <3>1. UNCHANGED <<file, backups, now>>
      BY <1>3, <2>3 DEF Step, Stat, Fresh, Store, Use, Leave, Lock, Read, ReadBackup, NotThere, Done
    <3>2. \A b \in Actors : b # a => /\ pc'[b] = pc[b] /\ op'[b] = op[b] /\ got'[b] = got[b]
                                     /\ b \in crossed' <=> b \in crossed
      BY <1>3, <2>3 DEF Shape, Step, Stat, Fresh, Store, Use, Leave, Lock, Read, ReadBackup, NotThere, Done, Over
    <3>3. pc'[a] # "save"
      BY <1>3, <2>3 DEF Shape, Step, Stat, Fresh, Store, Use, Leave, Lock, Read, ReadBackup, NotThere, Done, Over
    <3> QED BY <3>1, <3>2, <3>3 DEF Numbered, KeptFirst, IsKept
  <2> QED BY <2>1, <2>2, <2>3
<1>4. CASE Tick
  BY <1>4 DEF Tick, disk, actors, Shape, Numbered, KeptFirst, IsKept
<1>5. ASSUME NEW p \in Procs, Crash(p) PROVE Numbered' /\ KeptFirst'
  BY <1>5 DEF Crash, disk, Shape, Numbered, KeptFirst, IsKept
<1> QED BY <1>1, <1>2, <1>3, <1>4, <1>5 DEF Next

LEMMA InvStep == IInv /\ [Next]_vars => IInv'
BY ShapeStep, WriterStep, CacheStep, BackupStep DEF IInv

-----------------------------------------------------------------------------

\* Nothing but Save takes an actor from its temporary file to the saved registry.
LEMMA SaveIsIt ==
  ASSUME IInv, [Next]_vars, NEW a \in Actors, Saves(a), a \notin crossed
  PROVE  /\ file'.reg = Applied(op[a], file.reg)
         /\ file'.reg # file.reg => Newest(backups).reg = file.reg
<1> USE DEF IInv, Shape, Points, IsFun, Saves, Goes
<1>1. Save(a)
  BY DEF Next, vars, actors, Begin, Step, Stat, Fresh, Store, Use, Leave, Lock, Read, ReadBackup, NotThere,
         Backup, Save, Done, Over, Tick, Crash
<1> QED BY <1>1 DEF Save, UpToDate, InHand, KeptFirst, IsKept

\* lockSites and loadSitesFresh: a save under the lock makes of the registry on disk what
\* its operation makes of it, whoever else reads, writes or is killed.
THEOREM SaveIsAtomic == Spec => SavesWhatItRead
<1>1. IInv /\ [Next]_vars =>
        [\A a \in Actors : Saves(a) /\ a \notin crossed => file'.reg = Applied(op[a], file.reg)]_vars
  BY SaveIsIt
<1> QED BY <1>1, InitInv, InvStep, PTL DEF Spec, SavesWhatItRead

\* backupSitesFile: what a save under the lock replaces is the newest backup, for any number
\* of backups kept and however many are taken in one second; so restoring that undoes it.
THEOREM RestoreUndoesSave == Spec => UndoneByRestore
<1>1. IInv /\ [Next]_vars =>
        [\A a \in Actors : Saves(a) /\ a \notin crossed /\ file'.reg # file.reg =>
           Newest(backups).reg = file.reg]_vars
  BY SaveIsIt
<1> QED BY <1>1, InitInv, InvStep, PTL DEF Spec, UndoneByRestore

\* LoadSites: a cached registry whose time and size are the file's is the file's.
THEOREM CacheKeepsUp == Spec => []CacheIsHonest
<1>1. IInv => CacheIsHonest
  BY DEF IInv, Shape, CachesMatch, MadeOf, CacheIsHonest, Hit, Twin, NoCache
<1> QED BY <1>1, InitInv, InvStep, PTL DEF Spec
=============================================================================
