---------------------------- MODULE SiteRegistry ----------------------------
(***************************************************************************)
(* sites.yaml: read, changed and written back whole by the watcher,        *)
(* lerd-ui and the lerd command (internal/config/site.go, site_lock.go,    *)
(* site_backup.go).                                                        *)
(*                                                                         *)
(* Data.  A site is its name and two fields: `idle` stands for what the    *)
(* watcher keeps in the record, `user` for what commands change (paused,   *)
(* pinned, secured).  A field that is set makes the file longer.  One      *)
(* clock serves the file's times and the names of the backups; a tick is   *)
(* as long as any number of steps.                                         *)
(* Left out: files that do not parse, disks that are full, clocks that go  *)
(* back, the same backup name taken by two processes at once, a lock file  *)
(* that cannot be opened (the operation returns), and the limit of 999     *)
(* backups in a second, past which a save goes on without one.             *)
(* Bounds.  MaxOps operations begin, MaxCrashes processes are killed and   *)
(* the clock ticks MaxTicks times.                                         *)
(***************************************************************************)
EXTENDS Integers, Sequences, FiniteSets

CONSTANTS
  Actors,     \* goroutines that use the registry
  Procs,      \* processes
  ProcOf,     \* the process of each actor
  Daemons,    \* processes that stay: a command's ends with its operation
  Does,       \* the operations each actor may run
  First,      \* the registry to begin with
  Keep,       \* sitesBackupKeep
  MaxOps, MaxCrashes, MaxTicks \* bounds

None == [kind |-> "none"]
ASSUME ActorsAssumption == ProcOf \in [Actors -> Procs] /\ Daemons \subseteq Procs
ASSUME NobodyAssumption == "nobody" \notin Actors
ASSUME OpsAssumption == \A a \in Actors : None \notin Does[a]
ASSUME BoundsAssumption == Keep \in Nat \ {0} /\ MaxOps \in Nat /\ MaxCrashes \in Nat /\ MaxTicks \in Nat

VARIABLES
  file,    \* sites.yaml: its registry and its time
  backups, \* the kept registries, by time and counter
  lock,    \* who holds siteWriteMu and the flock on sites.lock
  cache,   \* sitesCache, sitesCacheAt and sitesCacheSz of each process
  pc, op,  \* where each actor is, and in which operation
  got,     \* the registry each has in hand
  stamp,   \* the time and size of its Stat; the time of its temporary file
  now,     \* the clock
  past,    \* history: times and sizes of the versions that were replaced
  crossed, \* history: actors that had the registry in hand when it was saved without the lock
  begun, crashes \* bounds

disk == <<file, backups, past>>
actors == <<pc, op, got, stamp>>
bounds == <<now, begun, crashes>>
vars == <<disk, lock, cache, actors, crossed, bounds>>

NoCache == [reg |-> <<>>, at |-> -1, size |-> 0]
NoStamp == [at |-> -1, size |-> 0]

Init ==
  /\ file = [reg |-> First, at |-> 0] /\ backups = {} /\ lock = "nobody"
  /\ cache = [p \in Procs |-> NoCache]
  /\ pc = [a \in Actors |-> "idle"] /\ op = [a \in Actors |-> None]
  /\ got = [a \in Actors |-> <<>>] /\ stamp = [a \in Actors |-> NoStamp]
  /\ now = 0 /\ past = {} /\ crossed = {} /\ begun = 0 /\ crashes = 0

-----------------------------------------------------------------------------
(* Registries, and what each operation makes of one. *)

Has(reg, n) == \E i \in 1..Len(reg) : reg[i].name = n
Record(reg, n) == reg[CHOOSE i \in 1..Len(reg) : reg[i].name = n]
Size(reg) ==
  Len(reg) + Cardinality({i \in 1..Len(reg) : reg[i].idle}) + Cardinality({i \in 1..Len(reg) : reg[i].user})

Put(reg, i, field, v) ==
  IF field = "idle" THEN [reg EXCEPT ![i].idle = v] ELSE [reg EXCEPT ![i].user = v]
SetField(reg, n, field, v) ==
  LET i == CHOOSE k \in 1..Len(reg) : reg[k].name = n IN Put(reg, i, field, v)
\* AddSite: in its place, or at the end.
Stored(reg, site) ==
  IF Has(reg, site.name)
  THEN [i \in 1..Len(reg) |-> IF reg[i].name = site.name THEN site ELSE reg[i]]
  ELSE Append(reg, site)
Without(reg, n) == SelectSeq(reg, LAMBDA s : s.name # n)
\* ReorderSites: the named ones first, and nobody dropped; the order names nobody twice.
Reordered(reg, order) ==
  LET known == SelectSeq(order, LAMBDA n : Has(reg, n))
  IN [i \in 1..Len(known) |-> Record(reg, known[i])]
     \o SelectSeq(reg, LAMBDA s : \A i \in 1..Len(order) : order[i] # s.name)

\* Backups sort by their names: the second they were taken in, and a counter.
Older(b, c) == b.at < c.at \/ (b.at = c.at /\ b.ctr < c.ctr)
Newest(kept) == CHOOSE b \in kept : \A c \in kept : c = b \/ Older(c, b)
\* uniqueSitesBackupPath: never a freed one.  A mutated form takes the first free.
FirstFree(at) == CHOOSE n \in 0..Cardinality(backups) :
  /\ \A b \in backups : b.at = at => b.ctr # n
  /\ \A k \in 0..(n-1) : \E b \in backups : b.at = at /\ b.ctr = k
NextCounter(at) ==
  LET taken == {b.ctr : b \in {c \in backups : c.at = at}}
  IN IF taken = {} THEN 0 ELSE 1 + CHOOSE n \in taken : \A k \in taken : k <= n
Pruned(kept) == {b \in kept : Cardinality({c \in kept : Older(b, c)}) < Keep}

\* What a save of each operation makes of the registry it has read under the lock.
\* A repair has read it before, and takes no lock.
Finds(o, reg) == o.kind \in {"set", "repair"} => Has(reg, o.site)
Applied(o, reg) ==
  CASE o.kind = "set"     -> SetField(reg, o.site, o.field, o.value)
    [] o.kind = "add"     -> Stored(reg, o.record)
    [] o.kind = "remove"  -> Without(reg, o.site)
    [] o.kind = "reorder" -> Reordered(reg, o.order)
    [] o.kind = "write"   -> o.reg
    [] o.kind = "repair"  -> SetField(reg, o.site, "user", FALSE)

-----------------------------------------------------------------------------
(* Steps of an actor. *)

Goes(a, where) == pc' = [pc EXCEPT ![a] = where]
\* The operation is over, and with it the process of a command.
Over(a) ==
  /\ Goes(a, "idle")
  /\ op' = [op EXCEPT ![a] = None] /\ got' = [got EXCEPT ![a] = <<>>]
  /\ stamp' = [stamp EXCEPT ![a] = NoStamp]
  /\ crossed' = crossed \ {a}
Forgotten(p) == IF p \in Daemons THEN cache ELSE [cache EXCEPT ![p] = NoCache]

Reads == {"load", "pause", "repair"}
Begin(a) ==
  /\ pc[a] = "idle" /\ begun < MaxOps
  /\ begun' = begun + 1
  /\ \E o \in Does[a] : op' = [op EXCEPT ![a] = o] /\ Goes(a, IF o.kind \in Reads THEN "stat" ELSE "lock")
  /\ UNCHANGED <<disk, lock, cache, got, stamp, now, crossed, crashes>>

\* LoadSites: the cache, when the file's time and size are the cached ones.
Hit(p) == cache[p].at = file.at /\ cache[p].size = Size(file.reg)
Stat(a) ==
  /\ pc[a] = "stat"
  /\ IF Hit(ProcOf[a])
     THEN Goes(a, "loaded") /\ got' = [got EXCEPT ![a] = cache[ProcOf[a]].reg] /\ UNCHANGED stamp
     ELSE Goes(a, "fresh") /\ stamp' = [stamp EXCEPT ![a] = [at |-> file.at, size |-> Size(file.reg)]]
          /\ UNCHANGED got
  /\ UNCHANGED <<disk, lock, cache, op, crossed, bounds>>

Fresh(a) ==
  /\ pc[a] = "fresh"
  /\ got' = [got EXCEPT ![a] = file.reg]
  /\ Goes(a, "store")
  /\ UNCHANGED <<disk, lock, cache, op, stamp, crossed, bounds>>

\* What is stored goes by the Stat that came before the read.  A mutated form asks after it.
StatAfter(a) == [reg |-> got[a], at |-> file.at, size |-> Size(file.reg)]
Entry(a) == [reg |-> got[a], at |-> stamp[a].at, size |-> stamp[a].size]
Store(a) ==
  /\ pc[a] = "store"
  /\ cache' = [cache EXCEPT ![ProcOf[a]] = Entry(a)]
  /\ stamp' = [stamp EXCEPT ![a] = NoStamp]
  /\ Goes(a, "loaded")
  /\ UNCHANGED <<disk, lock, op, got, crossed, bounds>>

\* FindSite, the work of seconds, and AddSite of the record as it was, but for what a
\* pause is about; or a repair of what it finds.  Or there is nothing to do.
Wants(a) ==
  /\ op[a].kind \in {"pause", "repair"} /\ Has(got[a], op[a].site)
  /\ Record(got[a], op[a].site).user # op[a].value
Use(a) ==
  /\ pc[a] = "loaded" /\ Wants(a)
  /\ IF op[a].kind = "pause"
     THEN /\ op' = [op EXCEPT ![a] =
               [kind |-> "add", record |-> [Record(got[a], op[a].site) EXCEPT !.user = op[a].value]]]
          /\ got' = [got EXCEPT ![a] = <<>>] /\ Goes(a, "lock")
     ELSE got' = [got EXCEPT ![a] = Applied(op[a], got[a])] /\ Goes(a, "keep") /\ UNCHANGED op
  /\ UNCHANGED <<disk, lock, cache, stamp, crossed, bounds>>
Leave(a) ==
  /\ pc[a] = "loaded" /\ ~Wants(a)
  /\ Over(a)
  /\ cache' = Forgotten(ProcOf[a])
  /\ UNCHANGED <<disk, lock, bounds>>

\* lockSites.  A mutated form has siteWriteMu alone, which other processes do not see.
OwnProcess(a) == lock # "nobody" => ProcOf[lock] # ProcOf[a]
LockFree(a) == lock = "nobody"
Lock(a) ==
  /\ pc[a] = "lock" /\ LockFree(a)
  /\ lock' = a /\ Goes(a, "read")
  /\ UNCHANGED <<disk, cache, op, got, stamp, crossed, bounds>>

\* loadSitesFresh and the change; or the site is not there, and the lock goes.
\* Mutated forms read through the cache, and forget the lock.
Cached(a) == IF Hit(ProcOf[a]) THEN cache[ProcOf[a]].reg ELSE file.reg
Current(a) == file.reg
StillHeld(a) == a
Unlocked(a) == "nobody"
Read(a) ==
  /\ pc[a] = "read" /\ op[a].kind # "restore" /\ Finds(op[a], Current(a))
  /\ got' = [got EXCEPT ![a] = Applied(op[a], Current(a))]
  /\ Goes(a, "keep")
  /\ UNCHANGED <<disk, lock, cache, op, stamp, crossed, bounds>>
\* RestoreSitesBackup.
ReadBackup(a) ==
  /\ pc[a] = "read" /\ op[a].kind = "restore"
  /\ \E b \in backups : /\ op' = [op EXCEPT ![a] = [kind |-> "write", reg |-> b.reg]]
                        /\ got' = [got EXCEPT ![a] = b.reg]
  /\ Goes(a, "keep")
  /\ UNCHANGED <<disk, lock, cache, stamp, crossed, bounds>>
NotThere(a) ==
  /\ pc[a] = "read"
  /\ IF op[a].kind = "restore" THEN backups = {} ELSE ~Finds(op[a], Current(a))
  /\ Over(a)
  /\ lock' = Unlocked(a) /\ cache' = Forgotten(ProcOf[a])
  /\ UNCHANGED <<disk, bounds>>

\* SaveSites: the registry on disk is kept, unless nothing changes or it is the newest
\* kept already; the new one is written beside it ...
Backup(a) ==
  /\ pc[a] = "keep"
  /\ LET kept == backups \cup {[at |-> now, ctr |-> NextCounter(now), reg |-> file.reg]}
     IN backups' = IF file.reg = got[a] \/ (backups # {} /\ Newest(backups).reg = file.reg)
                   THEN backups ELSE Pruned(kept)
  /\ stamp' = [stamp EXCEPT ![a] = [at |-> now, size |-> 0]]
  /\ Goes(a, "save")
  /\ UNCHANGED <<file, past, lock, cache, op, got, crossed, bounds>>

\* ... and renamed over it.  A repair has no lock: whoever has the registry in hand
\* will undo it, or be undone.
Bare(a) == op[a].kind = "repair"
InHand(a) == pc[a] \in {"keep", "save"}
Save(a) ==
  /\ pc[a] = "save"
  /\ file' = [reg |-> got[a], at |-> stamp[a].at]
  /\ past' = past \cup {<<file.at, Size(file.reg)>>}
  /\ crossed' = IF Bare(a) THEN crossed \cup {b \in Actors \ {a} : InHand(b)} ELSE crossed
  /\ Goes(a, "saved")
  /\ UNCHANGED <<backups, lock, cache, op, got, stamp, bounds>>

\* invalidateSitesCache, and the lock goes.
Done(a) ==
  /\ pc[a] = "saved"
  /\ Over(a)
  /\ lock' = IF Bare(a) THEN lock ELSE "nobody"
  /\ cache' = [cache EXCEPT ![ProcOf[a]] = NoCache]
  /\ UNCHANGED <<disk, bounds>>

Step(a) ==
  \/ Stat(a) \/ Fresh(a) \/ Store(a) \/ Use(a) \/ Leave(a)
  \/ Lock(a) \/ Read(a) \/ ReadBackup(a) \/ NotThere(a)
  \/ Backup(a) \/ Save(a) \/ Done(a)

-----------------------------------------------------------------------------

Tick ==
  /\ now < MaxTicks
  /\ now' = now + 1
  /\ UNCHANGED <<disk, lock, cache, actors, crossed, begun, crashes>>

\* A process is killed: the kernel lets its flock go.
Crash(p) ==
  /\ crashes < MaxCrashes /\ crashes' = crashes + 1
  /\ \E a \in Actors : ProcOf[a] = p /\ pc[a] # "idle"
  /\ LET dead == {a \in Actors : ProcOf[a] = p}
     IN /\ pc' = [a \in Actors |-> IF a \in dead THEN "idle" ELSE pc[a]]
        /\ op' = [a \in Actors |-> IF a \in dead THEN None ELSE op[a]]
        /\ got' = [a \in Actors |-> IF a \in dead THEN <<>> ELSE got[a]]
        /\ stamp' = [a \in Actors |-> IF a \in dead THEN NoStamp ELSE stamp[a]]
        /\ lock' = IF lock \in dead THEN "nobody" ELSE lock
        /\ crossed' = crossed \ dead
  /\ cache' = [cache EXCEPT ![p] = NoCache]
  /\ UNCHANGED <<disk, now, begun>>

Next == (\E a \in Actors : Begin(a) \/ Step(a)) \/ Tick \/ \E p \in Procs : Crash(p)

Spec == Init /\ [][Next]_vars
Fairness == \A a \in Actors : WF_vars(Step(a))
FairSpec == Spec /\ Fairness
=============================================================================
