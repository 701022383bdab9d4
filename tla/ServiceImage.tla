---------------------------- MODULE ServiceImage ----------------------------
(***************************************************************************)
(* Update, rollback and migrate of one database service                    *)
(* (internal/serviceops): what config.yaml, the quadlet, the running       *)
(* container and the data directory are at each step of callers in several *)
(* processes, each with its own lockService and its own cache of offers.   *)
(*                                                                         *)
(* Data.  An image is on a line (its major); a directory has the line that *)
(* wrote it and all of the user's rows or none, and a number of its own    *)
(* whatever its path, since a container stays on the directory it was      *)
(* started on.  The service is a default preset with a migrator and        *)
(* without a data_version_file (mysql).                                    *)
(* Merged.  Rewriting a quadlet with its daemon-reload, and a start with   *)
(* the rewrite that precedes it; a quadlet that cannot be written with the *)
(* config entry put back.                                                  *)
(* Bound.  MaxOps operations.                                              *)
(***************************************************************************)
EXTENDS Naturals, Sequences

CONSTANTS
  Callers,    \* CLI commands, HTTP requests, MCP calls
  Processes,
  ProcessOf,  \* the process of each caller
  Images,
  Lines,
  LineOf,     \* the line of each image
  NewerOf,    \* MaybeNewerTag: the newer image the registry offers, or None
  Installed,  \* the image installed at the start
  Pin,        \* the image config.yaml names at the start, or None
  Events,     \* which of "crash", "user", "poll" and "undo_fails" may happen
  MaxOps,     \* bound: operations begun
  None

Dir    == [line : Lines \cup {None}, rows : {"none", "all"}]
Config == [image : Images \cup {None}, prev : Images \cup {None}, op : {"none", "update", "migrate"}]

ASSUME CallersAssumption == ProcessOf \in [Callers -> Processes]
ASSUME ImagesAssumption ==
  /\ LineOf \in [Images -> Lines]
  /\ NewerOf \in [Images -> Images \cup {None}]
  /\ \A i \in Images : NewerOf[i] # None => LineOf[NewerOf[i]] = LineOf[i]
ASSUME StartAssumption == Installed \in Images /\ Pin \in {Installed, None}
ASSUME OpsAssumption == MaxOps \in Nat
ASSUME NoneAssumption ==
  None \notin Images \cup Lines \cup Callers \cup Dir \cup Config

VARIABLES
  config,   \* the service's entry in config.yaml
  quadlet,  \* the image of the quadlet
  unit,     \* the image of the running container, or None
  dirs,     \* the directories there have been, None once removed
  data,     \* the one at the service's path, or 0; the others are moved aside
  mount,    \* the one the container is on, or 0
  lock,     \* each process: who holds lockService(name)
  offer,    \* each process: the image its cached UpdateAvailability is about
  pc,       \* where each caller is
  op,       \* its operation
  image,    \* its target
  saved,    \* migrate: the snapshot it would restore; rollback: what it read
  dump,     \* the rows of its dump
  backup,   \* the directory it moved aside, or 0
  ops,      \* operations begun
  again     \* history: "yes" once an update named the image already pinned

files  == <<dirs, data>>
engine == <<unit, mount>>
locals == <<op, image, saved, dump, backup>>
bounds == <<ops, again>>
vars   == <<config, quadlet, files, engine, lock, offer, pc, locals, bounds>>

Init ==
  /\ config = [image |-> Pin, prev |-> None, op |-> "none"]
  /\ quadlet = Installed /\ unit = Installed
  /\ dirs = <<[line |-> LineOf[Installed], rows |-> "all"]>> /\ data = 1 /\ mount = 1
  /\ lock = [p \in Processes |-> None] /\ offer = [p \in Processes |-> None]
  /\ pc = [c \in Callers |-> "idle"] /\ op = [c \in Callers |-> "none"]
  /\ image = [c \in Callers |-> None] /\ saved = [c \in Callers |-> None]
  /\ dump = [c \in Callers |-> "none"] /\ backup = [c \in Callers |-> 0]
  /\ ops = 0 /\ again = "no"

-----------------------------------------------------------------------------
(* What the steps share. *)

Goto(c, place) == pc' = [pc EXCEPT ![c] = place]

\* The operation returns, and the deferred unlock runs.
End(c) ==
  /\ Goto(c, "idle")
  /\ lock' = [lock EXCEPT ![ProcessOf[c]] = None]
  /\ op' = [op EXCEPT ![c] = "none"]
  /\ image' = [image EXCEPT ![c] = None]
  /\ saved' = [saved EXCEPT ![c] = None]
  /\ dump' = [dump EXCEPT ![c] = "none"]
  /\ backup' = [backup EXCEPT ![c] = 0]

\* The image lerd takes the service to be on: the pin, or else the quadlet's.
Current == IF config.image # None THEN config.image ELSE quadlet

\* A quadlet is rendered with the pin, or else with its own image or the newer
\* one when the registry answers.
Rendered == IF config.image # None THEN {config.image} ELSE {quadlet, NewerOf[quadlet]} \ {None}

Empty == [line |-> None, rows |-> "none"]

\* EnsureServiceDataDir, with every quadlet that is written.
EnsureDir ==
  IF data = 0 THEN dirs' = Append(dirs, Empty) /\ data' = Len(dirs) + 1 ELSE UNCHANGED files

\* An engine that finds no data initialises the directory for its own line;
\* podman may create a directory that is missing, or fail.
Open(i) ==
  LET fresh == [line |-> LineOf[i], rows |-> "none"]
  IN IF data = 0 THEN dirs' = Append(dirs, fresh) /\ data' = Len(dirs) + 1
     ELSE dirs' = [dirs EXCEPT ![data] = IF @ = Empty THEN fresh ELSE @] /\ data' = data

Starts(i) == Open(i) /\ unit' = i /\ mount' = data'
StartFails(i) == unit' = None /\ mount' = 0 /\ (Open(i) \/ UNCHANGED files)

Invalidate(c) == offer' = [offer EXCEPT ![ProcessOf[c]] = None]

\* A slip: no snapshot is ever passed.
AbortBlindly(c, snapshot) ==
  /\ Goto(c, "undo_data")
  /\ saved' = [saved EXCEPT ![c] = None]
  /\ UNCHANGED <<lock, op, image, dump, backup>>

\* A migrate that fails undoes what it did; when it fails before the switch no
\* snapshot is passed to abortMigrate.
Abort(c, snapshot) ==
  /\ Goto(c, "undo_data")
  /\ saved' = [saved EXCEPT ![c] = snapshot]
  /\ UNCHANGED <<lock, op, image, dump, backup>>

Fails(c, snapshot) == IF op[c] = "migrate" THEN Abort(c, snapshot) ELSE End(c)

\* A step of the way back may fail too.
UndoFails == "undo_fails" \in Events

Continue(c, place) == Goto(c, place) /\ UNCHANGED <<lock, locals>>

-----------------------------------------------------------------------------
(* An operation begins and gets the lock of its process. *)

Begin(c) ==
  /\ pc[c] = "idle" /\ ops < MaxOps /\ ops' = ops + 1
  /\ \E o \in {"update", "migrate", "rollback"}, i \in Images \cup {None} :
       /\ o = "migrate" => i # None
       /\ o = "rollback" => i = None
       /\ op' = [op EXCEPT ![c] = o] /\ image' = [image EXCEPT ![c] = i]
  /\ Goto(c, "lock")
  /\ UNCHANGED <<config, quadlet, files, engine, lock, offer, saved, dump, backup, again>>

\* A slip: the operations of a process are not serialised.
LockAnyway(c) == TRUE

MayLock(c) == lock[ProcessOf[c]] = None

Lock(c) ==
  /\ pc[c] = "lock" /\ MayLock(c)
  /\ lock' = [lock EXCEPT ![ProcessOf[c]] = c]
  /\ Goto(c, CASE op[c] = "update" -> "choose"
               [] op[c] = "migrate" -> "engine"
               [] op[c] = "rollback" -> "previous")
  /\ UNCHANGED <<config, quadlet, files, engine, offer, locals, bounds>>

\* CheckUpdateAvailable: the cached answer, or one computed now.
Compute(c) ==
  /\ pc[c] = "choose" /\ image[c] = None /\ offer[ProcessOf[c]] = None
  /\ image' = [image EXCEPT ![c] = Current]
  /\ Goto(c, "store")
  /\ UNCHANGED <<config, quadlet, files, engine, lock, offer, op, saved, dump, backup, bounds>>

Chosen(c, about) ==
  IF NewerOf[about] = None THEN End(c)
  ELSE /\ Goto(c, "pull") /\ image' = [image EXCEPT ![c] = NewerOf[about]]
       /\ UNCHANGED <<lock, op, saved, dump, backup>>

Store(c) ==
  /\ pc[c] = "store"
  /\ offer' = [offer EXCEPT ![ProcessOf[c]] = image[c]]
  /\ Chosen(c, image[c])
  /\ UNCHANGED <<config, quadlet, files, engine, bounds>>

Cached(c) ==
  /\ pc[c] = "choose" /\ image[c] = None /\ offer[ProcessOf[c]] # None
  /\ Chosen(c, offer[ProcessOf[c]])
  /\ UNCHANGED <<config, quadlet, files, engine, offer, bounds>>

\* enforceMajorUpgradeGate, for a target that was named.
MayMove(i) == LineOf[i] = LineOf[Current]

Gate(c) ==
  /\ pc[c] = "choose" /\ image[c] # None
  /\ IF MayMove(image[c]) THEN Continue(c, "pull") ELSE End(c)
  /\ UNCHANGED <<config, quadlet, files, engine, offer, bounds>>

\* A slip: a migrate is not looked for.
HasPrevious == config.prev # None

MayRollBack == config.prev # None /\ config.op # "migrate"

Previous(c) ==
  /\ pc[c] = "previous"
  /\ IF MayRollBack
     THEN /\ Goto(c, "pull")
          /\ image' = [image EXCEPT ![c] = config.prev]
          /\ saved' = [saved EXCEPT ![c] = config]
          /\ UNCHANGED <<lock, op, dump, backup>>
     ELSE End(c)
  /\ UNCHANGED <<config, quadlet, files, engine, offer, bounds>>

-----------------------------------------------------------------------------
(* Migrate, up to the pull. *)

\* startEngineForDump, with its wait.
Engine(c) ==
  /\ pc[c] = "engine"
  /\ \/ unit # None /\ Continue(c, "dump") /\ UNCHANGED <<files, engine>>
     \/ unit = None /\ Starts(quadlet) /\ Continue(c, "dump")
     \/ unit = None /\ StartFails(quadlet) /\ End(c)
  /\ UNCHANGED <<config, quadlet, offer, bounds>>

Dump(c) ==
  /\ pc[c] = "dump"
  /\ \/ /\ unit # None /\ dirs[mount] # None
        /\ Goto(c, "stop")
        /\ saved' = [saved EXCEPT ![c] = config]
        /\ dump' = [dump EXCEPT ![c] = dirs[mount].rows]
        /\ UNCHANGED <<lock, op, image, backup>>
     \/ End(c)
  /\ UNCHANGED <<config, quadlet, files, engine, offer, bounds>>

Stop(c) ==
  /\ pc[c] = "stop"
  /\ \/ unit' = None /\ mount' = 0 /\ Continue(c, "swap")
     \/ UNCHANGED engine /\ End(c)
  /\ UNCHANGED <<config, quadlet, files, offer, bounds>>

\* swapDataDirAside: the rename, then the new directory.
Swap(c) ==
  /\ pc[c] = "swap"
  /\ \/ data = 0 /\ Continue(c, "pull") /\ UNCHANGED data
     \/ /\ data # 0 /\ data' = 0
        /\ Goto(c, "mkdir") /\ backup' = [backup EXCEPT ![c] = data]
        /\ UNCHANGED <<lock, op, image, saved, dump>>
     \/ data # 0 /\ Abort(c, None) /\ UNCHANGED data
  /\ UNCHANGED <<config, quadlet, dirs, engine, offer, bounds>>

Mkdir(c) ==
  /\ pc[c] = "mkdir"
  /\ \/ EnsureDir /\ Continue(c, "pull")
     \/ /\ data = 0 /\ UNCHANGED dirs
        /\ data' = backup[c] \/ (UndoFails /\ UNCHANGED data)
        /\ Goto(c, "undo_data")
        /\ backup' = [backup EXCEPT ![c] = 0] /\ saved' = [saved EXCEPT ![c] = None]
        /\ UNCHANGED <<lock, op, image, dump>>
  /\ UNCHANGED <<config, quadlet, engine, offer, bounds>>

-----------------------------------------------------------------------------
(* The pull, the new pin and the restart: the same steps for each operation. *)

Pull(c) ==
  /\ pc[c] = "pull"
  /\ Continue(c, "config") \/ Fails(c, None)
  /\ UNCHANGED <<config, quadlet, files, engine, offer, bounds>>

\* The entry persistImageChoice or swapImagePin writes.
Entry(c) ==
  IF op[c] = "rollback"
  THEN [image |-> image[c], prev |-> saved[c].image, op |-> "update"]
  ELSE [image |-> image[c],
        prev  |-> IF config.image \in {None, image[c]} THEN config.prev ELSE config.image,
        op    |-> op[c]]

\* swapImagePin leaves the cached offer alone.
Forgets(c) == IF op[c] = "rollback" THEN UNCHANGED offer ELSE Invalidate(c)

Persist(c) ==
  /\ pc[c] = "config"
  /\ \/ /\ config' = Entry(c) /\ Continue(c, "quadlet")
        /\ again' = IF op[c] = "update" /\ image[c] = config.image THEN "yes" ELSE again
        /\ UNCHANGED offer
     \/ UNCHANGED <<config, again>> /\ Forgets(c) /\ Fails(c, saved[c])
  /\ UNCHANGED <<quadlet, files, engine, ops>>

Rewrite(c) ==
  /\ pc[c] = "quadlet"
  /\ quadlet' \in Rendered /\ EnsureDir
  /\ Forgets(c)
  /\ Continue(c, "restart")
  /\ UNCHANGED <<config, engine, bounds>>

Restart(c) ==
  /\ pc[c] = "restart"
  /\ \/ Starts(quadlet) /\ IF op[c] = "migrate" THEN Continue(c, "wait") ELSE End(c)
     \/ StartFails(quadlet) /\ Fails(c, saved[c])
  /\ UNCHANGED <<config, quadlet, offer, bounds>>

-----------------------------------------------------------------------------
(* Migrate, after the switch: a failure is only reported. *)

Wait(c) ==
  /\ pc[c] = "wait"
  /\ \/ unit # None /\ Continue(c, "restore")
     \/ End(c)
  /\ UNCHANGED <<config, quadlet, files, engine, offer, bounds>>

\* The dump is replayed, or the client fails with nothing or all of it loaded.
Restore(c) ==
  /\ pc[c] = "restore"
  /\ \/ /\ unit # None /\ dirs[mount] # None
        /\ dirs' = [dirs EXCEPT ![mount] =
                      [line |-> @.line, rows |-> IF dump[c] = "all" THEN "all" ELSE @.rows]]
        /\ Continue(c, "record") \/ End(c)
     \/ UNCHANGED dirs /\ End(c)
  /\ UNCHANGED <<config, quadlet, data, engine, offer, bounds>>

\* recordMigrateBackup, written or not.
Record(c) ==
  /\ pc[c] = "record"
  /\ \/ config' = [image |-> config.image, prev |-> config.prev, op |-> "migrate"]
     \/ UNCHANGED config
  /\ End(c)
  /\ UNCHANGED <<quadlet, files, engine, offer, bounds>>

-----------------------------------------------------------------------------
(* abortMigrate.  What fails here is reported and the rest still done. *)

HasBackup(c) == backup[c] # 0

\* RemoveAll of the fresh directory, then the rename back.
UndoData(c) ==
  /\ pc[c] = "undo_data"
  /\ \/ /\ HasBackup(c) /\ data' = 0
        /\ dirs' = [n \in DOMAIN dirs |-> IF n = data THEN None ELSE dirs[n]]
        /\ Continue(c, "undo_rename")
     \/ /\ HasBackup(c) => UndoFails
        /\ UNCHANGED files
        /\ Continue(c, IF saved[c] = None THEN "undo_start" ELSE "undo_config")
  /\ UNCHANGED <<config, quadlet, engine, offer, bounds>>

\* A directory may replace an empty one.
MayRename(n) == dirs[n] # None /\ data \in {0} \cup {d \in DOMAIN dirs : dirs[d] = Empty}

UndoRename(c) ==
  /\ pc[c] = "undo_rename"
  /\ \/ /\ MayRename(backup[c]) /\ data' = backup[c]
        /\ dirs' = [n \in DOMAIN dirs |-> IF n = data THEN None ELSE dirs[n]]
     \/ (MayRename(backup[c]) => UndoFails) /\ UNCHANGED files
  /\ Continue(c, IF saved[c] = None THEN "undo_start" ELSE "undo_config")
  /\ UNCHANGED <<config, quadlet, engine, offer, bounds>>

\* A slip: the quadlet is left as it is.
UndoConfigOnly(c) ==
  /\ pc[c] = "undo_config"
  /\ Invalidate(c)
  /\ config' = saved[c]
  /\ Continue(c, "undo_start")
  /\ UNCHANGED <<quadlet, files, engine, bounds>>

UndoConfig(c) ==
  /\ pc[c] = "undo_config"
  /\ Invalidate(c)
  /\ config' = saved[c] \/ (UndoFails /\ UNCHANGED config)
  /\ Continue(c, "undo_quadlet")
  /\ UNCHANGED <<quadlet, files, engine, bounds>>

UndoQuadlet(c) ==
  /\ pc[c] = "undo_quadlet"
  /\ \/ quadlet' \in Rendered /\ EnsureDir
     \/ UndoFails /\ UNCHANGED <<quadlet, files>>
  /\ Continue(c, "undo_start")
  /\ UNCHANGED <<config, engine, offer, bounds>>

UndoStart(c) ==
  /\ pc[c] = "undo_start"
  /\ \/ unit # None /\ UNCHANGED <<files, engine>>
     \/ unit = None /\ Starts(quadlet)
     \/ unit = None /\ StartFails(quadlet)
  /\ End(c)
  /\ UNCHANGED <<config, quadlet, offer, bounds>>

-----------------------------------------------------------------------------
(* What happens beside the operations. *)

\* A snapshot of the dashboard, or `lerd service list`, asks for the offer.
Poll(c) ==
  /\ "poll" \in Events /\ pc[c] = "idle" /\ offer[ProcessOf[c]] = None
  /\ Goto(c, "poll") /\ image' = [image EXCEPT ![c] = Current]
  /\ UNCHANGED <<config, quadlet, files, engine, lock, offer, op, saved, dump, backup, bounds>>

StorePoll(c) ==
  /\ pc[c] = "poll"
  /\ offer' = [offer EXCEPT ![ProcessOf[c]] = image[c]]
  /\ Goto(c, "idle") /\ image' = [image EXCEPT ![c] = None]
  /\ UNCHANGED <<config, quadlet, files, engine, lock, op, saved, dump, backup, bounds>>

\* updateAvailabilityTTL.
Expire(p) ==
  /\ offer[p] # None /\ offer' = [offer EXCEPT ![p] = None]
  /\ UNCHANGED <<config, quadlet, files, engine, lock, pc, locals, bounds>>

\* StartService, WakeService and StopService take no lock.
UserRewrite ==
  /\ "user" \in Events
  /\ quadlet' \in Rendered /\ EnsureDir
  /\ UNCHANGED <<config, engine, lock, offer, pc, locals, bounds>>

UserStart ==
  /\ "user" \in Events /\ unit = None
  /\ Starts(quadlet)
  /\ UNCHANGED <<config, quadlet, lock, offer, pc, locals, bounds>>

UserStop ==
  /\ "user" \in Events /\ unit # None /\ unit' = None /\ mount' = 0
  /\ UNCHANGED <<config, quadlet, files, lock, offer, pc, locals, bounds>>

\* A process ends with all it was doing; the container stays.
Crash(p) ==
  LET Gone == {c \in Callers : ProcessOf[c] = p}
      Reset(f, none) == [c \in Callers |-> IF c \in Gone THEN none ELSE f[c]]
  IN /\ "crash" \in Events /\ \E c \in Gone : pc[c] # "idle"
     /\ pc' = Reset(pc, "idle") /\ op' = Reset(op, "none")
     /\ image' = Reset(image, None) /\ saved' = Reset(saved, None)
     /\ dump' = Reset(dump, "none") /\ backup' = Reset(backup, 0)
     /\ lock' = [lock EXCEPT ![p] = None] /\ offer' = [offer EXCEPT ![p] = None]
     /\ UNCHANGED <<config, quadlet, files, engine, bounds>>

Step(c) ==
  \/ Begin(c) \/ Lock(c) \/ Compute(c) \/ Store(c) \/ Cached(c) \/ Gate(c) \/ Previous(c)
  \/ Engine(c) \/ Dump(c) \/ Stop(c) \/ Swap(c) \/ Mkdir(c)
  \/ Pull(c) \/ Persist(c) \/ Rewrite(c) \/ Restart(c) \/ Wait(c) \/ Restore(c) \/ Record(c)
  \/ UndoData(c) \/ UndoRename(c) \/ UndoConfig(c) \/ UndoQuadlet(c) \/ UndoStart(c)
  \/ Poll(c) \/ StorePoll(c)

Next ==
  \/ \E c \in Callers : Step(c)
  \/ \E p \in Processes : Expire(p) \/ Crash(p)
  \/ UserRewrite \/ UserStart \/ UserStop

Spec == Init /\ [][Next]_vars
=============================================================================
