-------------------------- MODULE ServiceImageProofs --------------------------
(***************************************************************************)
(* For any callers, images, lines and number of operations and with any    *)
(* step failing.  With the callers in one process the user's rows are      *)
(* always in a directory on disk, whatever crashes and whatever a user     *)
(* starts and stops; with callers in two they are not (TwoProcesses).      *)
(* When nothing else acts on a pinned service, the engine is on a          *)
(* directory of its line, pin, quadlet and directory agree between         *)
(* operations, and a migrate that is undone is undone entirely.            *)
(***************************************************************************)
EXTENDS ServiceImageProps, SequenceTheorems, TLAPS

\* What lockService can promise: all callers share its mutexes.
OneProcessOnly == \A c, d \in Callers : ProcessOf[c] = ProcessOf[d]

Slots == Dir \cup {None}

\* Directory n is on disk with the user's rows.
Holds(n) == n \in 1..Len(dirs) /\ dirs[n] # None /\ dirs[n].rows = "all"

FilesOK == dirs \in Seq(Slots) /\ data \in 0..Len(dirs) /\ (data # 0 => dirs[data] # None)
BackupOK == backup \in [Callers -> 0..Len(dirs)]

\* Before the swap nothing is moved aside.  While a migrate has a directory moved
\* aside, rows are in a directory other than the one RemoveAll would remove, and
\* what it would rename back is on disk and not at the service's path.
Early == {"idle", "lock", "poll", "choose", "store", "previous", "engine", "dump", "stop", "swap"}
Carrying == {"mkdir", "pull", "config", "quadlet", "restart", "wait", "restore", "record", "undo_data"}
Moved(c) ==
  /\ pc[c] \in Early => backup[c] = 0
  /\ pc[c] = "mkdir" => backup[c] # 0 /\ dirs[backup[c]] # None
  /\ pc[c] = "undo_rename" => data # backup[c]
  /\ pc[c] \in Carrying /\ backup[c] # 0 => \E n \in 1..Len(dirs) : n # data /\ Holds(n)
RowsKept == \E n \in 1..Len(dirs) : Holds(n)
FilesInv == FilesOK /\ BackupOK /\ (\A c \in Callers : Moved(c)) /\ RowsKept

GlobalOK ==
  /\ config \in Config /\ quadlet \in Images
  /\ offer \in [Processes -> Images \cup {None}]
  /\ ops \in 0..MaxOps /\ again \in {"yes", "no"}
EngineOK == unit \in Images \cup {None} /\ mount \in 0..Len(dirs) /\ (unit # None => mount # 0)

Places == Locked \cup {"idle", "lock", "poll"}
Ops == {"none", "update", "migrate", "rollback"}
LocalsOK ==
  /\ lock \in [Processes -> Callers \cup {None}]
  /\ pc \in [Callers -> Places] /\ op \in [Callers -> Ops]
  /\ image \in [Callers -> Images \cup {None}]
  /\ saved \in [Callers -> Config \cup {None}]
  /\ dump \in [Callers -> {"none", "all"}]

\* What a caller has in hand at the steps that use it.
Hand(c) ==
  /\ pc[c] \in Locked => lock[ProcessOf[c]] = c
  /\ pc[c] \in Locked \cup {"lock"} => op[c] # "none"
  /\ pc[c] \in {"choose", "store"} => op[c] = "update"
  /\ pc[c] = "previous" => op[c] = "rollback"
  /\ pc[c] \in {"engine", "dump", "stop", "swap", "mkdir"} => op[c] = "migrate"
  /\ pc[c] = "store" => image[c] # None
  /\ pc[c] \in Locked \cup {"lock"} /\ op[c] = "migrate" => image[c] # None
  /\ pc[c] \in {"pull", "config"} /\ op[c] = "rollback" => saved[c] # None
  /\ pc[c] = "undo_config" => saved[c] # None
CallersOK == LocalsOK /\ \A c \in Callers : Hand(c)

IInv == GlobalOK /\ EngineOK /\ CallersOK /\ FilesInv

USE CallersAssumption, ImagesAssumption, StartAssumption, OpsAssumption, NoneAssumption

\* Every directory of the sequence has a number from 1 on.
LEMMA DirsAre ==
  ASSUME FilesOK
  PROVE  /\ Len(dirs) \in Nat /\ DOMAIN dirs = 1..Len(dirs)
         /\ \A n \in 1..Len(dirs) : dirs[n] \in Slots
<1>1. dirs \in Seq(Slots)
  BY DEF FilesOK
<1>2. QED
  BY <1>1, LenProperties, ElementOfSeq

-----------------------------------------------------------------------------
(* Changes of the directories. *)

\* A change that removes nothing and moves nothing that is in place.
Gentle ==
  /\ FilesOK' /\ Len(dirs) <= Len(dirs')
  /\ data' = data \/ (data = 0 /\ data' = Len(dirs) + 1)
  /\ \A n \in 1..Len(dirs) : /\ dirs[n] # None => dirs'[n] # None
                             /\ Holds(n) => Holds(n)'

\* Nothing changes.
LEMMA StillGentle == ASSUME FilesOK, UNCHANGED files PROVE Gentle
BY DirsAre DEF FilesOK, Gentle, Holds, files

\* A directory is added at the service's path.
LEMMA AppendGentle ==
  ASSUME FilesOK, data = 0, NEW d \in Dir, dirs' = Append(dirs, d), data' = Len(dirs) + 1
  PROVE  Gentle
<1>1. dirs \in Seq(Slots) /\ d \in Slots /\ d # None
  BY DEF FilesOK, Slots
<1>2. /\ dirs' \in Seq(Slots) /\ Len(dirs') = Len(dirs) + 1
      /\ \A n \in 1..Len(dirs) : dirs'[n] = dirs[n]
      /\ dirs'[Len(dirs) + 1] = d
  BY <1>1, AppendProperties
<1>3. QED
  BY <1>1, <1>2, DirsAre DEF FilesOK, Gentle, Holds

\* A directory is replaced by one with no fewer rows.
LEMMA WriteGentle ==
  ASSUME FilesOK, NEW m \in 1..Len(dirs), dirs[m] # None, NEW d \in Dir,
         dirs[m].rows = "all" => d.rows = "all",
         dirs' = [dirs EXCEPT ![m] = d], data' = data
  PROVE  Gentle
<1>1. dirs \in Seq(Slots) /\ d \in Slots /\ d # None
  BY DEF FilesOK, Slots
<1>2. /\ dirs' \in Seq(Slots) /\ Len(dirs') = Len(dirs)
      /\ \A n \in 1..Len(dirs) : dirs'[n] = IF n = m THEN d ELSE dirs[n]
  BY <1>1, ExceptSeq
<1>3. QED
  BY <1>1, <1>2, DirsAre DEF FilesOK, Gentle, Holds

\* EnsureServiceDataDir.
LEMMA EnsureDirGentle == ASSUME FilesOK, EnsureDir PROVE Gentle
<1>1. Empty \in Dir
  BY DEF Empty, Dir
<1>2. CASE data = 0
  BY <1>1, <1>2, AppendGentle DEF EnsureDir
<1>3. CASE data # 0
  BY <1>3, StillGentle DEF EnsureDir, files
<1>4. QED
  BY <1>2, <1>3

\* An engine that opens its directory.
LEMMA OpenGentle == ASSUME FilesOK, NEW i \in Images, Open(i) PROVE Gentle
<1> DEFINE fresh == [line |-> LineOf[i], rows |-> "none"]
<1>1. fresh \in Dir
  BY DEF Dir
<1>2. CASE data = 0
  BY <1>1, <1>2, AppendGentle DEF Open
<1>3. CASE data # 0
  <2>1. data \in 1..Len(dirs) /\ dirs[data] \in Dir /\ dirs[data] # None
    BY <1>3, DirsAre DEF FilesOK, Slots
  <2>2. CASE dirs[data] = Empty
    BY <1>1, <1>3, <2>1, <2>2, WriteGentle DEF Open, Empty
  <2>3. CASE dirs[data] # Empty
    <3>1. dirs' = [dirs EXCEPT ![data] = dirs[data]] /\ data' = data
      BY <1>3, <2>3 DEF Open
    <3>2. QED
      BY <2>1, <3>1, WriteGentle
  <2>4. QED
    BY <2>2, <2>3
<1>4. QED
  BY <1>2, <1>3

\* A restore into the directory the engine is on.
LEMMA RestoreGentle ==
  ASSUME FilesOK, NEW m \in 1..Len(dirs), dirs[m] # None, NEW r \in {"none", "all"}, data' = data,
         dirs' = [dirs EXCEPT ![m] = [line |-> @.line, rows |-> IF r = "all" THEN "all" ELSE @.rows]]
  PROVE  Gentle
<1> DEFINE d == [line |-> dirs[m].line, rows |-> IF r = "all" THEN "all" ELSE dirs[m].rows]
<1>1. dirs[m] \in Dir
  BY DirsAre DEF Slots
<1>2. d \in Dir /\ (dirs[m].rows = "all" => d.rows = "all")
  BY <1>1 DEF Dir
<1>3. dirs' = [dirs EXCEPT ![m] = d]
  OBVIOUS
<1>4. QED
  BY <1>2, <1>3, WriteGentle

\* A start, whether the engine comes up or not.
LEMMA StartGentle ==
  ASSUME FilesOK, EngineOK, quadlet \in Images,
         \/ Starts(quadlet)
         \/ StartFails(quadlet)
  PROVE  Gentle /\ EngineOK'
<1>1. CASE Starts(quadlet)
  <2>1. Gentle
    BY <1>1, OpenGentle DEF Starts
  <2>2. data' # 0
    BY <1>1, DirsAre DEF Starts, Open, FilesOK
  <2>3. QED
    BY <1>1, <2>1, <2>2 DEF Starts, EngineOK, Gentle, FilesOK
<1>2. CASE StartFails(quadlet)
  <2>1. Gentle
    BY <1>2, OpenGentle, StillGentle DEF StartFails
  <2>2. QED
    BY <1>2, <2>1, DirsAre DEF StartFails, EngineOK, Gentle, FilesOK
<1>3. QED
  BY <1>1, <1>2

\* An engine that is not touched stays on its directory.
LEMMA EngineStays ==
  ASSUME FilesOK, EngineOK, FilesOK', Len(dirs) <= Len(dirs'), UNCHANGED engine
  PROVE  EngineOK'
BY DirsAre DEF EngineOK, engine, FilesOK

\* A stop, and nothing moves.
LEMMA EngineStops ==
  ASSUME FilesOK', unit' = None, mount' = 0
  PROVE  EngineOK'
<1>1. Len(dirs') \in Nat
  BY LenProperties DEF FilesOK
<1>2. QED
  BY <1>1 DEF EngineOK

\* The removal of the directory at the service's path.
LEMMA RemoveDir ==
  ASSUME FilesOK, dirs' = [n \in DOMAIN dirs |-> IF n = data THEN None ELSE dirs[n]]
  PROVE  /\ dirs' \in Seq(Slots) /\ Len(dirs') = Len(dirs)
         /\ \A n \in 1..Len(dirs) : dirs'[n] = IF n = data THEN None ELSE dirs[n]
<1>1. Len(dirs) \in Nat /\ DOMAIN dirs = 1..Len(dirs)
  BY DirsAre
<1>2. dirs' \in [1..Len(dirs) -> Slots]
  BY <1>1, DirsAre DEF Slots
<1>3. dirs' \in Seq(Slots)
  BY <1>1, <1>2, SeqDef
<1>4. Len(dirs') \in Nat /\ DOMAIN dirs' = 1..Len(dirs')
  BY <1>3, LenProperties
<1>5. 1..Len(dirs') = 1..Len(dirs)
  BY <1>2, <1>4
<1>6. Len(dirs') = Len(dirs)
  BY <1>1, <1>4, <1>5
<1>7. QED
  BY <1>1, <1>3, <1>6

-----------------------------------------------------------------------------
(* The invariant of the directories. *)

\* What caller d may do beside a gentle change: stay, or go on with nothing new
\* moved aside.
Plain(d) ==
  \/ pc'[d] = pc[d] /\ backup'[d] = backup[d]
  \/ /\ pc'[d] \notin {"mkdir", "undo_rename"}
     /\ pc'[d] \in Early => backup'[d] = 0
     /\ pc'[d] \in Carrying => backup'[d] = 0 \/ (pc[d] \in Carrying /\ backup'[d] = backup[d])

\* A gentle change keeps the rows and what is moved aside.
LEMMA GentleKeeps ==
  ASSUME FilesInv, Gentle, \A d \in Callers : Plain(d),
         backup' \in [Callers -> 0..Len(dirs)]
  PROVE  FilesInv'
<1> USE DEF FilesInv
<1>1. FilesOK' /\ Len(dirs) \in Nat /\ Len(dirs') \in Nat
  <2>1. FilesOK' /\ dirs \in Seq(Slots) /\ dirs' \in Seq(Slots)
    BY DEF Gentle, FilesOK
  <2>2. QED
    BY <2>1, LenProperties
<1>2. 1..Len(dirs) \subseteq 1..Len(dirs') /\ 0..Len(dirs) \subseteq 0..Len(dirs')
  BY <1>1 DEF Gentle
<1>3. BackupOK'
  BY <1>2 DEF BackupOK
<1>4. \A n \in 1..Len(dirs) : Holds(n) => Holds(n)'
  BY DEF Gentle
<1>5. RowsKept'
  BY <1>2, <1>4 DEF RowsKept
<1>6. ASSUME NEW c \in Callers PROVE Moved(c)'
  <2>1. Moved(c) /\ backup[c] \in 0..Len(dirs) /\ Plain(c)
    BY DEF BackupOK
  <2>2. pc'[c] \in Carrying /\ backup'[c] # 0 => pc[c] \in Carrying /\ backup'[c] = backup[c]
    BY <2>1 DEF Plain
  <2>3. pc'[c] \in Carrying /\ backup'[c] # 0 => (\E n \in 1..Len(dirs') : n # data' /\ Holds(n)')
    <3>1. SUFFICES ASSUME pc'[c] \in Carrying, backup'[c] # 0
                   PROVE  \E n \in 1..Len(dirs') : n # data' /\ Holds(n)'
      OBVIOUS
    <3>2. PICK n \in 1..Len(dirs) : n # data /\ Holds(n)
      BY <2>1, <2>2, <3>1 DEF Moved
    <3>3. n # data'
      BY <1>1, <3>2 DEF Gentle
    <3>4. QED
      BY <1>2, <1>4, <3>2, <3>3
  <2>4. pc'[c] = "mkdir" => backup'[c] # 0 /\ dirs'[backup'[c]] # None
    BY <1>1, <2>1 DEF Plain, Moved, Gentle
  <2>5. pc'[c] = "undo_rename" => data' # backup'[c]
    BY <1>1, <2>1 DEF Plain, Moved, Gentle
  <2>6. pc'[c] \in Early => backup'[c] = 0
    BY <2>1 DEF Plain, Moved
  <2>7. QED
    BY <2>3, <2>4, <2>5, <2>6 DEF Moved
<1>7. QED
  BY <1>1, <1>3, <1>5, <1>6

-----------------------------------------------------------------------------
(* What a caller's move does to the locals. *)

\* Callers stay typed, have in hand what they need, and move plainly.
Outcome ==
  /\ CallersOK'
  /\ backup' \in [Callers -> 0..Len(dirs)]
  /\ \A d \in Callers : Plain(d)

\* The operation returns.
LEMMA EndOutcome ==
  ASSUME IInv, NEW c \in Callers, pc[c] \in Locked, End(c)
  PROVE  Outcome
<1> USE DEF IInv
<1>1. LocalsOK'
  BY DEF CallersOK, LocalsOK, End, Goto, Places, Ops
<1>2. lock[ProcessOf[c]] = c
  BY DEF CallersOK, Hand
<1>3. ASSUME NEW d \in Callers PROVE Hand(d)'
  <2>1. CASE d = c
    BY <2>1 DEF CallersOK, LocalsOK, End, Goto, Hand, Locked
  <2>2. CASE d # c
    <3>1. Hand(d)
      BY DEF CallersOK
    <3>2. pc[d] \in Locked => ProcessOf[d] # ProcessOf[c]
      BY <1>2, <2>2, <3>1 DEF Hand
    <3>3. pc[d] \in Locked => lock'[ProcessOf[d]] = lock[ProcessOf[d]]
      BY <3>2 DEF End, CallersOK, LocalsOK
    <3>4. /\ pc'[d] = pc[d] /\ op'[d] = op[d] /\ image'[d] = image[d] /\ saved'[d] = saved[d]
      BY <2>2 DEF End, Goto, CallersOK, LocalsOK
    <3>5. QED
      BY <3>1, <3>3, <3>4 DEF Hand
  <2>3. QED
    BY <2>1, <2>2
<1>4. backup' \in [Callers -> 0..Len(dirs)]
  BY DirsAre DEF End, FilesInv, BackupOK
<1>5. ASSUME NEW d \in Callers PROVE Plain(d)
  BY DEF End, Goto, CallersOK, LocalsOK, FilesInv, BackupOK, Plain, Early, Carrying
<1>6. QED
  BY <1>1, <1>3, <1>4, <1>5 DEF Outcome, CallersOK

\* The operation goes on.
Ready(c, place) ==
  /\ place \in {"engine", "dump", "stop", "swap", "mkdir"} => op[c] = "migrate"
  /\ place \in {"pull", "config"} /\ op[c] = "rollback" => saved[c] # None
  /\ place = "undo_config" => saved[c] # None

LEMMA ContinueCallers ==
  ASSUME CallersOK, NEW c \in Callers, pc[c] \in Locked,
         NEW place \in Locked \ {"choose", "store", "previous"}, Ready(c, place),
         Goto(c, place), UNCHANGED <<lock, op, image, saved, dump>>
  PROVE  CallersOK'
<1>1. LocalsOK'
  BY DEF CallersOK, LocalsOK, Goto, Places
<1>2. ASSUME NEW d \in Callers PROVE Hand(d)'
  <2>1. Hand(d) /\ Hand(c)
    BY DEF CallersOK
  <2>2. CASE d = c
    BY <2>1, <2>2 DEF CallersOK, LocalsOK, Goto, Hand, Locked, Ready
  <2>3. CASE d # c
    BY <2>1, <2>3 DEF CallersOK, LocalsOK, Goto, Hand
  <2>4. QED
    BY <2>2, <2>3
<1>3. QED
  BY <1>1, <1>2 DEF CallersOK

LEMMA ContinueOutcome ==
  ASSUME IInv, NEW c \in Callers, pc[c] \in Locked,
         NEW place \in Locked \ {"choose", "store", "previous", "mkdir", "undo_rename"},
         Ready(c, place), Continue(c, place),
         place \in Early => pc[c] \in Early,
         place \in Carrying => pc[c] \in Early \cup Carrying
  PROVE  Outcome
<1>1. CallersOK'
  BY ContinueCallers DEF IInv, Continue, locals
<1>2. backup' \in [Callers -> 0..Len(dirs)]
  BY DEF IInv, FilesInv, BackupOK, Continue, locals
<1>3. ASSUME NEW d \in Callers PROVE Plain(d)
  BY DEF IInv, CallersOK, LocalsOK, FilesInv, Moved, Continue, Goto, locals, Plain
<1>4. QED
  BY <1>1, <1>2, <1>3 DEF Outcome

\* A migrate gives up.
LEMMA AbortCallers ==
  ASSUME CallersOK, NEW c \in Callers, pc[c] \in Locked, NEW snapshot \in Config \cup {None},
         Goto(c, "undo_data"), saved' = [saved EXCEPT ![c] = snapshot],
         UNCHANGED <<lock, op, image, dump>>
  PROVE  CallersOK'
<1>1. LocalsOK'
  BY DEF CallersOK, LocalsOK, Goto, Places, Locked
<1>2. ASSUME NEW d \in Callers PROVE Hand(d)'
  <2>1. Hand(d) /\ Hand(c)
    BY DEF CallersOK
  <2>2. CASE d = c
    BY <2>1, <2>2 DEF CallersOK, LocalsOK, Goto, Hand, Locked
  <2>3. CASE d # c
    BY <2>1, <2>3 DEF CallersOK, LocalsOK, Goto, Hand
  <2>4. QED
    BY <2>2, <2>3
<1>3. QED
  BY <1>1, <1>2 DEF CallersOK

LEMMA AbortOutcome ==
  ASSUME IInv, NEW c \in Callers, pc[c] \in Locked, pc[c] \in Early \cup Carrying,
         NEW snapshot \in Config \cup {None}, Abort(c, snapshot)
  PROVE  Outcome
<1>1. CallersOK'
  BY AbortCallers DEF IInv, Abort
<1>2. backup' \in [Callers -> 0..Len(dirs)]
  BY DEF IInv, FilesInv, BackupOK, Abort
<1>3. ASSUME NEW d \in Callers PROVE Plain(d)
  BY DEF IInv, CallersOK, LocalsOK, FilesInv, Moved, Abort, Goto, Plain, Early
<1>4. QED
  BY <1>1, <1>2, <1>3 DEF Outcome

LEMMA FailsOutcome ==
  ASSUME IInv, NEW c \in Callers, pc[c] \in Locked, pc[c] \in Early \cup Carrying,
         NEW snapshot \in Config \cup {None}, Fails(c, snapshot)
  PROVE  Outcome
<1>1. CASE op[c] = "migrate"
  BY <1>1, AbortOutcome DEF Fails
<1>2. CASE op[c] # "migrate"
  BY <1>2, EndOutcome DEF Fails
<1>3. QED
  BY <1>1, <1>2

\* An update takes the offer, or ends without one.
LEMMA ChosenOutcome ==
  ASSUME IInv, NEW c \in Callers, pc[c] \in {"choose", "store"}, NEW about \in Images, Chosen(c, about)
  PROVE  Outcome
<1> USE DEF IInv
<1>0. pc[c] \in Locked
  BY DEF Locked
<1>1. CASE NewerOf[about] = None
  BY <1>0, <1>1, EndOutcome DEF Chosen
<1>2. CASE NewerOf[about] # None
  <2>0. NewerOf[about] \in Images
    BY <1>2
  <2>1. /\ pc' = [pc EXCEPT ![c] = "pull"] /\ image' = [image EXCEPT ![c] = NewerOf[about]]
        /\ UNCHANGED <<lock, op, saved, dump, backup>>
    BY <1>2 DEF Chosen, Goto
  <2>2. LocalsOK'
    BY <2>0, <2>1 DEF CallersOK, LocalsOK, Places, Locked
  <2>3. ASSUME NEW d \in Callers PROVE Hand(d)'
    <3>1. Hand(d) /\ Hand(c)
      BY DEF CallersOK
    <3>2. CASE d = c
      BY <1>0, <2>1, <3>1, <3>2 DEF CallersOK, LocalsOK, Hand
    <3>3. CASE d # c
      BY <2>1, <3>1, <3>3 DEF CallersOK, LocalsOK, Hand
    <3>4. QED
      BY <3>2, <3>3
  <2>4. backup' \in [Callers -> 0..Len(dirs)]
    BY <2>1 DEF FilesInv, BackupOK
  <2>5. ASSUME NEW d \in Callers PROVE Plain(d)
    BY <2>1 DEF CallersOK, LocalsOK, FilesInv, Moved, Plain, Early
  <2>6. QED
    BY <2>2, <2>3, <2>4, <2>5 DEF Outcome, CallersOK
<1>3. QED
  BY <1>1, <1>2

\* With the rest of the invariant, that is enough.
LEMMA OutcomeKeeps == ASSUME IInv, GlobalOK', EngineOK', Gentle, Outcome PROVE IInv'
BY GentleKeeps DEF IInv, Outcome

\* A step that leaves all files and the engine alone.
LEMMA QuietKeeps == ASSUME IInv, GlobalOK', UNCHANGED <<files, engine>>, Outcome PROVE IInv'
<1>1. FilesOK /\ EngineOK
  BY DEF IInv, FilesInv
<1>2. Gentle /\ FilesOK'
  BY <1>1, StillGentle DEF Gentle
<1>3. EngineOK'
  BY <1>1, <1>2, EngineStays DEF Gentle
<1>4. QED
  BY <1>2, <1>3, OutcomeKeeps

-----------------------------------------------------------------------------
(* The actions. *)

\* The image lerd takes the service to be on, and those it may render.
LEMMA CurrentTyped == ASSUME IInv PROVE Current \in Images /\ Rendered \subseteq Images
BY DEF IInv, GlobalOK, Config, Current, Rendered

\* A caller at the lock or outside of it moves and nothing is locked or in hand.
LEMMA BeginKeeps == ASSUME IInv, NEW c \in Callers, Begin(c) PROVE IInv'
<1> USE DEF IInv
<1>1. PICK o \in {"update", "migrate", "rollback"}, i \in Images \cup {None} :
        op' = [op EXCEPT ![c] = o] /\ image' = [image EXCEPT ![c] = i] /\ (o = "migrate" => i # None)
  BY DEF Begin
<1>2. /\ pc[c] = "idle" /\ pc' = [pc EXCEPT ![c] = "lock"]
      /\ UNCHANGED <<config, quadlet, files, engine, lock, offer, saved, dump, backup, again>>
      /\ ops < MaxOps /\ ops' = ops + 1
  BY DEF Begin, Goto
<1>3. GlobalOK'
  BY <1>2 DEF GlobalOK
<1>4. LocalsOK'
  BY <1>1, <1>2 DEF CallersOK, LocalsOK, Places, Ops
<1>5. ASSUME NEW d \in Callers PROVE Hand(d)'
  <2>1. Hand(d)
    BY DEF CallersOK
  <2>2. QED
    BY <1>1, <1>2, <2>1 DEF CallersOK, LocalsOK, Hand, Locked
<1>6. Outcome
  <2>1. backup' \in [Callers -> 0..Len(dirs)]
    BY <1>2 DEF FilesInv, BackupOK
  <2>2. ASSUME NEW d \in Callers PROVE Plain(d)
    BY <1>2 DEF CallersOK, LocalsOK, FilesInv, Moved, Plain, Early, Carrying
  <2>3. QED
    BY <1>4, <1>5, <2>1, <2>2 DEF Outcome, CallersOK
<1>7. QED
  BY <1>2, <1>3, <1>6, QuietKeeps

\* lockService.
LEMMA LockKeeps == ASSUME IInv, NEW c \in Callers, Lock(c) PROVE IInv'
<1> USE DEF IInv
<1> DEFINE place == CASE op[c] = "update" -> "choose"
                      [] op[c] = "migrate" -> "engine"
                      [] op[c] = "rollback" -> "previous"
<1>1. /\ pc[c] = "lock" /\ pc' = [pc EXCEPT ![c] = place]
      /\ lock[ProcessOf[c]] = None /\ lock' = [lock EXCEPT ![ProcessOf[c]] = c]
      /\ UNCHANGED <<config, quadlet, files, engine, offer, locals, bounds>>
  BY DEF Lock, Goto, MayLock
<1>2. \/ op[c] = "update" /\ place = "choose"
      \/ op[c] = "migrate" /\ place = "engine"
      \/ op[c] = "rollback" /\ place = "previous"
  BY <1>1 DEF CallersOK, LocalsOK, Hand, Ops
<1>3. GlobalOK'
  BY <1>1 DEF GlobalOK, bounds
<1> HIDE DEF place
<1>4. LocalsOK'
  BY <1>1, <1>2 DEF CallersOK, LocalsOK, Places, Locked, locals
<1>5. ASSUME NEW d \in Callers PROVE Hand(d)'
  <2>1. Hand(d) /\ Hand(c)
    BY DEF CallersOK
  <2>2. CASE d = c
    BY <1>1, <1>2, <2>1, <2>2 DEF CallersOK, LocalsOK, Hand, locals
  <2>3. CASE d # c
    <3>1. pc[d] \in Locked => ProcessOf[d] # ProcessOf[c]
      BY <1>1, <2>1 DEF Hand
    <3>2. QED
      BY <1>1, <2>1, <2>3, <3>1 DEF CallersOK, LocalsOK, Hand, locals
  <2>4. QED
    BY <2>2, <2>3
<1>6. Outcome
  <2>1. backup' \in [Callers -> 0..Len(dirs)]
    BY <1>1 DEF FilesInv, BackupOK, locals
  <2>2. ASSUME NEW d \in Callers PROVE Plain(d)
    BY <1>1, <1>2 DEF CallersOK, LocalsOK, FilesInv, Moved, Plain, Early, Carrying, locals
  <2>3. QED
    BY <1>4, <1>5, <2>1, <2>2 DEF Outcome, CallersOK
<1>7. QED
  BY <1>1, <1>3, <1>6, QuietKeeps

\* The offer: computed, stored, or taken from the cache.
LEMMA ComputeKeeps == ASSUME IInv, NEW c \in Callers, Compute(c) PROVE IInv'
<1> USE DEF IInv
<1>1. /\ pc[c] = "choose" /\ pc' = [pc EXCEPT ![c] = "store"] /\ image' = [image EXCEPT ![c] = Current]
      /\ UNCHANGED <<config, quadlet, files, engine, lock, offer, op, saved, dump, backup, bounds>>
  BY DEF Compute, Goto
<1>2. GlobalOK'
  BY <1>1 DEF GlobalOK, bounds
<1>3. Current \in Images /\ None \notin Images
  BY CurrentTyped
<1>4. LocalsOK'
  BY <1>1, <1>3 DEF CallersOK, LocalsOK, Places, Locked
<1>5. ASSUME NEW d \in Callers PROVE Hand(d)'
  <2>1. Hand(d) /\ Hand(c)
    BY DEF CallersOK
  <2>2. QED
    BY <1>1, <1>3, <2>1 DEF CallersOK, LocalsOK, Hand, Locked
<1>6. Outcome
  <2>1. backup' \in [Callers -> 0..Len(dirs)]
    BY <1>1 DEF FilesInv, BackupOK
  <2>2. ASSUME NEW d \in Callers PROVE Plain(d)
    BY <1>1 DEF CallersOK, LocalsOK, FilesInv, Moved, Plain, Early, Carrying
  <2>3. QED
    BY <1>4, <1>5, <2>1, <2>2 DEF Outcome, CallersOK
<1>7. QED
  BY <1>1, <1>2, <1>6, QuietKeeps

LEMMA OfferKeeps == ASSUME IInv, NEW c \in Callers, Store(c) \/ Cached(c) \/ Gate(c) PROVE IInv'
<1>1. GlobalOK /\ CallersOK /\ Hand(c)
  BY DEF IInv, CallersOK
<1>2. CASE Store(c)
  <2>1. image[c] \in Images
    BY <1>1, <1>2 DEF CallersOK, LocalsOK, Hand, Store
  <2>2. Outcome
    BY <1>2, <2>1, ChosenOutcome DEF Store
  <2>3. GlobalOK'
    BY <1>1, <1>2, <2>1 DEF GlobalOK, Store, bounds
  <2>4. QED
    BY <1>2, <2>2, <2>3, QuietKeeps DEF Store
<1>3. CASE Cached(c)
  <2>1. offer[ProcessOf[c]] \in Images
    BY <1>1, <1>3 DEF GlobalOK, Cached
  <2>2. Outcome
    BY <1>3, <2>1, ChosenOutcome DEF Cached
  <2>3. GlobalOK'
    BY <1>1, <1>3 DEF GlobalOK, Cached, bounds
  <2>4. QED
    BY <1>3, <2>2, <2>3, QuietKeeps DEF Cached
<1>4. CASE Gate(c)
  <2>1. pc[c] = "choose" /\ op[c] = "update"
    BY <1>1, <1>4 DEF Gate, Hand
  <2>2. Outcome
    BY <1>4, <2>1, ContinueOutcome, EndOutcome DEF Gate, Locked, Early, Ready
  <2>3. GlobalOK'
    BY <1>1, <1>4 DEF GlobalOK, Gate, bounds
  <2>4. QED
    BY <1>4, <2>2, <2>3, QuietKeeps DEF Gate
<1>5. QED
  BY <1>2, <1>3, <1>4

\* A rollback reads what it goes back to.
LEMMA PreviousKeeps == ASSUME IInv, NEW c \in Callers, Previous(c) PROVE IInv'
<1> USE DEF IInv
<1>1. pc[c] = "previous" /\ UNCHANGED <<config, quadlet, files, engine, offer, bounds>>
  BY DEF Previous
<1>2. GlobalOK'
  BY <1>1 DEF GlobalOK, bounds
<1>3. CASE MayRollBack
  <2>1. /\ pc' = [pc EXCEPT ![c] = "pull"] /\ image' = [image EXCEPT ![c] = config.prev]
        /\ saved' = [saved EXCEPT ![c] = config]
        /\ UNCHANGED <<lock, op, dump, backup>>
    BY <1>3 DEF Previous, Goto
  <2>2. config \in Config /\ config # None /\ config.prev \in Images \cup {None}
    BY DEF GlobalOK, Config
  <2>3. LocalsOK'
    BY <2>1, <2>2 DEF CallersOK, LocalsOK, Places, Locked
  <2>4. ASSUME NEW d \in Callers PROVE Hand(d)'
    <3>1. Hand(d) /\ Hand(c)
      BY DEF CallersOK
    <3>2. CASE d = c
      BY <1>1, <2>1, <2>2, <3>1, <3>2 DEF CallersOK, LocalsOK, Hand, Locked
    <3>3. CASE d # c
      BY <2>1, <3>1, <3>3 DEF CallersOK, LocalsOK, Hand
    <3>4. QED
      BY <3>2, <3>3
  <2>5. backup' \in [Callers -> 0..Len(dirs)]
    BY <2>1 DEF FilesInv, BackupOK
  <2>6. ASSUME NEW d \in Callers PROVE Plain(d)
    BY <1>1, <2>1 DEF CallersOK, LocalsOK, FilesInv, Moved, Plain, Early
  <2>7. Outcome
    BY <2>3, <2>4, <2>5, <2>6 DEF Outcome, CallersOK
  <2>8. QED
    BY <1>1, <1>2, <2>7, QuietKeeps
<1>4. CASE ~MayRollBack
  <2>1. Outcome
    BY <1>1, <1>4, EndOutcome DEF Previous, Locked
  <2>2. QED
    BY <1>1, <1>2, <2>1, QuietKeeps
<1>5. QED
  BY <1>3, <1>4

\* A migrate up to the stop.
LEMMA EngineKeeps == ASSUME IInv, NEW c \in Callers, Engine(c) PROVE IInv'
<1>1. /\ GlobalOK /\ EngineOK /\ FilesOK /\ quadlet \in Images /\ Hand(c)
      /\ pc[c] = "engine" /\ pc[c] \in Locked /\ pc[c] \in Early
      /\ UNCHANGED <<config, quadlet, offer, bounds>>
  BY DEF IInv, FilesInv, GlobalOK, CallersOK, Engine, Locked, Early
<1>2. GlobalOK'
  BY <1>1 DEF GlobalOK, bounds
<1>3. Ready(c, "dump") /\ "dump" \in Locked \ {"choose", "store", "mkdir", "undo_rename"}
  BY <1>1 DEF Hand, Ready, Locked
<1>4. Continue(c, "dump") \/ End(c)
  BY DEF Engine
<1>5. Outcome
  BY <1>1, <1>3, <1>4, ContinueOutcome, EndOutcome DEF Carrying
<1>6. CASE UNCHANGED <<files, engine>>
  BY <1>2, <1>5, <1>6, QuietKeeps
<1>7. CASE Starts(quadlet) \/ StartFails(quadlet)
  <2>1. Gentle /\ EngineOK'
    BY <1>1, <1>7, StartGentle
  <2>2. QED
    BY <1>2, <1>5, <2>1, OutcomeKeeps
<1>8. QED
  BY <1>6, <1>7 DEF Engine

LEMMA DumpKeeps == ASSUME IInv, NEW c \in Callers, Dump(c) PROVE IInv'
<1> USE DEF IInv
<1>1. pc[c] = "dump" /\ UNCHANGED <<config, quadlet, files, engine, offer, bounds>>
  BY DEF Dump
<1>2. GlobalOK'
  BY <1>1 DEF GlobalOK, bounds
<1>3. CASE /\ unit # None /\ dirs[mount] # None
           /\ pc' = [pc EXCEPT ![c] = "stop"]
           /\ saved' = [saved EXCEPT ![c] = config]
           /\ dump' = [dump EXCEPT ![c] = dirs[mount].rows]
           /\ UNCHANGED <<lock, op, image, backup>>
  <2>1. config \in Config /\ config # None
    BY DEF GlobalOK
  <2>2. dirs[mount] \in Dir
    BY <1>3, DirsAre DEF EngineOK, FilesInv, Slots
  <2>3. dirs[mount].rows \in {"none", "all"}
    BY <2>2 DEF Dir
  <2>4. LocalsOK'
    BY <1>3, <2>1, <2>3 DEF CallersOK, LocalsOK, Places, Locked
  <2>5. ASSUME NEW d \in Callers PROVE Hand(d)'
    <3>1. Hand(d) /\ Hand(c)
      BY DEF CallersOK
    <3>2. CASE d = c
      BY <1>1, <1>3, <2>1, <3>1, <3>2 DEF CallersOK, LocalsOK, Hand, Locked
    <3>3. CASE d # c
      BY <1>3, <3>1, <3>3 DEF CallersOK, LocalsOK, Hand
    <3>4. QED
      BY <3>2, <3>3
  <2>6. backup' \in [Callers -> 0..Len(dirs)]
    BY <1>3 DEF FilesInv, BackupOK
  <2>7. ASSUME NEW d \in Callers PROVE Plain(d)
    BY <1>1, <1>3 DEF CallersOK, LocalsOK, FilesInv, Moved, Plain, Early, Carrying
  <2>8. Outcome
    BY <2>4, <2>5, <2>6, <2>7 DEF Outcome, CallersOK
  <2>9. QED
    BY <1>1, <1>2, <2>8, QuietKeeps
<1>4. CASE End(c)
  <2>1. Outcome
    BY <1>1, <1>4, EndOutcome DEF Locked
  <2>2. QED
    BY <1>1, <1>2, <2>1, QuietKeeps
<1>5. QED
  BY <1>3, <1>4 DEF Dump, Goto

LEMMA StopKeeps == ASSUME IInv, NEW c \in Callers, Stop(c) PROVE IInv'
<1>1. /\ GlobalOK /\ FilesOK /\ Hand(c)
      /\ pc[c] = "stop" /\ pc[c] \in Locked /\ pc[c] \in Early
      /\ UNCHANGED <<config, quadlet, files, offer, bounds>>
  BY DEF IInv, FilesInv, CallersOK, Stop, Locked, Early
<1>2. GlobalOK'
  BY <1>1 DEF GlobalOK, bounds
<1>3. Ready(c, "swap") /\ "swap" \in Locked \ {"choose", "store", "mkdir", "undo_rename"}
  BY <1>1 DEF Hand, Ready, Locked
<1>4. Continue(c, "swap") \/ End(c)
  BY DEF Stop
<1>5. Outcome
  BY <1>1, <1>3, <1>4, ContinueOutcome, EndOutcome DEF Carrying
<1>6. Gentle /\ FilesOK'
  BY <1>1, StillGentle DEF Gentle
<1>7. EngineOK'
  <2>1. CASE unit' = None /\ mount' = 0
    BY <1>6, <2>1, EngineStops
  <2>2. CASE UNCHANGED engine
    BY <1>1, <1>6, <2>2, EngineStays DEF IInv, Gentle
  <2>3. QED
    BY <2>1, <2>2 DEF Stop
<1>8. QED
  BY <1>2, <1>5, <1>6, <1>7, OutcomeKeeps

\* In one process, nobody else is past the lock, so nobody else has anything moved aside.
LEMMA AloneMoved ==
  ASSUME IInv, OneProcessOnly, NEW c \in Callers, pc[c] \in Locked,
         NEW d \in Callers, d # c, pc'[d] = pc[d], backup'[d] = backup[d]
  PROVE  Moved(d)'
<1>1. pc[d] \in {"idle", "lock", "poll"}
  BY DEF IInv, CallersOK, LocalsOK, Hand, OneProcessOnly, Places
<1>2. backup[d] = 0
  BY <1>1 DEF IInv, FilesInv, Moved, Early
<1>3. QED
  BY <1>1, <1>2 DEF Moved, Carrying

\* The directory moves aside, and rows with it or elsewhere.
LEMMA SwapKeeps == ASSUME IInv, OneProcessOnly, NEW c \in Callers, Swap(c) PROVE IInv'
<1>1. /\ GlobalOK /\ EngineOK /\ FilesOK /\ BackupOK /\ RowsKept /\ CallersOK /\ Hand(c) /\ Moved(c)
      /\ pc[c] = "swap" /\ pc[c] \in Locked /\ pc[c] \in Early /\ op[c] = "migrate"
      /\ UNCHANGED <<config, quadlet, dirs, engine, offer, bounds>>
  BY DEF IInv, FilesInv, CallersOK, Hand, Swap, Locked, Early
<1>2. GlobalOK'
  BY <1>1 DEF GlobalOK, bounds
<1>3. CASE data = 0 /\ Continue(c, "pull") /\ UNCHANGED data
  <2>1. Outcome
    BY <1>1, <1>3, ContinueOutcome DEF Ready, Locked, Early
  <2>2. QED
    BY <1>1, <1>2, <1>3, <2>1, QuietKeeps DEF files
<1>4. CASE /\ data # 0 /\ data' = 0
           /\ Goto(c, "mkdir") /\ backup' = [backup EXCEPT ![c] = data]
           /\ UNCHANGED <<lock, op, image, saved, dump>>
  <2>1. CallersOK'
    BY <1>1, <1>4, ContinueCallers DEF Ready, Locked
  <2>2. FilesOK'
    BY <1>1, <1>4, DirsAre DEF FilesOK
  <2>3. BackupOK'
    BY <1>1, <1>4 DEF BackupOK, FilesOK
  <2>4. RowsKept' /\ \A n \in 1..Len(dirs) : Holds(n)' <=> Holds(n)
    BY <1>1, <1>4 DEF RowsKept, Holds
  <2>5. Moved(c)'
    <3>1. pc'[c] = "mkdir" /\ backup'[c] = data /\ dirs'[data] # None
      BY <1>1, <1>4 DEF Goto, CallersOK, LocalsOK, BackupOK, FilesOK
    <3>2. \E n \in 1..Len(dirs') : n # data' /\ Holds(n)'
      BY <1>4, <2>4 DEF RowsKept
    <3>3. QED
      BY <1>4, <3>1, <3>2 DEF Moved, Early
  <2>6. ASSUME NEW d \in Callers, d # c PROVE Moved(d)'
    BY <1>1, <1>4, <2>6, AloneMoved DEF Goto, CallersOK, LocalsOK, BackupOK
  <2>7. EngineOK'
    BY <1>1, <2>2, EngineStays, DirsAre
  <2>8. QED
    BY <1>2, <2>1, <2>2, <2>3, <2>4, <2>5, <2>6, <2>7 DEF IInv, FilesInv
<1>5. CASE data # 0 /\ Abort(c, None) /\ UNCHANGED data
  <2>1. Outcome
    BY <1>1, <1>5, AbortOutcome
  <2>2. QED
    BY <1>1, <1>2, <1>5, <2>1, QuietKeeps DEF files
<1>6. QED
  BY <1>3, <1>4, <1>5 DEF Swap

\* The new directory is made, or the old one renamed back.
LEMMA MkdirKeeps == ASSUME IInv, OneProcessOnly, NEW c \in Callers, Mkdir(c) PROVE IInv'
<1>1. /\ GlobalOK /\ EngineOK /\ FilesOK /\ BackupOK /\ RowsKept /\ CallersOK /\ Hand(c) /\ Moved(c)
      /\ pc[c] = "mkdir" /\ pc[c] \in Locked /\ pc[c] \in Carrying /\ op[c] = "migrate"
      /\ UNCHANGED <<config, quadlet, engine, offer, bounds>>
  BY DEF IInv, FilesInv, CallersOK, Hand, Mkdir, Locked, Carrying
<1>2. GlobalOK'
  BY <1>1 DEF GlobalOK, bounds
<1>3. CASE EnsureDir /\ Continue(c, "pull")
  <2>1. Outcome
    BY <1>1, <1>3, ContinueOutcome DEF Ready, Locked, Early
  <2>2. Gentle
    BY <1>1, <1>3, EnsureDirGentle
  <2>3. EngineOK'
    BY <1>1, <2>2, EngineStays DEF Gentle
  <2>4. QED
    BY <1>2, <2>1, <2>2, <2>3, OutcomeKeeps
<1>4. CASE /\ data = 0 /\ UNCHANGED dirs
           /\ data' = backup[c] \/ (UndoFails /\ UNCHANGED data)
           /\ Goto(c, "undo_data")
           /\ backup' = [backup EXCEPT ![c] = 0] /\ saved' = [saved EXCEPT ![c] = None]
           /\ UNCHANGED <<lock, op, image, dump>>
  <2>1. CallersOK'
    BY <1>1, <1>4, AbortCallers
  <2>2. FilesOK'
    BY <1>1, <1>4, DirsAre DEF FilesOK, BackupOK, Moved
  <2>3. BackupOK'
    BY <1>1, <1>4, DirsAre DEF BackupOK
  <2>4. RowsKept'
    BY <1>1, <1>4 DEF RowsKept, Holds
  <2>5. Moved(c)'
    BY <1>1, <1>4 DEF Moved, Goto, CallersOK, LocalsOK, BackupOK
  <2>6. ASSUME NEW d \in Callers, d # c PROVE Moved(d)'
    BY <1>1, <1>4, <2>6, AloneMoved DEF Goto, CallersOK, LocalsOK, BackupOK
  <2>7. EngineOK'
    BY <1>1, <1>4, <2>2, EngineStays, DirsAre
  <2>8. QED
    BY <1>2, <2>1, <2>2, <2>3, <2>4, <2>5, <2>6, <2>7 DEF IInv, FilesInv
<1>5. QED
  BY <1>3, <1>4 DEF Mkdir

\* Pull, or fail to.
LEMMA PullKeeps == ASSUME IInv, NEW c \in Callers, Pull(c) PROVE IInv'
<1>1. /\ GlobalOK /\ Hand(c) /\ pc[c] = "pull" /\ pc[c] \in Locked /\ pc[c] \in Carrying
      /\ UNCHANGED <<config, quadlet, files, engine, offer, bounds>>
  BY DEF IInv, CallersOK, Pull, Locked, Carrying
<1>2. GlobalOK'
  BY <1>1 DEF GlobalOK, bounds
<1>3. Ready(c, "config")
  BY <1>1 DEF Ready, Hand
<1>4. Outcome
  BY <1>1, <1>3, ContinueOutcome, FailsOutcome DEF Pull, Locked, Early
<1>5. QED
  BY <1>1, <1>2, <1>4, QuietKeeps

\* The new entry, or none.
LEMMA PersistKeeps == ASSUME IInv, NEW c \in Callers, Persist(c) PROVE IInv'
<1>1. /\ GlobalOK /\ CallersOK /\ LocalsOK /\ Hand(c)
      /\ pc[c] = "config" /\ pc[c] \in Locked /\ pc[c] \in Carrying
      /\ UNCHANGED <<quadlet, files, engine, ops>>
  BY DEF IInv, CallersOK, Persist, Locked, Carrying
<1>2. saved[c] \in Config \cup {None}
  BY <1>1 DEF LocalsOK
<1>3. CASE /\ config' = Entry(c) /\ Continue(c, "quadlet")
           /\ again' = IF op[c] = "update" /\ image[c] = config.image THEN "yes" ELSE again
           /\ UNCHANGED offer
  <2>1. Outcome
    BY <1>1, <1>3, ContinueOutcome DEF Ready, Locked, Early
  <2>2. Entry(c) \in Config
    <3>1. image[c] \in Images \cup {None} /\ config.image \in Images \cup {None}
          /\ config.prev \in Images \cup {None}
      BY <1>1 DEF LocalsOK, GlobalOK, Config
    <3>2. CASE op[c] = "rollback"
      <4>1. saved[c].image \in Images \cup {None}
        BY <1>1, <1>2, <3>2 DEF Hand, Config
      <4>2. QED
        BY <3>1, <3>2, <4>1 DEF Entry, Config
    <3>3. CASE op[c] # "rollback"
      <4>1. op[c] \in {"update", "migrate"}
        BY <1>1, <3>3 DEF LocalsOK, Hand, Ops
      <4>2. QED
        BY <3>1, <3>3, <4>1 DEF Entry, Config
    <3>4. QED
      BY <3>2, <3>3
  <2>3. GlobalOK'
    BY <1>1, <1>3, <2>2 DEF GlobalOK
  <2>4. QED
    BY <1>1, <2>1, <2>3, QuietKeeps
<1>4. CASE UNCHANGED <<config, again>> /\ Forgets(c) /\ Fails(c, saved[c])
  <2>1. Outcome
    BY <1>1, <1>2, <1>4, FailsOutcome
  <2>2. GlobalOK'
    BY <1>1, <1>4 DEF GlobalOK, Forgets, Invalidate
  <2>3. QED
    BY <1>1, <2>1, <2>2, QuietKeeps
<1>5. QED
  BY <1>3, <1>4 DEF Persist

\* The quadlet follows.
LEMMA RewriteKeeps == ASSUME IInv, NEW c \in Callers, Rewrite(c) PROVE IInv'
<1>1. /\ GlobalOK /\ EngineOK /\ FilesOK
      /\ pc[c] = "quadlet" /\ pc[c] \in Locked /\ pc[c] \in Carrying
      /\ quadlet' \in Images /\ EnsureDir /\ Forgets(c) /\ Continue(c, "restart")
      /\ UNCHANGED <<config, engine, bounds>>
  BY CurrentTyped DEF IInv, FilesInv, Rewrite, Locked, Carrying
<1>2. GlobalOK'
  BY <1>1 DEF GlobalOK, Forgets, Invalidate, bounds
<1>3. Outcome
  BY <1>1, ContinueOutcome DEF Ready, Locked, Early
<1>4. Gentle
  BY <1>1, EnsureDirGentle
<1>5. EngineOK'
  BY <1>1, <1>4, EngineStays DEF Gentle
<1>6. QED
  BY <1>2, <1>3, <1>4, <1>5, OutcomeKeeps

\* The service is started again, or is not.
LEMMA RestartKeeps == ASSUME IInv, NEW c \in Callers, Restart(c) PROVE IInv'
<1>1. /\ GlobalOK /\ EngineOK /\ FilesOK /\ LocalsOK /\ quadlet \in Images
      /\ pc[c] = "restart" /\ pc[c] \in Locked /\ pc[c] \in Carrying
      /\ UNCHANGED <<config, quadlet, offer, bounds>>
  BY DEF IInv, FilesInv, GlobalOK, CallersOK, Restart, Locked, Carrying
<1>2. GlobalOK'
  BY <1>1 DEF GlobalOK, bounds
<1>3. saved[c] \in Config \cup {None}
  BY <1>1 DEF LocalsOK
<1>4. Continue(c, "wait") \/ End(c) \/ Fails(c, saved[c])
  BY DEF Restart
<1>5. Outcome
  BY <1>1, <1>3, <1>4, ContinueOutcome, EndOutcome, FailsOutcome DEF Ready, Locked, Early
<1>6. Gentle /\ EngineOK'
  BY <1>1, StartGentle DEF Restart
<1>7. QED
  BY <1>2, <1>5, <1>6, OutcomeKeeps

\* The service is ready, or not.
LEMMA WaitKeeps == ASSUME IInv, NEW c \in Callers, Wait(c) PROVE IInv'
<1>1. /\ GlobalOK /\ pc[c] = "wait" /\ pc[c] \in Locked /\ pc[c] \in Carrying
      /\ UNCHANGED <<config, quadlet, files, engine, offer, bounds>>
  BY DEF IInv, Wait, Locked, Carrying
<1>2. GlobalOK'
  BY <1>1 DEF GlobalOK, bounds
<1>3. Continue(c, "restore") \/ End(c)
  BY DEF Wait
<1>4. Outcome
  BY <1>1, <1>3, ContinueOutcome, EndOutcome DEF Ready, Locked, Early
<1>5. QED
  BY <1>1, <1>2, <1>4, QuietKeeps

\* The dump is replayed, or the client fails.
LEMMA RestoreKeeps == ASSUME IInv, NEW c \in Callers, Restore(c) PROVE IInv'
<1>1. /\ GlobalOK /\ EngineOK /\ FilesOK /\ LocalsOK
      /\ pc[c] = "restore" /\ pc[c] \in Locked /\ pc[c] \in Carrying
      /\ UNCHANGED <<config, quadlet, data, engine, offer, bounds>>
  BY DEF IInv, FilesInv, CallersOK, Restore, Locked, Carrying
<1>2. GlobalOK'
  BY <1>1 DEF GlobalOK, bounds
<1>3. Continue(c, "record") \/ End(c)
  BY DEF Restore
<1>4. Outcome
  BY <1>1, <1>3, ContinueOutcome, EndOutcome DEF Ready, Locked, Early
<1>5. Gentle
  <2>1. CASE UNCHANGED dirs
    BY <1>1, <2>1, StillGentle DEF files
  <2>2. CASE /\ unit # None /\ dirs[mount] # None
             /\ dirs' = [dirs EXCEPT ![mount] =
                           [line |-> @.line, rows |-> IF dump[c] = "all" THEN "all" ELSE @.rows]]
    <3>1. mount \in 1..Len(dirs)
      BY <1>1, <2>2, DirsAre DEF EngineOK
    <3>2. dump[c] \in {"none", "all"}
      BY <1>1 DEF LocalsOK
    <3>3. QED
      BY <1>1, <2>2, <3>1, <3>2, RestoreGentle
  <2>3. QED
    BY <2>1, <2>2 DEF Restore
<1>6. EngineOK'
  BY <1>1, <1>5, EngineStays DEF Gentle
<1>7. QED
  BY <1>2, <1>4, <1>5, <1>6, OutcomeKeeps

\* The migrate is recorded, or not.
LEMMA RecordKeeps == ASSUME IInv, NEW c \in Callers, Record(c) PROVE IInv'
<1>1. /\ GlobalOK /\ pc[c] \in Locked /\ End(c)
      /\ UNCHANGED <<quadlet, files, engine, offer, bounds>>
      /\ \/ config' = [image |-> config.image, prev |-> config.prev, op |-> "migrate"]
         \/ UNCHANGED config
  BY DEF IInv, Record, Locked
<1>2. config' \in Config
  BY <1>1 DEF GlobalOK, Config
<1>3. GlobalOK'
  BY <1>1, <1>2 DEF GlobalOK, bounds
<1>4. Outcome
  BY <1>1, EndOutcome
<1>5. QED
  BY <1>1, <1>3, <1>4, QuietKeeps

-----------------------------------------------------------------------------
(* The way back. *)

\* Where the way back goes when the directories are done with.
LEMMA UndoOutcome ==
  ASSUME IInv, NEW c \in Callers, pc[c] \in {"undo_data", "undo_rename"},
         Continue(c, IF saved[c] = None THEN "undo_start" ELSE "undo_config")
  PROVE  Outcome
BY ContinueOutcome DEF Ready, Locked, Early, Carrying

\* RemoveAll removes the fresh directory: the rows are in another one.
LEMMA UndoDataKeeps == ASSUME IInv, OneProcessOnly, NEW c \in Callers, UndoData(c) PROVE IInv'
<1>1. /\ GlobalOK /\ EngineOK /\ FilesOK /\ BackupOK /\ RowsKept /\ CallersOK /\ Hand(c) /\ Moved(c)
      /\ pc[c] = "undo_data" /\ pc[c] \in Locked /\ pc[c] \in Carrying
      /\ UNCHANGED <<config, quadlet, engine, offer, bounds>>
  BY DEF IInv, FilesInv, CallersOK, UndoData, Locked, Carrying
<1>2. GlobalOK'
  BY <1>1 DEF GlobalOK, bounds
<1>3. CASE UNCHANGED files /\ Continue(c, IF saved[c] = None THEN "undo_start" ELSE "undo_config")
  BY <1>1, <1>2, <1>3, UndoOutcome, QuietKeeps
<1>4. CASE /\ HasBackup(c) /\ data' = 0
           /\ dirs' = [n \in DOMAIN dirs |-> IF n = data THEN None ELSE dirs[n]]
           /\ Continue(c, "undo_rename")
  <2>1. /\ dirs' \in Seq(Slots) /\ Len(dirs') = Len(dirs) /\ Len(dirs) \in Nat
        /\ \A n \in 1..Len(dirs) : dirs'[n] = IF n = data THEN None ELSE dirs[n]
    BY <1>1, <1>4, RemoveDir, DirsAre
  <2>2. CallersOK'
    BY <1>1, <1>4, ContinueCallers DEF Ready, Locked, Continue, locals
  <2>3. FilesOK'
    BY <1>4, <2>1 DEF FilesOK
  <2>4. BackupOK' /\ backup' = backup
    BY <1>1, <1>4, <2>1 DEF BackupOK, Continue, locals
  <2>5. PICK n \in 1..Len(dirs) : n # data /\ Holds(n)
    BY <1>1, <1>4 DEF Moved, HasBackup
  <2>6. RowsKept'
    BY <2>1, <2>5 DEF RowsKept, Holds
  <2>7. Moved(c)'
    <3>1. pc'[c] = "undo_rename" /\ backup'[c] # 0
      BY <1>1, <1>4, <2>4 DEF Continue, Goto, CallersOK, LocalsOK, HasBackup
    <3>2. QED
      BY <1>4, <3>1 DEF Moved, Early, Carrying
  <2>8. ASSUME NEW d \in Callers, d # c PROVE Moved(d)'
    BY <1>1, <1>4, <2>4, <2>8, AloneMoved DEF Continue, Goto, CallersOK, LocalsOK
  <2>9. EngineOK'
    BY <1>1, <2>1, <2>3, EngineStays
  <2>10. QED
    BY <1>2, <2>2, <2>3, <2>4, <2>6, <2>7, <2>8, <2>9 DEF IInv, FilesInv
<1>5. QED
  BY <1>3, <1>4 DEF UndoData

\* The rename back replaces an empty directory at most.
LEMMA UndoRenameKeeps == ASSUME IInv, OneProcessOnly, NEW c \in Callers, UndoRename(c) PROVE IInv'
<1>1. /\ GlobalOK /\ EngineOK /\ FilesOK /\ BackupOK /\ RowsKept /\ CallersOK /\ Moved(c)
      /\ pc[c] = "undo_rename" /\ pc[c] \in Locked
      /\ UNCHANGED <<config, quadlet, engine, offer, bounds>>
      /\ Continue(c, IF saved[c] = None THEN "undo_start" ELSE "undo_config")
  BY DEF IInv, FilesInv, CallersOK, UndoRename, Locked
<1>2. GlobalOK'
  BY <1>1 DEF GlobalOK, bounds
<1>3. Outcome
  BY <1>1, UndoOutcome
<1>4. CASE UNCHANGED files
  BY <1>1, <1>2, <1>3, <1>4, QuietKeeps
<1>5. CASE /\ MayRename(backup[c]) /\ data' = backup[c]
           /\ dirs' = [n \in DOMAIN dirs |-> IF n = data THEN None ELSE dirs[n]]
  <2>1. /\ dirs' \in Seq(Slots) /\ Len(dirs') = Len(dirs) /\ Len(dirs) \in Nat
        /\ \A n \in 1..Len(dirs) : dirs'[n] = IF n = data THEN None ELSE dirs[n]
    BY <1>1, <1>5, RemoveDir, DirsAre
  <2>2. backup' = backup /\ backup[c] \in 0..Len(dirs) /\ data # backup[c]
    BY <1>1 DEF Continue, locals, BackupOK, Moved
  <2>3. FilesOK'
    <3>1. dirs[backup[c]] # None
      BY <1>5 DEF MayRename
    <3>2. QED
      BY <1>5, <2>1, <2>2, <3>1 DEF FilesOK
  <2>4. BackupOK'
    BY <1>1, <2>1, <2>2 DEF BackupOK
  <2>5. RowsKept'
    <3>1. PICK n \in 1..Len(dirs) : Holds(n)
      BY <1>1 DEF RowsKept
    <3>2. n # data
      BY <1>5, <3>1, DirsAre, <1>1 DEF MayRename, Holds, Empty
    <3>3. QED
      BY <2>1, <3>1, <3>2 DEF RowsKept, Holds
  <2>6. Moved(c)'
    <3>1. pc'[c] \in {"undo_start", "undo_config"}
      BY <1>1 DEF Continue, Goto, CallersOK, LocalsOK
    <3>2. QED
      BY <3>1 DEF Moved, Early, Carrying
  <2>7. ASSUME NEW d \in Callers, d # c PROVE Moved(d)'
    BY <1>1, <2>2, <2>7, AloneMoved DEF Continue, Goto, CallersOK, LocalsOK
  <2>8. EngineOK'
    BY <1>1, <2>1, <2>3, EngineStays
  <2>9. QED
    BY <1>2, <1>3, <2>3, <2>4, <2>5, <2>6, <2>7, <2>8 DEF IInv, FilesInv, Outcome
<1>6. QED
  BY <1>4, <1>5 DEF UndoRename

\* The entry, the quadlet and the start of the way back.
LEMMA UndoConfigKeeps == ASSUME IInv, NEW c \in Callers, UndoConfig(c) PROVE IInv'
<1>1. /\ GlobalOK /\ LocalsOK /\ Hand(c)
      /\ pc[c] = "undo_config" /\ pc[c] \in Locked
      /\ Invalidate(c) /\ Continue(c, "undo_quadlet")
      /\ config' = saved[c] \/ UNCHANGED config
      /\ UNCHANGED <<quadlet, files, engine, bounds>>
  BY DEF IInv, CallersOK, UndoConfig, Locked
<1>2. config' \in Config
  BY <1>1 DEF GlobalOK, LocalsOK, Hand
<1>3. GlobalOK'
  BY <1>1, <1>2 DEF GlobalOK, Invalidate, bounds
<1>4. Outcome
  BY <1>1, ContinueOutcome DEF Ready, Locked, Early, Carrying
<1>5. QED
  BY <1>1, <1>3, <1>4, QuietKeeps

LEMMA UndoQuadletKeeps == ASSUME IInv, NEW c \in Callers, UndoQuadlet(c) PROVE IInv'
<1>1. /\ GlobalOK /\ EngineOK /\ FilesOK
      /\ pc[c] = "undo_quadlet" /\ pc[c] \in Locked /\ Continue(c, "undo_start")
      /\ quadlet' \in Images
      /\ UNCHANGED <<config, engine, offer, bounds>>
  BY CurrentTyped DEF IInv, FilesInv, GlobalOK, UndoQuadlet, Locked
<1>2. GlobalOK'
  BY <1>1 DEF GlobalOK, bounds
<1>3. Outcome
  BY <1>1, ContinueOutcome DEF Ready, Locked, Early, Carrying
<1>4. Gentle
  BY <1>1, EnsureDirGentle, StillGentle DEF UndoQuadlet
<1>5. EngineOK'
  BY <1>1, <1>4, EngineStays DEF Gentle
<1>6. QED
  BY <1>2, <1>3, <1>4, <1>5, OutcomeKeeps

LEMMA UndoStartKeeps == ASSUME IInv, NEW c \in Callers, UndoStart(c) PROVE IInv'
<1>1. /\ GlobalOK /\ EngineOK /\ FilesOK /\ quadlet \in Images
      /\ pc[c] \in Locked /\ End(c)
      /\ UNCHANGED <<config, quadlet, offer, bounds>>
  BY DEF IInv, FilesInv, GlobalOK, UndoStart, Locked
<1>2. GlobalOK'
  BY <1>1 DEF GlobalOK, bounds
<1>3. Outcome
  BY <1>1, EndOutcome
<1>4. CASE UNCHANGED <<files, engine>>
  BY <1>2, <1>3, <1>4, QuietKeeps
<1>5. CASE Starts(quadlet) \/ StartFails(quadlet)
  <2>1. Gentle /\ EngineOK'
    BY <1>1, <1>5, StartGentle
  <2>2. QED
    BY <1>2, <1>3, <2>1, OutcomeKeeps
<1>6. QED
  BY <1>4, <1>5 DEF UndoStart

-----------------------------------------------------------------------------
(* What happens beside the operations. *)

\* A poll computes an offer and stores it.
LEMMA PollKeeps == ASSUME IInv, NEW c \in Callers, Poll(c) \/ StorePoll(c) PROVE IInv'
<1> USE DEF IInv
<1>1. CASE Poll(c)
  <2>1. /\ pc[c] = "idle" /\ pc' = [pc EXCEPT ![c] = "poll"] /\ image' = [image EXCEPT ![c] = Current]
        /\ UNCHANGED <<config, quadlet, files, engine, lock, offer, op, saved, dump, backup, bounds>>
    BY <1>1 DEF Poll, Goto
  <2>2. GlobalOK'
    BY <2>1 DEF GlobalOK, bounds
  <2>3. Current \in Images
    BY CurrentTyped
  <2>4. LocalsOK'
    BY <2>1, <2>3 DEF CallersOK, LocalsOK, Places
  <2>5. ASSUME NEW d \in Callers PROVE Hand(d)'
    <3>1. Hand(d)
      BY DEF CallersOK
    <3>2. QED
      BY <2>1, <3>1 DEF CallersOK, LocalsOK, Hand, Locked
  <2>6. backup' \in [Callers -> 0..Len(dirs)]
    BY <2>1 DEF FilesInv, BackupOK
  <2>7. ASSUME NEW d \in Callers PROVE Plain(d)
    BY <2>1 DEF CallersOK, LocalsOK, FilesInv, Moved, Plain, Early, Carrying
  <2>8. QED
    BY <2>1, <2>2, <2>4, <2>5, <2>6, <2>7, QuietKeeps DEF Outcome, CallersOK
<1>2. CASE StorePoll(c)
  <2>1. /\ pc[c] = "poll" /\ pc' = [pc EXCEPT ![c] = "idle"] /\ image' = [image EXCEPT ![c] = None]
        /\ UNCHANGED <<config, quadlet, files, engine, lock, op, saved, dump, backup, bounds>>
        /\ offer' = [offer EXCEPT ![ProcessOf[c]] = image[c]]
    BY <1>2 DEF StorePoll, Goto
  <2>2. GlobalOK'
    BY <2>1 DEF GlobalOK, CallersOK, LocalsOK, bounds
  <2>3. LocalsOK'
    BY <2>1 DEF CallersOK, LocalsOK, Places
  <2>4. ASSUME NEW d \in Callers PROVE Hand(d)'
    <3>1. Hand(d)
      BY DEF CallersOK
    <3>2. QED
      BY <2>1, <3>1 DEF CallersOK, LocalsOK, Hand, Locked
  <2>5. backup' \in [Callers -> 0..Len(dirs)]
    BY <2>1 DEF FilesInv, BackupOK
  <2>6. ASSUME NEW d \in Callers PROVE Plain(d)
    BY <2>1 DEF CallersOK, LocalsOK, FilesInv, Moved, Plain, Early, Carrying
  <2>7. QED
    BY <2>1, <2>2, <2>3, <2>4, <2>5, <2>6, QuietKeeps DEF Outcome, CallersOK
<1>3. QED
  BY <1>1, <1>2

\* When no caller moves there is nothing to show about callers.
LEMMA NobodyMoves == ASSUME IInv, UNCHANGED <<lock, pc, locals>> PROVE Outcome
<1>1. CallersOK'
  <2>1. ASSUME NEW d \in Callers PROVE Hand(d)'
    BY DEF IInv, CallersOK, Hand, locals
  <2>2. LocalsOK'
    BY DEF IInv, CallersOK, LocalsOK, locals
  <2>3. QED
    BY <2>1, <2>2 DEF CallersOK
<1>2. QED
  BY <1>1 DEF IInv, FilesInv, BackupOK, Outcome, Plain, locals

\* Time, and the user without the lock.
LEMMA UserKeeps ==
  ASSUME IInv, (\E p \in Processes : Expire(p)) \/ UserRewrite \/ UserStart \/ UserStop
  PROVE  IInv'
<1>1. GlobalOK /\ EngineOK /\ FilesOK /\ quadlet \in Images
  BY DEF IInv, FilesInv, GlobalOK
<1>2. Outcome
  BY NobodyMoves DEF Expire, UserRewrite, UserStart, UserStop
<1>3. CASE \E p \in Processes : Expire(p)
  <2>1. GlobalOK'
    BY <1>1, <1>3 DEF GlobalOK, Expire, bounds
  <2>2. QED
    BY <1>2, <1>3, <2>1, QuietKeeps DEF Expire
<1>4. CASE UserRewrite
  <2>1. GlobalOK'
    BY <1>1, <1>4, CurrentTyped DEF GlobalOK, UserRewrite, bounds
  <2>2. Gentle
    BY <1>1, <1>4, EnsureDirGentle DEF UserRewrite
  <2>3. EngineOK'
    BY <1>1, <1>4, <2>2, EngineStays DEF Gentle, UserRewrite
  <2>4. QED
    BY <1>2, <2>1, <2>2, <2>3, OutcomeKeeps
<1>5. CASE UserStart
  <2>1. GlobalOK'
    BY <1>1, <1>5 DEF GlobalOK, UserStart, bounds
  <2>2. Gentle /\ EngineOK'
    BY <1>1, <1>5, StartGentle DEF UserStart
  <2>3. QED
    BY <1>2, <2>1, <2>2, OutcomeKeeps
<1>6. CASE UserStop
  <2>1. GlobalOK'
    BY <1>1, <1>6 DEF GlobalOK, UserStop, bounds
  <2>2. Gentle /\ FilesOK'
    BY <1>1, <1>6, StillGentle DEF UserStop, Gentle
  <2>3. EngineOK'
    BY <1>6, <2>2, EngineStops DEF UserStop
  <2>4. QED
    BY <1>2, <2>1, <2>2, <2>3, OutcomeKeeps
<1>7. QED
  BY <1>3, <1>4, <1>5, <1>6

\* The process dies: nobody is anywhere, and what is on disk stays.
LEMMA CrashKeeps == ASSUME IInv, NEW p \in Processes, Crash(p) PROVE IInv'
<1> USE DEF IInv
<1> DEFINE Dies(d) == ProcessOf[d] = p
<1>1. /\ pc' = [d \in Callers |-> IF Dies(d) THEN "idle" ELSE pc[d]]
      /\ op' = [d \in Callers |-> IF Dies(d) THEN "none" ELSE op[d]]
      /\ image' = [d \in Callers |-> IF Dies(d) THEN None ELSE image[d]]
      /\ saved' = [d \in Callers |-> IF Dies(d) THEN None ELSE saved[d]]
      /\ dump' = [d \in Callers |-> IF Dies(d) THEN "none" ELSE dump[d]]
      /\ backup' = [d \in Callers |-> IF Dies(d) THEN 0 ELSE backup[d]]
      /\ lock' = [lock EXCEPT ![p] = None] /\ offer' = [offer EXCEPT ![p] = None]
      /\ UNCHANGED <<config, quadlet, files, engine, bounds>>
  BY DEF Crash
<1>2. GlobalOK'
  BY <1>1 DEF GlobalOK, bounds
<1>3. LocalsOK'
  BY <1>1 DEF CallersOK, LocalsOK, Places, Ops
<1>4. ASSUME NEW d \in Callers PROVE Hand(d)'
  <2>1. Hand(d)
    BY DEF CallersOK
  <2>2. CASE Dies(d)
    BY <1>1, <2>2 DEF Hand, Locked
  <2>3. CASE ~Dies(d)
    BY <1>1, <2>1, <2>3 DEF Hand, CallersOK, LocalsOK
  <2>4. QED
    BY <2>2, <2>3
<1>5. Outcome
  <2>1. backup' \in [Callers -> 0..Len(dirs)]
    BY <1>1, DirsAre DEF FilesInv, BackupOK
  <2>2. ASSUME NEW d \in Callers PROVE Plain(d)
    BY <1>1 DEF Plain, Early, Carrying
  <2>3. QED
    BY <1>3, <1>4, <2>1, <2>2 DEF Outcome, CallersOK
<1>6. QED
  BY <1>1, <1>2, <1>5, QuietKeeps

-----------------------------------------------------------------------------
(* The theorems. *)

\* It begins well: the rows are in the directory at the service's path.
LEMMA InitKeeps == Init => IInv
<1> SUFFICES ASSUME Init PROVE IInv
  OBVIOUS
<1> USE DEF Init
<1>1. GlobalOK
  BY DEF GlobalOK, Config
<1>2. Len(dirs) = 1 /\ dirs[1] = [line |-> LineOf[Installed], rows |-> "all"]
  OBVIOUS
<1>3. dirs[1] \in Dir /\ dirs[1] # None /\ dirs[1].rows = "all"
  BY <1>2 DEF Dir
<1>4. FilesOK
  BY <1>2, <1>3 DEF FilesOK, Slots
<1>5. EngineOK
  BY <1>2 DEF EngineOK
<1>6. CallersOK
  BY DEF CallersOK, LocalsOK, Hand, Places, Ops, Locked
<1>7. BackupOK /\ RowsKept /\ \A c \in Callers : Moved(c)
  BY <1>2, <1>3 DEF BackupOK, RowsKept, Holds, Moved, Early, Carrying
<1>8. QED
  BY <1>1, <1>4, <1>5, <1>6, <1>7 DEF IInv, FilesInv

\* Every step keeps the invariant when all callers share a process.
LEMMA StepKeeps == IInv /\ OneProcessOnly /\ [Next]_vars => IInv'
<1> SUFFICES ASSUME IInv, OneProcessOnly, [Next]_vars PROVE IInv'
  OBVIOUS
<1>1. ASSUME NEW c \in Callers, Step(c) PROVE IInv'
  <2>1. CASE Begin(c) \/ Lock(c) \/ Compute(c) \/ Store(c) \/ Cached(c) \/ Gate(c) \/ Previous(c)
    BY <2>1, BeginKeeps, LockKeeps, ComputeKeeps, OfferKeeps, PreviousKeeps
  <2>2. CASE Engine(c) \/ Dump(c) \/ Stop(c) \/ Swap(c) \/ Mkdir(c)
    BY <2>2, EngineKeeps, DumpKeeps, StopKeeps, SwapKeeps, MkdirKeeps
  <2>3. CASE Pull(c) \/ Persist(c) \/ Rewrite(c) \/ Restart(c) \/ Wait(c) \/ Restore(c) \/ Record(c)
    BY <2>3, PullKeeps, PersistKeeps, RewriteKeeps, RestartKeeps, WaitKeeps, RestoreKeeps, RecordKeeps
  <2>4. CASE UndoData(c) \/ UndoRename(c) \/ UndoConfig(c) \/ UndoQuadlet(c) \/ UndoStart(c)
    BY <2>4, UndoDataKeeps, UndoRenameKeeps, UndoConfigKeeps, UndoQuadletKeeps, UndoStartKeeps
  <2>5. CASE Poll(c) \/ StorePoll(c)
    BY <2>5, PollKeeps
  <2>6. QED
    BY <1>1, <2>1, <2>2, <2>3, <2>4, <2>5 DEF Step
<1>2. ASSUME NEW p \in Processes, Expire(p) \/ Crash(p) PROVE IInv'
  BY <1>2, UserKeeps, CrashKeeps
<1>3. CASE UserRewrite \/ UserStart \/ UserStop
  BY <1>3, UserKeeps
<1>4. CASE UNCHANGED vars
  <2>1. GlobalOK'
    BY <1>4 DEF IInv, GlobalOK, vars, bounds
  <2>2. Outcome
    BY <1>4, NobodyMoves DEF vars
  <2>3. QED
    BY <1>4, <2>1, <2>2, QuietKeeps DEF vars
<1>5. QED
  BY <1>1, <1>2, <1>3, <1>4 DEF Next

\* The invariant holds throughout.
LEMMA AlwaysIInv == ASSUME OneProcessOnly PROVE Spec => []IInv
<1>1. Init => IInv
  BY InitKeeps
<1>2. IInv /\ [Next]_vars => IInv'
  BY StepKeeps
<1>3. QED
  BY <1>1, <1>2, PTL DEF Spec

\* Types, and: who is past lockService holds it (locks.go).
THEOREM TypeCorrect == ASSUME OneProcessOnly PROVE Spec => []TypeOK
<1>1. IInv => TypeOK
  BY DEF IInv, GlobalOK, EngineOK, CallersOK, LocalsOK, Hand, FilesInv, FilesOK, BackupOK,
         Slots, Places, Ops, TypeOK
<1>2. QED
  BY <1>1, AlwaysIInv, PTL

\* Whatever fails, whoever dies and whenever the user starts or stops the service,
\* the rows are in a directory on disk (swapDataDirAside, abortMigrate).
THEOREM RowsAlwaysKept == ASSUME OneProcessOnly PROVE Spec => []DataKept
<1>1. IInv => DataKept
  <2>1. SUFFICES ASSUME IInv PROVE DataKept
    OBVIOUS
  <2>2. FilesOK /\ RowsKept
    BY <2>1 DEF IInv, FilesInv
  <2>3. QED
    BY <2>2, DirsAre DEF RowsKept, Holds, DataKept
<1>2. QED
  BY <1>1, AlwaysIInv, PTL

-----------------------------------------------------------------------------
(* Lines.  For what follows nobody acts beside the operations: no crash, no *)
(* user, no poll, no failing way back, and a service that is pinned; each   *)
(* of these breaks it.                                                      *)

Undisturbed == OneProcessOnly /\ Events = {} /\ Pin # None

\* The pin, the quadlet and the directory agree.
Agree ==
  /\ config.image = quadlet
  /\ data # 0 /\ Fits(quadlet, data)

\* What a rollback would go back to is on the line of what there is, unless a
\* migrate came between.
LineKept(e) ==
  /\ e.image # None
  /\ e.op # "migrate" /\ e.prev # None => LineOf[e.prev] = LineOf[e.image]

\* An engine is on the directory at the service's path, which fits it; a process
\* without callers has no offer; and no poll is under way.
Steady ==
  /\ LineKept(config)
  /\ \A c \in Callers : pc[c] # "poll"
  /\ unit # None => mount = data /\ Fits(unit, data)
  /\ \A p \in Processes : offer[p] # None => \E c \in Callers : ProcessOf[c] = p

OffersFit == \A p \in Processes : offer[p] # None => LineOf[offer[p]] = LineOf[config.image]

\* The directory c has moved aside fits image i.
Aside(c, i) ==
  /\ backup[c] # 0 /\ backup[c] # data /\ dirs[backup[c]] # None
  /\ Fits(i, backup[c])

\* What c would put back.
WayBack(c) ==
  IF saved[c] = None THEN config.image = quadlet /\ Aside(c, quadlet)
  ELSE LineKept(saved[c]) /\ Aside(c, saved[c].image)

FreshDir == data # 0 /\ dirs[data] = Empty

Settled == {"choose", "store", "previous", "engine", "dump", "stop", "swap",
            "wait", "restore", "record", "undo_start"}

\* An update or a rollback stays on the line ...
AtUpdate(c) ==
  /\ pc[c] = "store" => LineOf[image[c]] = LineOf[config.image]
  /\ op[c] # "migrate" =>
       /\ pc[c] \in {"pull", "config"} =>
            /\ Agree /\ image[c] # None /\ LineOf[image[c]] = LineOf[config.image]
            /\ op[c] = "rollback" => saved[c] = config
       /\ pc[c] = "quadlet" => data # 0 /\ Fits(quadlet, data) /\ LineOf[quadlet] = LineOf[config.image]
       /\ pc[c] = "restart" => Agree

\* ... and a migrate keeps what it has to put back, the engine stopped, until the
\* new one is started on a fresh directory.
AtMigrate(c) ==
  /\ pc[c] \in {"stop", "swap"} => saved[c] = config
  /\ pc[c] \in {"swap", "mkdir"} => unit = None
  /\ pc[c] = "mkdir" => saved[c] = config /\ data = 0 /\ WayBack(c) /\ config.image = quadlet
  /\ op[c] = "migrate" =>
       /\ pc[c] \in {"pull", "config"} =>
            saved[c] = config /\ config.image = quadlet /\ unit = None /\ FreshDir /\ WayBack(c)
       /\ pc[c] \in {"quadlet", "restart"} =>
            saved[c] # None /\ unit = None /\ FreshDir /\ WayBack(c)
       /\ pc[c] = "restart" => config.image = quadlet

\* On the way back each step finds what the next one needs.
AtUndo(c) ==
  /\ pc[c] \in {"undo_data", "undo_rename", "undo_config", "undo_quadlet"} => unit = None
  /\ pc[c] = "undo_data" => IF backup[c] = 0 THEN saved[c] = None /\ Agree ELSE WayBack(c)
  /\ pc[c] = "undo_rename" => data = 0 /\ WayBack(c)
  /\ pc[c] = "undo_config" => LineKept(saved[c]) /\ data # 0 /\ Fits(saved[c].image, data)
  /\ pc[c] = "undo_quadlet" => config = saved[c] /\ data # 0 /\ Fits(config.image, data)
  /\ pc[c] = "undo_start" /\ saved[c] # None => config = saved[c]

At(c) ==
  /\ pc[c] \in Settled => Agree
  /\ ~(pc[c] = "quadlet" /\ op[c] = "migrate") => OffersFit
  /\ AtUpdate(c) /\ AtMigrate(c) /\ AtUndo(c)

\* Nobody has the lock, or the one caller who has is somewhere known.
Nobody == \A c \in Callers : pc[c] \notin Locked
LinesInv ==
  again = "no" =>
    /\ Steady
    /\ Nobody => Agree /\ OffersFit
    /\ \A c \in Callers : pc[c] \in Locked => At(c)

\* The caller who has the lock, in a history that counts.
Held(c) ==
  /\ IInv /\ LinesInv /\ Undisturbed /\ again = "no"
  /\ c \in Callers /\ pc[c] \in Locked

\* It is alone, and what the invariant says of it.
LEMMA HeldFacts ==
  ASSUME NEW c, Held(c)
  PROVE  /\ Steady /\ At(c) /\ c \in Callers
         /\ \A d \in Callers : d # c => pc[d] \notin Locked
         /\ \A p \in Processes : offer[p] # None => p = ProcessOf[c]
<1> USE DEF Held, LinesInv
<1>1. Steady /\ At(c)
  OBVIOUS
<1>2. ASSUME NEW d \in Callers, d # c PROVE pc[d] \notin Locked
  <2>1. Hand(c) /\ Hand(d) /\ ProcessOf[c] = ProcessOf[d]
    BY <1>2 DEF IInv, CallersOK, Undisturbed, OneProcessOnly
  <2>2. QED
    BY <1>2, <2>1 DEF Hand
<1>3. ASSUME NEW p \in Processes, offer[p] # None PROVE p = ProcessOf[c]
  BY <1>1, <1>3 DEF Steady, Undisturbed, OneProcessOnly
<1>4. QED
  BY <1>1, <1>2, <1>3

\* The types a step of it needs.
LEMMA HeldTypes ==
  ASSUME NEW c, Held(c)
  PROVE  /\ config \in Config /\ quadlet \in Images /\ config.image \in Images
         /\ unit \in Images \cup {None} /\ (unit # None => mount # 0)
         /\ FilesOK /\ Len(dirs) \in Nat /\ BackupOK /\ backup[c] \in 0..Len(dirs)
         /\ pc \in [Callers -> Places] /\ op \in [Callers -> Ops]
         /\ image \in [Callers -> Images \cup {None}] /\ saved \in [Callers -> Config \cup {None}]
         /\ op[c] # "none" /\ Hand(c)
         /\ offer \in [Processes -> Images \cup {None}] /\ ProcessOf[c] \in Processes
<1>1. Steady /\ c \in Callers
  BY HeldFacts
<1>2. QED
  BY <1>1, DirsAre DEF Held, IInv, GlobalOK, EngineOK, CallersOK, LocalsOK, FilesInv, BackupOK, Hand,
     Steady, LineKept, Config

\* What a step of it has to show.
LEMMA HeldKeeps ==
  ASSUME NEW c, Held(c), NEW place \in Locked \cup {"idle"}, pc' = [pc EXCEPT ![c] = place],
         Steady', place \in Locked => At(c)', place = "idle" => Agree' /\ OffersFit'
  PROVE  LinesInv'
<1>1. \A d \in Callers : d # c => pc[d] \notin Locked /\ pc'[d] \notin Locked
  BY HeldFacts, HeldTypes
<1>2. pc'[c] = place /\ c \in Callers
  BY HeldFacts, HeldTypes
<1>3. "idle" \notin Locked
  BY DEF Locked
<1>4. QED
  BY <1>1, <1>2, <1>3 DEF LinesInv, Nobody

\* A step that touches neither what is on disk nor the engine nor the offers keeps
\* what it holds between operations.
LEMMA SteadyStays ==
  ASSUME NEW c, Held(c), UNCHANGED <<config, dirs, data, engine>>,
         \A p \in Processes : offer'[p] # None => offer[p] # None \/ p = ProcessOf[c],
         NEW place \in Locked \cup {"idle"}, pc' = [pc EXCEPT ![c] = place]
  PROVE  Steady'
<1>1. Steady /\ c \in Callers
  BY HeldFacts
<1>2. LineKept(config)' /\ (unit' # None => mount' = data' /\ Fits(unit, data)')
  BY <1>1 DEF Steady, LineKept, engine, Fits
<1>3. ASSUME NEW d \in Callers PROVE pc'[d] # "poll"
  BY <1>1, HeldTypes DEF Steady, Locked
<1>4. QED
  BY <1>1, <1>2, <1>3 DEF Steady

USE DEF Settled

\* The operation returns where pin, quadlet and directory agree.
LEMMA EndLines ==
  ASSUME NEW c, Held(c), End(c), Agree, OffersFit, UNCHANGED <<config, quadlet, files, engine>>,
         \A p \in Processes : offer'[p] # None => offer'[p] = offer[p]
  PROVE  LinesInv'
<1>1. pc' = [pc EXCEPT ![c] = "idle"]
  BY DEF End, Goto
<1>2. Steady'
  BY <1>1, SteadyStays DEF files
<1>3. Agree' /\ OffersFit'
  BY DEF Agree, OffersFit, Fits, files
<1>4. QED
  BY <1>1, <1>2, <1>3, HeldKeeps DEF Locked

-----------------------------------------------------------------------------
(* The actions again, now for the lines. *)

LEMMA BeginLines == ASSUME IInv, LinesInv, again = "no", NEW c \in Callers, Begin(c) PROVE LinesInv'
<1>1. /\ pc[c] = "idle" /\ pc' = [pc EXCEPT ![c] = "lock"]
      /\ \A d \in Callers : d # c => pc'[d] = pc[d] /\ op'[d] = op[d] /\ image'[d] = image[d]
      /\ UNCHANGED <<config, quadlet, files, engine, lock, offer, saved, dump, backup, again>>
      /\ pc'[c] = "lock"
  BY DEF Begin, Goto, IInv, CallersOK, LocalsOK
<1>2. pc[c] \notin Locked /\ pc'[c] \notin Locked
  BY <1>1 DEF Locked
<1>3. Steady' /\ (Nobody' => Agree' /\ OffersFit')
  BY <1>1, <1>2 DEF LinesInv, Steady, Nobody, Agree, OffersFit, Fits, LineKept, files, engine
<1>4. ASSUME NEW d \in Callers, pc'[d] \in Locked PROVE At(d)'
  <2>1. d # c /\ At(d)
    BY <1>1, <1>2, <1>4 DEF LinesInv
  <2>2. Agree' = Agree /\ OffersFit' = OffersFit
    BY <1>1 DEF Agree, OffersFit, Fits, files
  <2>3. AtUpdate(d)'
    BY <1>1, <2>1, <2>2 DEF At, AtUpdate, Fits, files
  <2>4. AtMigrate(d)'
    BY <1>1, <2>1 DEF At, AtMigrate, WayBack, Aside, Fits, LineKept, FreshDir, files, engine
  <2>5. AtUndo(d)'
    BY <1>1, <2>1, <2>2 DEF At, AtUndo, WayBack, Aside, Fits, LineKept, files, engine
  <2>6. QED
    BY <1>1, <2>1, <2>2, <2>3, <2>4, <2>5 DEF At
<1>5. QED
  BY <1>3, <1>4 DEF LinesInv

LEMMA LockLines == ASSUME IInv, LinesInv, Undisturbed, again = "no", NEW c \in Callers, Lock(c) PROVE LinesInv'
<1>1. /\ pc[c] = "lock" /\ lock[ProcessOf[c]] = None
      /\ UNCHANGED <<config, quadlet, files, engine, offer, locals, again>>
      /\ \A d \in Callers : d # c => pc'[d] = pc[d]
      /\ pc'[c] \in {"choose", "engine", "previous"}
  <2>1. op[c] \in {"update", "migrate", "rollback"}
    BY DEF IInv, CallersOK, LocalsOK, Hand, Lock, Ops
  <2>2. QED
    BY <2>1 DEF Lock, MayLock, Goto, bounds, IInv, CallersOK, LocalsOK
<1>2. Nobody
  <2>1. SUFFICES ASSUME NEW d \in Callers, pc[d] \in Locked PROVE FALSE
    BY DEF Nobody
  <2>2. lock[ProcessOf[d]] = d /\ ProcessOf[d] = ProcessOf[c]
    BY <2>1 DEF IInv, CallersOK, Hand, Undisturbed, OneProcessOnly
  <2>3. QED
    BY <1>1, <2>2
<1>3. Agree /\ OffersFit /\ Steady
  BY <1>2 DEF LinesInv
<1>4. Agree' /\ OffersFit' /\ Steady'
  <2>1. Agree' /\ OffersFit'
    BY <1>1, <1>3 DEF Agree, OffersFit, Fits, files
  <2>2. LineKept(config)' /\ (unit' # None => mount' = data' /\ Fits(unit, data)')
    BY <1>1, <1>3 DEF Steady, LineKept, Fits, files, engine
  <2>3. \A d \in Callers : pc'[d] # "poll"
    BY <1>1, <1>3 DEF Steady
  <2>4. QED
    BY <1>1, <1>3, <2>1, <2>2, <2>3 DEF Steady
<1>5. At(c)'
  <2>1. AtUpdate(c)' /\ AtMigrate(c)' /\ AtUndo(c)'
    BY <1>1 DEF AtUpdate, AtMigrate, AtUndo
  <2>2. QED
    BY <1>1, <1>4, <2>1 DEF At
<1>6. \A d \in Callers : d # c => pc'[d] \notin Locked
  BY <1>1, <1>2 DEF Nobody
<1>7. pc'[c] \in Locked
  BY <1>1 DEF Locked
<1>8. QED
  BY <1>4, <1>5, <1>6, <1>7 DEF LinesInv, Nobody

\* The offer is about an image of the line.
LEMMA ChosenLines ==
  ASSUME NEW c, Held(c), NEW about \in Images, LineOf[about] = LineOf[config.image], Chosen(c, about),
         op[c] = "update", Agree, UNCHANGED <<config, quadlet, files, engine>>,
         offer' = offer \/ offer' = [offer EXCEPT ![ProcessOf[c]] = about], OffersFit
  PROVE  LinesInv'
<1>0. c \in Callers
  BY HeldFacts
<1>1. /\ OffersFit' /\ Agree'
      /\ \A p \in Processes : offer'[p] # None => offer[p] # None \/ p = ProcessOf[c]
  BY HeldTypes DEF OffersFit, Agree, Fits, files
<1>2. CASE NewerOf[about] = None
  <2>1. pc' = [pc EXCEPT ![c] = "idle"]
    BY <1>2 DEF Chosen, End, Goto
  <2>2. Steady'
    BY <1>1, <2>1, SteadyStays DEF files
  <2>3. QED
    BY <1>1, <2>1, <2>2, HeldKeeps DEF Locked
<1>3. CASE NewerOf[about] # None
  <2>1. /\ pc' = [pc EXCEPT ![c] = "pull"] /\ op'[c] = "update" /\ pc'[c] = "pull"
        /\ image'[c] = NewerOf[about] /\ image'[c] # None /\ LineOf[image'[c]] = LineOf[config.image]
    BY <1>0, <1>3, HeldTypes DEF Chosen, Goto
  <2>2. Steady'
    BY <1>1, <2>1, SteadyStays DEF files, Locked
  <2>3. At(c)'
    BY <1>1, <2>1 DEF At, AtUpdate, AtMigrate, AtUndo
  <2>4. QED
    BY <1>1, <2>1, <2>2, <2>3, HeldKeeps DEF Locked
<1>4. QED
  BY <1>2, <1>3

LEMMA ComputeLines == ASSUME NEW c, Held(c), Compute(c) PROVE LinesInv'
<1>1. /\ pc[c] = "choose" /\ pc' = [pc EXCEPT ![c] = "store"] /\ image' = [image EXCEPT ![c] = Current]
      /\ UNCHANGED <<config, quadlet, files, engine, offer, op>>
  BY DEF Compute, Goto
<1>2. Agree /\ OffersFit /\ c \in Callers
  BY <1>1, HeldFacts DEF At
<1>3. pc'[c] = "store" /\ image'[c] = config.image /\ op'[c] = "update"
  BY <1>1, <1>2, HeldTypes DEF Current, Hand
<1>4. Agree' /\ OffersFit'
  BY <1>1, <1>2 DEF Agree, OffersFit, Fits, files
<1>5. At(c)'
  BY <1>1, <1>3, <1>4 DEF At, AtUpdate, AtMigrate, AtUndo
<1>6. Steady'
  BY <1>1, SteadyStays DEF files, Locked
<1>7. QED
  BY <1>1, <1>5, <1>6, HeldKeeps DEF Locked

LEMMA OfferLines == ASSUME NEW c, Held(c), Store(c) \/ Cached(c) \/ Gate(c) PROVE LinesInv'
<1>0. pc[c] \in {"store", "choose"} /\ c \in Callers /\ UNCHANGED <<config, quadlet, files, engine>>
  BY HeldFacts DEF Store, Cached, Gate
<1>1. Agree /\ OffersFit /\ op[c] = "update" /\ AtUpdate(c)
  BY <1>0, HeldFacts, HeldTypes DEF At, Hand
<1>2. CASE Store(c)
  <2>1. /\ image[c] \in Images /\ LineOf[image[c]] = LineOf[config.image]
        /\ Chosen(c, image[c]) /\ offer' = [offer EXCEPT ![ProcessOf[c]] = image[c]]
    BY <1>0, <1>1, <1>2, HeldTypes DEF Store, AtUpdate, Hand
  <2>2. QED
    BY <1>0, <1>1, <2>1, ChosenLines
<1>3. CASE Cached(c)
  <2>1. offer[ProcessOf[c]] \in Images /\ LineOf[offer[ProcessOf[c]]] = LineOf[config.image]
    BY <1>1, <1>3, HeldTypes DEF Cached, OffersFit
  <2>2. QED
    BY <1>1, <1>3, <2>1, ChosenLines DEF Cached
<1>4. CASE Gate(c)
  <2>1. image[c] # None /\ UNCHANGED offer
    BY <1>4 DEF Gate
  <2>2. CASE MayMove(image[c])
    <3>1. Continue(c, "pull") /\ LineOf[image[c]] = LineOf[config.image]
      BY <1>4, <2>2, HeldTypes DEF Gate, MayMove, Current
    <3>2. pc' = [pc EXCEPT ![c] = "pull"] /\ pc'[c] = "pull" /\ UNCHANGED <<op, image>>
      BY <1>0, <3>1, HeldTypes DEF Continue, Goto, locals
    <3>3. Agree' /\ OffersFit'
      BY <1>0, <1>1, <2>1 DEF Agree, OffersFit, Fits, files
    <3>4. At(c)'
      BY <1>0, <1>1, <2>1, <3>1, <3>2, <3>3 DEF At, AtUpdate, AtMigrate, AtUndo
    <3>5. Steady'
      BY <1>0, <2>1, <3>2, SteadyStays DEF files, Locked
    <3>6. QED
      BY <3>2, <3>4, <3>5, HeldKeeps DEF Locked
  <2>3. CASE ~MayMove(image[c])
    BY <1>0, <1>1, <1>4, <2>1, <2>3, EndLines DEF Gate
  <2>4. QED
    BY <2>2, <2>3
<1>5. QED
  BY <1>2, <1>3, <1>4

\* A rollback goes back on the line, since no migrate came between.
LEMMA PreviousLines == ASSUME NEW c, Held(c), Previous(c) PROVE LinesInv'
<1>0. pc[c] = "previous" /\ c \in Callers /\ UNCHANGED <<config, quadlet, files, engine, offer>>
  BY HeldFacts DEF Previous
<1>1. Agree /\ OffersFit /\ LineKept(config)
  BY <1>0, HeldFacts DEF At, Steady
<1>2. CASE MayRollBack
  <2>1. /\ pc' = [pc EXCEPT ![c] = "pull"] /\ pc'[c] = "pull" /\ image'[c] = config.prev
        /\ saved'[c] = config /\ op' = op
    BY <1>0, <1>2, HeldTypes DEF Previous, Goto
  <2>2. image'[c] # None /\ LineOf[image'[c]] = LineOf[config.image]
    BY <1>1, <1>2, <2>1 DEF LineKept, MayRollBack
  <2>3. op[c] = "rollback"
    BY <1>0, HeldTypes DEF Hand
  <2>4. Agree' /\ OffersFit'
    BY <1>0, <1>1 DEF Agree, OffersFit, Fits, files
  <2>5. At(c)'
    BY <1>0, <2>1, <2>2, <2>3, <2>4 DEF At, AtUpdate, AtMigrate, AtUndo
  <2>6. Steady'
    BY <1>0, <2>1, SteadyStays DEF files, Locked
  <2>7. QED
    BY <2>1, <2>5, <2>6, HeldKeeps DEF Locked
<1>3. CASE ~MayRollBack
  BY <1>0, <1>1, <1>3, EndLines DEF Previous
<1>4. QED
  BY <1>2, <1>3

\* c goes on.
LEMMA GoesOn ==
  ASSUME NEW c, Held(c), NEW place, Continue(c, place)
  PROVE  /\ pc' = [pc EXCEPT ![c] = place] /\ pc'[c] = place
         /\ op' = op /\ image' = image /\ saved' = saved /\ dump' = dump /\ backup' = backup
BY HeldFacts, HeldTypes DEF Continue, Goto, locals

\* It goes on to a step that needs no more than the agreement.
LEMMA AgreedGoesOn ==
  ASSUME NEW c, Held(c), NEW place \in {"dump", "wait", "restore", "record"}, Continue(c, place),
         Agree', OffersFit', Steady'
  PROVE  LinesInv'
<1>1. pc' = [pc EXCEPT ![c] = place] /\ pc'[c] = place
  BY GoesOn
<1>2. At(c)'
  BY <1>1 DEF At, AtUpdate, AtMigrate, AtUndo
<1>3. QED
  BY <1>1, <1>2, HeldKeeps DEF Locked

\* A start leaves the directory, or writes the first line into it.
LEMMA StartFits ==
  ASSUME FilesOK, quadlet \in Images, data # 0, Fits(quadlet, data), UNCHANGED quadlet,
         Starts(quadlet) \/ StartFails(quadlet)
  PROVE  /\ data' = data /\ Fits(quadlet, data)'
         /\ unit' # None => unit' = quadlet /\ mount' = data /\ Fits(unit, data)'
         /\ \A n \in 1..Len(dirs) : n # data => dirs'[n] = dirs[n]
<1>1. dirs \in Seq(Slots) /\ data \in 1..Len(dirs) /\ dirs[data] # None /\ dirs[data] \in Dir
  BY DirsAre DEF FilesOK, Slots
<1>2. CASE Open(quadlet)
  <2>1. PICK d : /\ d = IF dirs[data] = Empty THEN [line |-> LineOf[quadlet], rows |-> "none"] ELSE dirs[data]
                 /\ dirs' = [dirs EXCEPT ![data] = d]
    BY <1>1, <1>2 DEF Open
  <2>2. data' = data
    BY <1>2 DEF Open
  <2>3. d \in Dir /\ d.line \in {None, LineOf[quadlet]}
    BY <1>1, <2>1 DEF Dir, Fits
  <2>4. dirs'[data] = d /\ \A n \in 1..Len(dirs) : n # data => dirs'[n] = dirs[n]
    BY <1>1, <2>1, ExceptSeq
  <2>5. Fits(quadlet, data)'
    BY <2>2, <2>3, <2>4 DEF Fits
  <2>6. unit' # None => unit' = quadlet /\ mount' = data
    BY <2>2 DEF Starts, StartFails
  <2>7. QED
    BY <2>2, <2>4, <2>5, <2>6 DEF Fits
<1>3. CASE StartFails(quadlet) /\ UNCHANGED files
  BY <1>3 DEF StartFails, files, Fits
<1>4. QED
  BY <1>2, <1>3 DEF Starts, StartFails

\* Starts where all agrees.
LEMMA StartAgrees ==
  ASSUME NEW c, Held(c), Agree, OffersFit, Starts(quadlet) \/ StartFails(quadlet),
         UNCHANGED <<config, quadlet, offer>>,
         NEW place \in Locked \cup {"idle"}, pc' = [pc EXCEPT ![c] = place]
  PROVE  Agree' /\ OffersFit' /\ Steady'
<1>1. /\ data' = data /\ Fits(quadlet, data)'
      /\ unit' # None => mount' = data' /\ Fits(unit, data)'
  BY HeldTypes, StartFits DEF Agree
<1>2. Agree' /\ OffersFit'
  BY <1>1 DEF Agree, OffersFit
<1>3. \A d \in Callers : pc'[d] # "poll"
  BY HeldFacts, HeldTypes DEF Steady, Locked
<1>4. Steady'
  BY <1>1, <1>3, HeldFacts DEF Steady, LineKept
<1>5. QED
  BY <1>2, <1>4

LEMMA EngineLines == ASSUME NEW c, Held(c), Engine(c) PROVE LinesInv'
<1>0. pc[c] = "engine" /\ c \in Callers /\ UNCHANGED <<config, quadlet, offer>>
  BY HeldFacts DEF Engine
<1>1. Agree /\ OffersFit
  BY <1>0, HeldFacts DEF At
<1>2. CASE unit # None /\ Continue(c, "dump") /\ UNCHANGED <<files, engine>>
  <2>1. Agree' /\ OffersFit'
    BY <1>0, <1>1, <1>2 DEF Agree, OffersFit, Fits, files
  <2>2. Steady'
    BY <1>0, <1>2, GoesOn, SteadyStays DEF files, Locked
  <2>3. QED
    BY <1>2, <2>1, <2>2, AgreedGoesOn
<1>3. CASE Starts(quadlet) /\ Continue(c, "dump")
  <2>1. pc' = [pc EXCEPT ![c] = "dump"]
    BY <1>3, GoesOn
  <2>2. Agree' /\ OffersFit' /\ Steady'
    BY <1>0, <1>1, <1>3, <2>1, StartAgrees DEF Locked
  <2>3. QED
    BY <1>3, <2>2, AgreedGoesOn
<1>4. CASE StartFails(quadlet) /\ End(c)
  <2>1. pc' = [pc EXCEPT ![c] = "idle"]
    BY <1>4 DEF End, Goto
  <2>2. Agree' /\ OffersFit' /\ Steady'
    BY <1>0, <1>1, <1>4, <2>1, StartAgrees
  <2>3. QED
    BY <2>1, <2>2, HeldKeeps DEF Locked
<1>5. QED
  BY <1>2, <1>3, <1>4 DEF Engine

LEMMA DumpLines == ASSUME NEW c, Held(c), Dump(c) PROVE LinesInv'
<1>0. pc[c] = "dump" /\ c \in Callers /\ UNCHANGED <<config, quadlet, files, engine, offer>>
  BY HeldFacts DEF Dump
<1>1. Agree /\ OffersFit
  BY <1>0, HeldFacts DEF At
<1>2. CASE End(c)
  BY <1>0, <1>1, <1>2, EndLines
<1>3. CASE Goto(c, "stop") /\ saved' = [saved EXCEPT ![c] = config]
  <2>1. pc' = [pc EXCEPT ![c] = "stop"] /\ pc'[c] = "stop" /\ saved'[c] = config
    BY <1>0, <1>3, HeldTypes DEF Goto
  <2>2. Agree' /\ OffersFit'
    BY <1>0, <1>1 DEF Agree, OffersFit, Fits, files
  <2>3. At(c)'
    BY <1>0, <2>1, <2>2 DEF At, AtUpdate, AtMigrate, AtUndo
  <2>4. Steady'
    BY <1>0, <2>1, SteadyStays DEF files, Locked
  <2>5. QED
    BY <2>1, <2>3, <2>4, HeldKeeps DEF Locked
<1>4. QED
  BY <1>2, <1>3 DEF Dump

LEMMA StopLines == ASSUME NEW c, Held(c), Stop(c) PROVE LinesInv'
<1>0. pc[c] = "stop" /\ c \in Callers /\ UNCHANGED <<config, quadlet, files, offer>>
  BY HeldFacts DEF Stop
<1>1. Agree /\ OffersFit /\ saved[c] = config /\ Steady
  BY <1>0, HeldFacts DEF At, AtMigrate
<1>2. CASE UNCHANGED engine /\ End(c)
  BY <1>0, <1>1, <1>2, EndLines
<1>3. CASE unit' = None /\ mount' = 0 /\ Continue(c, "swap")
  <2>1. pc' = [pc EXCEPT ![c] = "swap"] /\ pc'[c] = "swap" /\ saved' = saved
    BY <1>3, GoesOn
  <2>2. Agree' /\ OffersFit'
    BY <1>0, <1>1 DEF Agree, OffersFit, Fits, files
  <2>3. At(c)'
    BY <1>0, <1>1, <1>3, <2>1, <2>2 DEF At, AtUpdate, AtMigrate, AtUndo
  <2>4. \A d \in Callers : pc'[d] # "poll"
    BY <1>1, <2>1, HeldTypes DEF Steady
  <2>5. Steady'
    BY <1>0, <1>1, <1>3, <2>4 DEF Steady, LineKept
  <2>6. QED
    BY <2>1, <2>3, <2>5, HeldKeeps DEF Locked
<1>4. QED
  BY <1>2, <1>3 DEF Stop

\* A change of the directories while the engine is down.
LEMMA SteadyDown ==
  ASSUME NEW c, Held(c), unit' = None, LineKept(config)',
         \A p \in Processes : offer'[p] # None => offer[p] # None,
         NEW place \in Locked \cup {"idle"}, pc' = [pc EXCEPT ![c] = place]
  PROVE  Steady'
<1>1. Steady
  BY HeldFacts
<1>2. \A d \in Callers : pc'[d] # "poll"
  BY <1>1, HeldTypes DEF Steady, Locked
<1>3. QED
  BY <1>1, <1>2 DEF Steady

LEMMA SwapLines == ASSUME NEW c, Held(c), Swap(c) PROVE LinesInv'
<1>0. pc[c] = "swap" /\ c \in Callers /\ UNCHANGED <<config, quadlet, dirs, engine, offer>>
  BY HeldFacts DEF Swap
<1>1. Agree /\ OffersFit /\ saved[c] = config /\ unit = None /\ LineKept(config)
  BY <1>0, HeldFacts DEF At, AtMigrate, Steady
<1>2. unit' = None /\ LineKept(config)' /\ OffersFit'
  BY <1>0, <1>1 DEF engine, LineKept, OffersFit
<1>3. CASE data' = 0 /\ Goto(c, "mkdir") /\ backup' = [backup EXCEPT ![c] = data] /\ UNCHANGED <<lock, op, image, saved, dump>>
  <2>1. /\ pc' = [pc EXCEPT ![c] = "mkdir"] /\ pc'[c] = "mkdir" /\ backup'[c] = data /\ saved'[c] = config
    BY <1>0, <1>1, <1>3, HeldTypes DEF Goto, FilesOK, BackupOK
  <2>2. dirs[data] # None /\ data # 0 /\ Fits(quadlet, data) /\ config.image = quadlet
    BY <1>1, HeldTypes DEF Agree, FilesOK
  <2>3. Aside(c, saved[c].image)'
    BY <1>0, <1>3, <2>1, <2>2 DEF Aside, Fits
  <2>4. saved'[c] # None
    BY <2>1, HeldTypes
  <2>5. WayBack(c)'
    BY <1>0, <1>2, <2>1, <2>3, <2>4 DEF WayBack, LineKept
  <2>6. At(c)'
    BY <1>0, <1>2, <1>3, <2>1, <2>2, <2>5 DEF At, AtUpdate, AtMigrate, AtUndo
  <2>7. Steady'
    BY <1>0, <1>2, <2>1, SteadyDown DEF Locked
  <2>8. QED
    BY <2>1, <2>6, <2>7, HeldKeeps DEF Locked
<1>4. CASE data # 0 /\ Abort(c, None) /\ UNCHANGED data
  <2>1. /\ pc' = [pc EXCEPT ![c] = "undo_data"] /\ pc'[c] = "undo_data" /\ saved'[c] = None /\ backup' = backup
    BY <1>0, <1>4, HeldTypes DEF Abort, Goto
  <2>2. backup[c] = 0
    BY <1>0 DEF Held, IInv, FilesInv, Moved, Early
  <2>3. Agree'
    BY <1>0, <1>1, <1>4 DEF Agree, Fits
  <2>4. At(c)'
    BY <1>2, <2>1, <2>2, <2>3 DEF At, AtUpdate, AtMigrate, AtUndo
  <2>5. Steady'
    BY <1>0, <1>2, <2>1, SteadyDown DEF Locked
  <2>6. QED
    BY <2>1, <2>4, <2>5, HeldKeeps DEF Locked
<1>5. QED
  BY <1>1, <1>3, <1>4 DEF Swap, Agree

LEMMA MkdirLines == ASSUME NEW c, Held(c), Mkdir(c) PROVE LinesInv'
<1>0. pc[c] = "mkdir" /\ c \in Callers /\ UNCHANGED <<config, quadlet, engine, offer>>
  BY HeldFacts DEF Mkdir
<1>1. /\ OffersFit /\ saved[c] = config /\ unit = None /\ data = 0 /\ WayBack(c) /\ config.image = quadlet
      /\ LineKept(config)
  BY <1>0, HeldFacts DEF At, AtMigrate, Steady
<1>2. unit' = None /\ LineKept(config)' /\ OffersFit'
  BY <1>0, <1>1 DEF engine, LineKept, OffersFit
<1>3. Aside(c, config.image)
  BY <1>1, HeldTypes DEF WayBack
<1>4. CASE EnsureDir /\ Continue(c, "pull")
  <2>1. /\ pc' = [pc EXCEPT ![c] = "pull"] /\ pc'[c] = "pull" /\ saved' = saved /\ backup' = backup /\ op' = op
    BY <1>4, GoesOn
  <2>2. dirs \in Seq(Slots) /\ Empty \in Slots
    BY HeldTypes DEF FilesOK, Slots, Dir, Empty
  <2>3. dirs' = Append(dirs, Empty) /\ data' = Len(dirs) + 1
    BY <1>1, <1>4 DEF EnsureDir
  <2>4. dirs'[data'] = Empty /\ data' # 0 /\ \A n \in 1..Len(dirs) : dirs'[n] = dirs[n]
    BY <2>2, <2>3, AppendProperties, HeldTypes
  <2>5. backup[c] \in 1..Len(dirs)
    BY <1>3, HeldTypes DEF Aside
  <2>6. Aside(c, saved[c].image)'
    BY <1>0, <1>1, <1>3, <2>1, <2>3, <2>4, <2>5, HeldTypes DEF Aside, Fits
  <2>7. WayBack(c)'
    BY <1>0, <1>1, <1>2, <2>1, <2>6, HeldTypes DEF WayBack, LineKept
  <2>8. op[c] = "migrate"
    BY <1>0, HeldTypes DEF Hand
  <2>9. At(c)'
    BY <1>0, <1>1, <1>2, <2>1, <2>4, <2>7, <2>8 DEF At, AtUpdate, AtMigrate, AtUndo, FreshDir
  <2>10. Steady'
    BY <1>0, <1>2, <2>1, SteadyDown DEF Locked
  <2>11. QED
    BY <2>1, <2>9, <2>10, HeldKeeps DEF Locked
<1>5. CASE /\ data = 0 /\ UNCHANGED dirs
           /\ data' = backup[c] \/ (UndoFails /\ UNCHANGED data)
           /\ Goto(c, "undo_data")
           /\ backup' = [backup EXCEPT ![c] = 0] /\ saved' = [saved EXCEPT ![c] = None]
           /\ UNCHANGED <<lock, op, image, dump>>
  <2>1. /\ pc' = [pc EXCEPT ![c] = "undo_data"] /\ pc'[c] = "undo_data" /\ saved'[c] = None /\ backup'[c] = 0
    BY <1>0, <1>5, HeldTypes DEF Goto, BackupOK
  <2>2. data' = backup[c]
    BY <1>5 DEF UndoFails, Held, Undisturbed
  <2>3. Agree'
    BY <1>0, <1>1, <1>3, <1>5, <2>2 DEF Agree, Fits, Aside
  <2>4. At(c)'
    BY <1>2, <2>1, <2>3 DEF At, AtUpdate, AtMigrate, AtUndo
  <2>5. Steady'
    BY <1>0, <1>2, <2>1, SteadyDown DEF Locked
  <2>6. QED
    BY <2>1, <2>4, <2>5, HeldKeeps DEF Locked
<1>6. QED
  BY <1>4, <1>5 DEF Mkdir

\* A caller that fails gives its offer up, or leaves it.
LEMMA OffersGone ==
  ASSUME NEW c, Held(c), Invalidate(c)
  PROVE  \A p \in Processes : offer'[p] = None
BY HeldFacts, HeldTypes DEF Invalidate

\* A migrate gives up before the new image is started.
LEMMA AbortLines ==
  ASSUME NEW c, Held(c), pc' = [pc EXCEPT ![c] = "undo_data"], backup'[c] # 0, WayBack(c)',
         unit' = None, LineKept(config)', OffersFit',
         \A p \in Processes : offer'[p] # None => offer[p] # None
  PROVE  LinesInv'
<1>1. pc'[c] = "undo_data"
  BY HeldFacts, HeldTypes
<1>2. At(c)'
  BY <1>1 DEF At, AtUpdate, AtMigrate, AtUndo
<1>3. Steady'
  BY <1>1, SteadyDown DEF Locked
<1>4. QED
  BY <1>1, <1>2, <1>3, HeldKeeps DEF Locked

LEMMA PullLines == ASSUME NEW c, Held(c), Pull(c) PROVE LinesInv'
<1>0. pc[c] = "pull" /\ c \in Callers /\ UNCHANGED <<config, quadlet, files, engine, offer>>
  BY HeldFacts DEF Pull
<1>1. OffersFit /\ AtUpdate(c) /\ AtMigrate(c) /\ LineKept(config)
  BY <1>0, HeldFacts DEF At, Steady
<1>2. OffersFit' /\ LineKept(config)'
  BY <1>0, <1>1 DEF OffersFit, LineKept
<1>3. CASE Continue(c, "config")
  <2>1. /\ pc' = [pc EXCEPT ![c] = "config"] /\ pc'[c] = "config"
        /\ op' = op /\ image' = image /\ saved' = saved /\ backup' = backup
    BY <1>3, GoesOn
  <2>2. AtUpdate(c)'
    BY <1>0, <1>1, <2>1 DEF AtUpdate, Agree, Fits, files
  <2>3. AtMigrate(c)'
    BY <1>0, <1>1, <2>1 DEF AtMigrate, FreshDir, WayBack, Aside, Fits, LineKept, files, engine
  <2>4. At(c)'
    BY <1>2, <2>1, <2>2, <2>3 DEF At, AtUndo
  <2>5. Steady'
    BY <1>0, <2>1, SteadyStays DEF files, Locked
  <2>6. QED
    BY <2>1, <2>4, <2>5, HeldKeeps DEF Locked
<1>4. CASE op[c] # "migrate" /\ End(c)
  BY <1>0, <1>1, <1>4, EndLines DEF AtUpdate
<1>5. CASE op[c] = "migrate" /\ Abort(c, None)
  <2>1. saved[c] = config /\ config.image = quadlet /\ unit = None /\ WayBack(c) /\ config # None
    BY <1>0, <1>1, <1>5, HeldTypes DEF AtMigrate
  <2>2. /\ Aside(c, quadlet) /\ backup' = backup /\ pc' = [pc EXCEPT ![c] = "undo_data"] /\ saved'[c] = None
    BY <1>0, <1>5, <2>1, HeldTypes DEF WayBack, Abort, Goto
  <2>3. WayBack(c)' /\ backup'[c] # 0
    BY <1>0, <2>1, <2>2 DEF WayBack, Aside, Fits, files
  <2>4. QED
    BY <1>0, <1>2, <2>1, <2>2, <2>3, AbortLines DEF engine
<1>6. QED
  BY <1>3, <1>4, <1>5 DEF Pull, Fails

\* The new entry keeps the line that a rollback needs, unless the update named the
\* image that is pinned.
LEMMA EntryKept ==
  ASSUME NEW c, Held(c), Persist(c), config' = Entry(c), again' = "no"
  PROVE  LineKept(config)' /\ config'.image = image[c] /\ image[c] # None
<1>0. config' = config \/ again' = IF op[c] = "update" /\ image[c] = config.image THEN "yes" ELSE again
  BY DEF Persist
<1>1. pc[c] = "config" /\ AtUpdate(c) /\ LineKept(config) /\ op[c] \in {"update", "migrate", "rollback"}
  BY HeldFacts, HeldTypes DEF Persist, At, Steady, Ops
<1>2. config.image \in Images /\ config.image # None
  BY HeldTypes
<1>3. CASE op[c] = "migrate"
  <2>1. image[c] # None
    BY <1>1, <1>3, HeldTypes DEF Hand, Held
  <2>2. config'.image = image[c] /\ config'.op = "migrate"
    BY <1>3 DEF Entry
  <2>3. QED
    BY <2>1, <2>2 DEF LineKept
<1>4. CASE op[c] = "rollback"
  <2>1. image[c] # None /\ LineOf[image[c]] = LineOf[config.image] /\ saved[c] = config
    BY <1>1, <1>4 DEF AtUpdate
  <2>2. config'.image = image[c] /\ config'.prev = config.image
    BY <1>4, <2>1 DEF Entry
  <2>3. QED
    BY <2>1, <2>2 DEF LineKept
<1>5. CASE op[c] = "update"
  <2>1. image[c] # None /\ LineOf[image[c]] = LineOf[config.image]
    BY <1>1, <1>5 DEF AtUpdate
  <2>2. config'.image = image[c] /\ config'.op = "update"
        /\ config'.prev = IF config.image \in {None, image[c]} THEN config.prev ELSE config.image
    BY <1>5 DEF Entry
  <2>3. image[c] # config.image \/ config' = config
    BY <1>0, <1>5
  <2>4. QED
    BY <1>1, <1>2, <2>1, <2>2, <2>3 DEF LineKept
<1>6. QED
  BY <1>1, <1>3, <1>4, <1>5

LEMMA PersistLines == ASSUME NEW c, Held(c), Persist(c) PROVE LinesInv'
<1>0. pc[c] = "config" /\ c \in Callers /\ UNCHANGED <<quadlet, files, engine>>
  BY HeldFacts DEF Persist
<1>1. OffersFit /\ AtUpdate(c) /\ AtMigrate(c) /\ LineKept(config) /\ Steady
  BY <1>0, HeldFacts DEF At, Steady
<1>2. CASE config' = Entry(c) /\ Continue(c, "quadlet") /\ UNCHANGED offer /\ again' = "no"
  <2>1. /\ pc' = [pc EXCEPT ![c] = "quadlet"] /\ pc'[c] = "quadlet"
        /\ op' = op /\ image' = image /\ saved' = saved /\ backup' = backup
    BY <1>2, GoesOn
  <2>2. LineKept(config)' /\ config'.image = image[c]
    BY <1>2, EntryKept
  <2>3. \A d \in Callers : pc'[d] # "poll"
    BY <1>1, <2>1, HeldTypes DEF Steady
  <2>4. Steady'
    BY <1>0, <1>1, <1>2, <2>2, <2>3 DEF Steady, Fits, files, engine
  <2>5. CASE op[c] # "migrate"
    <3>1. Agree /\ LineOf[image[c]] = LineOf[config.image]
      BY <1>0, <1>1, <2>5 DEF AtUpdate
    <3>2. OffersFit'
      BY <1>1, <1>2, <2>2, <3>1 DEF OffersFit
    <3>3. AtUpdate(c)'
      BY <1>0, <2>1, <2>2, <3>1 DEF AtUpdate, Agree, Fits, files
    <3>4. At(c)'
      BY <2>1, <2>5, <3>2, <3>3 DEF At, AtMigrate, AtUndo
    <3>5. QED
      BY <2>1, <2>4, <3>4, HeldKeeps DEF Locked
  <2>6. CASE op[c] = "migrate"
    <3>1. saved[c] = config /\ unit = None /\ FreshDir /\ WayBack(c) /\ config # None
      BY <1>0, <1>1, <2>6, HeldTypes DEF AtMigrate
    <3>2. saved'[c] # None /\ unit' = None /\ FreshDir' /\ WayBack(c)'
      BY <1>0, <2>1, <3>1 DEF FreshDir, WayBack, Aside, Fits, LineKept, files, engine
    <3>3. At(c)'
      BY <2>1, <2>6, <3>2 DEF At, AtUpdate, AtMigrate, AtUndo
    <3>4. QED
      BY <2>1, <2>4, <3>3, HeldKeeps DEF Locked
  <2>7. QED
    BY <2>5, <2>6
<1>3. CASE UNCHANGED config /\ Forgets(c) /\ Fails(c, saved[c])
  <2>1. \A p \in Processes : offer'[p] # None => offer'[p] = offer[p]
    BY <1>3, OffersGone DEF Forgets
  <2>2. OffersFit' /\ LineKept(config)'
    BY <1>1, <1>3, <2>1 DEF OffersFit, LineKept
  <2>3. CASE op[c] # "migrate"
    BY <1>0, <1>1, <1>3, <2>1, <2>3, EndLines DEF Fails, AtUpdate
  <2>4. CASE op[c] = "migrate"
    <3>1. saved[c] = config /\ unit = None /\ WayBack(c) /\ config # None
      BY <1>0, <1>1, <2>4, HeldTypes DEF AtMigrate
    <3>2. /\ pc' = [pc EXCEPT ![c] = "undo_data"] /\ saved'[c] = saved[c] /\ backup' = backup
      BY <1>0, <1>3, <2>4, HeldTypes DEF Fails, Abort, Goto
    <3>3. WayBack(c)' /\ backup'[c] # 0
      BY <1>0, <3>1, <3>2 DEF WayBack, Aside, Fits, LineKept, files
    <3>4. QED
      BY <1>0, <2>1, <2>2, <3>1, <3>2, <3>3, AbortLines DEF engine
  <2>5. QED
    BY <2>3, <2>4
<1>4. CASE again' # "no"
  BY <1>4 DEF LinesInv
<1>5. QED
  BY <1>2, <1>3, <1>4 DEF Persist

LEMMA RewriteLines == ASSUME NEW c, Held(c), Rewrite(c) PROVE LinesInv'
<1>0. pc[c] = "quadlet" /\ c \in Callers /\ UNCHANGED <<config, engine>>
  BY HeldFacts DEF Rewrite
<1>1. /\ AtUpdate(c) /\ AtMigrate(c) /\ Steady /\ config.image \in Images /\ config.image # None
      /\ op[c] # "migrate" => OffersFit
  BY <1>0, HeldFacts, HeldTypes DEF At
<1>2. /\ pc' = [pc EXCEPT ![c] = "restart"] /\ pc'[c] = "restart"
      /\ op' = op /\ image' = image /\ saved' = saved /\ backup' = backup
  BY GoesOn DEF Rewrite
<1>3. quadlet' = config.image
  BY <1>1 DEF Rewrite, Rendered
<1>4. data # 0 /\ UNCHANGED files
  <2>1. data # 0
    BY <1>0, <1>1 DEF AtUpdate, AtMigrate, FreshDir
  <2>2. QED
    BY <2>1 DEF Rewrite, EnsureDir
<1>5. OffersFit' /\ \A p \in Processes : offer'[p] # None => offer[p] # None
  <2>1. CASE op[c] = "rollback"
    BY <1>0, <1>1, <2>1 DEF Rewrite, Forgets, OffersFit
  <2>2. CASE op[c] # "rollback"
    BY <2>2, OffersGone DEF Rewrite, Forgets, OffersFit
  <2>3. QED
    BY <2>1, <2>2
<1>6. Steady'
  BY <1>0, <1>2, <1>4, <1>5, SteadyStays DEF files, Locked
<1>7. CASE op[c] # "migrate"
  <2>1. Agree'
    BY <1>0, <1>1, <1>3, <1>4, <1>7 DEF AtUpdate, Agree, Fits, files
  <2>2. At(c)'
    BY <1>2, <1>5, <1>7, <2>1 DEF At, AtUpdate, AtMigrate, AtUndo
  <2>3. QED
    BY <1>2, <1>6, <2>2, HeldKeeps DEF Locked
<1>8. CASE op[c] = "migrate"
  <2>1. saved[c] # None /\ unit = None /\ FreshDir /\ WayBack(c)
    BY <1>0, <1>1, <1>8 DEF AtMigrate
  <2>2. saved'[c] # None /\ unit' = None /\ FreshDir' /\ WayBack(c)'
    BY <1>0, <1>2, <1>4, <2>1 DEF FreshDir, WayBack, Aside, Fits, LineKept, files, engine
  <2>3. At(c)'
    BY <1>0, <1>2, <1>3, <1>5, <1>8, <2>2 DEF At, AtUpdate, AtMigrate, AtUndo
  <2>4. QED
    BY <1>2, <1>6, <2>3, HeldKeeps DEF Locked
<1>9. QED
  BY <1>7, <1>8

LEMMA RestartLines == ASSUME NEW c, Held(c), Restart(c) PROVE LinesInv'
<1>0. pc[c] = "restart" /\ c \in Callers /\ UNCHANGED <<config, quadlet, offer>>
  BY HeldFacts DEF Restart
<1>1. AtUpdate(c) /\ AtMigrate(c) /\ OffersFit /\ LineKept(config)
  BY <1>0, HeldFacts DEF At, Steady
<1>2. Agree
  BY <1>0, <1>1, HeldTypes DEF AtUpdate, AtMigrate, Agree, Fits, FreshDir, Empty
<1>3. CASE End(c) /\ (Starts(quadlet) \/ StartFails(quadlet))
  <2>1. pc' = [pc EXCEPT ![c] = "idle"]
    BY <1>3 DEF End, Goto
  <2>2. Agree' /\ OffersFit' /\ Steady'
    BY <1>0, <1>1, <1>2, <1>3, <2>1, StartAgrees
  <2>3. QED
    BY <2>1, <2>2, HeldKeeps DEF Locked
<1>4. CASE Continue(c, "wait") /\ Starts(quadlet)
  <2>1. pc' = [pc EXCEPT ![c] = "wait"]
    BY <1>4, GoesOn
  <2>2. Agree' /\ OffersFit' /\ Steady'
    BY <1>0, <1>1, <1>2, <1>4, <2>1, StartAgrees DEF Locked
  <2>3. QED
    BY <1>4, <2>2, AgreedGoesOn
<1>5. CASE op[c] = "migrate" /\ StartFails(quadlet) /\ Abort(c, saved[c])
  <2>1. saved[c] # None /\ WayBack(c)
    BY <1>0, <1>1, <1>5 DEF AtMigrate
  <2>2. /\ pc' = [pc EXCEPT ![c] = "undo_data"] /\ saved'[c] = saved[c] /\ backup' = backup
    BY <1>0, <1>5, HeldTypes DEF Abort, Goto
  <2>3. /\ unit' = None /\ data' = data
        /\ \A n \in 1..Len(dirs) : n # data => dirs'[n] = dirs[n]
    BY <1>0, <1>2, <1>5, HeldTypes, StartFits DEF Agree, StartFails
  <2>4. backup[c] \in 1..Len(dirs) /\ backup[c] # data
    BY <2>1, HeldTypes DEF WayBack, Aside
  <2>5. WayBack(c)' /\ backup'[c] # 0
    BY <1>0, <2>1, <2>2, <2>3, <2>4 DEF WayBack, Aside, Fits, LineKept
  <2>6. OffersFit' /\ LineKept(config)'
    BY <1>0, <1>1 DEF OffersFit, LineKept
  <2>7. QED
    BY <1>0, <2>2, <2>3, <2>5, <2>6, AbortLines
<1>6. QED
  BY <1>3, <1>4, <1>5 DEF Restart, Fails

LEMMA WaitLines == ASSUME NEW c, Held(c), Wait(c) PROVE LinesInv'
<1>0. pc[c] = "wait" /\ c \in Callers /\ UNCHANGED <<config, quadlet, files, engine, offer>>
  BY HeldFacts DEF Wait
<1>1. Agree /\ OffersFit
  BY <1>0, HeldFacts DEF At
<1>2. CASE End(c)
  BY <1>0, <1>1, <1>2, EndLines
<1>3. CASE Continue(c, "restore")
  <2>1. Agree' /\ OffersFit'
    BY <1>0, <1>1 DEF Agree, OffersFit, Fits, files
  <2>2. Steady'
    BY <1>0, <1>3, GoesOn, SteadyStays DEF files, Locked
  <2>3. QED
    BY <1>3, <2>1, <2>2, AgreedGoesOn
<1>4. QED
  BY <1>2, <1>3 DEF Wait

\* What is restored leaves the directory on its line.
LEMMA RestoreLines == ASSUME NEW c, Held(c), Restore(c) PROVE LinesInv'
<1>0. pc[c] = "restore" /\ c \in Callers /\ UNCHANGED <<config, quadlet, data, engine, offer>>
  BY HeldFacts DEF Restore
<1>1. Agree /\ OffersFit /\ Steady
  BY <1>0, HeldFacts DEF At
<1>2. CASE UNCHANGED dirs /\ End(c)
  BY <1>0, <1>1, <1>2, EndLines DEF files
<1>3. CASE /\ unit # None /\ dirs[mount] # None
           /\ dirs' = [dirs EXCEPT ![mount] = [line |-> @.line, rows |-> IF dump[c] = "all" THEN "all" ELSE @.rows]]
           /\ Continue(c, "record") \/ End(c)
  <2>1. mount = data /\ data \in 1..Len(dirs) /\ Fits(unit, data)
    BY <1>1, <1>3, HeldTypes DEF Steady, Agree, FilesOK
  <2>2. dirs'[data].line = dirs[data].line /\ dirs'[data] # None
    <3>1. DEFINE d == [line |-> dirs[mount].line, rows |-> IF dump[c] = "all" THEN "all" ELSE dirs[mount].rows]
    <3>2. d # None
      <4>1. dirs[mount] \in Dir
        BY <1>3, <2>1, HeldTypes, DirsAre DEF Slots
      <4>2. d \in Dir
        BY <4>1 DEF Dir
      <4>3. QED
        BY <4>2
    <3>3. dirs \in Seq(Slots) /\ dirs' = [dirs EXCEPT ![data] = d]
      BY <1>3, <2>1, HeldTypes DEF FilesOK
    <3>4. dirs'[data] = d
      BY <2>1, <3>3, DirsAre, HeldTypes
    <3>5. QED
      BY <2>1, <3>2, <3>4
  <2>3. Agree' /\ OffersFit'
    BY <1>0, <1>1, <2>2, HeldTypes DEF Agree, OffersFit, Fits, FilesOK
  <2>4. ASSUME NEW place \in {"record", "idle"}, pc' = [pc EXCEPT ![c] = place] PROVE Steady'
    <3>1. \A d \in Callers : pc'[d] # "poll"
      BY <1>1, <2>4, HeldTypes DEF Steady
    <3>2. unit' # None => mount' = data' /\ Fits(unit, data)'
      BY <1>0, <1>1, <2>1, <2>2, HeldTypes DEF Fits, engine, FilesOK
    <3>3. QED
      BY <1>0, <1>1, <3>1, <3>2 DEF Steady, LineKept
  <2>5. CASE Continue(c, "record")
    BY <2>3, <2>4, <2>5, GoesOn, AgreedGoesOn
  <2>6. CASE End(c)
    <3>1. pc' = [pc EXCEPT ![c] = "idle"]
      BY <2>6 DEF End, Goto
    <3>2. QED
      BY <2>3, <2>4, <3>1, HeldKeeps DEF Locked
  <2>7. QED
    BY <1>3, <2>5, <2>6
<1>4. QED
  BY <1>2, <1>3 DEF Restore

LEMMA RecordLines == ASSUME NEW c, Held(c), Record(c) PROVE LinesInv'
<1>0. pc[c] = "record" /\ c \in Callers /\ UNCHANGED <<quadlet, files, engine, offer>> /\ End(c)
  BY HeldFacts DEF Record
<1>1. Agree /\ OffersFit /\ Steady
  BY <1>0, HeldFacts DEF At
<1>2. pc' = [pc EXCEPT ![c] = "idle"]
  BY <1>0 DEF End, Goto
<1>3. config'.image = config.image /\ LineKept(config)'
  BY <1>1 DEF Record, Steady, LineKept
<1>4. Agree' /\ OffersFit'
  BY <1>0, <1>1, <1>3 DEF Agree, OffersFit, Fits, files
<1>5. \A d \in Callers : pc'[d] # "poll"
  BY <1>1, <1>2, HeldTypes DEF Steady
<1>6. Steady'
  BY <1>0, <1>1, <1>3, <1>5 DEF Steady, Fits, files, engine
<1>7. QED
  BY <1>2, <1>4, <1>6, HeldKeeps DEF Locked

\* The fresh directory goes, and the one moved aside is still there.
LEMMA UndoDataLines == ASSUME NEW c, Held(c), UndoData(c) PROVE LinesInv'
<1>0. pc[c] = "undo_data" /\ c \in Callers /\ UNCHANGED <<config, quadlet, engine, offer>>
  BY HeldFacts DEF UndoData
<1>1. AtUndo(c) /\ OffersFit /\ LineKept(config)
  BY <1>0, HeldFacts DEF At, Steady
<1>2. unit = None /\ (backup[c] = 0 => saved[c] = None /\ Agree) /\ (backup[c] # 0 => WayBack(c))
  BY <1>0, <1>1 DEF AtUndo
<1>3. unit' = None /\ LineKept(config)' /\ OffersFit'
  BY <1>0, <1>1, <1>2 DEF engine, LineKept, OffersFit
<1>4. CASE /\ HasBackup(c) /\ data' = 0 /\ Continue(c, "undo_rename")
           /\ dirs' = [n \in DOMAIN dirs |-> IF n = data THEN None ELSE dirs[n]]
  <2>1. /\ pc' = [pc EXCEPT ![c] = "undo_rename"] /\ pc'[c] = "undo_rename"
        /\ saved' = saved /\ backup' = backup
    BY <1>4, GoesOn
  <2>2. WayBack(c) /\ backup[c] # data /\ backup[c] \in 1..Len(dirs)
    BY <1>2, <1>4, HeldTypes DEF HasBackup, WayBack, Aside
  <2>3. dirs'[backup[c]] = dirs[backup[c]]
    BY <1>4, <2>2, HeldTypes, RemoveDir
  <2>4. WayBack(c)'
    BY <1>0, <1>4, <2>1, <2>2, <2>3 DEF WayBack, Aside, Fits, LineKept
  <2>5. At(c)'
    BY <1>3, <1>4, <2>1, <2>4 DEF At, AtUpdate, AtMigrate, AtUndo
  <2>6. Steady'
    BY <1>0, <1>3, <2>1, SteadyDown DEF Locked
  <2>7. QED
    BY <2>1, <2>5, <2>6, HeldKeeps DEF Locked
<1>5. CASE /\ HasBackup(c) => UndoFails
           /\ UNCHANGED files
           /\ Continue(c, IF saved[c] = None THEN "undo_start" ELSE "undo_config")
  <2>1. saved[c] = None /\ Agree
    BY <1>2, <1>5 DEF HasBackup, UndoFails, Held, Undisturbed
  <2>2. /\ pc' = [pc EXCEPT ![c] = "undo_start"] /\ pc'[c] = "undo_start" /\ saved' = saved
    BY <1>5, <2>1, GoesOn
  <2>3. Agree'
    BY <1>0, <1>5, <2>1 DEF Agree, Fits, files
  <2>4. At(c)'
    BY <1>3, <2>1, <2>2, <2>3 DEF At, AtUpdate, AtMigrate, AtUndo
  <2>5. Steady'
    BY <1>0, <1>3, <2>2, SteadyDown DEF Locked
  <2>6. QED
    BY <2>2, <2>4, <2>5, HeldKeeps DEF Locked
<1>6. QED
  BY <1>4, <1>5 DEF UndoData

LEMMA UndoRenameLines == ASSUME NEW c, Held(c), UndoRename(c) PROVE LinesInv'
<1>0. /\ pc[c] = "undo_rename" /\ c \in Callers /\ UNCHANGED <<config, quadlet, engine, offer>>
      /\ Continue(c, IF saved[c] = None THEN "undo_start" ELSE "undo_config")
  BY HeldFacts DEF UndoRename
<1>1. AtUndo(c) /\ OffersFit /\ LineKept(config)
  BY <1>0, HeldFacts DEF At, Steady
<1>2. unit = None /\ data = 0 /\ WayBack(c)
  BY <1>0, <1>1 DEF AtUndo
<1>3. unit' = None /\ LineKept(config)' /\ OffersFit'
  BY <1>0, <1>1, <1>2 DEF engine, LineKept, OffersFit
<1>4. backup[c] # 0 /\ dirs[backup[c]] # None /\ backup[c] \in 1..Len(dirs)
  BY <1>2, HeldTypes DEF WayBack, Aside
<1>5. /\ data' = backup[c]
      /\ dirs' = [n \in DOMAIN dirs |-> IF n = data THEN None ELSE dirs[n]]
  <2>1. MayRename(backup[c])
    BY <1>2, <1>4 DEF MayRename
  <2>2. QED
    BY <2>1 DEF UndoRename, UndoFails, Held, Undisturbed
<1>6. dirs'[backup[c]] = dirs[backup[c]]
  BY <1>2, <1>4, <1>5, HeldTypes, RemoveDir
<1>7. CASE saved[c] = None
  <2>1. /\ pc' = [pc EXCEPT ![c] = "undo_start"] /\ pc'[c] = "undo_start" /\ saved' = saved
    BY <1>0, <1>7, GoesOn
  <2>2. Agree'
    BY <1>0, <1>2, <1>4, <1>5, <1>6, <1>7 DEF Agree, WayBack, Aside, Fits
  <2>3. At(c)'
    BY <1>3, <1>7, <2>1, <2>2 DEF At, AtUpdate, AtMigrate, AtUndo
  <2>4. Steady'
    BY <1>0, <1>3, <2>1, SteadyDown DEF Locked
  <2>5. QED
    BY <2>1, <2>3, <2>4, HeldKeeps DEF Locked
<1>8. CASE saved[c] # None
  <2>1. /\ pc' = [pc EXCEPT ![c] = "undo_config"] /\ pc'[c] = "undo_config" /\ saved' = saved
    BY <1>0, <1>8, GoesOn
  <2>2. LineKept(saved[c])' /\ data' # 0 /\ Fits(saved[c].image, data)'
    BY <1>2, <1>4, <1>5, <1>6, <1>8, <2>1 DEF WayBack, Aside, Fits, LineKept
  <2>3. At(c)'
    BY <1>3, <2>1, <2>2 DEF At, AtUpdate, AtMigrate, AtUndo
  <2>4. Steady'
    BY <1>0, <1>3, <2>1, SteadyDown DEF Locked
  <2>5. QED
    BY <2>1, <2>3, <2>4, HeldKeeps DEF Locked
<1>9. QED
  BY <1>7, <1>8

LEMMA UndoConfigLines == ASSUME NEW c, Held(c), UndoConfig(c) PROVE LinesInv'
<1>0. pc[c] = "undo_config" /\ c \in Callers /\ UNCHANGED <<quadlet, files, engine>>
  BY HeldFacts DEF UndoConfig
<1>1. unit = None /\ LineKept(saved[c]) /\ data # 0 /\ Fits(saved[c].image, data)
  BY <1>0, HeldFacts DEF At, AtUndo
<1>2. config' = saved[c]
  BY DEF UndoConfig, UndoFails, Held, Undisturbed
<1>3. /\ pc' = [pc EXCEPT ![c] = "undo_quadlet"] /\ pc'[c] = "undo_quadlet" /\ saved' = saved
  BY GoesOn DEF UndoConfig
<1>4. \A p \in Processes : offer'[p] = None
  BY OffersGone DEF UndoConfig
<1>5. unit' = None /\ LineKept(config)' /\ OffersFit'
  BY <1>0, <1>1, <1>2, <1>4 DEF engine, LineKept, OffersFit
<1>6. data' # 0 /\ Fits(config.image, data)'
  BY <1>0, <1>1, <1>2 DEF files, Fits
<1>7. At(c)'
  BY <1>2, <1>3, <1>5, <1>6 DEF At, AtUpdate, AtMigrate, AtUndo
<1>8. Steady'
  BY <1>3, <1>4, <1>5, SteadyDown DEF Locked
<1>9. QED
  BY <1>3, <1>7, <1>8, HeldKeeps DEF Locked

LEMMA UndoQuadletLines == ASSUME NEW c, Held(c), UndoQuadlet(c) PROVE LinesInv'
<1>0. pc[c] = "undo_quadlet" /\ c \in Callers /\ UNCHANGED <<config, engine, offer>>
  BY HeldFacts DEF UndoQuadlet
<1>1. /\ unit = None /\ config = saved[c] /\ data # 0 /\ Fits(config.image, data)
      /\ OffersFit /\ LineKept(config)
  BY <1>0, HeldFacts DEF At, AtUndo, Steady
<1>2. quadlet' = config.image /\ UNCHANGED files
  <2>1. config.image # None
    BY HeldTypes
  <2>2. quadlet' \in Rendered /\ EnsureDir
    BY DEF UndoQuadlet, UndoFails, Held, Undisturbed
  <2>3. QED
    BY <1>1, <2>1, <2>2 DEF Rendered, EnsureDir
<1>3. /\ pc' = [pc EXCEPT ![c] = "undo_start"] /\ pc'[c] = "undo_start" /\ saved' = saved
  BY GoesOn DEF UndoQuadlet
<1>4. unit' = None /\ LineKept(config)' /\ OffersFit' /\ Agree'
  BY <1>0, <1>1, <1>2 DEF engine, files, LineKept, OffersFit, Agree, Fits
<1>5. At(c)'
  BY <1>0, <1>1, <1>3, <1>4 DEF At, AtUpdate, AtMigrate, AtUndo
<1>6. Steady'
  BY <1>0, <1>3, <1>4, SteadyDown DEF Locked
<1>7. QED
  BY <1>3, <1>5, <1>6, HeldKeeps DEF Locked

LEMMA UndoStartLines == ASSUME NEW c, Held(c), UndoStart(c) PROVE LinesInv' /\ Agree' /\ config' = config
<1>0. pc[c] = "undo_start" /\ c \in Callers /\ UNCHANGED <<config, quadlet, offer>> /\ End(c)
  BY HeldFacts DEF UndoStart
<1>1. Agree /\ OffersFit
  BY <1>0, HeldFacts DEF At
<1>2. CASE UNCHANGED <<files, engine>>
  <2>1. Agree'
    BY <1>0, <1>1, <1>2 DEF Agree, Fits, files
  <2>2. QED
    BY <1>0, <1>1, <1>2, <2>1, EndLines
<1>3. CASE Starts(quadlet) \/ StartFails(quadlet)
  <2>1. pc' = [pc EXCEPT ![c] = "idle"]
    BY <1>0 DEF End, Goto
  <2>2. Agree' /\ OffersFit' /\ Steady'
    BY <1>0, <1>1, <1>3, <2>1, StartAgrees
  <2>3. QED
    BY <1>0, <2>1, <2>2, HeldKeeps DEF Locked
<1>4. QED
  BY <1>2, <1>3 DEF UndoStart

\* Time takes offers away, nothing else.
LEMMA ExpireLines == ASSUME IInv, LinesInv, again = "no", NEW p \in Processes, Expire(p) PROVE LinesInv'
<1>1. /\ offer' = [offer EXCEPT ![p] = None] /\ offer \in [Processes -> Images \cup {None}]
      /\ UNCHANGED <<config, quadlet, files, engine, pc, locals, bounds>>
  BY DEF Expire, IInv, GlobalOK
<1>2. Agree' = Agree /\ (OffersFit => OffersFit') /\ (Steady => Steady')
  BY <1>1 DEF Agree, OffersFit, Steady, Fits, LineKept, files, engine
<1>3. ASSUME NEW d \in Callers, pc'[d] \in Locked PROVE At(d)'
  <2>1. At(d)
    BY <1>1, <1>3 DEF LinesInv
  <2>2. AtUpdate(d)'
    BY <1>1, <1>2, <2>1 DEF At, AtUpdate, Fits, files, locals
  <2>3. AtMigrate(d)'
    BY <1>1, <2>1 DEF At, AtMigrate, WayBack, Aside, Fits, LineKept, FreshDir, files, engine, locals
  <2>4. AtUndo(d)'
    BY <1>1, <1>2, <2>1 DEF At, AtUndo, WayBack, Aside, Fits, LineKept, files, engine, locals
  <2>5. QED
    BY <1>1, <1>2, <2>1, <2>2, <2>3, <2>4 DEF At, locals
<1>4. Nobody' = Nobody
  BY <1>1 DEF Nobody
<1>5. QED
  BY <1>2, <1>3, <1>4 DEF LinesInv

\* again is never forgotten.
LEMMA AgainStays == [Next]_vars /\ again # "no" => again' # "no"
<1> SUFFICES ASSUME [Next]_vars, again # "no", again' = "no" PROVE FALSE
  OBVIOUS
<1>1. ASSUME NEW c \in Callers, Step(c) PROVE again' = again \/ again' = "yes"
  BY <1>1 DEF Step, Begin, Lock, Compute, Store, Cached, Gate, Previous, Engine, Dump, Stop, Swap, Mkdir,
     Pull, Persist, Rewrite, Restart, Wait, Restore, Record, UndoData, UndoRename, UndoConfig,
     UndoQuadlet, UndoStart, Poll, StorePoll, bounds
<1>2. QED
  BY <1>1 DEF Next, Expire, Crash, UserRewrite, UserStart, UserStop, vars, bounds

LEMMA StepLines == IInv /\ LinesInv /\ Undisturbed /\ [Next]_vars => LinesInv'
<1> SUFFICES ASSUME IInv, LinesInv, Undisturbed, [Next]_vars, again = "no" PROVE LinesInv'
  BY AgainStays DEF LinesInv
<1>1. ASSUME NEW c \in Callers, Step(c) PROVE LinesInv'
  <2>1. CASE Begin(c) \/ Lock(c)
    BY <2>1, BeginLines, LockLines
  <2>2. CASE Poll(c) \/ StorePoll(c)
    BY <2>2 DEF Poll, StorePoll, Undisturbed, LinesInv, Steady
  <2>3. ASSUME pc[c] \in Locked PROVE Held(c)
    BY <2>3 DEF Held
  <2>4. CASE Compute(c) \/ Store(c) \/ Cached(c) \/ Gate(c) \/ Previous(c)
    <3>1. Held(c)
      BY <2>3, <2>4 DEF Compute, Store, Cached, Gate, Previous, Locked
    <3>2. QED
      BY <2>4, <3>1, ComputeLines, OfferLines, PreviousLines
  <2>5. CASE Engine(c) \/ Dump(c) \/ Stop(c) \/ Swap(c) \/ Mkdir(c)
    <3>1. Held(c)
      BY <2>3, <2>5 DEF Engine, Dump, Stop, Swap, Mkdir, Locked
    <3>2. QED
      BY <2>5, <3>1, EngineLines, DumpLines, StopLines, SwapLines, MkdirLines
  <2>6. CASE Pull(c) \/ Persist(c) \/ Rewrite(c) \/ Restart(c) \/ Wait(c) \/ Restore(c) \/ Record(c)
    <3>1. Held(c)
      BY <2>3, <2>6 DEF Pull, Persist, Rewrite, Restart, Wait, Restore, Record, Locked
    <3>2. QED
      BY <2>6, <3>1, PullLines, PersistLines, RewriteLines, RestartLines, WaitLines, RestoreLines, RecordLines
  <2>7. CASE UndoData(c) \/ UndoRename(c) \/ UndoConfig(c) \/ UndoQuadlet(c) \/ UndoStart(c)
    <3>1. Held(c)
      BY <2>3, <2>7 DEF UndoData, UndoRename, UndoConfig, UndoQuadlet, UndoStart, Locked
    <3>2. QED
      BY <2>7, <3>1, UndoDataLines, UndoRenameLines, UndoConfigLines, UndoQuadletLines, UndoStartLines
  <2>8. QED
    BY <1>1, <2>1, <2>2, <2>4, <2>5, <2>6, <2>7 DEF Step
<1>2. ASSUME NEW p \in Processes, Expire(p) PROVE LinesInv'
  BY <1>2, ExpireLines
<1>3. CASE (\E p \in Processes : Crash(p)) \/ UserRewrite \/ UserStart \/ UserStop
  BY <1>3 DEF Crash, UserRewrite, UserStart, UserStop, Undisturbed
<1>4. CASE UNCHANGED vars
  BY <1>4 DEF vars, bounds, files, engine, locals, LinesInv, Steady, Agree, OffersFit, Nobody, At, AtUpdate,
     AtMigrate, AtUndo, WayBack, Aside, Fits, FreshDir, LineKept
<1>5. QED
  BY <1>1, <1>2, <1>3, <1>4 DEF Next

LEMMA InitLines == Init /\ Undisturbed => LinesInv
<1> SUFFICES ASSUME Init, Undisturbed PROVE LinesInv
  OBVIOUS
<1>1. \A c \in Callers : pc[c] = "idle"
  BY DEF Init
<1>2. /\ config.image = Installed /\ config.prev = None /\ quadlet = Installed /\ unit = Installed
      /\ data = 1 /\ mount = 1 /\ dirs[1].line = LineOf[Installed] /\ Installed # None
      /\ \A p \in Processes : offer[p] = None
  BY DEF Init, Undisturbed
<1>3. Steady /\ Agree /\ OffersFit
  BY <1>1, <1>2 DEF Steady, Agree, OffersFit, LineKept, Fits
<1>4. QED
  BY <1>1, <1>3 DEF LinesInv, Locked

\* Once abortMigrate has put the entry back it stays, whatever the history.
PutBack ==
  \A c \in Callers :
    pc[c] = "undo_quadlet" \/ (pc[c] = "undo_start" /\ saved[c] # None) => config = saved[c]

LEMMA StepPutsBack == IInv /\ PutBack /\ Undisturbed /\ [Next]_vars => PutBack'
<1> SUFFICES ASSUME IInv, PutBack, Undisturbed, [Next]_vars, NEW c \in Callers,
                    pc'[c] = "undo_quadlet" \/ (pc'[c] = "undo_start" /\ saved'[c] # None)
             PROVE  config' = saved'[c]
  BY DEF PutBack
<1>0. /\ pc \in [Callers -> Places] /\ saved \in [Callers -> Config \cup {None}]
      /\ \A d \in Callers : Hand(d)
  BY DEF IInv, CallersOK, LocalsOK
<1>1. ASSUME UNCHANGED <<config, pc, saved>> PROVE config' = saved'[c]
  BY <1>1 DEF PutBack
<1>2. ASSUME NEW d \in Callers, Step(d), d # c PROVE config' = saved'[c]
  <2>1. PICK place : pc' = [pc EXCEPT ![d] = place]
    BY <1>2, Zenon DEF Step, Begin, Lock, Compute, Store, Cached, Gate, Previous, Engine, Dump, Stop, Swap, Mkdir,
       Pull, Persist, Rewrite, Restart, Wait, Restore, Record, UndoData, UndoRename, UndoConfig,
       UndoQuadlet, UndoStart, Poll, StorePoll, Goto, Continue, End, Abort, Fails, Chosen
  <2>2. PICK snapshot : saved' = saved \/ saved' = [saved EXCEPT ![d] = snapshot]
    BY <1>2, Zenon DEF Step, Begin, Lock, Compute, Store, Cached, Gate, Previous, Engine, Dump, Stop, Swap, Mkdir,
       Pull, Persist, Rewrite, Restart, Wait, Restore, Record, UndoData, UndoRename, UndoConfig,
       UndoQuadlet, UndoStart, Poll, StorePoll, Continue, End, Abort, Fails, Chosen, locals
  <2>3. pc'[c] = pc[c] /\ saved'[c] = saved[c]
    BY <1>0, <1>2, <2>1, <2>2
  <2>4. pc[d] \notin Locked
    BY <1>0, <1>2, <2>3 DEF Hand, Locked, Undisturbed, OneProcessOnly
  <2>5. config' = config
    BY <1>2, <2>4 DEF Step, Begin, Lock, Compute, Store, Cached, Gate, Previous, Engine, Dump, Stop, Swap, Mkdir,
       Pull, Persist, Rewrite, Restart, Wait, Restore, Record, UndoData, UndoRename, UndoConfig,
       UndoQuadlet, UndoStart, Poll, StorePoll, Locked
  <2>6. QED
    BY <2>3, <2>5 DEF PutBack
<1>3. ASSUME Step(c) PROVE config' = saved'[c]
  <2>1. UndoData(c) \/ UndoRename(c) \/ UndoConfig(c) \/ UndoQuadlet(c)
    <3>1. ~(End(c) \/ Abort(c, None) \/ Abort(c, saved[c]))
      BY <1>0 DEF End, Abort, Goto
    <3>2. \A place : Goto(c, place) => place \in {"undo_quadlet", "undo_start"}
      BY <1>0 DEF Goto
    <3>3. ~(Begin(c) \/ Compute(c) \/ Store(c) \/ Cached(c) \/ Gate(c) \/ Previous(c))
      BY <3>1, <3>2 DEF Begin, Compute, Store, Cached, Gate, Previous, Continue, Chosen
    <3>8. ~Lock(c)
      <4>1. SUFFICES ASSUME Lock(c) PROVE FALSE
        OBVIOUS
      <4>2. op[c] \in {"update", "migrate", "rollback"}
        BY <4>1 DEF Lock, Hand, Ops, IInv, CallersOK, LocalsOK
      <4>3. QED
        BY <3>2, <4>1, <4>2 DEF Lock
    <3>4. ~(Engine(c) \/ Dump(c) \/ Stop(c) \/ Swap(c) \/ Mkdir(c) \/ Pull(c))
      BY <3>1, <3>2 DEF Engine, Dump, Stop, Swap, Mkdir, Pull, Continue, Fails
    <3>5. ~(Persist(c) \/ Rewrite(c) \/ Restart(c) \/ Wait(c) \/ Restore(c) \/ Record(c))
      BY <3>1, <3>2 DEF Persist, Rewrite, Restart, Wait, Restore, Record, Continue, Fails
    <3>6. ~(UndoStart(c) \/ Poll(c) \/ StorePoll(c))
      BY <3>1, <3>2 DEF UndoStart, Poll, StorePoll
    <3>7. QED
      BY <1>3, <3>3, <3>4, <3>5, <3>6, <3>8 DEF Step
  <2>2. UNCHANGED saved
    BY <2>1 DEF UndoData, UndoRename, UndoConfig, UndoQuadlet, Continue, locals
  <2>3. CASE UndoData(c) \/ UndoRename(c)
    BY <1>0, <2>2, <2>3 DEF UndoData, UndoRename, Continue, Goto
  <2>4. CASE UndoConfig(c)
    BY <2>2, <2>4 DEF UndoConfig, UndoFails, Undisturbed
  <2>5. CASE UndoQuadlet(c)
    BY <2>2, <2>5 DEF UndoQuadlet, PutBack
  <2>6. QED
    BY <2>1, <2>3, <2>4, <2>5
<1>4. CASE (\E p \in Processes : Expire(p) \/ Crash(p)) \/ UserRewrite \/ UserStart \/ UserStop
  BY <1>1, <1>4 DEF Expire, Crash, UserRewrite, UserStart, UserStop, Undisturbed, locals
<1>5. QED
  BY <1>1, <1>2, <1>3, <1>4 DEF Next, vars, locals

LEMMA AlwaysLines == ASSUME Undisturbed PROVE Spec => [](IInv /\ LinesInv /\ PutBack)
<1>1. Init => IInv /\ LinesInv /\ PutBack
  BY InitKeeps, InitLines DEF Init, PutBack
<1>2. IInv /\ LinesInv /\ PutBack /\ [Next]_vars => (IInv /\ LinesInv /\ PutBack)'
  BY StepKeeps, StepLines, StepPutsBack DEF Undisturbed
<1>3. QED
  BY <1>1, <1>2, PTL DEF Spec

\* No engine is on a directory of another line (enforceMajorUpgradeGate,
\* swapDataDirAside, RollbackService): any callers in one process, any images and lines
\* and any number of operations, whichever of their steps fail.
THEOREM EngineAlwaysFits == ASSUME Undisturbed PROVE Spec => []EngineFitsData
<1>1. LinesInv => EngineFitsData
  BY DEF LinesInv, Steady, EngineFitsData
<1>2. QED
  BY <1>1, AlwaysLines, PTL

\* Between operations pin, quadlet and directory agree (persistImageChoice,
\* abortMigrate), whichever steps failed.
THEOREM AlwaysConsistent == ASSUME Undisturbed PROVE Spec => []Consistent
<1>1. IInv /\ LinesInv => Consistent
  <2> SUFFICES ASSUME IInv, LinesInv, again = "no", \A p \in Processes : lock[p] = None
               PROVE  config.image \in {None, quadlet} /\ Fits(quadlet, data)
    BY DEF Consistent
  <2>1. Nobody
    <3>1. SUFFICES ASSUME NEW c \in Callers, pc[c] \in Locked PROVE FALSE
      BY DEF Nobody
    <3>2. lock[ProcessOf[c]] = c /\ ProcessOf[c] \in Processes
      BY <3>1 DEF IInv, CallersOK, Hand
    <3>3. QED
      BY <3>2
  <2>2. QED
    BY <2>1 DEF LinesInv, Agree
<1>2. QED
  BY <1>1, AlwaysLines, PTL

\* What can make a caller that is about to start the engine again idle.
LEMMA OnlyUndoStarts ==
  ASSUME IInv, Undisturbed, [Next]_vars, NEW c \in Callers, pc[c] = "undo_start", pc'[c] = "idle"
  PROVE  UndoStart(c)
<1>0. pc \in [Callers -> Places]
  BY DEF IInv, CallersOK, LocalsOK
<1>1. ASSUME NEW d \in Callers, Step(d) PROVE d = c
  <2>1. PICK place : pc' = [pc EXCEPT ![d] = place]
    BY <1>1, Zenon DEF Step, Begin, Lock, Compute, Store, Cached, Gate, Previous, Engine, Dump, Stop, Swap, Mkdir,
       Pull, Persist, Rewrite, Restart, Wait, Restore, Record, UndoData, UndoRename, UndoConfig,
       UndoQuadlet, UndoStart, Poll, StorePoll, Goto, Continue, End, Abort, Fails, Chosen
  <2>2. QED
    BY <1>0, <2>1
<1>2. Step(c) => UndoStart(c)
  BY DEF Step, Begin, Lock, Compute, Store, Cached, Gate, Previous, Engine, Dump, Stop, Swap, Mkdir,
     Pull, Persist, Rewrite, Restart, Wait, Restore, Record, UndoData, UndoRename, UndoConfig,
     UndoQuadlet, Poll, StorePoll
<1>3. CASE (\E p \in Processes : Expire(p) \/ Crash(p)) \/ UserRewrite \/ UserStart \/ UserStop
  BY <1>3 DEF Expire, Crash, UserRewrite, UserStart, UserStop, Undisturbed
<1>4. QED
  BY <1>1, <1>2, <1>3 DEF Next, vars

\* A migrate that is undone leaves what it found, whatever step of it failed
\* (abortMigrate).
THEOREM AbortAlwaysUndoes == ASSUME Undisturbed PROVE Spec => AbortUndoes
<1>1. IInv /\ LinesInv /\ PutBack /\ [Next]_vars =>
        [\A c \in Callers : pc[c] = "undo_start" /\ pc'[c] = "idle" /\ saved[c] # None =>
           config' = saved[c] /\ (again = "no" => Fits(quadlet, data)')]_vars
  <2> SUFFICES ASSUME IInv, LinesInv, PutBack, [Next]_vars, NEW c \in Callers,
                      pc[c] = "undo_start", pc'[c] = "idle", saved[c] # None
               PROVE  config' = saved[c] /\ (again = "no" => Fits(quadlet, data)')
    OBVIOUS
  <2>1. UndoStart(c)
    BY OnlyUndoStarts
  <2>2. config' = saved[c]
    BY <2>1 DEF UndoStart, PutBack
  <2>3. ASSUME again = "no" PROVE Fits(quadlet, data)'
    <3>1. Held(c)
      BY <2>3 DEF Held, Locked
    <3>2. QED
      BY <2>1, <3>1, UndoStartLines DEF Agree
  <2>4. QED
    BY <2>2, <2>3
<1>2. QED
  BY <1>1, AlwaysLines, PTL DEF AbortUndoes, Spec
=============================================================================
