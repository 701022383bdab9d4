-------------------------- MODULE IdleEngineProofs --------------------------
(* Proofs about the idle engine, for any sites, worktrees, workers and       *)
(* bounds: type correctness, one job per key, one tick loop per session;     *)
(* that no worker is forgotten, where the engine is not disturbed by hand;   *)
(* and the first three with the commands that pause and unpause.             *)
EXTENDS SitePauseProps, TLAPS

USE KeysAssumption, WorkersAssumption, TogglesAssumption DEF Keys

-----------------------------------------------------------------------------
(* Lemmas on the data. *)

\* Giving a key some of its own workers keeps every key with its own.
LEMMA OwnUpdate ==
  ASSUME NEW f, Own(f), NEW k, NEW S, k \in Keys => S \subseteq WorkersOf[k]
  PROVE  Own([f EXCEPT ![k] = S])
  BY DEF Own

\* A key's workers are workers.
LEMMA OwnWorkers == \A k \in Keys : WorkersOf[k] \subseteq Workers
  OBVIOUS

\* A site's key is itself, a worktree's is that of its parent.
LEMMA SiteOfKey == \A k \in Keys : SiteOf(k) \in Sites
  BY DEF SiteOf

\* A job that moves on within its type keeps all jobs typed.
LEMMA GotoTyped ==
  ASSUME NEW j \in jobs, NEW next, \A i \in jobs : JobOK(i), JobOK(next), Goto(j, next)
  PROVE  \A i \in jobs' : JobOK(i)
  BY DEF Goto

\* The fields of a typed job.
LEMMA JobFields ==
  ASSUME NEW j, JobOK(j)
  PROVE  /\ j.key \in Keys
         /\ j.todo \subseteq WorkersOf[j.key] /\ j.names \subseteq WorkersOf[j.key]
         /\ j.kind \in {"suspend", "resume"}
  BY DEF JobOK, Job

\* A job may be given any of its key's workers, at any point of its code.
LEMMA JobChange ==
  ASSUME NEW j, JobOK(j),
         NEW pc \in {"find", "stop", "start", "persist", "mark", "clear"},
         NEW todo, todo \subseteq WorkersOf[j.key],
         NEW names, names \subseteq WorkersOf[j.key]
  PROVE  JobOK([j EXCEPT !.pc = pc, !.todo = todo, !.names = names])
  <1>1. j.key \in Keys /\ j \in Job
    BY JobFields DEF JobOK
  <1>2. todo \in SUBSET Workers /\ names \in SUBSET Workers
    BY <1>1, OwnWorkers
  <1> DEFINE next == [j EXCEPT !.pc = pc, !.todo = todo, !.names = names]
  <1>3. next \in Job
    <2> DEFINE W == SUBSET Workers
    <2>1. j \in [kind : {"suspend", "resume"}, key : Keys,
                 pc : {"find", "stop", "start", "persist", "mark", "clear"}, todo : W, names : W]
      BY <1>1 DEF Job
    <2>2. todo \in W /\ names \in W
      BY <1>2
    <2> HIDE DEF W
    <2>3. next \in [kind : {"suspend", "resume"}, key : Keys,
                    pc : {"find", "stop", "start", "persist", "mark", "clear"}, todo : W, names : W]
      BY <2>1, <2>2
    <2> QED
      BY <2>3 DEF Job, W
  <1>4. next.key = j.key /\ next.todo = todo /\ next.names = names
    BY <1>1 DEF Job
  <1> QED
    BY <1>3, <1>4 DEF JobOK

\* The same when the worker names stay.
LEMMA JobTodo ==
  ASSUME NEW j, JobOK(j),
         NEW pc \in {"find", "stop", "start", "persist", "mark", "clear"},
         NEW todo, todo \subseteq WorkersOf[j.key]
  PROVE  JobOK([j EXCEPT !.pc = pc, !.todo = todo])
  <1>1. JobOK([j EXCEPT !.pc = pc, !.todo = todo, !.names = j.names])
    BY JobFields, JobChange
  <1>2. [j EXCEPT !.pc = pc, !.todo = todo, !.names = j.names] = [j EXCEPT !.pc = pc, !.todo = todo]
    BY DEF JobOK, Job
  <1> QED
    BY <1>1, <1>2

\* The same when only the program counter moves.
LEMMA JobMoves ==
  ASSUME NEW j, JobOK(j), NEW pc \in {"find", "stop", "start", "persist", "mark", "clear"}
  PROVE  JobOK([j EXCEPT !.pc = pc])
  <1>1. JobOK([j EXCEPT !.pc = pc, !.todo = j.todo])
    BY JobFields, JobTodo
  <1>2. [j EXCEPT !.pc = pc, !.todo = j.todo] = [j EXCEPT !.pc = pc]
    BY DEF JobOK, Job
  <1> QED
    BY <1>1, <1>2

\* The same when only the work to do shrinks.
LEMMA JobShrinks ==
  ASSUME NEW j, JobOK(j), NEW w
  PROVE  JobOK([j EXCEPT !.todo = @ \ {w}])
  <1>1. JobOK([j EXCEPT !.pc = j.pc, !.todo = j.todo \ {w}])
    BY JobFields, JobTodo DEF JobOK, Job
  <1>2. [j EXCEPT !.pc = j.pc, !.todo = j.todo \ {w}] = [j EXCEPT !.todo = @ \ {w}]
    BY DEF JobOK, Job
  <1> QED
    BY <1>1, <1>2

-----------------------------------------------------------------------------
(* Every step of a job keeps the types. *)

\* What a job may disturb.
JobTypes == DiskOK /\ MachineOK /\ BeliefOK

\* Collecting takes running workers of the key.
LEMMA CollectTyped == ASSUME TypeOK, NEW j \in jobs, Collect(j) PROVE JobTypes'
  <1>1. PICK kept \in {{}, running[j.key] \cap Vite} :
          Goto(j, [j EXCEPT !.pc = "stop", !.todo = running[j.key] \ kept, !.names = running[j.key] \ kept])
    BY DEF Collect
  <1>2. JobOK(j) /\ j.key \in Keys
    BY JobFields DEF TypeOK, BeliefOK
  <1>3. running[j.key] \ kept \subseteq WorkersOf[j.key]
    BY <1>2 DEF TypeOK, MachineOK, Own
  <1>4. JobOK([j EXCEPT !.pc = "stop", !.todo = running[j.key] \ kept, !.names = running[j.key] \ kept])
    BY <1>2, <1>3, JobChange
  <1>5. \A i \in jobs' : JobOK(i)
    BY <1>1, <1>4, GotoTyped DEF TypeOK, BeliefOK
  <1> QED
    BY <1>5 DEF Collect, TypeOK, JobTypes, DiskOK, MachineOK, BeliefOK, disk, machine

\* Stopping a worker takes it off the running ones.
LEMMA StopWorkerTyped == ASSUME TypeOK, NEW j \in jobs, StopWorker(j) PROVE JobTypes'
  <1>1. PICK w \in j.todo :
          /\ running' = [running EXCEPT ![j.key] = @ \ {w}]
          /\ Goto(j, [j EXCEPT !.todo = @ \ {w}])
    BY DEF StopWorker
  <1>2. JobOK(j) /\ j.key \in Keys /\ j \in Job
    BY JobFields DEF TypeOK, BeliefOK, JobOK
  <1>3. JobOK([j EXCEPT !.todo = @ \ {w}])
    BY <1>2, JobShrinks
  <1>4. \A i \in jobs' : JobOK(i)
    BY <1>1, <1>3, GotoTyped DEF TypeOK, BeliefOK
  <1>5. Own(running')
    <2>1. running[j.key] \ {w} \subseteq WorkersOf[j.key]
      BY <1>2 DEF TypeOK, MachineOK, Own
    <2> QED
      BY <1>1, <2>1, OwnUpdate DEF TypeOK, MachineOK
  <1> QED
    BY <1>4, <1>5 DEF StopWorker, TypeOK, JobTypes, DiskOK, MachineOK, BeliefOK, disk

\* Relisting adds declared workers of the site.
LEMMA RelistTyped == ASSUME TypeOK, NEW j \in jobs, Relist(j) PROVE JobTypes'
  <1>1. PICK lost \in {Lost(j.key)} \cup (IF "unreadable" \in Events THEN {{}} ELSE {}) :
          Goto(j, [j EXCEPT !.names = j.names \cup lost,
                            !.pc = IF j.names \cup lost = {} THEN "clear" ELSE "persist"])
    BY DEF Relist
  <1>2. JobOK(j) /\ j.key \in Keys /\ j \in Job /\ j.names \subseteq WorkersOf[j.key]
    BY JobFields DEF TypeOK, BeliefOK, JobOK
  <1>3. lost \subseteq WorkersOf[j.key]
    BY <1>1, <1>2 DEF Lost, TypeOK, DiskOK
  <1> DEFINE pc == IF j.names \cup lost = {} THEN "clear" ELSE "persist"
             next == [j EXCEPT !.names = j.names \cup lost, !.pc = pc]
  <1>4. JobOK(next)
    <2>1. JobOK([j EXCEPT !.pc = pc, !.todo = j.todo, !.names = j.names \cup lost])
      <3>1. pc \in {"find", "stop", "start", "persist", "mark", "clear"}
        OBVIOUS
      <3>2. j.names \cup lost \subseteq WorkersOf[j.key] /\ j.todo \subseteq WorkersOf[j.key]
        BY <1>2, <1>3, JobFields
      <3> HIDE DEF pc
      <3> QED
        BY <1>2, <3>1, <3>2, JobChange
    <2>2. [j EXCEPT !.pc = pc, !.todo = j.todo, !.names = j.names \cup lost] = next
      <3> HIDE DEF pc
      <3> QED
        BY <1>2 DEF Job, next
    <2> QED
      BY <2>1, <2>2
  <1>5. \A i \in jobs' : JobOK(i)
    <2>1. Goto(j, next)
      BY <1>1
    <2> HIDE DEF next
    <2> QED
      BY <2>1, <1>4, GotoTyped DEF TypeOK, BeliefOK
  <1> QED
    BY <1>5 DEF Relist, TypeOK, JobTypes, DiskOK, MachineOK, BeliefOK, disk, machine

\* Persisting writes the names the job holds.
LEMMA PersistTyped == ASSUME TypeOK, NEW j \in jobs, Persist(j) PROVE JobTypes'
  <1>1. JobOK(j) /\ j.key \in Keys /\ j \in Job /\ j.names \subseteq WorkersOf[j.key]
    BY JobFields DEF TypeOK, BeliefOK, JobOK
  <1>2. JobOK([j EXCEPT !.pc = "mark", !.names = {}])
    <2>1. JobOK([j EXCEPT !.pc = "mark", !.todo = j.todo, !.names = {}])
      BY <1>1, JobFields, JobChange
    <2>2. [j EXCEPT !.pc = "mark", !.todo = j.todo, !.names = {}] = [j EXCEPT !.pc = "mark", !.names = {}]
      BY <1>1 DEF Job
    <2> QED
      BY <2>1, <2>2
  <1>3. \A i \in jobs' : JobOK(i)
    BY <1>2, GotoTyped DEF Persist, TypeOK, BeliefOK
  <1>4. Own(list')
    BY <1>1, OwnUpdate DEF Persist, TypeOK, DiskOK
  <1> QED
    BY <1>3, <1>4 DEF Persist, TypeOK, JobTypes, DiskOK, MachineOK, BeliefOK, machine

\* Marking changes the belief about the job's key.
LEMMA MarkTyped == ASSUME TypeOK, NEW j \in jobs, Mark(j) PROVE JobTypes'
  <1>1. JobOK(j) /\ j.key \in Keys
    BY JobFields DEF TypeOK, BeliefOK
  <1>2. \A i \in jobs' : JobOK(i)
    BY <1>1, JobMoves, GotoTyped DEF Mark, TypeOK, BeliefOK
  <1>3. suspended' \subseteq Keys
    BY <1>1 DEF Mark, TypeOK, BeliefOK
  <1> QED
    BY <1>2, <1>3 DEF Mark, TypeOK, JobTypes, DiskOK, MachineOK, BeliefOK, disk, machine

\* The end of a job removes it.
LEMMA ClearTyped == ASSUME TypeOK, NEW j \in jobs, Clear(j) PROVE JobTypes'
  BY DEF Clear, Released, TypeOK, JobTypes, DiskOK, MachineOK, BeliefOK, disk, machine

\* A resume's work is the list of its key.
LEMMA FindListTyped == ASSUME TypeOK, NEW j \in jobs, FindList(j) PROVE JobTypes'
  <1>1. JobOK(j) /\ j.key \in Keys
    BY JobFields DEF TypeOK, BeliefOK
  <1>2. list[j.key] \subseteq WorkersOf[j.key]
    BY <1>1 DEF TypeOK, DiskOK, Own
  <1>3. JobOK([j EXCEPT !.pc = "start", !.todo = list[j.key]])
    BY <1>1, <1>2, JobTodo
  <1>4. \A i \in jobs' : JobOK(i)
    BY <1>3, GotoTyped DEF FindList, TypeOK, BeliefOK
  <1> QED
    BY <1>4 DEF FindList, TypeOK, JobTypes, DiskOK, MachineOK, BeliefOK, disk, machine

\* Starting a worker of the key puts it where such a worker belongs.
LEMMA StartWorkerTyped == ASSUME TypeOK, NEW j \in jobs, StartWorker(j) PROVE JobTypes'
  <1>1. PICK w \in j.todo :
          /\ running' = [running EXCEPT ![j.key] = IF Exists(j.key) THEN @ \cup {w} ELSE @]
          /\ list' = [list EXCEPT ![j.key] = IF Exists(j.key) THEN @ \ {w} ELSE @]
          /\ declared' = [s \in Sites |-> IF s = j.key THEN declared[s] \cup ({w} \ AppWorkers) ELSE declared[s]]
          /\ Goto(j, [j EXCEPT !.todo = @ \ {w}])
    BY DEF StartWorker
  <1>2. JobOK(j) /\ j.key \in Keys /\ w \in WorkersOf[j.key]
    BY <1>1, JobFields DEF TypeOK, BeliefOK
  <1>3. \A i \in jobs' : JobOK(i)
    BY <1>1, <1>2, JobShrinks, GotoTyped DEF TypeOK, BeliefOK
  <1>4. Own(running')
    <2> DEFINE S == IF Exists(j.key) THEN running[j.key] \cup {w} ELSE running[j.key]
    <2>1. S \subseteq WorkersOf[j.key]
      BY <1>2 DEF TypeOK, MachineOK, Own
    <2>2. running' = [running EXCEPT ![j.key] = S]
      BY <1>1
    <2> HIDE DEF S
    <2> QED
      BY <2>1, <2>2, OwnUpdate DEF TypeOK, MachineOK
  <1>5. Own(list')
    <2> DEFINE S == IF Exists(j.key) THEN list[j.key] \ {w} ELSE list[j.key]
    <2>1. S \subseteq WorkersOf[j.key]
      BY <1>2 DEF TypeOK, DiskOK, Own
    <2>2. list' = [list EXCEPT ![j.key] = S]
      BY <1>1
    <2> HIDE DEF S
    <2> QED
      BY <2>1, <2>2, OwnUpdate DEF TypeOK, DiskOK
  <1>6. declared' \in [Sites -> SUBSET Workers] /\ \A s \in Sites : declared'[s] \subseteq WorkersOf[s]
    BY <1>1, <1>2, OwnWorkers DEF TypeOK, DiskOK
  <1> QED
    BY <1>3, <1>4, <1>5, <1>6 DEF StartWorker, TypeOK, JobTypes, DiskOK, MachineOK, BeliefOK

\* The end of the starts moves the program counter.
LEMMA AllStartedTyped == ASSUME TypeOK, NEW j \in jobs, AllStarted(j) PROVE JobTypes'
  <1>1. \A i \in jobs' : JobOK(i)
    BY JobMoves, GotoTyped DEF AllStarted, TypeOK, BeliefOK
  <1> QED
    BY <1>1 DEF AllStarted, TypeOK, JobTypes, DiskOK, MachineOK, BeliefOK, disk, machine

\* Every step of a job keeps the types.
LEMMA JobStepTyped == ASSUME TypeOK, NEW j \in jobs, JobStep(j) PROVE TypeOK'
  <1>1. JobTypes'
    BY CollectTyped, StopWorkerTyped, RelistTyped, PersistTyped, MarkTyped, ClearTyped,
       FindListTyped, StartWorkerTyped, AllStartedTyped DEF JobStep
  <1>2. LoopOK' /\ RestOK' /\ CliOK'
    BY DEF JobStep, TypeOK, LoopOK, RestOK, CliOK, TickerOK, cli
  <1> QED
    BY <1>1, <1>2 DEF JobTypes, TypeOK

-----------------------------------------------------------------------------
(* Every step of a tick keeps the types. *)

\* A spawned job is typed, and so is the set it joins.
LEMMA SpawnTyped ==
  ASSUME BeliefOK, NEW kind \in {"suspend", "resume"}, NEW k \in Keys, NEW b, Spawn(kind, k, b)
  PROVE  inFlight' \subseteq Keys /\ \A i \in jobs' : JobOK(i)
  <1> DEFINE new == [kind |-> kind, key |-> k, pc |-> "find", todo |-> {}, names |-> {}]
  <1>1. JobOK(new)
    BY DEF JobOK, Job
  <1> QED
    BY <1>1 DEF Spawn, BeliefOK

\* A tick loop that moves on within its type keeps all loops typed.
LEMMA MoveTyped ==
  ASSUME NEW t, NEW next, \A u \in tickers : TickerOK(u), TickerOK(next), Move(t, next)
  PROVE  \A u \in tickers' : TickerOK(u)
  BY DEF Move

\* A loop that waits knows nothing.
LEMMA WaitingTyped == \A c \in {"live", "cancelled"} : TickerOK(Waiting(c))
  <1> TAKE c \in {"live", "cancelled"}
  <1>1. [k \in Keys |-> {}] \in [Keys -> SUBSET Workers]
    OBVIOUS
  <1>2. Waiting(c) \in Ticker
    BY <1>1 DEF Waiting, Ticker
  <1> QED
    BY <1>2 DEF TickerOK, Waiting

\* A loop may move to any key, at any point of the tick past the first look.
LEMMA TickerChange ==
  ASSUME NEW t, TickerOK(t), NEW pc \in {"sites", "probe", "store", "decide"},
         NEW todo, todo \subseteq Keys, NEW cur \in Keys, NEW asleep \in {"yes", "no"}
  PROVE  TickerOK([t EXCEPT !.todo = todo, !.cur = cur, !.pc = pc, !.asleep = asleep])
  BY DEF TickerOK, Ticker

\* What a tick may disturb.
TickTypes == DiskOK /\ BeliefOK /\ LoopOK

\* The end of a cancelled loop removes it.
LEMMA TickerExitsTyped == ASSUME TypeOK, NEW t \in tickers, TickerExits(t) PROVE TickTypes'
  BY DEF TickerExits, TypeOK, TickTypes, DiskOK, BeliefOK, LoopOK, JobOK, disk, belief

\* A tick begins with copies of what is on disk.
LEMMA TickBeginTyped == ASSUME TypeOK, NEW t \in tickers, TickBegin(t) PROVE TickTypes'
  <1> DEFINE awake == {w \in Worktrees : ParentOf[w] \notin paused}
             wts == checkouts \cup (Worktrees \ awake)
             todo == (Sites \ paused) \cup (checkouts \cap awake)
             next == [t EXCEPT !.pc = "sites", !.flag = enabled, !.seen = list, !.exempt = pinned,
                               !.wts = wts, !.todo = todo]
  <1>1. TickerOK(t) /\ Move(t, next)
    BY DEF TickBegin, TypeOK, LoopOK
  <1>2. TickerOK(next)
    <2>1. enabled \in {"on", "off"} /\ list \in [Keys -> SUBSET Workers] /\ pinned \in SUBSET Sites
      BY DEF TypeOK, DiskOK, Own
    <2>2. wts \in SUBSET Worktrees /\ todo \in SUBSET Keys
      BY DEF TypeOK, MachineOK
    <2> HIDE DEF wts, todo
    <2> QED
      BY <1>1, <2>1, <2>2 DEF TickerOK, Ticker
  <1>3. \A u \in tickers' : TickerOK(u)
    <2> HIDE DEF next
    <2> QED
      BY <1>1, <1>2, MoveTyped DEF TypeOK, LoopOK
  <1> QED
    BY <1>3 DEF TickBegin, TypeOK, TickTypes, DiskOK, BeliefOK, LoopOK, JobOK, disk, belief

\* A look takes a key from those to visit.
LEMMA TickLookTyped == ASSUME TypeOK, NEW t \in tickers, TickLook(t) PROVE TickTypes'
  <1>1. PICK k \in t.todo :
          Move(t, IF k \in inFlight
                  THEN [[t EXCEPT !.todo = @ \ {k}, !.cur = k]
                         EXCEPT !.pc = "decide", !.asleep = IF k \in suspended THEN "yes" ELSE "no"]
                  ELSE [[t EXCEPT !.todo = @ \ {k}, !.cur = k] EXCEPT !.pc = "probe"])
    BY DEF TickLook
  <1>2. TickerOK(t) /\ t \in Ticker /\ k \in Keys /\ t.todo \subseteq Keys /\ t.asleep \in {"yes", "no"}
    BY <1>1 DEF TypeOK, LoopOK, TickerOK, Ticker
  <1>3. CASE k \in inFlight
    <2> DEFINE a == IF k \in suspended THEN "yes" ELSE "no"
               next == [t EXCEPT !.todo = t.todo \ {k}, !.cur = k, !.pc = "decide", !.asleep = a]
    <2>1. TickerOK(next)
      BY <1>2, TickerChange
    <2>2. Move(t, next)
      BY <1>1, <1>2, <1>3 DEF Ticker
    <2> HIDE DEF next
    <2>3. \A u \in tickers' : TickerOK(u)
      BY <2>1, <2>2, MoveTyped DEF TypeOK, LoopOK
    <2> QED
      BY <2>3 DEF TickLook, TypeOK, TickTypes, DiskOK, BeliefOK, LoopOK, JobOK, disk, belief
  <1>4. CASE k \notin inFlight
    <2> DEFINE next == [t EXCEPT !.todo = t.todo \ {k}, !.cur = k, !.pc = "probe", !.asleep = t.asleep]
    <2>1. TickerOK(next)
      BY <1>2, TickerChange
    <2>2. Move(t, next)
      <3>1. next = [[t EXCEPT !.todo = @ \ {k}, !.cur = k] EXCEPT !.pc = "probe"]
        BY <1>2 DEF Ticker
      <3> HIDE DEF next
      <3> QED
        BY <1>1, <1>4, <3>1
    <2> HIDE DEF next
    <2>3. \A u \in tickers' : TickerOK(u)
      BY <2>1, <2>2, MoveTyped DEF TypeOK, LoopOK
    <2> QED
      BY <2>3 DEF TickLook, TypeOK, TickTypes, DiskOK, BeliefOK, LoopOK, JobOK, disk, belief
  <1> QED
    BY <1>3, <1>4

\* A probe may drop a list.
LEMMA TickProbeTyped == ASSUME TypeOK, NEW t \in tickers, TickProbe(t) PROVE TickTypes'
  <1> DEFINE a == IF t.seen[t.cur] = {} \/ IsStale(t) THEN "no" ELSE "yes"
             next == [t EXCEPT !.pc = "store", !.asleep = a]
  <1>1. TickerOK(t) /\ t \in Ticker /\ t.pc = "probe" /\ t.cur \in Keys /\ t.todo \subseteq Keys
    BY DEF TickProbe, TypeOK, LoopOK, TickerOK, Ticker
  <1>2. TickerOK(next)
    <2>1. a \in {"yes", "no"}
      OBVIOUS
    <2> HIDE DEF a
    <2>2. TickerOK([t EXCEPT !.todo = t.todo, !.cur = t.cur, !.pc = "store", !.asleep = a])
      BY <1>1, <2>1, TickerChange
    <2>3. [t EXCEPT !.todo = t.todo, !.cur = t.cur, !.pc = "store", !.asleep = a] = next
      BY <1>1 DEF Ticker
    <2> QED
      BY <2>2, <2>3
  <1>3. \A u \in tickers' : TickerOK(u)
    <2>1. Move(t, next)
      BY DEF TickProbe
    <2> HIDE DEF next
    <2> QED
      BY <1>2, <2>1, MoveTyped DEF TypeOK, LoopOK
  <1>4. Own(list')
    BY <1>1, OwnUpdate DEF TickProbe, TypeOK, DiskOK
  <1> QED
    BY <1>3, <1>4 DEF TickProbe, TypeOK, TickTypes, DiskOK, BeliefOK, LoopOK, JobOK, belief

\* The second look stores a belief about the key and may spawn a job.
LEMMA TickDecideTyped == ASSUME TypeOK, NEW t \in tickers, TickDecide(t) PROVE TickTypes'
  <1> DEFINE k == t.cur
             asleep == IF t.pc = "decide" THEN t.asleep = "yes" ELSE k \in Reconciled(t)
             exempt == SiteOf(k) \in t.exempt
             unseen == k \in Worktrees /\ record[k] = "none"
             action == IF exempt THEN WakeExempt(asleep)
                       ELSE IF unseen THEN "none"
                       ELSE Decide(t.flag = "on", record[k], asleep)
  <1>1. TickerOK(t) /\ t \in Ticker /\ k \in Keys
    BY DEF TickDecide, TypeOK, LoopOK, TickerOK
  <1>2. suspended' \subseteq Keys
    BY <1>1 DEF TickDecide, Reconciled, TypeOK, BeliefOK
  <1>3. inFlight' \subseteq Keys /\ \A i \in jobs' : JobOK(i)
    <2>1. action \in {"none", "suspend", "resume"}
      BY DEF WakeExempt, Decide
    <2>2. \/ action = "none" /\ UNCHANGED <<inFlight, jobs>>
          \/ action # "none" /\ Spawn(action, k, suspended')
      BY DEF TickDecide
    <2> HIDE DEF action, k
    <2>3. CASE UNCHANGED <<inFlight, jobs>>
      BY <2>3 DEF TypeOK, BeliefOK
    <2>4. CASE action # "none" /\ Spawn(action, k, suspended')
      BY <1>1, <2>1, <2>4, SpawnTyped DEF TypeOK
    <2> QED
      BY <2>2, <2>3, <2>4
  <1>4. record' \in [Keys -> {"none", "active", "quiet"}]
    BY DEF TickDecide, TypeOK, LoopOK
  <1>5. \A u \in tickers' : TickerOK(u)
    <2> DEFINE next == [t EXCEPT !.pc = "sites", !.cur = NoKey, !.asleep = "no"]
    <2>1. next \in Ticker /\ next.pc = "sites"
      BY <1>1 DEF Ticker
    <2>2. Move(t, next)
      BY DEF TickDecide
    <2>3. TickerOK(next)
      BY <2>1 DEF TickerOK
    <2> HIDE DEF next
    <2> QED
      BY <2>2, <2>3, MoveTyped DEF TypeOK, LoopOK
  <1>6. DiskOK'
    BY DEF TickDecide, TypeOK, DiskOK, disk
  <1> QED
    BY <1>2, <1>3, <1>4, <1>5, <1>6 DEF TickTypes, BeliefOK, LoopOK

\* The end of a tick clears slots of worktrees.
LEMMA TickEndTyped == ASSUME TypeOK, NEW t \in tickers, TickEnd(t) PROVE TickTypes'
  <1>1. \A u \in tickers' : TickerOK(u)
    <2>1. t.ctx \in {"live", "cancelled"} /\ Move(t, Waiting(t.ctx))
      BY DEF TickEnd, TypeOK, LoopOK, TickerOK, Ticker
    <2> QED
      BY <2>1, WaitingTyped, MoveTyped DEF TypeOK, LoopOK
  <1>2. Own(list')
    BY DEF TickEnd, TypeOK, DiskOK, Own
  <1>3. suspended' \subseteq Keys
    BY DEF TickEnd, TypeOK, BeliefOK
  <1> QED
    BY <1>1, <1>2, <1>3 DEF TickEnd, TypeOK, TickTypes, DiskOK, BeliefOK, LoopOK, JobOK

\* Every step of a tick keeps the types.
LEMMA TickStepTyped == ASSUME TypeOK, NEW t \in tickers, TickStep(t) PROVE TypeOK'
  <1>1. TickTypes'
    BY TickerExitsTyped, TickBeginTyped, TickLookTyped, TickProbeTyped, TickDecideTyped, TickEndTyped
       DEF TickStep
  <1>2. MachineOK' /\ RestOK' /\ CliOK'
    BY DEF TickStep, TickerExits, TickBegin, TickLook, TickProbe, TickDecide, TickEnd,
           TypeOK, MachineOK, RestOK, CliOK, machine, cli
  <1> QED
    BY <1>1, <1>2 DEF TickTypes, TypeOK

-----------------------------------------------------------------------------
(* Every step of a drain keeps the types. *)

\* A drain that moves on within its type keeps all drains typed.
LEMMA DrainMoves ==
  ASSUME NEW d \in drains, drains \subseteq Drain, NEW pc \in {"top", "sites", "disk", "flight"},
         NEW todo, todo \subseteq Keys, MoveDrain(d, [d EXCEPT !.pc = pc, !.todo = todo])
  PROVE  drains' \subseteq Drain
  BY DEF MoveDrain, Drain

\* The moves of a drain, but those that resume.
LEMMA DrainPlainTyped ==
  ASSUME TypeOK, NEW d \in drains,
         \/ DrainYields(d) \/ DrainGivesUp(d) \/ DrainLoads(d)
         \/ DrainResumed(d) \/ DrainReadsDisk(d) \/ DrainDone(d) \/ DrainRetries(d)
  PROVE  drains' \subseteq Drain /\ UNCHANGED <<disk, machine, belief>>
  <1>1. d \in Drain /\ d.todo \subseteq Keys /\ drains \subseteq Drain
    BY DEF TypeOK, RestOK, Drain
  <1>2. CASE DrainYields(d) \/ DrainGivesUp(d) \/ DrainDone(d)
    BY <1>1, <1>2 DEF DrainYields, DrainGivesUp, DrainDone
  <1>3. CASE DrainLoads(d)
    <2> DEFINE todo == {k \in Keys : list[k] # {}}
    <2>1. MoveDrain(d, [d EXCEPT !.pc = "sites", !.todo = todo])
      BY <1>3 DEF DrainLoads
    <2>2. todo \subseteq Keys
      OBVIOUS
    <2> HIDE DEF todo
    <2>3. drains' \subseteq Drain
      BY <1>1, <2>1, <2>2, DrainMoves
    <2> QED
      BY <1>3, <2>3 DEF DrainLoads
  <1>4. CASE DrainResumed(d)
    BY <1>1, <1>4 DEF DrainResumed, MoveDrain, Drain
  <1>5. CASE DrainReadsDisk(d)
    BY <1>1, <1>5 DEF DrainReadsDisk, MoveDrain, Drain
  <1>6. CASE DrainRetries(d)
    BY <1>1, <1>6 DEF DrainRetries, MoveDrain, NewDrain, Drain
  <1> QED
    BY <1>2, <1>3, <1>4, <1>5, <1>6

\* A drain forces the belief, spawns a resume or clears a slot.
LEMMA DrainResumesTyped ==
  ASSUME TypeOK, NEW d \in drains, DrainResumes(d)
  PROVE  DiskOK' /\ MachineOK' /\ BeliefOK' /\ drains' \subseteq Drain
  <1>1. PICK k \in d.todo :
          /\ MoveDrain(d, [d EXCEPT !.todo = @ \ {k}])
          /\ \/ /\ Exists(k)
                /\ suspended' = suspended \cup {k}
                /\ Spawn("resume", k, suspended')
                /\ UNCHANGED list
             \/ /\ ~Exists(k)
                /\ suspended' = suspended \ {k}
                /\ list' = [list EXCEPT ![k] = {}]
                /\ UNCHANGED <<inFlight, jobs>>
             \/ /\ k \in Worktrees
                /\ suspended' = suspended \cup {k}
                /\ UNCHANGED <<list, inFlight, jobs>>
    BY DEF DrainResumes
  <1>2. d \in Drain /\ k \in Keys /\ drains \subseteq Drain
    BY <1>1 DEF TypeOK, RestOK, Drain
  <1>3. drains' \subseteq Drain
    BY <1>1, <1>2 DEF MoveDrain, Drain
  <1>4. suspended' \subseteq Keys
    BY <1>1, <1>2 DEF TypeOK, BeliefOK
  <1>5. inFlight' \subseteq Keys /\ \A i \in jobs' : JobOK(i)
    <2>1. CASE Spawn("resume", k, suspended')
      BY <1>2, <2>1, SpawnTyped DEF TypeOK
    <2>2. CASE UNCHANGED <<inFlight, jobs>>
      BY <2>2 DEF TypeOK, BeliefOK
    <2> QED
      BY <1>1, <2>1, <2>2
  <1>6. Own(list')
    <2>1. list' = list \/ list' = [list EXCEPT ![k] = {}]
      BY <1>1
    <2>2. Own(list) /\ Own([list EXCEPT ![k] = {}])
      BY OwnUpdate DEF TypeOK, DiskOK
    <2> QED
      BY <2>1, <2>2
  <1> QED
    BY <1>3, <1>4, <1>5, <1>6 DEF DrainResumes, TypeOK, DiskOK, MachineOK, BeliefOK, machine

\* Every step of a drain keeps the types.
LEMMA DrainStepTyped == ASSUME TypeOK, NEW d \in drains, DrainStep(d) PROVE TypeOK'
  <1>1. LoopOK' /\ CliOK' /\ up' = up /\ session' = session /\ ctl' = ctl
    BY DEF DrainStep, TypeOK, LoopOK, CliOK, TickerOK, cli
  <1>2. CASE DrainResumes(d)
    BY <1>1, <1>2, DrainResumesTyped DEF TypeOK, RestOK
  <1>3. CASE ~DrainResumes(d)
    <2>1. drains' \subseteq Drain /\ UNCHANGED <<disk, machine, belief>>
      BY <1>3, DrainPlainTyped DEF DrainStep
    <2>2. DiskOK' /\ MachineOK' /\ BeliefOK'
      BY <2>1 DEF TypeOK, DiskOK, MachineOK, BeliefOK, JobOK, disk, machine, belief
    <2> QED
      BY <1>1, <2>1, <2>2 DEF TypeOK, RestOK
  <1> QED
    BY <1>2, <1>3

-----------------------------------------------------------------------------
(* Every step of the environment keeps the types. *)

\* Cancelling the loops keeps them typed.
LEMMA CancelTyped ==
  ASSUME NEW t, TickerOK(t) PROVE TickerOK([t EXCEPT !.ctx = "cancelled"])
  BY DEF TickerOK, Ticker

\* enableIdle and disableIdle keep the session typed.
LEMMA EnableTyped == ASSUME TypeOK, enableIdle PROVE LoopOK' /\ session' \in {"on", "off"}
  <1>1. TickerOK(Waiting("live"))
    BY WaitingTyped
  <1>2. Seeded \in [Keys -> {"none", "active", "quiet"}]
    BY DEF Seeded, TypeOK, LoopOK
  <1> QED
    BY <1>1, <1>2 DEF enableIdle, AlreadyRunning, TypeOK, LoopOK, RestOK, TickerOK

\* The new drain starts at the top.
LEMMA NewDrainTyped == NewDrain \in Drain
  BY DEF NewDrain, Drain

\* A disable cancels the loops and adds a drain.
LEMMA DisableTyped ==
  ASSUME TypeOK, disableIdle PROVE LoopOK' /\ session' \in {"on", "off"} /\ drains' \subseteq Drain
  <1>1. \A t \in tickers' : TickerOK(t)
    <2> SUFFICES ASSUME NEW t \in tickers PROVE TickerOK([t EXCEPT !.ctx = "cancelled"])
      BY DEF disableIdle
    <2> QED
      BY CancelTyped DEF TypeOK, LoopOK
  <1> QED
    BY <1>1, NewDrainTyped DEF disableIdle, TypeOK, LoopOK, RestOK

\* The control socket's reader.
LEMMA DispatchTyped == ASSUME TypeOK, Dispatch PROVE TypeOK'
  <1>1. ctl' \in Seq({"on", "off"})
    BY DEF Dispatch, TypeOK, RestOK
  <1>2. LoopOK' /\ session' \in {"on", "off"} /\ drains' \subseteq Drain
    BY EnableTyped, DisableTyped DEF Dispatch, TypeOK, RestOK
  <1>3. DiskOK' /\ MachineOK' /\ BeliefOK' /\ CliOK' /\ up' = up
    BY DEF Dispatch, TypeOK, DiskOK, MachineOK, BeliefOK, CliOK, JobOK, disk, machine, belief, cli
  <1> QED
    BY <1>1, <1>2, <1>3 DEF TypeOK, RestOK

\* Activity on a key.
LEMMA ActivityTyped == ASSUME TypeOK, NEW k \in Keys, Activity(k) PROVE TypeOK'
  <1>1. inFlight' \subseteq Keys /\ \A i \in jobs' : JobOK(i)
    <2>1. CASE Spawn("resume", k, suspended)
      BY <2>1, SpawnTyped DEF TypeOK
    <2>2. CASE UNCHANGED <<inFlight, jobs>>
      BY <2>2 DEF TypeOK, BeliefOK
    <2> QED
      BY <2>1, <2>2 DEF Activity
  <1>2. LoopOK'
    BY DEF Activity, TypeOK, LoopOK, TickerOK
  <1> QED
    BY <1>1, <1>2 DEF Activity, TypeOK, DiskOK, MachineOK, BeliefOK, RestOK, CliOK, disk, machine, cli

\* The passing of the timeout.
LEMMA GoQuietTyped == ASSUME TypeOK, NEW k \in Keys, GoQuiet(k) PROVE TypeOK'
  <1>1. LoopOK'
    BY DEF GoQuiet, TypeOK, LoopOK, TickerOK
  <1> QED
    BY <1>1 DEF GoQuiet, TypeOK, DiskOK, MachineOK, BeliefOK, RestOK, CliOK, JobOK, disk, machine, belief, cli

\* A crash empties the watcher's memory.
LEMMA CrashTyped == ASSUME TypeOK, Crash PROVE TypeOK'
  <1>1. LoopOK' /\ BeliefOK' /\ RestOK'
    BY DEF Crash, TypeOK, LoopOK, BeliefOK, RestOK
  <1> QED
    BY <1>1 DEF Crash, TypeOK, DiskOK, MachineOK, CliOK, disk, machine, cli

\* A boot believes the lists.
LEMMA BootTyped == ASSUME TypeOK, Boot PROVE TypeOK'
  <1>1. LoopOK' /\ session' \in {"on", "off"} /\ drains' \subseteq Drain
    <2>1. CASE enableIdle /\ UNCHANGED drains
      BY <2>1, EnableTyped DEF TypeOK, RestOK
    <2>2. CASE drains' = {NewDrain} /\ UNCHANGED <<session, record, tickers>>
      BY <2>2, NewDrainTyped DEF TypeOK, LoopOK, RestOK, TickerOK
    <2> QED
      BY <2>1, <2>2 DEF Boot
  <1>2. Own(list') /\ suspended' \subseteq Keys
    BY DEF Boot, TypeOK, DiskOK, Own
  <1>3. UNCHANGED <<enabled, pinned, paused, declared, machine, inFlight, jobs, ctl, cli>> /\ up' = "up"
    BY DEF Boot
  <1>4. DiskOK' /\ BeliefOK'
    BY <1>2, <1>3 DEF TypeOK, DiskOK, BeliefOK, JobOK
  <1>5. MachineOK' /\ CliOK'
    BY <1>3 DEF TypeOK, MachineOK, CliOK, machine, cli
  <1>6. RestOK'
    BY <1>1, <1>3 DEF TypeOK, RestOK
  <1> QED
    BY <1>1, <1>4, <1>5, <1>6 DEF TypeOK

\* The CLI commands that change the flag or the pins, or that die.
LEMMA FlagsTyped ==
  ASSUME TypeOK, Toggle \/ ((UserKilled \/ \E s \in Sites : Pin(s)) /\ UNCHANGED watcher)
  PROVE  TypeOK'
  <1>1. CASE Toggle
    <2>1. PICK b \in {"on", "off"} :
            enabled' = b /\ ctl' = IF up = "up" THEN Append(ctl, b) ELSE ctl
      BY <1>1 DEF Toggle
    <2>2. ctl' \in Seq({"on", "off"})
      BY <2>1 DEF TypeOK, RestOK
    <2>3. toggles' \in 0 .. MaxToggles
      BY <1>1 DEF Toggle, TypeOK, CliOK
    <2> QED
      BY <1>1, <2>1, <2>2, <2>3 DEF Toggle, TypeOK, DiskOK, MachineOK, BeliefOK, LoopOK, RestOK, CliOK,
         JobOK, TickerOK, machine, belief
  <1>2. CASE UserKilled /\ UNCHANGED watcher
    BY <1>2 DEF UserKilled, TypeOK, DiskOK, MachineOK, BeliefOK, LoopOK, RestOK, CliOK,
       JobOK, TickerOK, disk, machine, belief, watcher
  <1>3. CASE (\E s \in Sites : Pin(s)) /\ UNCHANGED watcher
    BY <1>3 DEF Pin, TypeOK, DiskOK, MachineOK, BeliefOK, LoopOK, RestOK, CliOK,
       JobOK, TickerOK, machine, belief, watcher, cli
  <1> QED
    BY <1>1, <1>2, <1>3

\* What the commands on workers leave alone.
LEMMA WatcherTyped == ASSUME TypeOK, UNCHANGED watcher PROVE BeliefOK' /\ LoopOK' /\ RestOK'
  BY DEF TypeOK, BeliefOK, LoopOK, RestOK, JobOK, TickerOK, watcher, belief

\* A worker start.
LEMMA UserStartTyped == ASSUME TypeOK, NEW k \in Keys, UserStart(k), UNCHANGED watcher PROVE TypeOK'
  <1>1. PICK w \in WorkersOf[k] :
          /\ want' = [want EXCEPT ![k] = want[k] \cup {w}]
          /\ running' = [running EXCEPT ![k] = running[k] \cup {w}]
          /\ starting' = starting \cup {<<k, w>>}
    BY DEF UserStart
  <1>2. Own(want') /\ Own(running')
    <2>1. want[k] \cup {w} \subseteq WorkersOf[k] /\ running[k] \cup {w} \subseteq WorkersOf[k]
      BY DEF TypeOK, CliOK, MachineOK, Own
    <2> QED
      BY <1>1, <2>1, OwnUpdate DEF TypeOK, CliOK, MachineOK
  <1>3. starting' \subseteq Keys \X Workers
    BY <1>1, OwnWorkers DEF TypeOK, CliOK
  <1> QED
    BY <1>2, <1>3, WatcherTyped DEF UserStart, TypeOK, DiskOK, MachineOK, CliOK, disk

\* The rest of a worker start.
LEMMA UserStartedTyped == ASSUME TypeOK, NEW k \in Keys, UserStarted(k), UNCHANGED watcher PROVE TypeOK'
  <1>1. PICK w \in Workers :
          /\ starting' = starting \ {<<k, w>>}
          /\ list' = [list EXCEPT ![k] = list[k] \ {w}]
          /\ declared' = Redeclared(SiteOf(k), running[SiteOf(k)])
    BY DEF UserStarted
  <1>2. Own(list')
    <2>1. list[k] \ {w} \subseteq WorkersOf[k]
      BY DEF TypeOK, DiskOK, Own
    <2> QED
      BY <1>1, <2>1, OwnUpdate DEF TypeOK, DiskOK
  <1>3. declared' \in [Sites -> SUBSET Workers] /\ \A s \in Sites : declared'[s] \subseteq WorkersOf[s]
    <2>1. running[SiteOf(k)] \subseteq WorkersOf[SiteOf(k)] /\ running[SiteOf(k)] \subseteq Workers
      BY SiteOfKey, OwnWorkers DEF TypeOK, MachineOK, Own
    <2> QED
      BY <1>1, <2>1 DEF Redeclared, TypeOK, DiskOK
  <1> QED
    BY <1>1, <1>2, <1>3, WatcherTyped DEF UserStarted, TypeOK, DiskOK, MachineOK, CliOK, machine

\* A worker stop.
LEMMA UserStopTyped == ASSUME TypeOK, NEW k \in Keys, UserStop(k), UNCHANGED watcher PROVE TypeOK'
  <1>1. PICK w \in WorkersOf[k] :
          /\ want' = [want EXCEPT ![k] = want[k] \ {w}]
          /\ running' = [running EXCEPT ![k] = running[k] \ {w}]
          /\ declared' = Redeclared(SiteOf(k), IF k \in Sites THEN running'[k] ELSE running[SiteOf(k)])
    BY DEF UserStop
  <1>2. Own(want') /\ Own(running')
    <2>1. want[k] \ {w} \subseteq WorkersOf[k] /\ running[k] \ {w} \subseteq WorkersOf[k]
      BY DEF TypeOK, CliOK, MachineOK, Own
    <2> QED
      BY <1>1, <2>1, OwnUpdate DEF TypeOK, CliOK, MachineOK
  <1>3. declared' \in [Sites -> SUBSET Workers] /\ \A s \in Sites : declared'[s] \subseteq WorkersOf[s]
    <2> DEFINE S == IF k \in Sites THEN running'[k] ELSE running[SiteOf(k)]
    <2>1. S \subseteq WorkersOf[SiteOf(k)] /\ S \subseteq Workers
      BY <1>2, SiteOfKey, OwnWorkers DEF SiteOf, TypeOK, MachineOK, Own
    <2>2. declared' = Redeclared(SiteOf(k), S)
      BY <1>1
    <2> HIDE DEF S
    <2> QED
      BY <2>1, <2>2 DEF Redeclared, TypeOK, DiskOK
  <1> QED
    BY <1>2, <1>3, WatcherTyped DEF UserStop, TypeOK, DiskOK, MachineOK, CliOK

\* The removal of a worktree.
LEMMA RemoveWorktreeTyped == ASSUME TypeOK, NEW k \in Worktrees, RemoveWorktree(k) PROVE TypeOK'
  <1>1. Own(want') /\ Own(running')
    BY OwnUpdate DEF RemoveWorktree, TypeOK, CliOK, MachineOK
  <1> QED
    BY <1>1, WatcherTyped DEF RemoveWorktree, TypeOK, DiskOK, MachineOK, CliOK, disk

-----------------------------------------------------------------------------
\* Types hold at first.
LEMMA InitTyped == Init => TypeOK
  <1> SUFFICES ASSUME Init PROVE TypeOK
    OBVIOUS
  <1>1. DiskOK /\ MachineOK /\ CliOK
    BY DEF Init, DiskOK, MachineOK, CliOK, Own
  <1>2. LoopOK
    BY WaitingTyped DEF Init, LoopOK
  <1>3. BeliefOK /\ RestOK
    BY DEF Init, BeliefOK, RestOK
  <1> QED
    BY <1>1, <1>2, <1>3 DEF TypeOK

\* Every step keeps the types.
LEMMA NextTyped == TypeOK /\ [Next]_vars => TypeOK'
  <1> SUFFICES ASSUME TypeOK, [Next]_vars PROVE TypeOK'
    OBVIOUS
  <1>1. CASE Watcher
    BY <1>1, JobStepTyped, TickStepTyped, DrainStepTyped, DispatchTyped DEF Watcher
  <1>2. CASE Environment
    BY <1>2, ActivityTyped, GoQuietTyped, CrashTyped, BootTyped, FlagsTyped, UserStartTyped,
       UserStartedTyped, UserStopTyped, RemoveWorktreeTyped DEF Environment, ByHand
  <1>3. CASE UNCHANGED vars
    BY <1>3, WatcherTyped DEF vars, disk, machine, cli, TypeOK, DiskOK, MachineOK, CliOK
  <1> QED
    BY <1>1, <1>2, <1>3 DEF Next

\* The watcher, its engine and the CLI only ever hold values of their types: no
\* key is given a worker that is not its own.
THEOREM TypeCorrect == Spec => []TypeOK
  <1>1. Init => TypeOK
    BY InitTyped
  <1>2. TypeOK /\ [Next]_vars => TypeOK'
    BY NextTyped
  <1> QED
    BY <1>1, <1>2, PTL DEF Spec

-----------------------------------------------------------------------------
(* One job per key. *)

\* A job that moves on and keeps its key leaves the exclusion as it was.
LEMMA GotoExclusive ==
  ASSUME JobsExclusive, NEW j \in jobs, NEW next, next.key = j.key, Goto(j, next), inFlight' = inFlight
  PROVE  JobsExclusive'
  <1>1. inFlight' = {i.key : i \in jobs'}
    BY DEF JobsExclusive, Goto
  <1>2. ASSUME NEW i \in jobs', NEW h \in jobs', i.key = h.key PROVE i = h
    BY <1>2 DEF JobsExclusive, Goto
  <1> QED
    BY <1>1, <1>2 DEF JobsExclusive

\* A spawn finds its key free.
LEMMA SpawnExclusive ==
  ASSUME JobsExclusive, NEW kind, NEW k, NEW b, Spawn(kind, k, b)
  PROVE  JobsExclusive'
  <1>1. CASE UNCHANGED <<inFlight, jobs>>
    BY <1>1 DEF JobsExclusive
  <1>2. CASE k \notin inFlight /\ inFlight' = inFlight \cup {k}
             /\ jobs' = jobs \cup {[kind |-> kind, key |-> k, pc |-> "find", todo |-> {}, names |-> {}]}
    <2> DEFINE new == [kind |-> kind, key |-> k, pc |-> "find", todo |-> {}, names |-> {}]
    <2>1. new.key = k /\ jobs' = jobs \cup {new} /\ \A j \in jobs : j.key # k
      BY <1>2 DEF JobsExclusive
    <2> HIDE DEF new
    <2>2. inFlight' = {j.key : j \in jobs'}
      BY <1>2, <2>1 DEF JobsExclusive
    <2>3. \A i, j \in jobs' : i.key = j.key => i = j
      BY <2>1 DEF JobsExclusive
    <2> QED
      BY <2>2, <2>3 DEF JobsExclusive
  <1> QED
    BY <1>1, <1>2 DEF Spawn, MayStart

\* The end of a job frees its key.
LEMMA ClearExclusive == ASSUME JobsExclusive, NEW j \in jobs, Clear(j) PROVE JobsExclusive'
  BY DEF JobsExclusive, Clear, Released

\* The steps of a job keep its key, or end it.
LEMMA JobStepExclusive == ASSUME TypeOK, JobsExclusive, NEW j \in jobs, JobStep(j) PROVE JobsExclusive'
  <1>1. CASE Clear(j)
    BY <1>1, ClearExclusive
  <1>2. CASE ~Clear(j)
    <2>1. j \in Job /\ inFlight' = inFlight
      BY <1>2 DEF JobStep, Collect, StopWorker, Relist, FindList, StartWorker, AllStarted, Persist, Mark,
         TypeOK, BeliefOK, JobOK
    <2>2. CASE Collect(j)
      BY <2>1, <2>2, GotoExclusive DEF Collect, Job
    <2>3. CASE StopWorker(j)
      BY <2>1, <2>3, GotoExclusive DEF StopWorker, Job
    <2>4. CASE Relist(j)
      BY <2>1, <2>4, GotoExclusive DEF Relist, Job
    <2>5. CASE FindList(j)
      BY <2>1, <2>5, GotoExclusive DEF FindList, Job
    <2>6. CASE StartWorker(j)
      BY <2>1, <2>6, GotoExclusive DEF StartWorker, Job
    <2>7. CASE AllStarted(j)
      BY <2>1, <2>7, GotoExclusive DEF AllStarted, Job
    <2>8. CASE Persist(j)
      BY <2>1, <2>8, GotoExclusive DEF Persist, Job
    <2>9. CASE Mark(j)
      BY <2>1, <2>9, GotoExclusive DEF Mark, Job
    <2> QED
      BY <1>2, <2>2, <2>3, <2>4, <2>5, <2>6, <2>7, <2>8, <2>9 DEF JobStep
  <1> QED
    BY <1>1, <1>2

\* Only a decision or a forced resume spawns among the rest of the watcher.
LEMMA WatcherExclusive == ASSUME TypeOK, JobsExclusive, Watcher PROVE JobsExclusive'
  <1>1. ASSUME NEW j \in jobs, JobStep(j) PROVE JobsExclusive'
    BY <1>1, JobStepExclusive
  <1>2. ASSUME NEW t \in tickers, TickStep(t) PROVE JobsExclusive'
    <2>1. CASE TickDecide(t)
      <3>1. (\E kind, b : Spawn(kind, t.cur, b)) \/ UNCHANGED <<inFlight, jobs>>
        BY <2>1 DEF TickDecide
      <3> QED
        BY <3>1, SpawnExclusive DEF JobsExclusive
    <2>2. CASE ~TickDecide(t)
      BY <1>2, <2>2 DEF TickStep, TickerExits, TickBegin, TickLook, TickProbe, TickEnd, belief, JobsExclusive
    <2> QED
      BY <2>1, <2>2
  <1>3. ASSUME NEW d \in drains, DrainStep(d) PROVE JobsExclusive'
    <2>1. CASE DrainResumes(d)
      BY <2>1, SpawnExclusive DEF DrainResumes, JobsExclusive
    <2>2. CASE ~DrainResumes(d)
      BY <1>3, <2>2 DEF DrainStep, DrainYields, DrainGivesUp, DrainLoads, DrainResumed, DrainReadsDisk,
         DrainDone, DrainRetries, belief, JobsExclusive
    <2> QED
      BY <2>1, <2>2
  <1>4. CASE Dispatch
    BY <1>4 DEF Dispatch, belief, JobsExclusive
  <1> QED
    BY <1>1, <1>2, <1>3, <1>4 DEF Watcher

\* Activity spawns under the same guard, a crash ends every job.
LEMMA EnvironmentExclusive == ASSUME JobsExclusive, Environment PROVE JobsExclusive'
  <1>1. ASSUME NEW k \in Keys, Activity(k) PROVE JobsExclusive'
    BY <1>1, SpawnExclusive DEF Activity, JobsExclusive
  <1>2. CASE Crash
    BY <1>2 DEF Crash, JobsExclusive
  <1>3. CASE \/ Boot \/ Toggle \/ ByHand \/ \E w \in Worktrees : RemoveWorktree(w)
             \/ \E k \in Keys : GoQuiet(k)
    <2>1. UNCHANGED <<inFlight, jobs>>
      BY <1>3 DEF Boot, Toggle, ByHand, RemoveWorktree, GoQuiet, watcher, belief
    <2> QED
      BY <2>1 DEF JobsExclusive
  <1> QED
    BY <1>1, <1>2, <1>3 DEF Environment

\* No step of the engine or of the commands beside it starts a second job on a key.
LEMMA ExclusiveKept == TypeOK /\ JobsExclusive /\ [Next]_vars => JobsExclusive'
  <1> SUFFICES ASSUME TypeOK, JobsExclusive, [Next]_vars PROVE JobsExclusive'
    OBVIOUS
  <1>1. CASE UNCHANGED vars
    BY <1>1 DEF vars, watcher, belief, JobsExclusive
  <1> QED
    BY <1>1, WatcherExclusive, EnvironmentExclusive DEF Next

\* A key is never worked on by two suspend or resume jobs at once, and inFlight
\* names exactly the keys that have one.
THEOREM OneJobPerKey == Spec => []JobsExclusive
  <1>1. Init => JobsExclusive
    BY DEF Init, JobsExclusive
  <1> QED
    BY <1>1, ExclusiveKept, TypeCorrect, PTL DEF Spec

-----------------------------------------------------------------------------
(* One tick loop per session. *)

\* A loop that moves on and keeps its context leaves the rest as it was.
LEMMA MoveOneLoop ==
  ASSUME OneLoop, NEW t \in tickers, NEW next, next.ctx = t.ctx, Move(t, next), session' = session
  PROVE  OneLoop'
  <1>1. (\E u \in tickers' : u.ctx = "live") <=> (\E u \in tickers : u.ctx = "live")
    BY DEF Move
  <1>2. ASSUME NEW u \in tickers', NEW v \in tickers', u.ctx = "live", v.ctx = "live" PROVE u = v
    BY <1>2 DEF Move, OneLoop
  <1> QED
    BY <1>1, <1>2 DEF OneLoop

\* The tick keeps its context.
LEMMA TickStepOneLoop == ASSUME TypeOK, OneLoop, NEW t \in tickers, TickStep(t) PROVE OneLoop'
  <1>1. t \in Ticker /\ session' = session
    BY DEF TickStep, TypeOK, LoopOK, TickerOK
  <1>2. CASE TickerExits(t)
    BY <1>1, <1>2 DEF TickerExits, OneLoop
  <1>3. CASE TickBegin(t)
    BY <1>1, <1>3, MoveOneLoop DEF TickBegin, Ticker
  <1>4. CASE TickLook(t)
    <2>1. PICK k \in t.todo, n \in {"decide", "probe"}, a \in {"yes", "no"} :
            \/ Move(t, [[t EXCEPT !.todo = @ \ {k}, !.cur = k] EXCEPT !.pc = "decide", !.asleep = a])
            \/ Move(t, [[t EXCEPT !.todo = @ \ {k}, !.cur = k] EXCEPT !.pc = "probe"])
      BY <1>4 DEF TickLook
    <2> QED
      BY <1>1, <2>1, MoveOneLoop DEF Ticker
  <1>5. CASE TickProbe(t)
    BY <1>1, <1>5, MoveOneLoop DEF TickProbe, Ticker
  <1>6. CASE TickDecide(t)
    <2>1. Move(t, [t EXCEPT !.pc = "sites", !.cur = NoKey, !.asleep = "no"])
      BY <1>6 DEF TickDecide
    <2> QED
      BY <1>1, <2>1, MoveOneLoop DEF Ticker
  <1>7. CASE TickEnd(t)
    <2>1. Waiting(t.ctx).ctx = t.ctx
      BY DEF Waiting
    <2> QED
      BY <1>1, <1>7, <2>1, MoveOneLoop DEF TickEnd
  <1> QED
    BY <1>2, <1>3, <1>4, <1>5, <1>6, <1>7 DEF TickStep

\* enableIdle starts a loop only where there is none.
LEMMA EnableOneLoop == ASSUME OneLoop, enableIdle PROVE OneLoop'
  <1>1. CASE UNCHANGED <<session, tickers>>
    BY <1>1 DEF OneLoop
  <1>2. CASE session # "on" /\ session' = "on" /\ tickers' = tickers \cup {Waiting("live")}
    <2>1. Waiting("live").ctx = "live" /\ \A t \in tickers : t.ctx # "live"
      BY <1>2 DEF Waiting, OneLoop
    <2> QED
      BY <1>2, <2>1 DEF OneLoop
  <1> QED
    BY <1>1, <1>2 DEF enableIdle, AlreadyRunning

\* disableIdle leaves no loop live.
LEMMA DisableOneLoop == ASSUME TypeOK, OneLoop, disableIdle PROVE OneLoop'
  <1>1. \A u \in tickers' : u.ctx = "cancelled"
    <2> SUFFICES ASSUME NEW t \in tickers PROVE [t EXCEPT !.ctx = "cancelled"].ctx = "cancelled"
      BY DEF disableIdle
    <2> QED
      BY DEF TypeOK, LoopOK, TickerOK, Ticker
  <1> QED
    BY <1>1 DEF disableIdle, OneLoop

\* No step starts a second live loop, or ends the one of a live session.
LEMMA OneLoopKept == TypeOK /\ OneLoop /\ [Next]_vars => OneLoop'
  <1> SUFFICES ASSUME TypeOK, OneLoop, [Next]_vars PROVE OneLoop'
    OBVIOUS
  <1>1. CASE Dispatch
    BY <1>1, EnableOneLoop, DisableOneLoop DEF Dispatch
  <1>2. CASE Boot
    BY <1>2, EnableOneLoop DEF Boot, OneLoop
  <1>3. CASE Crash
    BY <1>3 DEF Crash, OneLoop
  <1>4. ASSUME NEW t \in tickers, TickStep(t) PROVE OneLoop'
    BY <1>4, TickStepOneLoop
  <1>5. CASE UNCHANGED <<session, tickers>>
    BY <1>5 DEF OneLoop
  <1>6. CASE \/ \E j \in jobs : JobStep(j)
             \/ \E d \in drains : DrainStep(d)
             \/ Toggle \/ ByHand \/ \E w \in Worktrees : RemoveWorktree(w)
             \/ \E k \in Keys : Activity(k) \/ GoQuiet(k)
             \/ UNCHANGED vars
    BY <1>5, <1>6 DEF JobStep, DrainStep, Toggle, ByHand, RemoveWorktree, Activity, GoQuiet, vars, watcher
  <1> QED
    BY <1>1, <1>2, <1>3, <1>4, <1>6 DEF Next, Watcher, Environment

\* Whatever enables, disables, crashes and restarts come, a live session has one
\* tick loop, and a tick loop that may begin a tick belongs to a live session.
THEOREM OneLoopPerSession == Spec => []OneLoop
  <1>1. Init => OneLoop
    BY DEF Init, Waiting, OneLoop
  <1> QED
    BY <1>1, OneLoopKept, TypeCorrect, PTL DEF Spec

-----------------------------------------------------------------------------
(* Nothing lost. *)

\* No command starts or stops workers by hand, and every worker is in .lerd.yaml
\* and sleeps without a build.
Orderly ==
  /\ AppWorkers = {} /\ Vite = {}
  /\ Events \cap {"start", "stop", "unreadable"} = {}

\* A key is all up or all down ...
Flat(k) == list[k] = {} \/ running[k] = {}

\* ... or a crash left some of its workers up and the others listed, which every tick
\* since has taken for asleep ...
Sees(t, k) ==
  t.pc # "wait" =>
    /\ t.seen[k] = list[k]
    /\ t.cur = k /\ t.pc \in {"store", "decide"} => t.asleep = "yes"
HalfAsleep(k) ==
  /\ k \in suspended /\ list[k] \cap running[k] = {}
  /\ \A t \in tickers : Sees(t, k)

\* ... or a resume is starting them.
Woken(k) == \E j \in jobs : j.key = k /\ j.pc = "start"
Settled == up = "up" => \A k \in Keys : Flat(k) \/ HalfAsleep(k) \/ Woken(k)

\* What a job has in hand at each of its points.
Suspending(j) ==
  /\ j.pc = "find" => Flat(j.key)
  /\ j.pc = "stop" => /\ running[j.key] \subseteq j.todo /\ j.todo \subseteq j.names
                      /\ list[j.key] = {} \/ j.names = {}
  /\ j.pc = "persist" => running[j.key] = {} /\ want[j.key] \cap list[j.key] \subseteq j.names
  /\ j.pc = "mark" => running[j.key] = {}
  /\ j.pc # "start"
Resuming(j) ==
  /\ j.names = {}
  /\ j.pc = "start" /\ Exists(j.key) => list[j.key] \subseteq j.todo
  /\ j.pc = "persist" /\ Exists(j.key) => list[j.key] = {}
  /\ j.pc = "mark" => list[j.key] = {}
  /\ j.pc # "stop"
InHand(j) ==
  /\ j.pc = "find" => j.names = {}
  /\ j.pc \notin {"stop", "start"} => j.todo = {}
  /\ j.pc \in {"mark", "clear"} => j.names = {}
  /\ IF j.kind = "suspend" THEN Suspending(j) ELSE Resuming(j)

\* What makes them so: .lerd.yaml names what the user wants, a checkout that is gone has
\* no workers, a tick does not take one that is there for gone, and a watcher that is
\* down does nothing.
Declares == \A s \in Sites : want[s] \subseteq declared[s]
Gone == \A k \in Worktrees \ checkouts : want[k] = {} /\ running[k] = {}
Looks == \A t \in tickers : t.pc # "wait" => checkouts \subseteq t.wts
Down == up = "down" => jobs = {} /\ tickers = {}

LostInv ==
  /\ Settled /\ (\A j \in jobs : InHand(j))
  /\ Declares /\ Gone /\ Looks /\ Down /\ starting = {}

\* What every step has to show.
Safe == TypeOK /\ JobsExclusive /\ LostInv /\ Orderly
Keeps == \A k \in Keys : Forgotten(k)' \subseteq Forgotten(k)

\* What a job holds of its key's workers is all that is held of them.
LEMMA HeldByOne ==
  ASSUME JobsExclusive, NEW j \in jobs
  PROVE  Held(j.key) = j.names \cup j.todo
<1>1. {i \in jobs : i.key = j.key} = {j}
  BY DEF JobsExclusive
<1>2. QED
  BY <1>1 DEF Held

\* A worker is held by some job.
LEMMA HeldBySome == \A k, w : w \in Held(k) <=> \E j \in jobs : j.key = k /\ w \in j.names \cup j.todo
  BY DEF Held

\* A step that leaves the workers alone, ends no job and begins only fresh ones, and
\* drops no list that says more than the machine does.
LEMMA FrameKeeps ==
  ASSUME Safe, UNCHANGED <<running, want, declared, checkouts, starting, up>>,
         jobs \subseteq jobs', up = "down" => jobs' = {} /\ tickers' = {},
         \A i \in jobs' \ jobs :
           /\ i.key \in Keys /\ i.pc = "find" /\ i.names = {} /\ i.todo = {}
           /\ i.kind = "suspend" => Flat(i.key),
         \A k \in Keys :
           \/ list'[k] = list[k]
           \/ list'[k] = {} /\ want[k] \cap list[k] \subseteq running[k] \cup Held(k),
         \A t \in tickers' : t.pc # "wait" => checkouts \subseteq t.wts,
         \A k \in Keys : HalfAsleep(k) /\ list[k] # {} /\ list'[k] = list[k] =>
           k \in suspended' /\ \A t \in tickers' : Sees(t, k)
  PROVE  LostInv' /\ Keeps
<1> USE DEF Safe
<1>0. \A j \in jobs : j.key \in Keys
  BY JobFields DEF TypeOK, BeliefOK
<1>1. Settled'
  <2>1. SUFFICES ASSUME up = "up", NEW k \in Keys PROVE (Flat(k) \/ HalfAsleep(k) \/ Woken(k))'
    BY DEF Settled
  <2>2. CASE Flat(k) \/ list'[k] = {}
    BY <2>2 DEF Flat
  <2>3. CASE Woken(k)
    BY <2>3 DEF Woken
  <2>4. CASE HalfAsleep(k) /\ list[k] # {} /\ list'[k] = list[k]
    <3>1. k \in suspended' /\ list'[k] \cap running'[k] = {}
      BY <2>4 DEF HalfAsleep
    <3>2. \A t \in tickers' : Sees(t, k)'
      BY <2>4 DEF Sees
    <3>3. QED
      BY <3>1, <3>2 DEF HalfAsleep
  <2>5. QED
    BY <2>1, <2>2, <2>3, <2>4 DEF LostInv, Settled, Flat
<1>2. ASSUME NEW i \in jobs' PROVE InHand(i)'
  <2>1. CASE i \in jobs
    <3>1. InHand(i) /\ i.key \in Keys
      BY <1>0, <2>1 DEF LostInv
    <3>2. list'[i.key] = list[i.key] \/ list'[i.key] = {}
      BY <3>1
    <3>3. Exists(i.key)' = Exists(i.key)
      BY DEF Exists
    <3>4. QED
      BY <3>1, <3>2, <3>3 DEF InHand, Suspending, Resuming, Flat
  <2>2. CASE i \notin jobs
    <3>1. i.key \in Keys /\ i.pc = "find" /\ i.names = {} /\ i.todo = {} /\ (i.kind = "suspend" => Flat(i.key))
      BY <2>2
    <3>2. i.kind = "suspend" => Flat(i.key)'
      BY <3>1 DEF Flat
    <3>3. QED
      BY <3>1, <3>2 DEF InHand, Suspending, Resuming
  <2>3. QED
    BY <2>1, <2>2
<1>3. Keeps
  <2>1. SUFFICES ASSUME NEW k \in Keys, NEW w \in Forgotten(k)' PROVE w \in Forgotten(k)
    BY DEF Keeps
  <2>2. w \in want[k] /\ w \notin running[k] /\ w \notin list'[k] /\ w \notin Held(k)'
    BY <2>1 DEF Forgotten
  <2>3. w \notin Held(k)
    <3>1. \A j \in jobs : j \in jobs'
      OBVIOUS
    <3>2. Held(k)' = UNION {j.names \cup j.todo : j \in {i \in jobs' : i.key = k}}
      BY DEF Held
    <3>3. QED
      BY <2>2, <3>1, <3>2 DEF Held
  <2>4. w \notin list[k]
    BY <2>2, <2>3
  <2>5. QED
    BY <2>2, <2>3, <2>4 DEF Forgotten
<1>4. QED
  BY <1>1, <1>2, <1>3 DEF LostInv, Declares, Gone, Looks, Down

\* A job that goes on, and disturbs its own key only.
LEMMA JobKeeps ==
  ASSUME Safe, NEW j \in jobs, NEW next, Goto(j, next), next.key = j.key,
         UNCHANGED <<want, checkouts, tickers, up, starting>>,
         \A k \in Keys : k # j.key =>
           running'[k] = running[k] /\ list'[k] = list[k] /\ (k \in suspended' <=> k \in suspended),
         \A s \in Sites : declared[s] \subseteq declared'[s],
         running'[j.key] \subseteq running[j.key] \/ Exists(j.key),
         InHand(next)',
         Flat(j.key)' \/ HalfAsleep(j.key)' \/ next.pc = "start",
         want[j.key] \cap (running[j.key] \cup list[j.key] \cup j.names \cup j.todo)
           \subseteq running'[j.key] \cup list'[j.key] \cup next.names \cup next.todo
  PROVE  LostInv' /\ Keeps
<1> USE DEF Safe
<1>0. j.key \in Keys /\ next \in jobs' /\ \A i \in jobs' : i = next \/ (i \in jobs /\ i # j)
  BY JobFields DEF TypeOK, BeliefOK, Goto
<1>1. \A i \in jobs : i # j => i.key # j.key /\ i.key \in Keys /\ i \in jobs'
  BY JobFields DEF TypeOK, BeliefOK, JobsExclusive, Goto
<1>2. Settled'
  <2>1. SUFFICES ASSUME up = "up", NEW k \in Keys PROVE (Flat(k) \/ HalfAsleep(k) \/ Woken(k))'
    BY DEF Settled
  <2>2. CASE k = j.key
    BY <1>0, <2>2 DEF Woken
  <2>3. CASE k # j.key
    <3>1. Flat(k) \/ HalfAsleep(k) \/ Woken(k)
      BY <2>1 DEF LostInv, Settled
    <3>2. Flat(k) => Flat(k)'
      BY <2>3 DEF Flat
    <3>3. HalfAsleep(k) => HalfAsleep(k)'
      BY <2>3 DEF HalfAsleep, Sees
    <3>4. Woken(k) => Woken(k)'
      BY <1>1, <2>3 DEF Woken
    <3>5. QED
      BY <3>1, <3>2, <3>3, <3>4
  <2>4. QED
    BY <2>2, <2>3
<1>3. ASSUME NEW i \in jobs' PROVE InHand(i)'
  <2>1. CASE i = next
    BY <2>1
  <2>2. CASE i \in jobs /\ i # j
    <3>1. InHand(i) /\ i.key \in Keys /\ i.key # j.key
      BY <1>1, <2>2 DEF LostInv
    <3>2. Exists(i.key)' = Exists(i.key) /\ list'[i.key] = list[i.key] /\ running'[i.key] = running[i.key]
      BY <3>1 DEF Exists
    <3>3. QED
      BY <3>1, <3>2 DEF InHand, Suspending, Resuming, Flat
  <2>3. QED
    BY <1>0, <2>1, <2>2
<1>4. Gone' /\ Declares'
  <2>1. ASSUME NEW k \in Worktrees \ checkouts PROVE running'[k] = {}
    <3>1. running[k] = {} /\ ~Exists(k)
      BY <2>1 DEF LostInv, Gone, Exists
    <3>2. QED
      BY <2>1, <3>1
  <2>2. QED
    BY <2>1 DEF LostInv, Gone, Declares
<1>5. Keeps
  <2>1. SUFFICES ASSUME NEW k \in Keys, NEW w \in Forgotten(k)' PROVE w \in Forgotten(k)
    BY DEF Keeps
  <2>2. w \in want[k] /\ w \notin running'[k] /\ w \notin list'[k] /\ w \notin Held(k)'
    BY <2>1 DEF Forgotten
  <2>3. \A i \in jobs' : i.key = k => w \notin i.names \cup i.todo
    BY <2>2 DEF Held
  <2>4. CASE k = j.key
    BY <1>0, <2>2, <2>3, <2>4, HeldByOne DEF Forgotten
  <2>5. CASE k # j.key
    <3>1. \A i \in jobs : i.key = k => w \notin i.names \cup i.todo
      BY <1>1, <2>3, <2>5 DEF Goto
    <3>2. QED
      BY <2>2, <2>5, <3>1, HeldBySome DEF Forgotten
  <2>6. QED
    BY <2>4, <2>5
<1>6. Down'
  BY <1>0 DEF LostInv, Down
<1>7. QED
  BY <1>2, <1>3, <1>4, <1>5, <1>6 DEF LostInv, Looks

-----------------------------------------------------------------------------
(* The steps of a job lose nothing. *)

\* What the invariant says of one job.
LEMMA JobFacts ==
  ASSUME Safe, NEW j \in jobs
  PROVE  /\ InHand(j) /\ j \in Job /\ j.key \in Keys /\ j.kind \in {"suspend", "resume"}
         /\ (~Exists(j.key) => want[j.key] = {} /\ running[j.key] = {})
<1>1. j \in Job /\ j.key \in Keys /\ j.kind \in {"suspend", "resume"}
  BY JobFields DEF Safe, TypeOK, BeliefOK, JobOK
<1>2. ~Exists(j.key) => want[j.key] = {} /\ running[j.key] = {}
  BY <1>1 DEF Safe, LostInv, Gone, Exists
<1>3. QED
  BY <1>1, <1>2 DEF Safe, LostInv

LEMMA CollectKeeps == ASSUME Safe, NEW j \in jobs, Collect(j), UNCHANGED <<up, tickers, cli>> PROVE LostInv' /\ Keeps
<1>1. PICK next : /\ next = [j EXCEPT !.pc = "stop", !.todo = running[j.key], !.names = running[j.key]]
                  /\ Goto(j, next)
  <2>1. running[j.key] \cap Vite = {} /\ running[j.key] \ {} = running[j.key]
    BY DEF Safe, Orderly
  <2>2. QED
    BY <2>1 DEF Collect
<1>2. /\ next.key = j.key /\ next.kind = "suspend" /\ next.pc = "stop"
      /\ next.todo = running[j.key] /\ next.names = running[j.key]
  BY <1>1, JobFacts DEF Job, Collect
<1>3. j.kind = "suspend" /\ j.names = {} /\ j.todo = {} /\ Flat(j.key)
  BY JobFacts DEF Collect, InHand, Suspending
<1>4. UNCHANGED <<list, running, want, declared, checkouts, suspended, starting>>
  BY DEF Collect, disk, machine, cli
<1>5. InHand(next)' /\ Flat(j.key)'
  BY <1>2, <1>3, <1>4 DEF InHand, Suspending, Flat
<1>6. QED
  BY <1>1, <1>2, <1>3, <1>4, <1>5, JobKeeps

LEMMA StopWorkerKeeps == ASSUME Safe, NEW j \in jobs, StopWorker(j), UNCHANGED <<up, tickers, cli>> PROVE LostInv' /\ Keeps
<1>1. PICK w \in j.todo : /\ running' = [running EXCEPT ![j.key] = @ \ {w}]
                          /\ Goto(j, [j EXCEPT !.todo = @ \ {w}])
  BY DEF StopWorker
<1> DEFINE next == [j EXCEPT !.todo = @ \ {w}]
<1>2. /\ next.key = j.key /\ next.kind = j.kind /\ next.pc = "stop"
      /\ next.todo = j.todo \ {w} /\ next.names = j.names
  BY JobFacts DEF Job, StopWorker
<1>3. Goto(j, next)
  BY <1>1
<1> HIDE DEF next
<1>4. j.kind = "suspend" /\ running[j.key] \subseteq j.todo /\ j.todo \subseteq j.names /\ list[j.key] = {}
  BY <1>1, JobFacts DEF StopWorker, InHand, Suspending, Resuming
<1>5. UNCHANGED <<list, want, declared, checkouts, suspended, starting>>
  BY DEF StopWorker, disk, cli
<1>6. running'[j.key] = running[j.key] \ {w} /\ \A k \in Keys : k # j.key => running'[k] = running[k]
  BY <1>1, JobFacts DEF Safe, TypeOK, MachineOK, Own
<1>7. InHand(next)' /\ Flat(j.key)'
  BY <1>2, <1>4, <1>5, <1>6 DEF InHand, Suspending, Flat
<1>8. QED
  BY <1>2, <1>3, <1>4, <1>5, <1>6, <1>7, JobKeeps

LEMMA RelistKeeps == ASSUME Safe, NEW j \in jobs, Relist(j), UNCHANGED <<up, tickers, cli>> PROVE LostInv' /\ Keeps
<1> DEFINE names == j.names \cup Lost(j.key)
<1>1. PICK next : /\ next = [j EXCEPT !.names = names, !.pc = IF names = {} THEN "clear" ELSE "persist"]
                  /\ Goto(j, next)
  BY DEF Relist, Safe, Orderly
<1>2. /\ next.key = j.key /\ next.kind = j.kind /\ next.todo = {} /\ next.names = names
      /\ next.pc = IF names = {} THEN "clear" ELSE "persist"
  BY <1>1, JobFacts DEF Job, Relist
<1>3. j.kind = "suspend" /\ running[j.key] = {} /\ (list[j.key] = {} \/ j.names = {})
  BY JobFacts DEF Relist, InHand, Suspending, Resuming
<1>4. UNCHANGED <<list, running, want, declared, checkouts, suspended, starting>>
  BY DEF Relist, disk, machine, cli
<1>5. names # {} => want[j.key] \cap list[j.key] \subseteq names
  <2>1. CASE list[j.key] = {}
    BY <2>1
  <2>2. CASE j.names = {} /\ j.key \in Sites
    BY <1>3, <2>2 DEF Lost, Safe, LostInv, Declares
  <2>3. CASE j.names = {} /\ j.key \notin Sites
    BY <2>3 DEF Lost
  <2>4. QED
    BY <1>3, <2>1, <2>2, <2>3
<1> HIDE DEF names
<1>6. InHand(next)' /\ Flat(j.key)'
  BY <1>2, <1>3, <1>4, <1>5 DEF InHand, Suspending, Flat
<1>7. j.todo = {} /\ j.names \subseteq names
  BY DEF Relist, names
<1>8. QED
  BY <1>1, <1>2, <1>4, <1>6, <1>7, JobKeeps

LEMMA PersistKeeps == ASSUME Safe, NEW j \in jobs, Persist(j), UNCHANGED <<up, tickers, cli>> PROVE LostInv' /\ Keeps
<1>1. PICK next : next = [j EXCEPT !.pc = "mark", !.names = {}] /\ Goto(j, next)
  BY DEF Persist
<1>2. next.key = j.key /\ next.kind = j.kind /\ next.todo = j.todo /\ next.names = {} /\ next.pc = "mark"
  BY <1>1, JobFacts DEF Job
<1>3. /\ j.todo = {} /\ want[j.key] \cap list[j.key] \subseteq j.names
      /\ IF j.kind = "suspend" THEN running[j.key] = {} ELSE j.names = {}
  BY JobFacts DEF Persist, InHand, Suspending, Resuming
<1>4. UNCHANGED <<running, want, declared, checkouts, suspended, starting>>
  BY DEF Persist, machine, cli
<1>5. list'[j.key] = j.names /\ \A k \in Keys : k # j.key => list'[k] = list[k]
  BY JobFacts DEF Persist, Safe, TypeOK, DiskOK, Own
<1>6. InHand(next)' /\ Flat(j.key)'
  BY <1>2, <1>3, <1>4, <1>5 DEF InHand, Suspending, Resuming, Flat
<1>7. QED
  BY <1>1, <1>2, <1>3, <1>4, <1>5, <1>6, JobKeeps

LEMMA MarkKeeps == ASSUME Safe, NEW j \in jobs, Mark(j), UNCHANGED <<up, tickers, cli>> PROVE LostInv' /\ Keeps
<1>1. PICK next : next = [j EXCEPT !.pc = "clear"] /\ Goto(j, next)
  BY DEF Mark
<1>2. next.key = j.key /\ next.kind = j.kind /\ next.todo = j.todo /\ next.names = j.names /\ next.pc = "clear"
  BY <1>1, JobFacts DEF Job
<1>3. j.todo = {} /\ j.names = {} /\ Flat(j.key)
  BY JobFacts DEF Mark, InHand, Suspending, Resuming, Flat
<1>4. UNCHANGED <<list, running, want, declared, checkouts, starting>>
  BY DEF Mark, disk, machine, cli
<1>5. InHand(next)' /\ Flat(j.key)'
  BY <1>2, <1>3, <1>4 DEF InHand, Suspending, Resuming, Flat
<1>6. \A k \in Keys : k # j.key => (k \in suspended' <=> k \in suspended)
  BY DEF Mark
<1>7. QED
  BY <1>1, <1>2, <1>3, <1>4, <1>5, <1>6, JobKeeps

LEMMA FindListKeeps == ASSUME Safe, NEW j \in jobs, FindList(j), UNCHANGED <<up, tickers, cli>> PROVE LostInv' /\ Keeps
<1>1. PICK next : next = [j EXCEPT !.pc = "start", !.todo = list[j.key]] /\ Goto(j, next)
  BY DEF FindList
<1>2. /\ next.key = j.key /\ next.kind = "resume" /\ next.todo = list[j.key] /\ next.names = j.names
      /\ next.pc = "start"
  BY <1>1, JobFacts DEF Job, FindList
<1>3. j.names = {} /\ j.todo = {}
  BY JobFacts DEF FindList, InHand
<1>4. UNCHANGED <<list, running, want, declared, checkouts, suspended, starting>>
  BY DEF FindList, disk, machine, cli
<1>5. InHand(next)'
  BY <1>2, <1>3, <1>4 DEF InHand, Resuming
<1>6. QED
  BY <1>1, <1>2, <1>3, <1>4, <1>5, JobKeeps

LEMMA StartWorkerKeeps == ASSUME Safe, NEW j \in jobs, StartWorker(j), UNCHANGED <<up, tickers, cli>> PROVE LostInv' /\ Keeps
<1>1. PICK w \in j.todo :
        /\ running' = [running EXCEPT ![j.key] = IF Exists(j.key) THEN @ \cup {w} ELSE @]
        /\ list' = [list EXCEPT ![j.key] = IF Exists(j.key) THEN @ \ {w} ELSE @]
        /\ declared' = [s \in Sites |-> IF s = j.key THEN declared[s] \cup ({w} \ AppWorkers) ELSE declared[s]]
        /\ Goto(j, [j EXCEPT !.todo = @ \ {w}])
  BY DEF StartWorker
<1> DEFINE next == [j EXCEPT !.todo = @ \ {w}]
<1>2. /\ next.key = j.key /\ next.kind = j.kind /\ next.pc = "start"
      /\ next.todo = j.todo \ {w} /\ next.names = j.names
  BY JobFacts DEF Job, StartWorker
<1>3. Goto(j, next)
  BY <1>1
<1> HIDE DEF next
<1>4. j.kind = "resume" /\ j.names = {} /\ (Exists(j.key) => list[j.key] \subseteq j.todo)
  BY JobFacts DEF StartWorker, InHand, Suspending, Resuming
<1>5. UNCHANGED <<want, checkouts, suspended, starting>>
  BY DEF StartWorker, cli
<1>6. \A k \in Keys : k # j.key => running'[k] = running[k] /\ list'[k] = list[k]
  BY <1>1 DEF Safe, TypeOK, MachineOK, DiskOK, Own
<1>7. IF Exists(j.key) THEN running'[j.key] = running[j.key] \cup {w} /\ list'[j.key] = list[j.key] \ {w}
                       ELSE running'[j.key] = running[j.key] /\ list'[j.key] = list[j.key]
  BY <1>1, JobFacts DEF Safe, TypeOK, MachineOK, DiskOK, Own
<1>8. InHand(next)'
  BY <1>2, <1>4, <1>5, <1>7 DEF InHand, Resuming, Exists
<1>9. \A s \in Sites : declared[s] \subseteq declared'[s]
  BY <1>1
<1>10. want[j.key] \cap (running[j.key] \cup list[j.key] \cup j.names \cup j.todo)
         \subseteq running'[j.key] \cup list'[j.key] \cup next.names \cup next.todo
  BY <1>1, <1>2, <1>7, JobFacts
<1>11. QED
  BY <1>2, <1>3, <1>5, <1>6, <1>7, <1>8, <1>9, <1>10, JobKeeps

LEMMA AllStartedKeeps == ASSUME Safe, NEW j \in jobs, AllStarted(j), UNCHANGED <<up, tickers, cli>> PROVE LostInv' /\ Keeps
<1>1. PICK next : next = [j EXCEPT !.pc = "persist"] /\ Goto(j, next)
  BY DEF AllStarted
<1>2. /\ next.key = j.key /\ next.kind = j.kind /\ next.todo = {} /\ next.names = j.names /\ next.pc = "persist"
  BY <1>1, JobFacts DEF Job, AllStarted
<1>3. /\ j.kind = "resume" /\ j.names = {} /\ j.todo = {}
      /\ IF Exists(j.key) THEN list[j.key] = {} ELSE running[j.key] = {}
  BY JobFacts DEF AllStarted, InHand, Suspending, Resuming
<1>4. UNCHANGED <<list, running, want, declared, checkouts, suspended, starting>>
  BY DEF AllStarted, disk, machine, cli
<1>5. InHand(next)' /\ Flat(j.key)'
  BY <1>2, <1>3, <1>4 DEF InHand, Resuming, Flat, Exists
<1>6. QED
  BY <1>1, <1>2, <1>3, <1>4, <1>5, JobKeeps

\* A job that ends holds nothing any more.
LEMMA ClearKeeps == ASSUME Safe, NEW j \in jobs, Clear(j), UNCHANGED <<up, tickers, cli>> PROVE LostInv' /\ Keeps
<1> USE DEF Safe
<1>1. InHand(j) /\ j.pc = "clear" /\ j.names = {} /\ j.todo = {}
  BY JobFacts DEF Clear, InHand
<1>2. UNCHANGED <<list, running, want, declared, checkouts, suspended, starting, up, tickers>>
  BY DEF Clear, disk, machine, cli
<1>3. jobs' = jobs \ {j}
  BY DEF Clear
<1>4. Settled'
  <2>1. SUFFICES ASSUME up = "up", NEW k \in Keys PROVE (Flat(k) \/ HalfAsleep(k) \/ Woken(k))'
    BY <1>2 DEF Settled
  <2>2. Flat(k) \/ HalfAsleep(k) \/ Woken(k)
    BY <2>1 DEF LostInv, Settled
  <2>3. Woken(k) => Woken(k)'
    BY <1>1, <1>3 DEF Woken
  <2>4. QED
    BY <1>2, <2>2, <2>3 DEF Flat, HalfAsleep, Sees
<1>5. ASSUME NEW i \in jobs' PROVE InHand(i)'
  BY <1>2, <1>3, <1>5 DEF LostInv, InHand, Suspending, Resuming, Flat, Exists
<1>6. ASSUME NEW k \in Keys PROVE Held(k) \subseteq Held(k)'
  BY <1>1, <1>3 DEF Held
<1>7. Keeps
  BY <1>2, <1>6 DEF Keeps, Forgotten
<1>8. QED
  BY <1>2, <1>3, <1>4, <1>5, <1>7 DEF LostInv, Declares, Gone, Looks, Down

LEMMA JobStepKeeps == ASSUME Safe, NEW j \in jobs, JobStep(j) PROVE LostInv' /\ Keeps
  BY CollectKeeps, StopWorkerKeeps, RelistKeeps, PersistKeeps, MarkKeeps, FindListKeeps, StartWorkerKeeps,
     AllStartedKeeps, ClearKeeps DEF JobStep

-----------------------------------------------------------------------------
(* Nor do the ticks ... *)

LEMMA TickFacts ==
  ASSUME Safe, NEW t \in tickers
  PROVE  /\ t \in Ticker /\ (t.pc \in {"probe", "store", "decide"} => t.cur \in Keys)
         /\ (t.pc # "wait" => checkouts \subseteq t.wts)
         /\ up = "up"
<1>1. up = "up"
  BY DEF Safe, LostInv, Down, TypeOK, RestOK
<1>2. QED
  BY <1>1 DEF Safe, TypeOK, LoopOK, TickerOK, LostInv, Looks

\* The part of FrameKeeps that a step without jobs and lists has to show.
LEMMA LookKeeps ==
  ASSUME Safe, UNCHANGED <<running, want, declared, checkouts, starting, up, list, jobs, suspended>>,
         up = "down" => tickers' = {},
         \A u \in tickers' : u.pc # "wait" => checkouts \subseteq u.wts,
         \A k \in Keys : HalfAsleep(k) => \A u \in tickers' : Sees(u, k)
  PROVE  LostInv' /\ Keeps
<1>1. up = "down" => jobs' = {}
  BY DEF Safe, LostInv, Down
<1>2. \A k \in Keys : HalfAsleep(k) => k \in suspended'
  BY DEF HalfAsleep
<1>3. QED
  BY <1>1, <1>2, FrameKeeps

LEMMA TickBeginKeeps ==
  ASSUME Safe, NEW t \in tickers, TickBegin(t), UNCHANGED <<up, cli>> PROVE LostInv' /\ Keeps
<1> DEFINE awake == {w \in Worktrees : ParentOf[w] \notin paused}
<1>1. PICK next : /\ Move(t, next)
                  /\ next = [t EXCEPT !.pc = "sites", !.flag = enabled, !.seen = list, !.exempt = pinned,
                                      !.wts = checkouts \cup (Worktrees \ awake),
                                      !.todo = (Sites \ paused) \cup (checkouts \cap awake)]
  BY DEF TickBegin
<1>2. next.pc = "sites" /\ next.seen = list /\ checkouts \subseteq next.wts
  BY <1>1, TickFacts DEF Ticker
<1>3. \A u \in tickers' : u = next \/ u \in tickers
  BY <1>1 DEF Move
<1>4. \A k \in Keys : Sees(next, k)
  BY <1>2 DEF Sees
<1>5. QED
  BY <1>2, <1>3, <1>4, LookKeeps, TickFacts DEF TickBegin, disk, machine, belief, cli, HalfAsleep

LEMMA TickLookKeeps ==
  ASSUME Safe, NEW t \in tickers, TickLook(t), UNCHANGED <<up, cli>> PROVE LostInv' /\ Keeps
<1>1. PICK k \in t.todo : Move(t, IF k \in inFlight
         THEN [[t EXCEPT !.todo = @ \ {k}, !.cur = k] EXCEPT !.pc = "decide", !.asleep = IF k \in suspended THEN "yes" ELSE "no"]
         ELSE [[t EXCEPT !.todo = @ \ {k}, !.cur = k] EXCEPT !.pc = "probe"])
  BY DEF TickLook
<1>2. PICK next : /\ Move(t, next) /\ next.cur = k /\ next.seen = t.seen /\ next.wts = t.wts
                  /\ next.pc = "probe" \/ (next.pc = "decide" /\ (k \in suspended => next.asleep = "yes"))
  <2>1. CASE k \in inFlight
    <3>1. PICK next : /\ Move(t, next)
                      /\ next = [[t EXCEPT !.todo = @ \ {k}, !.cur = k]
                                   EXCEPT !.pc = "decide", !.asleep = IF k \in suspended THEN "yes" ELSE "no"]
      BY <1>1, <2>1
    <3>2. /\ next.cur = k /\ next.seen = t.seen /\ next.wts = t.wts /\ next.pc = "decide"
          /\ next.asleep = IF k \in suspended THEN "yes" ELSE "no"
      BY <3>1, TickFacts DEF Ticker
    <3>3. QED
      BY <3>1, <3>2
  <2>2. CASE k \notin inFlight
    <3>1. PICK next : /\ Move(t, next)
                      /\ next = [[t EXCEPT !.todo = @ \ {k}, !.cur = k] EXCEPT !.pc = "probe"]
      BY <1>1, <2>2
    <3>2. next.cur = k /\ next.seen = t.seen /\ next.wts = t.wts /\ next.pc = "probe"
      BY <3>1, TickFacts DEF Ticker
    <3>3. QED
      BY <3>1, <3>2
  <2>3. QED
    BY <2>1, <2>2
<1>3. \A u \in tickers' : u = next \/ u \in tickers
  BY <1>2 DEF Move
<1>4. t.pc = "sites"
  BY DEF TickLook
<1>5. \A h \in Keys : HalfAsleep(h) => Sees(next, h)
  BY <1>2, <1>4 DEF HalfAsleep, Sees
<1>6. QED
  BY <1>2, <1>3, <1>4, <1>5, LookKeeps, TickFacts DEF TickLook, disk, machine, belief, cli, HalfAsleep

LEMMA TickProbeKeeps ==
  ASSUME Safe, NEW t \in tickers, TickProbe(t), UNCHANGED <<up, cli>> PROVE LostInv' /\ Keeps
<1> DEFINE k == t.cur
<1>1. PICK next : /\ Move(t, next)
                  /\ next = [t EXCEPT !.pc = "store",
                               !.asleep = IF t.seen[t.cur] = {} \/ IsStale(t) THEN "no" ELSE "yes"]
  BY DEF TickProbe
<1>2. /\ next.pc = "store" /\ next.cur = t.cur /\ next.seen = t.seen /\ next.wts = t.wts
      /\ next.asleep = IF t.seen[t.cur] = {} \/ IsStale(t) THEN "no" ELSE "yes"
  BY <1>1, TickFacts DEF Ticker
<1>3. k \in Keys /\ up = "up" /\ t.pc = "probe" /\ checkouts \subseteq t.wts
  BY TickFacts DEF TickProbe
<1>4. \A u \in tickers' : u = next \/ u \in tickers
  BY <1>1 DEF Move
<1>5. HalfAsleep(k) => t.seen[k] = list[k] /\ ~IsStale(t)
  BY <1>3 DEF HalfAsleep, Sees, IsStale
<1>6. IsStale(t) => want[k] \cap list[k] \subseteq running[k] \cup Held(k)
  <2>1. SUFFICES ASSUME IsStale(t), list[k] # {} PROVE want[k] \cap list[k] \subseteq Held(k)
    OBVIOUS
  <2>2. Woken(k)
    BY <1>3, <1>5, <2>1 DEF Safe, LostInv, Settled, Flat, IsStale
  <2>3. PICK j \in jobs : j.key = k /\ j.pc = "start"
    BY <2>2 DEF Woken
  <2>4. IF Exists(k) THEN list[k] \subseteq j.todo ELSE want[k] = {}
    BY <2>3, JobFacts DEF InHand, Suspending, Resuming
  <2>5. QED
    BY <2>3, <2>4, HeldBySome
<1>7. /\ IsStale(t) => list'[k] = {}
      /\ ~IsStale(t) => list' = list
      /\ \A h \in Keys : h # k => list'[h] = list[h]
  BY <1>3 DEF TickProbe, Safe, TypeOK, DiskOK, Own
<1>8. \A h \in Keys : \/ list'[h] = list[h]
                      \/ list'[h] = {} /\ want[h] \cap list[h] \subseteq running[h] \cup Held(h)
  <2>1. SUFFICES ASSUME NEW h \in Keys, list'[h] # list[h]
                 PROVE  list'[h] = {} /\ want[h] \cap list[h] \subseteq running[h] \cup Held(h)
    OBVIOUS
  <2>2. h = k /\ IsStale(t)
    BY <1>7, <2>1
  <2>3. QED
    BY <1>6, <1>7, <2>2
<1>9. ASSUME NEW h \in Keys, HalfAsleep(h), list[h] # {} PROVE Sees(next, h)
  BY <1>2, <1>3, <1>5, <1>9 DEF HalfAsleep, Sees
<1>10. UNCHANGED <<running, want, declared, checkouts, starting, jobs, suspended>>
  BY DEF TickProbe, machine, belief, cli
<1>11. \A u \in tickers' : u.pc # "wait" => checkouts \subseteq u.wts
  BY <1>2, <1>3, <1>4, TickFacts
<1>12. \A h \in Keys : HalfAsleep(h) /\ list[h] # {} => h \in suspended' /\ \A u \in tickers' : Sees(u, h)
  BY <1>4, <1>9, <1>10 DEF HalfAsleep
<1> HIDE DEF k
<1>13. QED
  BY <1>3, <1>8, <1>10, <1>11, <1>12, FrameKeeps

\* What a spawn adds.
LEMMA SpawnFacts ==
  ASSUME NEW kind, NEW k \in Keys, NEW b, Spawn(kind, k, b)
  PROVE  /\ jobs \subseteq jobs'
         /\ \A i \in jobs' \ jobs : /\ i.key = k /\ i.kind = kind /\ k \notin inFlight
                                    /\ i.pc = "find" /\ i.names = {} /\ i.todo = {}
  BY DEF Spawn, MayStart

\* A suspend is decided only where all is up or all is down.
LEMMA DecidesFlat ==
  ASSUME Safe, NEW t \in tickers, TickDecide(t)
  PROVE  \A i \in jobs' \ jobs : i.kind = "suspend" => Flat(i.key)
<1> DEFINE k == t.cur
           asleep == IF t.pc = "decide" THEN t.asleep = "yes" ELSE k \in Reconciled(t)
           exempt == SiteOf(k) \in t.exempt
           unseen == k \in Worktrees /\ record[k] = "none"
           action == IF exempt THEN WakeExempt(asleep)
                     ELSE IF unseen THEN "none"
                     ELSE Decide(t.flag = "on", record[k], asleep)
<1>1. k \in Keys /\ up = "up" /\ t.pc \in {"store", "decide"}
  BY TickFacts DEF TickDecide
<1>2. SUFFICES ASSUME NEW i \in jobs' \ jobs, i.kind = "suspend", ~Flat(k) PROVE i.key = k /\ FALSE
  <2>1. \A i \in jobs' \ jobs : i.key = k
    <3>1. CASE jobs' = jobs
      BY <3>1
    <3>2. CASE jobs' # jobs
      <4>1. PICK b : b = suspended'
        OBVIOUS
      <4>2. PICK kind : Spawn(kind, k, b)
        BY <3>2, <4>1 DEF TickDecide
      <4>3. QED
        BY <1>1, <4>2 DEF Spawn, MayStart
    <3>3. QED
      BY <3>1, <3>2
  <2>2. QED
    BY <1>2, <2>1
<1>3. Spawn(action, k, suspended')
  BY <1>2 DEF TickDecide
<1>4. action = "suspend" /\ k \notin inFlight
  <2> HIDE DEF action
  <2>1. QED
    BY <1>1, <1>2, <1>3, SpawnFacts
<1>5. HalfAsleep(k)
  <2>1. ~Woken(k)
    BY <1>4 DEF Woken, Safe, JobsExclusive
  <2>2. QED
    BY <1>1, <1>2, <2>1 DEF Safe, LostInv, Settled
<1>6. asleep
  BY <1>1, <1>5 DEF HalfAsleep, Sees, Reconciled
<1>7. action # "suspend"
  BY <1>6 DEF WakeExempt, Decide
<1>8. QED
  BY <1>4, <1>7

LEMMA TickDecideKeeps ==
  ASSUME Safe, NEW t \in tickers, TickDecide(t), UNCHANGED <<up, cli>> PROVE LostInv' /\ Keeps
<1>1. t.cur \in Keys /\ up = "up" /\ t.pc \in {"store", "decide"} /\ checkouts \subseteq t.wts
  BY TickFacts DEF TickDecide
<1>2. PICK next : Move(t, next) /\ next = [t EXCEPT !.pc = "sites", !.cur = NoKey, !.asleep = "no"]
  BY DEF TickDecide
<1>3. next.pc = "sites" /\ next.seen = t.seen /\ next.wts = t.wts
  BY <1>2, TickFacts DEF Ticker
<1>4. \A u \in tickers' : u = next \/ u \in tickers
  BY <1>2 DEF Move
<1>5. UNCHANGED <<list, running, want, declared, checkouts, starting>> /\ suspended' = Reconciled(t)
  BY DEF TickDecide, disk, machine, cli
<1>6. /\ jobs \subseteq jobs'
      /\ \A i \in jobs' \ jobs : i.key \in Keys /\ i.pc = "find" /\ i.names = {} /\ i.todo = {}
  <2>1. CASE jobs' = jobs
    BY <2>1
  <2>2. CASE jobs' # jobs
    <3>1. PICK b : b = suspended'
      OBVIOUS
    <3>2. PICK kind : Spawn(kind, t.cur, b)
      BY <2>2, <3>1 DEF TickDecide
    <3>3. QED
      BY <1>1, <3>2 DEF Spawn, MayStart
  <2>3. QED
    BY <2>1, <2>2
<1>7. ASSUME NEW h \in Keys, HalfAsleep(h) PROVE h \in suspended' /\ Sees(next, h)
  <2>1. Sees(t, h) /\ h \in suspended
    BY <1>7 DEF HalfAsleep
  <2>2. h \in suspended'
    BY <1>1, <1>5, <2>1 DEF Sees, Reconciled
  <2>3. Sees(next, h)
    BY <1>1, <1>3, <2>1 DEF Sees
  <2>4. QED
    BY <2>2, <2>3
<1>8. \A u \in tickers' : u.pc # "wait" => checkouts \subseteq u.wts
  BY <1>1, <1>3, <1>4, TickFacts
<1>9. \A h \in Keys : HalfAsleep(h) => \A u \in tickers' : Sees(u, h)
  BY <1>4, <1>7 DEF HalfAsleep
<1>10. QED
  BY <1>1, <1>5, <1>6, <1>7, <1>8, <1>9, DecidesFlat, FrameKeeps

LEMMA TickEndKeeps ==
  ASSUME Safe, NEW t \in tickers, TickEnd(t), UNCHANGED <<up, cli>> PROVE LostInv' /\ Keeps
<1> DEFINE gone == {k \in suspended \cap Worktrees : k \notin t.wts}
<1>1. /\ suspended' = suspended \ gone
      /\ list' = [k \in Keys |-> IF k \in gone THEN {} ELSE list[k]]
      /\ Move(t, Waiting(t.ctx)) /\ t.pc = "sites"
  BY DEF TickEnd
<1>2. up = "up" /\ \A k \in gone : want[k] = {}
  BY <1>1, TickFacts DEF Safe, LostInv, Gone
<1>3. \A k \in Keys : \/ list'[k] = list[k]
                      \/ list'[k] = {} /\ want[k] \cap list[k] \subseteq running[k] \cup Held(k)
  BY <1>1, <1>2
<1>4. \A u \in tickers' : u.pc = "wait" \/ u \in tickers
  BY <1>1 DEF Move, Waiting
<1>5. UNCHANGED <<running, want, declared, checkouts, starting, jobs>>
  BY DEF TickEnd, machine, cli
<1>6. \A k \in Keys : HalfAsleep(k) /\ list[k] # {} /\ list'[k] = list[k] =>
        k \in suspended' /\ \A u \in tickers' : Sees(u, k)
  BY <1>1, <1>4 DEF HalfAsleep, Sees
<1> HIDE DEF gone
<1>7. QED
  BY <1>2, <1>3, <1>4, <1>5, <1>6, TickFacts, FrameKeeps

LEMMA TickStepKeeps == ASSUME Safe, NEW t \in tickers, TickStep(t) PROVE LostInv' /\ Keeps
<1>1. UNCHANGED <<up, cli>>
  BY DEF TickStep
<1>2. CASE TickerExits(t)
  BY <1>1, <1>2, TickFacts, LookKeeps DEF TickerExits, disk, machine, belief, cli, HalfAsleep
<1>3. QED
  BY <1>1, <1>2, TickBeginKeeps, TickLookKeeps, TickProbeKeeps, TickDecideKeeps, TickEndKeeps DEF TickStep


-----------------------------------------------------------------------------
(* ... the drains ... *)

\* Shorter: a step that leaves the workers, the lists and the loops alone.
LEMMA QuietKeeps ==
  ASSUME Safe, UNCHANGED <<running, want, declared, checkouts, starting, up, list, jobs, suspended, tickers>>
  PROVE  LostInv' /\ Keeps
<1>1. up = "down" => tickers' = {}
  BY DEF Safe, LostInv, Down
<1>2. \A u \in tickers' : u.pc # "wait" => checkouts \subseteq u.wts
  BY DEF Safe, LostInv, Looks
<1>3. \A k \in Keys : HalfAsleep(k) => \A u \in tickers' : Sees(u, k)
  BY DEF HalfAsleep
<1>4. QED
  BY <1>1, <1>2, <1>3, LookKeeps

\* A resume is no danger to what sleeps.
LEMMA WakingKeeps ==
  ASSUME Safe, up = "up", NEW k \in Keys, NEW b, Spawn("resume", k, b) \/ UNCHANGED <<inFlight, jobs>>,
         suspended \subseteq suspended',
         UNCHANGED <<running, want, declared, checkouts, starting, up, list, tickers>>
  PROVE  LostInv' /\ Keeps
<1>1. /\ jobs \subseteq jobs'
      /\ \A i \in jobs' \ jobs : /\ i.key = k /\ i.kind = "resume"
                                 /\ i.pc = "find" /\ i.names = {} /\ i.todo = {}
  BY SpawnFacts
<1>2. \A h \in Keys : HalfAsleep(h) => h \in suspended' /\ \A u \in tickers' : Sees(u, h)
  BY DEF HalfAsleep
<1>3. \A u \in tickers' : u.pc # "wait" => checkouts \subseteq u.wts
  BY DEF Safe, LostInv, Looks
<1>4. QED
  BY <1>1, <1>2, <1>3, FrameKeeps

LEMMA DrainResumesKeeps ==
  ASSUME Safe, up = "up", NEW d \in drains, d \in Drain, DrainResumes(d), UNCHANGED <<up, tickers, cli>>
  PROVE  LostInv' /\ Keeps
<1>1. UNCHANGED <<running, want, declared, checkouts, starting, up, tickers>>
  BY DEF DrainResumes, machine, cli
<1>2. PICK k \in d.todo :
        \/ /\ Exists(k)
           /\ suspended' = suspended \cup {k}
           /\ Spawn("resume", k, suspended')
           /\ UNCHANGED list
        \/ /\ ~Exists(k)
           /\ suspended' = suspended \ {k}
           /\ list' = [list EXCEPT ![k] = {}]
           /\ UNCHANGED <<inFlight, jobs>>
        \/ /\ k \in Worktrees
           /\ suspended' = suspended \cup {k}
           /\ UNCHANGED <<list, inFlight, jobs>>
  BY DEF DrainResumes
<1>3. k \in Keys
  BY DEF Drain
<1>4. CASE UNCHANGED list /\ suspended' = suspended \cup {k}
  <2>1. PICK b : b = suspended'
    OBVIOUS
  <2>2. Spawn("resume", k, b) \/ UNCHANGED <<inFlight, jobs>>
    BY <1>2, <1>4, <2>1 DEF Safe, TypeOK, DiskOK, Own
  <2>3. QED
    BY <1>1, <1>3, <1>4, <2>2, WakingKeeps
<1>5. CASE ~Exists(k) /\ suspended' = suspended \ {k} /\ list' = [list EXCEPT ![k] = {}] /\ UNCHANGED jobs
  <2>1. /\ list'[k] = {} /\ \A h \in Keys : h # k => list'[h] = list[h]
        /\ want[k] = {}
    BY <1>3, <1>5 DEF Safe, TypeOK, DiskOK, Own, LostInv, Gone, Exists
  <2>2. \A h \in Keys : \/ list'[h] = list[h]
                        \/ list'[h] = {} /\ want[h] \cap list[h] \subseteq running[h] \cup Held(h)
    BY <2>1
  <2>3. \A h \in Keys : HalfAsleep(h) /\ list[h] # {} /\ list'[h] = list[h] =>
          h \in suspended' /\ \A u \in tickers' : Sees(u, h)
    BY <1>1, <1>5, <2>1 DEF HalfAsleep
  <2>4. \A u \in tickers' : u.pc # "wait" => checkouts \subseteq u.wts
    BY <1>1 DEF Safe, LostInv, Looks
  <2>5. QED
    BY <1>1, <1>5, <2>2, <2>3, <2>4, FrameKeeps
<1>6. QED
  BY <1>2, <1>4, <1>5

\* A watcher that is down has no drain either.
NoDrains == up = "down" => drains = {}

LEMMA DrainStepKeeps == ASSUME Safe, up = "up", NEW d \in drains, DrainStep(d) PROVE LostInv' /\ Keeps
<1>1. d \in Drain /\ UNCHANGED <<up, tickers, cli>>
  BY DEF Safe, TypeOK, RestOK, DrainStep
<1>2. CASE DrainResumes(d)
  BY <1>1, <1>2, DrainResumesKeeps
<1>3. CASE ~DrainResumes(d)
  <2>1. UNCHANGED <<disk, machine, belief>>
    BY <1>3 DEF DrainStep, DrainYields, DrainGivesUp, DrainLoads, DrainResumed, DrainReadsDisk, DrainDone, DrainRetries
  <2>2. QED
    BY <1>1, <2>1, QuietKeeps DEF disk, machine, belief, cli
<1>4. QED
  BY <1>2, <1>3

-----------------------------------------------------------------------------
(* ... the session, the commands and the users ... *)

LEMMA DispatchKeeps == ASSUME Safe, Dispatch PROVE LostInv' /\ Keeps
<1>1. UNCHANGED <<running, want, declared, checkouts, starting, up, list, jobs, suspended>> /\ up = "up"
  BY DEF Dispatch, disk, machine, belief, cli
<1>2. CASE tickers' \subseteq tickers \cup {Waiting("live")}
  <2>1. \A u \in tickers' : u \in tickers \/ u.pc = "wait"
    BY <1>2 DEF Waiting
  <2>2. QED
    BY <1>1, <2>1, LookKeeps DEF Safe, LostInv, Looks, HalfAsleep, Sees
<1>3. CASE tickers' = {[t EXCEPT !.ctx = "cancelled"] : t \in tickers}
  <2>1. ASSUME NEW u \in tickers'
        PROVE  \E t \in tickers : u.pc = t.pc /\ u.seen = t.seen /\ u.wts = t.wts /\ u.cur = t.cur /\ u.asleep = t.asleep
    <3>1. PICK t \in tickers : u = [t EXCEPT !.ctx = "cancelled"]
      BY <1>3, <2>1
    <3>2. u.pc = t.pc /\ u.seen = t.seen /\ u.wts = t.wts /\ u.cur = t.cur /\ u.asleep = t.asleep
      BY <3>1, TickFacts DEF Ticker
    <3>3. QED
      BY <3>2
  <2>2. \A u \in tickers' : u.pc # "wait" => checkouts \subseteq u.wts
    BY <2>1 DEF Safe, LostInv, Looks
  <2>3. ASSUME NEW k \in Keys, HalfAsleep(k), NEW u \in tickers' PROVE Sees(u, k)
    BY <2>1, <2>3 DEF HalfAsleep, Sees
  <2>4. QED
    BY <1>1, <2>2, <2>3, LookKeeps
<1>4. QED
  BY <1>2, <1>3 DEF Dispatch, enableIdle, disableIdle

LEMMA ActivityKeeps == ASSUME Safe, NEW k \in Keys, Activity(k) PROVE LostInv' /\ Keeps
<1>1. UNCHANGED <<running, want, declared, checkouts, starting, up, list, tickers, suspended>> /\ up = "up"
  BY DEF Activity, disk, machine, cli
<1>2. Spawn("resume", k, suspended) \/ UNCHANGED <<inFlight, jobs>>
  BY DEF Activity
<1>3. QED
  BY <1>1, <1>2, WakingKeeps

LEMMA ByHandKeeps == ASSUME Safe, ByHand PROVE LostInv' /\ Keeps
<1>1. PICK s \in Sites : Pin(s)
  BY DEF ByHand, UserStart, UserStarted, UserStop, UserKilled, Safe, Orderly, LostInv
<1>2. QED
  BY <1>1, QuietKeeps DEF ByHand, Pin, watcher, belief, machine, cli

LEMMA RemoveWorktreeKeeps == ASSUME Safe, NEW k \in Worktrees, RemoveWorktree(k) PROVE LostInv' /\ Keeps
<1> USE DEF Safe
<1>1. UNCHANGED <<list, declared, up, suspended, jobs, tickers, starting>>
  BY DEF RemoveWorktree, disk, watcher, belief
<1>2. /\ running'[k] = {} /\ want'[k] = {} /\ checkouts' = checkouts \ {k} /\ k \in checkouts
      /\ \A h \in Keys : h # k => running'[h] = running[h] /\ want'[h] = want[h]
  BY DEF RemoveWorktree, TypeOK, MachineOK, CliOK, Own
<1>3. \A h \in Keys : running'[h] \subseteq running[h] /\ want'[h] \subseteq want[h]
  BY <1>2
<1>4. Settled'
  BY <1>1, <1>3 DEF LostInv, Settled, Flat, HalfAsleep, Sees, Woken
<1>5. ASSUME NEW i \in jobs' PROVE InHand(i)'
  <2>1. InHand(i) /\ i.key \in Keys
    BY <1>1, JobFacts
  <2>2. Exists(i.key)' => Exists(i.key)
    BY <1>2 DEF Exists
  <2>3. running'[i.key] \subseteq running[i.key] /\ want'[i.key] \subseteq want[i.key] /\ list'[i.key] = list[i.key]
    BY <1>1, <1>3, <2>1
  <2>4. QED
    BY <2>1, <2>2, <2>3 DEF InHand, Suspending, Resuming, Flat
<1>6. Declares' /\ Gone'
  BY <1>1, <1>2, <1>3 DEF LostInv, Declares, Gone
<1>7. Keeps
  <2>1. \A h \in Keys : Held(h)' = Held(h)
    BY <1>1 DEF Held
  <2>2. QED
    BY <1>1, <1>2, <2>1 DEF Keeps, Forgotten
<1>8. QED
  BY <1>1, <1>2, <1>4, <1>5, <1>6, <1>7 DEF LostInv, Looks, Down

\* A crash leaves what it finds, and the next boot sorts it out.
LEMMA CrashSafe == ASSUME Safe, Crash PROVE LostInv'
  BY DEF Safe, Crash, disk, machine, cli, LostInv, Settled, InHand, Declares, Gone, Looks, Down

LEMMA BootSafe == ASSUME Safe, Boot PROVE LostInv'
<1>1. jobs = {} /\ tickers = {} /\ up' = "up"
  BY DEF Safe, LostInv, Down, Boot
<1>2. UNCHANGED <<running, want, declared, checkouts, starting, jobs>>
  BY DEF Boot, machine, belief, cli
<1>3. \A u \in tickers' : u.pc = "wait"
  BY <1>1 DEF Boot, enableIdle, Waiting
<1>4. ASSUME NEW k \in Keys PROVE Flat(k)' \/ HalfAsleep(k)'
  <2>1. CASE list[k] \cap running[k] # {} \/ list[k] = {}
    BY <2>1 DEF Boot, Flat
  <2>2. CASE list[k] \cap running[k] = {} /\ list[k] # {}
    <3>1. k \in suspended' /\ list'[k] = list[k]
      BY <2>2 DEF Boot
    <3>2. QED
      BY <1>2, <1>3, <2>2, <3>1 DEF HalfAsleep, Sees
  <2>3. QED
    BY <2>1, <2>2
<1>5. QED
  BY <1>1, <1>2, <1>3, <1>4 DEF Safe, LostInv, Settled, InHand, Declares, Gone, Looks, Down


LEMMA LostInit == ASSUME Orderly, Init PROVE LostInv /\ NoDrains
<1>1. \A s \in Sites : want[s] \subseteq declared[s]
  BY DEF Init, Orderly
<1>2. \A t \in tickers : t.pc = "wait"
  BY DEF Init, Waiting
<1>3. QED
  BY <1>1, <1>2 DEF Init, LostInv, NoDrains, Settled, Flat, Declares, Gone, Looks, Down

LEMMA NoDrainsKept == ASSUME NoDrains, TypeOK, [Next]_vars PROVE NoDrains'
<1>1. CASE UNCHANGED vars
  BY <1>1 DEF NoDrains, vars, watcher
<1>2. CASE Watcher
  <2>1. ASSUME NEW j \in jobs, JobStep(j) PROVE NoDrains'
    BY <2>1 DEF JobStep, NoDrains
  <2>2. ASSUME NEW t \in tickers, TickStep(t) PROVE NoDrains'
    BY <2>2 DEF TickStep, NoDrains
  <2>3. ASSUME NEW d \in drains, DrainStep(d) PROVE NoDrains'
    BY <2>3 DEF DrainStep, NoDrains
  <2>4. CASE Dispatch
    BY <2>4 DEF Dispatch, NoDrains
  <2>5. QED
    BY <1>2, <2>1, <2>2, <2>3, <2>4 DEF Watcher
<1>3. CASE Environment
  BY <1>3 DEF Environment, Crash, Boot, Toggle, ByHand, Activity, GoQuiet, RemoveWorktree, watcher, NoDrains
<1>4. QED
  BY <1>1, <1>2, <1>3 DEF Next

LEMMA LostKept ==
  ASSUME Safe, NoDrains, [Next]_vars
  PROVE  LostInv' /\ (up = "up" /\ up' = "up" => Keeps)
<1>1. CASE UNCHANGED vars
  BY <1>1, QuietKeeps DEF vars, disk, machine, watcher, belief, cli
<1>2. CASE Watcher
  <2>1. ASSUME NEW d \in drains, DrainStep(d) PROVE LostInv' /\ Keeps
    BY <2>1, DrainStepKeeps DEF NoDrains, Safe, TypeOK, RestOK
  <2>2. QED
    BY <1>2, <2>1, JobStepKeeps, TickStepKeeps, DispatchKeeps DEF Watcher
<1>3. CASE Environment
  <2>1. CASE Crash
    BY <2>1, CrashSafe DEF Crash
  <2>2. CASE Boot
    BY <2>2, BootSafe DEF Boot
  <2>3. CASE Toggle
    BY <2>3, QuietKeeps DEF Toggle, machine, belief
  <2>4. CASE ByHand
    BY <2>4, ByHandKeeps
  <2>5. ASSUME NEW k \in Keys, Activity(k) PROVE LostInv' /\ Keeps
    BY <2>5, ActivityKeeps
  <2>6. ASSUME NEW k \in Keys, GoQuiet(k) PROVE LostInv' /\ Keeps
    BY <2>6, QuietKeeps DEF GoQuiet, disk, machine, belief, cli
  <2>7. ASSUME NEW k \in Worktrees, RemoveWorktree(k) PROVE LostInv' /\ Keeps
    BY <2>7, RemoveWorktreeKeeps
  <2>8. QED
    BY <1>3, <2>1, <2>2, <2>3, <2>4, <2>5, <2>6, <2>7 DEF Environment
<1>4. QED
  BY <1>1, <1>2, <1>3 DEF Next

\* While the watcher lives, no interleaving of its jobs, ticks and drains with activity,
\* toggles, pins and removed worktrees, before or after a crash, drops the name of a worker
\* the user wants up from machine, list and jobs at once (idle_engine.go suspend, resume and
\* tick; ResumeAllSuspended): where every worker is in .lerd.yaml, none needs a build and
\* none is started or stopped by hand.
THEOREM NothingIsLost == ASSUME Orderly PROVE Spec => NothingLost
<1> DEFINE IInv == TypeOK /\ JobsExclusive /\ LostInv /\ NoDrains
<1>1. Init => IInv
  BY InitTyped, LostInit DEF Init, JobsExclusive
<1>2. IInv /\ [Next]_vars => IInv'
  BY NextTyped, ExclusiveKept, LostKept, NoDrainsKept DEF Safe
<1>3. IInv /\ [Next]_vars => [up = "up" /\ up' = "up" => \A k \in Keys : Forgotten(k)' \subseteq Forgotten(k)]_vars
  BY LostKept DEF Safe, Keeps
<1>4. QED
  BY <1>1, <1>2, <1>3, PTL DEF Spec, NothingLost

-----------------------------------------------------------------------------
(* The commands that pause and unpause. *)

\* What a command may disturb of the engine's state.
CommandTypes == DiskOK /\ MachineOK /\ CommandsOK

\* A command that moves on within its type keeps all commands typed.
LEMMA CommandMoves ==
  ASSUME CommandsOK, NEW s \in Sites, NEW next, CommandOK(next, s),
         command' = [command EXCEPT ![s] = next], parked' = parked, pauses' \in 0 .. MaxPauses
  PROVE  CommandsOK'
  BY DEF CommandsOK, CommandOK, Command, Own

\* A command may go to any point of its code.
LEMMA CommandGoes ==
  ASSUME CommandsOK, NEW s \in Sites,
         NEW pc \in {"rest", "collect", "stop", "save", "worktrees", "restart", "resume", "write"}
  PROVE  CommandOK([command[s] EXCEPT !.pc = pc], s)
  BY DEF CommandsOK, CommandOK, Command, Own

\* A command at rest is typed.
LEMMA RestingTyped == \A s \in Sites : CommandOK(Resting, s)
  <1>1. [k \in Keys |-> {}] \in [Keys -> SUBSET Workers]
    OBVIOUS
  <1> QED
    BY <1>1 DEF CommandOK, Command, Resting, Own

\* Reading a record copies what is on disk.
LEMMA FindSiteTyped ==
  ASSUME TypeOK, CommandsOK, NEW s \in Sites, NEW caught, caught \subseteq WorkersOf[s],
         NEW pc \in {"collect", "restart"}, FindSite(s, pc, caught),
         parked' = parked, pauses' \in 0 .. MaxPauses
  PROVE  CommandsOK'
  <1> DEFINE copy == [k \in Keys |-> IF SiteOf(k) = s THEN list[k] ELSE {}]
             next == [pc |-> pc, caught |-> caught, pin |-> pinned \cap {s}, copy |-> copy]
  <1>1. Own(copy)
    BY DEF TypeOK, DiskOK, Own
  <1>2. CommandOK(next, s)
    <2> HIDE DEF copy
    <2> QED
      BY <1>1, OwnWorkers DEF CommandOK, Command, Own
  <1>3. command' = [command EXCEPT ![s] = next]
    BY DEF FindSite
  <1> HIDE DEF next
  <1> QED
    BY <1>2, <1>3, CommandMoves

\* Writing a record puts back what was read.
LEMMA AddSiteTyped ==
  ASSUME TypeOK, CommandsOK, NEW s \in Sites, NEW isPaused, NEW workers, workers \subseteq WorkersOf[s],
         AddSite(s, isPaused, workers)
  PROVE  /\ DiskOK'
         /\ parked' \in [Sites -> SUBSET Workers] /\ \A r \in Sites : parked'[r] \subseteq WorkersOf[r]
  <1>1. CommandOK(command[s], s)
    BY DEF CommandsOK
  <1>2. Own(list')
    BY <1>1 DEF AddSite, CommandOK, TypeOK, DiskOK, Own
  <1>3. pinned' \subseteq Sites /\ paused' \subseteq Sites
    BY <1>1 DEF AddSite, CommandOK, Command, TypeOK, DiskOK
  <1>4. parked' \in [Sites -> SUBSET Workers] /\ \A r \in Sites : parked'[r] \subseteq WorkersOf[r]
    BY OwnWorkers DEF AddSite, CommandsOK
  <1> QED
    BY <1>2, <1>3, <1>4 DEF AddSite, TypeOK, DiskOK

\* The steps of `lerd pause` keep the types.
LEMMA PauseTyped ==
  ASSUME PauseTypeOK, NEW s \in Sites,
         Pause(s) \/ CollectWorkers(s) \/ StopWorkers(s) \/ PauseFails(s) \/ SavePaused(s) \/ StopWorktrees(s)
  PROVE  CommandTypes'
  <1>0. TypeOK /\ CommandsOK /\ CommandOK(command[s], s) /\ pauses \in 0 .. MaxPauses
    BY DEF PauseTypeOK, CommandsOK
  <1>1. CASE Pause(s)
    <2>1. pauses' \in 0 .. MaxPauses
      BY <1>0, <1>1, PausesAssumption DEF Pause
    <2>2. CommandsOK'
      BY <1>0, <1>1, <2>1, FindSiteTyped DEF Pause
    <2> QED
      BY <1>0, <1>1, <2>2 DEF Pause, CommandTypes, TypeOK, DiskOK, MachineOK, disk, machine
  <1>2. CASE CollectWorkers(s)
    <2> DEFINE next == [command[s] EXCEPT !.pc = "stop", !.caught = running[s]]
    <2>1. running[s] \subseteq WorkersOf[s] /\ running[s] \in SUBSET Workers
      BY <1>0, OwnWorkers DEF TypeOK, MachineOK, Own
    <2>2. CommandOK(next, s)
      BY <1>0, <2>1 DEF CommandOK, Command
    <2>3. command' = [command EXCEPT ![s] = next]
      BY <1>0, <1>2 DEF CollectWorkers, CommandsOK, CommandOK, Command
    <2>4. CommandsOK'
      <3> HIDE DEF next
      <3> QED
        BY <1>0, <1>2, <2>2, <2>3, CommandMoves DEF CollectWorkers
    <2> QED
      BY <1>0, <1>2, <2>4 DEF CollectWorkers, CommandTypes, TypeOK, DiskOK, MachineOK, disk, machine
  <1>3. CASE StopWorkers(s)
    <2>1. CommandsOK'
      BY <1>0, <1>3, CommandGoes, CommandMoves DEF StopWorkers, To
    <2>2. Own(running')
      <3>1. running[s] \ command[s].caught \subseteq WorkersOf[s]
        BY <1>0 DEF TypeOK, MachineOK, Own
      <3> QED
        BY <1>0, <1>3, <3>1, OwnUpdate DEF StopWorkers, TypeOK, MachineOK
    <2> QED
      BY <1>0, <1>3, <2>1, <2>2 DEF StopWorkers, CommandTypes, TypeOK, DiskOK, MachineOK, disk
  <1>4. CASE PauseFails(s)
    <2>1. CommandsOK'
      BY <1>0, <1>4, RestingTyped, CommandMoves DEF PauseFails
    <2> QED
      BY <1>0, <1>4, <2>1 DEF PauseFails, CommandTypes, TypeOK, DiskOK, MachineOK, disk, machine
  <1>5. CASE SavePaused(s)
    <2>1. AddSite(s, TRUE, command[s].caught) /\ command[s].caught \subseteq WorkersOf[s]
      BY <1>0, <1>5 DEF SavePaused, CommandOK
    <2>2. DiskOK' /\ parked' \in [Sites -> SUBSET Workers] /\ \A r \in Sites : parked'[r] \subseteq WorkersOf[r]
      BY <1>0, <2>1, AddSiteTyped
    <2>3. CommandOK([command[s] EXCEPT !.pc = "worktrees"], s)
      BY <1>0, CommandGoes
    <2>4. CommandsOK'
      BY <1>0, <1>5, <2>2, <2>3 DEF SavePaused, To, CommandsOK, CommandOK, Command, Own
    <2> QED
      BY <1>0, <1>5, <2>2, <2>4 DEF SavePaused, CommandTypes, TypeOK, MachineOK, machine
  <1>6. CASE StopWorktrees(s)
    <2>1. CommandsOK'
      BY <1>0, <1>6, RestingTyped, CommandMoves DEF StopWorktrees
    <2>2. Own(running')
      BY <1>0, <1>6 DEF StopWorktrees, TypeOK, MachineOK, Own
    <2> QED
      BY <1>0, <1>6, <2>1, <2>2 DEF StopWorktrees, CommandTypes, TypeOK, DiskOK, MachineOK, disk
  <1> QED
    BY <1>1, <1>2, <1>3, <1>4, <1>5, <1>6

\* The steps of `lerd unpause` keep the types.
LEMMA UnpauseTyped ==
  ASSUME PauseTypeOK, NEW s \in Sites,
         Unpause(s) \/ RestartWorktrees(s) \/ ResumeParked(s) \/ SaveUnpaused(s)
  PROVE  CommandTypes'
  <1>0. TypeOK /\ CommandsOK /\ CommandOK(command[s], s) /\ pauses \in 0 .. MaxPauses
    BY DEF PauseTypeOK, CommandsOK
  <1>1. CASE Unpause(s)
    <2>1. parked[s] \subseteq WorkersOf[s]
      BY <1>0 DEF CommandsOK
    <2>2. CommandsOK'
      BY <1>0, <1>1, <2>1, FindSiteTyped DEF Unpause
    <2> QED
      BY <1>0, <1>1, <2>2 DEF Unpause, CommandTypes, TypeOK, DiskOK, MachineOK, disk, machine
  <1>2. CASE RestartWorktrees(s)
    <2> DEFINE started == [k \in Keys |-> IF k \in checkouts /\ ParentOf[k] = s THEN ToStart(s, k) ELSE {}]
    <2>1. \A k \in Keys : started[k] \subseteq WorkersOf[k]
      BY DEF ToStart
    <2>2. /\ running' = [k \in Keys |-> running[k] \cup started[k]]
          /\ list' = [k \in Keys |-> list[k] \ started[k]]
      BY <1>2 DEF RestartWorktrees
    <2>3. Own(running') /\ Own(list')
      <3> HIDE DEF started
      <3> QED
        BY <1>0, <2>1, <2>2, OwnWorkers DEF TypeOK, DiskOK, MachineOK, Own
    <2>4. CommandsOK'
      BY <1>0, <1>2, CommandGoes, CommandMoves DEF RestartWorktrees, To
    <2> QED
      BY <1>0, <1>2, <2>3, <2>4 DEF RestartWorktrees, CommandTypes, TypeOK, DiskOK, MachineOK
  <1>3. CASE ResumeParked(s)
    <2> DEFINE workers == command[s].caught
    <2>1. workers \subseteq WorkersOf[s] /\ workers \subseteq Workers
      BY <1>0, OwnWorkers DEF CommandOK
    <2>2. Own(running') /\ Own(list')
      <3>1. running[s] \cup workers \subseteq WorkersOf[s] /\ list[s] \ workers \subseteq WorkersOf[s]
        BY <1>0, <2>1 DEF TypeOK, DiskOK, MachineOK, Own
      <3> QED
        BY <1>0, <1>3, <3>1, OwnUpdate DEF ResumeParked, TypeOK, DiskOK, MachineOK
    <2>3. declared' \in [Sites -> SUBSET Workers] /\ \A r \in Sites : declared'[r] \subseteq WorkersOf[r]
      BY <1>0, <1>3, <2>1 DEF ResumeParked, TypeOK, DiskOK
    <2>4. CommandsOK'
      BY <1>0, <1>3, CommandGoes, CommandMoves DEF ResumeParked, To
    <2> QED
      BY <1>0, <1>3, <2>2, <2>3, <2>4 DEF ResumeParked, CommandTypes, TypeOK, DiskOK, MachineOK
  <1>4. CASE SaveUnpaused(s)
    <2>1. DiskOK' /\ parked' \in [Sites -> SUBSET Workers] /\ \A r \in Sites : parked'[r] \subseteq WorkersOf[r]
      BY <1>0, <1>4, AddSiteTyped DEF SaveUnpaused
    <2>2. CommandsOK'
      BY <1>0, <1>4, <2>1, RestingTyped DEF SaveUnpaused, CommandsOK, CommandOK, Command, Own
    <2> QED
      BY <1>0, <1>4, <2>1, <2>2 DEF SaveUnpaused, CommandTypes, TypeOK, MachineOK, machine
  <1> QED
    BY <1>1, <1>2, <1>3, <1>4

\* Types hold at first.
LEMMA PauseInitTyped == PauseInit => PauseTypeOK
  <1> SUFFICES ASSUME PauseInit PROVE PauseTypeOK
    OBVIOUS
  <1>1. CommandsOK
    BY RestingTyped, PausesAssumption DEF PauseInit, CommandsOK
  <1> QED
    BY <1>1, InitTyped DEF PauseInit, PauseTypeOK

\* And so does every step.
LEMMA PauseNextTyped == PauseTypeOK /\ [PauseNext]_allVars => PauseTypeOK'
  <1> SUFFICES ASSUME PauseTypeOK, [PauseNext]_allVars PROVE PauseTypeOK'
    OBVIOUS
  <1>1. CASE Commands
    <2>1. PICK s \in Sites : Pause(s) \/ Unpause(s) \/ PauseStep(s)
      BY <1>1 DEF Commands
    <2>2. CommandTypes'
      BY <2>1, PauseTyped, UnpauseTyped DEF PauseStep
    <2>3. BeliefOK' /\ LoopOK' /\ RestOK' /\ CliOK'
      BY <1>1, WatcherTyped DEF Commands, PauseTypeOK, TypeOK, CliOK, cli
    <2> QED
      BY <2>2, <2>3 DEF CommandTypes, PauseTypeOK, TypeOK
  <1>2. CASE Engine \/ UNCHANGED allVars
    <2>1. [Next]_vars /\ UNCHANGED pausing
      BY <1>2 DEF Engine, allVars
    <2>2. TypeOK'
      BY <2>1, NextTyped DEF PauseTypeOK
    <2> QED
      BY <2>1, <2>2 DEF pausing, PauseTypeOK, CommandsOK, CommandOK
  <1> QED
    BY <1>1, <1>2 DEF PauseNext

\* The engine and the commands that pause and unpause beside it only ever hold
\* values of their types, whatever record is written back over what.
THEOREM PauseTypeCorrect == PauseSpec => []PauseTypeOK
  <1>1. PauseInit => PauseTypeOK
    BY PauseInitTyped
  <1>2. PauseTypeOK /\ [PauseNext]_allVars => PauseTypeOK'
    BY PauseNextTyped
  <1> QED
    BY <1>1, <1>2, PTL DEF PauseSpec

\* Pausing, unpausing and writing a record back leave the engine's discipline alone:
\* one job per key and one loop per session, beside any number of commands.
THEOREM PauseKeepsDiscipline == PauseSpec => [](JobsExclusive /\ OneLoop)
  <1>1. PauseInit => JobsExclusive /\ OneLoop
    BY DEF PauseInit, Init, Waiting, JobsExclusive, OneLoop
  <1>2. PauseTypeOK /\ JobsExclusive /\ OneLoop /\ [PauseNext]_allVars => (JobsExclusive /\ OneLoop)'
    <2> SUFFICES ASSUME PauseTypeOK, JobsExclusive, OneLoop, [PauseNext]_allVars PROVE (JobsExclusive /\ OneLoop)'
      OBVIOUS
    <2>1. CASE Commands
      BY <2>1 DEF Commands, watcher, belief, JobsExclusive, OneLoop
    <2>2. CASE Engine \/ UNCHANGED allVars
      BY <2>2, ExclusiveKept, OneLoopKept DEF PauseTypeOK, Engine, allVars
    <2> QED
      BY <2>1, <2>2 DEF PauseNext
  <1> QED
    BY <1>1, <1>2, PauseTypeCorrect, PTL DEF PauseSpec
==============================================================================
