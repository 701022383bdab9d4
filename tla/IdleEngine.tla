----------------------------- MODULE IdleEngine -----------------------------
(***************************************************************************)
(* The idle engine of lerd-watcher (internal/watcher/idle_engine.go): it   *)
(* stops the workers of a site nobody uses and starts them again on        *)
(* activity.  Goroutines share an in-memory belief (suspended, inFlight)   *)
(* under e.mu and a list on disk, Site.IdleSuspendedWorkers; the lerd CLI  *)
(* writes the same files from processes of its own.                        *)
(*                                                                         *)
(* Data.  A key is a site or a worktree.  running holds the workers whose  *)
(* unit is installed and active.  The clock is reduced to record: whether  *)
(* the last activity of a key is within the timeout ("active"), older      *)
(* ("quiet") or unknown ("none").                                          *)
(* The flag of `lerd idle on|off` and its datagram change in a step.       *)
(* A worker that is started is up, off the list and declared in a step.    *)
(* Left out: units that do not start on a resume, and units that are       *)
(* installed and not active, which a suspend does not take for lost.       *)
(* Bounds.  MaxToggles runs of `lerd idle on|off`; Events lists what else  *)
(* the environment does in an instance.                                    *)
(***************************************************************************)
EXTENDS Naturals, Sequences

CONSTANTS
  Sites, Worktrees,  \* the idle keys
  ParentOf,          \* the site a worktree belongs to
  Workers,           \* worker names, all of them resumable
  WorkersOf,         \* the workers of each key
  Vite,              \* the workers that need a build before they may sleep
  AppWorkers,        \* the host-proxy dev server: not in .lerd.yaml's workers
  Events,            \* subset of AllEvents
  MaxToggles,        \* bound: runs of `lerd idle on|off`
  NoKey              \* no key

AllEvents == {"start", "stop", "kill", "pin", "crash", "remove", "deadline", "unreadable"}
Keys == Sites \cup Worktrees

ASSUME KeysAssumption ==
  /\ NoKey \notin Keys
  /\ Sites \cap Worktrees = {}
  /\ ParentOf \in [Worktrees -> Sites]
ASSUME WorkersAssumption ==
  WorkersOf \in [Keys -> SUBSET Workers] /\ Vite \subseteq Workers /\ AppWorkers \subseteq Workers
ASSUME TogglesAssumption == MaxToggles \in Nat

VARIABLES
  \* on disk
  enabled,    \* cfg.IdleSuspend.Enabled: "on" or "off"
  list,       \* IdleSuspendedWorkers, or the worktree's slot
  pinned,     \* sites with Pinned
  paused,     \* sites with Paused
  declared,   \* workers in .lerd.yaml
  \* on the machine
  running,    \* workers whose unit is up
  checkouts,  \* worktrees that exist
  \* in the watcher
  up,         \* "up" or "down"
  session,    \* "on" while idleCancel # nil, and idleActive
  record,     \* the tracker's verdict on each key
  suspended,  \* e.suspended
  inFlight,   \* e.inFlight
  jobs,       \* running suspend and resume goroutines
  tickers,    \* running run(ctx) goroutines
  drains,     \* running resumeUntilClear goroutines
  ctl,        \* datagrams waiting in the control socket
  \* in CLI processes
  starting,   \* worker starts that have not yet cleared the list
  toggles,    \* runs of `lerd idle on|off`
  \* history
  want        \* workers the user wants up

disk    == <<enabled, list, pinned, paused, declared>>
machine == <<running, checkouts>>
belief  == <<suspended, inFlight, jobs>>
watcher == <<up, session, record, belief, tickers, drains, ctl>>
cli     == <<starting, toggles, want>>
vars    == <<disk, machine, watcher, cli>>

SiteOf(k) == IF k \in Sites THEN k ELSE ParentOf[k]
Exists(k) == k \in Sites \/ k \in checkouts

Job == [kind : {"suspend", "resume"}, key : Keys,
        pc : {"find", "stop", "start", "persist", "mark", "clear"},
        todo : SUBSET Workers, names : SUBSET Workers]

\* seen, exempt and wts are what LoadSites and the worktree index said when the
\* tick began (wts: not to be pruned, as it exists or its site is paused); asleep is the local `suspended` of the key the tick is at.
Ticker == [ctx : {"live", "cancelled"}, pc : {"wait", "sites", "probe", "store", "decide"},
           flag : {"on", "off"}, seen : [Keys -> SUBSET Workers], exempt : SUBSET Sites,
           wts : SUBSET Worktrees, todo : SUBSET Keys, cur : Keys \cup {NoKey},
           asleep : {"yes", "no"}]

Drain == [pc : {"top", "sites", "disk", "flight"}, todo : SUBSET Keys]

Waiting(c) == [ctx |-> c, pc |-> "wait", flag |-> "off", seen |-> [k \in Keys |-> {}],
               exempt |-> {}, wts |-> {}, todo |-> {}, cur |-> NoKey, asleep |-> "no"]
NewDrain == [pc |-> "top", todo |-> {}]

Init ==
  /\ enabled = "on" /\ pinned = {} /\ paused = {}
  /\ list = [k \in Keys |-> {}]
  /\ declared = [s \in Sites |-> WorkersOf[s] \ AppWorkers]
  /\ running = WorkersOf /\ want = WorkersOf
  /\ checkouts = Worktrees
  /\ up = "up" /\ session = "on"
  /\ record = [k \in Keys |-> IF k \in Sites THEN "active" ELSE "none"]
  /\ suspended = {} /\ inFlight = {} /\ jobs = {}
  /\ tickers = {Waiting("live")} /\ drains = {}
  /\ ctl = <<>> /\ starting = {} /\ toggles = 0

-----------------------------------------------------------------------------
(* Suspend and resume jobs. *)

\* The check under e.mu, made against the belief b, and a mutated form that
\* forgets inFlight.
MayStartTwice(kind, k, b) == (kind = "resume" <=> k \in b)
MayStart(kind, k, b) == k \notin inFlight /\ (kind = "resume" <=> k \in b)

\* e.suspend(k) and e.resume(k): mark k in flight and spawn, or do nothing.
Spawn(kind, k, b) ==
  \/ /\ MayStart(kind, k, b)
     /\ inFlight' = inFlight \cup {k}
     /\ jobs' = jobs \cup {[kind |-> kind, key |-> k, pc |-> "find", todo |-> {}, names |-> {}]}
  \/ /\ ~MayStart(kind, k, b)
     /\ UNCHANGED <<inFlight, jobs>>

Goto(j, next) == jobs' = (jobs \ {j}) \cup {next}

\* SuspendWorkersForIdle: the running workers, but vite when no build could be made.
Collect(j) ==
  /\ j.kind = "suspend" /\ j.pc = "find"
  /\ \E kept \in {{}, running[j.key] \cap Vite} :
       Goto(j, [j EXCEPT !.pc = "stop", !.todo = running[j.key] \ kept, !.names = running[j.key] \ kept])
  /\ UNCHANGED <<disk, machine, suspended, inFlight>>

StopWorker(j) ==
  /\ j.pc = "stop"
  /\ \E w \in j.todo :
       /\ running' = [running EXCEPT ![j.key] = @ \ {w}]
       /\ Goto(j, [j EXCEPT !.todo = @ \ {w}])
  /\ UNCHANGED <<disk, checkouts, suspended, inFlight>>

\* appendLostSuspended: also list declared workers without a unit, unless the
\* unit states could not be read.  A worktree has no such pass.  And mutated
\* forms: without it, and with it for a worktree too.
NoneLost(k) == {}
LostAnywhere(k) == declared[SiteOf(k)] \ running[k]
Lost(k) == IF k \in Sites THEN declared[k] \ running[k] ELSE {}

Relist(j) ==
  /\ j.pc = "stop" /\ j.todo = {}
  /\ \E lost \in {Lost(j.key)} \cup (IF "unreadable" \in Events THEN {{}} ELSE {}) :
       LET names == j.names \cup lost
       IN Goto(j, [j EXCEPT !.names = names, !.pc = IF names = {} THEN "clear" ELSE "persist"])
  /\ UNCHANGED <<disk, machine, suspended, inFlight>>

\* SetSiteIdleSuspendedWorkers: what a suspend stopped, nothing after a resume.
Persist(j) ==
  /\ j.pc = "persist"
  /\ list' = [list EXCEPT ![j.key] = j.names]
  /\ Goto(j, [j EXCEPT !.pc = "mark", !.names = {}])
  /\ UNCHANGED <<enabled, pinned, paused, declared, machine, suspended, inFlight>>

Mark(j) ==
  /\ j.pc = "mark"
  /\ suspended' = IF j.kind = "suspend" THEN suspended \cup {j.key} ELSE suspended \ {j.key}
  /\ Goto(j, [j EXCEPT !.pc = "clear"])
  /\ UNCHANGED <<disk, machine, inFlight>>

\* The deferred clearInFlight, and a mutated form that misses a path.
NotReleased(k) == IF k \in suspended THEN inFlight \ {k} ELSE inFlight
Released(k) == inFlight \ {k}
Clear(j) ==
  /\ j.pc = "clear"
  /\ jobs' = jobs \ {j}
  /\ inFlight' = Released(j.key)
  /\ UNCHANGED <<disk, machine, suspended>>

\* resume reads the list once ...
FindList(j) ==
  /\ j.kind = "resume" /\ j.pc = "find"
  /\ Goto(j, [j EXCEPT !.pc = "start", !.todo = list[j.key]])
  /\ UNCHANGED <<disk, machine, suspended, inFlight>>

\* ... and launches its workers one by one: launchWorker starts the unit, takes
\* the worker off the list and records it in .lerd.yaml.
StartWorker(j) ==
  /\ j.pc = "start"
  /\ \E w \in j.todo :
       /\ running' = [running EXCEPT ![j.key] = IF Exists(j.key) THEN @ \cup {w} ELSE @]
       /\ list' = [list EXCEPT ![j.key] = IF Exists(j.key) THEN @ \ {w} ELSE @]
       /\ declared' = [s \in Sites |-> IF s = j.key THEN declared[s] \cup ({w} \ AppWorkers) ELSE declared[s]]
       /\ Goto(j, [j EXCEPT !.todo = @ \ {w}])
  /\ UNCHANGED <<enabled, pinned, paused, checkouts, suspended, inFlight>>

AllStarted(j) ==
  /\ j.pc = "start" /\ j.todo = {}
  /\ Goto(j, [j EXCEPT !.pc = "persist"])
  /\ UNCHANGED <<disk, machine, suspended, inFlight>>

JobStep(j) ==
  /\ \/ Collect(j) \/ StopWorker(j) \/ Relist(j)
     \/ FindList(j) \/ StartWorker(j) \/ AllStarted(j)
     \/ Persist(j) \/ Mark(j) \/ Clear(j)
  /\ UNCHANGED <<up, session, record, tickers, drains, ctl, cli>>

-----------------------------------------------------------------------------
(* The tick. *)

Move(t, next) == tickers' = (tickers \ {t}) \cup {next}

\* A cancelled loop ends at its next select.
TickerExits(t) ==
  /\ t.pc = "wait" /\ t.ctx = "cancelled"
  /\ tickers' = tickers \ {t}
  /\ UNCHANGED <<disk, machine, belief, record>>

\* LoadGlobal, LoadSites and wtIndex.refresh: the whole tick works on these
\* copies.  A paused site is left alone, with its worktrees.
TickBegin(t) ==
  /\ t.pc = "wait" /\ t.ctx = "live"
  /\ LET awake == {w \in Worktrees : ParentOf[w] \notin paused}
     IN Move(t, [t EXCEPT !.pc = "sites", !.flag = enabled, !.seen = list, !.exempt = pinned,
                          !.wts = checkouts \cup (Worktrees \ awake),
                          !.todo = (Sites \ paused) \cup (checkouts \cap awake)])
  /\ UNCHANGED <<disk, machine, belief, record>>

\* The first look under e.mu, for a site before its worktrees.
TickLook(t) ==
  /\ t.pc = "sites"
  /\ \E k \in t.todo :
       LET next == [t EXCEPT !.todo = @ \ {k}, !.cur = k]
       IN /\ k \in Worktrees => ParentOf[k] \notin t.todo
          /\ Move(t, IF k \in inFlight
                     THEN [next EXCEPT !.pc = "decide", !.asleep = IF k \in suspended THEN "yes" ELSE "no"]
                     ELSE [next EXCEPT !.pc = "probe"])
  /\ UNCHANGED <<disk, machine, belief, record>>

\* IdleSuspendStateIsStale, on the list as it was when the tick began, and a
\* mutated form that trusts the list.
TrustsList(t) == FALSE
IsStale(t) == t.seen[t.cur] \cap running[t.cur] # {}

\* The probe, outside e.mu: a list that names a running worker is dropped.
TickProbe(t) ==
  /\ t.pc = "probe"
  /\ list' = IF IsStale(t) THEN [list EXCEPT ![t.cur] = {}] ELSE list
  /\ Move(t, [t EXCEPT !.pc = "store",
                       !.asleep = IF t.seen[t.cur] = {} \/ IsStale(t) THEN "no" ELSE "yes"])
  /\ UNCHANGED <<enabled, pinned, paused, declared, machine, belief, record>>

\* idle.Decide, and a mutated form that leaves waking to OnActivity.
DecideOnlySleeps(on, rec, asleep) ==
  IF asleep /\ ~on THEN "resume"
  ELSE IF on /\ ~asleep /\ rec = "quiet" THEN "suspend"
  ELSE "none"
Decide(on, rec, asleep) ==
  IF asleep /\ (~on \/ rec = "active") THEN "resume"
  ELSE IF on /\ ~asleep /\ rec = "quiet" THEN "suspend"
  ELSE "none"

\* A site that never idles is woken, and a mutated form that only skips it.
SkipExempt(asleep) == "none"
WakeExempt(asleep) == IF asleep THEN "resume" ELSE "none"

\* The belief after the second look under e.mu: the list's verdict, unless a job
\* has started meanwhile.
Reconciled(t) ==
  IF t.pc = "decide" \/ t.cur \in inFlight THEN suspended
  ELSE IF t.asleep = "yes" THEN suspended \cup {t.cur} ELSE suspended \ {t.cur}

\* The second look and the decision.  suspend() and resume() check again, so the
\* two critical sections of the code are one step.
TickDecide(t) ==
  LET k == t.cur
      asleep == IF t.pc = "decide" THEN t.asleep = "yes" ELSE k \in Reconciled(t)
      exempt == SiteOf(k) \in t.exempt
      unseen == k \in Worktrees /\ record[k] = "none"
      action == IF exempt THEN WakeExempt(asleep)
                ELSE IF unseen THEN "none"
                ELSE Decide(t.flag = "on", record[k], asleep)
  IN /\ t.pc \in {"store", "decide"}
     /\ suspended' = Reconciled(t)
     /\ \/ action = "none" /\ UNCHANGED <<inFlight, jobs>>
        \/ action # "none" /\ Spawn(action, k, suspended')
     /\ record' = IF unseen /\ ~exempt THEN [record EXCEPT ![k] = "active"] ELSE record
     /\ Move(t, [t EXCEPT !.pc = "sites", !.cur = NoKey, !.asleep = "no"])
     /\ UNCHANGED <<disk, machine>>

\* pruneStaleWorktrees, per site in the code: a worktree believed asleep whose
\* checkout is gone is forgotten, its slot cleared.
TickEnd(t) ==
  LET gone == {k \in suspended \cap Worktrees : k \notin t.wts}
  IN /\ t.pc = "sites" /\ t.todo = {}
     /\ suspended' = suspended \ gone
     /\ list' = [k \in Keys |-> IF k \in gone THEN {} ELSE list[k]]
     /\ Move(t, Waiting(t.ctx))
     /\ UNCHANGED <<enabled, pinned, paused, declared, machine, inFlight, jobs, record>>

TickStep(t) ==
  /\ TickerExits(t) \/ TickBegin(t) \/ TickLook(t) \/ TickProbe(t) \/ TickDecide(t) \/ TickEnd(t)
  /\ UNCHANGED <<up, session, drains, ctl, cli>>

-----------------------------------------------------------------------------
(* resumeUntilClear, which a disable leaves behind. *)

MoveDrain(d, next) == drains' = (drains \ {d}) \cup {next}

\* Enabled again: the live session owns suspend and resume.
DrainYields(d) ==
  /\ d.pc = "top" /\ session = "on"
  /\ drains' = drains \ {d}
  /\ UNCHANGED <<disk, machine, belief>>

\* The 5 minutes are over.
DrainGivesUp(d) ==
  /\ "deadline" \in Events
  /\ d.pc = "top"
  /\ drains' = drains \ {d}
  /\ UNCHANGED <<disk, machine, belief>>

\* ResumeAllSuspended reads the registry ...
DrainLoads(d) ==
  /\ d.pc = "top" /\ session = "off"
  /\ MoveDrain(d, [d EXCEPT !.pc = "sites", !.todo = {k \in Keys : list[k] # {}}])
  /\ UNCHANGED <<disk, machine, belief>>

\* ... forces the belief and resumes; a worktree whose checkout is gone is only
\* cleared, one that git could not read is left for the next round.
DrainResumes(d) ==
  /\ d.pc = "sites"
  /\ \E k \in d.todo :
       /\ MoveDrain(d, [d EXCEPT !.todo = @ \ {k}])
       /\ \/ /\ Exists(k)
             /\ suspended' = suspended \cup {k}
             /\ Spawn("resume", k, suspended')
             /\ UNCHANGED list
          \/ /\ ~Exists(k)
             /\ suspended' = suspended \ {k}
             /\ list' = [list EXCEPT ![k] = {}]
             /\ UNCHANGED <<inFlight, jobs>>
          \/ /\ k \in Worktrees
             /\ suspended' = suspended \cup {k}
             /\ UNCHANGED <<list, inFlight, jobs>>
  /\ UNCHANGED <<enabled, pinned, paused, declared, machine>>

DrainResumed(d) ==
  /\ d.pc = "sites" /\ d.todo = {}
  /\ MoveDrain(d, [d EXCEPT !.pc = "disk"])
  /\ UNCHANGED <<disk, machine, belief>>

\* persistedIdleSuspendExists ...
DrainReadsDisk(d) ==
  /\ d.pc = "disk"
  /\ MoveDrain(d, [d EXCEPT !.pc = IF \A k \in Keys : list[k] = {} THEN "flight" ELSE "top"])
  /\ UNCHANGED <<disk, machine, belief>>

\* ... then anyInFlight: done when both said no.
DrainDone(d) ==
  /\ d.pc = "flight" /\ inFlight = {}
  /\ drains' = drains \ {d}
  /\ UNCHANGED <<disk, machine, belief>>

DrainRetries(d) ==
  /\ d.pc = "flight" /\ inFlight # {}
  /\ MoveDrain(d, NewDrain)
  /\ UNCHANGED <<disk, machine, belief>>

DrainStep(d) ==
  /\ \/ DrainYields(d) \/ DrainGivesUp(d) \/ DrainLoads(d) \/ DrainResumes(d)
     \/ DrainResumed(d) \/ DrainReadsDisk(d) \/ DrainDone(d) \/ DrainRetries(d)
  /\ UNCHANGED <<up, session, record, tickers, ctl, cli>>

-----------------------------------------------------------------------------
(* The session, the control socket and the watcher's life. *)

\* enableIdle: seed the tracker and start a run loop, once; and a mutated form
\* that starts one each time.
Seeded == [k \in Keys |-> IF k \in Sites /\ record[k] = "none" THEN "active" ELSE record[k]]

NeverRunning == FALSE
AlreadyRunning == session = "on"

enableIdle ==
  \/ /\ ~AlreadyRunning
     /\ session' = "on"
     /\ record' = Seeded
     /\ tickers' = tickers \cup {Waiting("live")}
  \/ AlreadyRunning /\ UNCHANGED <<session, record, tickers>>

\* disableIdle: cancel the session, if any, and start a drain.
disableIdle ==
  /\ session' = "off"
  /\ tickers' = {[t EXCEPT !.ctx = "cancelled"] : t \in tickers}
  /\ drains' = drains \cup {NewDrain}
  /\ UNCHANGED record

\* dispatchControl.
Dispatch ==
  /\ up = "up" /\ ctl # <<>>
  /\ ctl' = Tail(ctl)
  /\ \/ Head(ctl) = "on" /\ enableIdle /\ UNCHANGED drains
     \/ Head(ctl) = "off" /\ disableIdle
  /\ UNCHANGED <<disk, machine, up, belief, cli>>

\* A request, a save or a shim command on an existing key: OnActivity.
Activity(k) ==
  /\ up = "up" /\ session = "on" /\ Exists(k)
  /\ record' = [record EXCEPT ![k] = "active"]
  /\ \/ k \in suspended /\ Spawn("resume", k, suspended)
     \/ k \notin suspended /\ UNCHANGED <<inFlight, jobs>>
  /\ UNCHANGED <<disk, machine, up, session, suspended, tickers, drains, ctl, cli>>

\* The timeout has passed since the key's last activity.
GoQuiet(k) ==
  /\ up = "up" /\ record[k] = "active"
  /\ record' = [record EXCEPT ![k] = "quiet"]
  /\ UNCHANGED <<disk, machine, up, session, belief, tickers, drains, ctl, cli>>

\* The watcher dies: its memory and the datagrams sent to it are gone.  The
\* last-active times are restored from a file the tick saves, which may not know
\* a worktree yet.
Crash ==
  /\ "crash" \in Events /\ up = "up"
  /\ up' = "down" /\ session' = "off"
  /\ suspended' = {} /\ inFlight' = {} /\ jobs' = {}
  /\ tickers' = {} /\ drains' = {} /\ ctl' = <<>>
  /\ \E unsaved \in SUBSET Worktrees :
       record' = [k \in Keys |-> IF k \in unsaved THEN "none" ELSE record[k]]
  /\ UNCHANGED <<disk, machine, cli>>

\* StartIdle: newIdleEngine believes the lists that name no running worker and
\* drops the others; the flag on disk decides between a session and a drain.
Boot ==
  LET stale == {k \in Keys : list[k] \cap running[k] # {}}
  IN /\ up = "down" /\ up' = "up"
     /\ suspended' = {k \in Keys \ stale : list[k] # {}}
     /\ list' = [k \in Keys |-> IF k \in stale THEN {} ELSE list[k]]
     /\ \/ enabled = "on" /\ enableIdle /\ UNCHANGED drains
        \/ enabled = "off" /\ drains' = {NewDrain} /\ UNCHANGED <<session, record, tickers>>
     /\ UNCHANGED <<enabled, pinned, paused, declared, machine, inFlight, jobs, ctl, cli>>

-----------------------------------------------------------------------------
(* The CLI, in processes of its own. *)

\* `lerd idle on|off`: save the flag, then signal the watcher.
Toggle ==
  /\ toggles < MaxToggles
  /\ toggles' = toggles + 1
  /\ \E b \in {"on", "off"} :
       /\ enabled' = b
       /\ ctl' = IF up = "up" THEN Append(ctl, b) ELSE ctl
  /\ UNCHANGED <<list, pinned, paused, declared, machine, up, session, record, belief, tickers, drains,
                 starting, want>>

\* `lerd idle pin|unpin`.
Pin(s) ==
  /\ "pin" \in Events
  /\ pinned' = IF s \in pinned THEN pinned \ {s} ELSE pinned \cup {s}
  /\ UNCHANGED <<enabled, list, paused, declared, machine, cli>>

\* `lerd worker start`: the unit is up ...
UserStart(k) ==
  /\ "start" \in Events /\ Exists(k)
  /\ \E w \in WorkersOf[k] :
       /\ want' = [want EXCEPT ![k] = @ \cup {w}]
       /\ running' = [running EXCEPT ![k] = @ \cup {w}]
       /\ starting' = starting \cup {<<k, w>>}
  /\ UNCHANGED <<disk, checkouts, toggles>>

\* ... before ClearIdleSuspendOnStart takes it off the list.  .lerd.yaml is then
\* rewritten with the workers that have a unit, unless the site is paused.
Redeclared(s, units) == IF s \in paused THEN declared ELSE [declared EXCEPT ![s] = units]
UserStarted(k) ==
  \E w \in Workers :
    /\ <<k, w>> \in starting
    /\ starting' = starting \ {<<k, w>>}
    /\ list' = [list EXCEPT ![k] = @ \ {w}]
    /\ declared' = Redeclared(SiteOf(k), running[SiteOf(k)])
    /\ UNCHANGED <<enabled, pinned, paused, machine, toggles, want>>

\* The command dies in between, or an older lerd started the worker.
UserKilled ==
  /\ "kill" \in Events /\ starting # {}
  /\ starting' = {}
  /\ UNCHANGED <<disk, machine, toggles, want>>

\* `lerd worker stop`.
UserStop(k) ==
  /\ "stop" \in Events
  /\ \E w \in WorkersOf[k] :
       /\ want' = [want EXCEPT ![k] = @ \ {w}]
       /\ running' = [running EXCEPT ![k] = @ \ {w}]
       /\ declared' = Redeclared(SiteOf(k), IF k \in Sites THEN running'[k] ELSE running[SiteOf(k)])
  /\ UNCHANGED <<enabled, list, pinned, paused, checkouts, starting, toggles>>

\* What the user does to pins and workers by hand.
ByHand ==
  /\ \/ \E s \in Sites : Pin(s)
     \/ \E k \in Keys : UserStart(k) \/ UserStarted(k) \/ UserStop(k)
     \/ UserKilled
  /\ UNCHANGED watcher

\* A worktree is removed, its units with it.
RemoveWorktree(k) ==
  /\ "remove" \in Events /\ k \in checkouts
  /\ checkouts' = checkouts \ {k}
  /\ running' = [running EXCEPT ![k] = {}]
  /\ want' = [want EXCEPT ![k] = {}]
  /\ UNCHANGED <<disk, watcher, starting, toggles>>

-----------------------------------------------------------------------------
Watcher ==
  \/ \E j \in jobs : JobStep(j)
  \/ \E t \in tickers : TickStep(t)
  \/ \E d \in drains : DrainStep(d)
  \/ Dispatch

Environment ==
  \/ Crash \/ Boot \/ Toggle \/ ByHand
  \/ \E k \in Keys : Activity(k) \/ GoQuiet(k)
  \/ \E k \in Worktrees : RemoveWorktree(k)

Next == Watcher \/ Environment

Spec == Init /\ [][Next]_vars

\* Goroutines run, the ticker of a live session fires every 30 s, the control
\* socket is read, systemd restarts the watcher, a command that started a
\* worker goes on to its next line.
FairSpec ==
  /\ Spec
  /\ \A k \in Keys : WF_vars(\E j \in jobs : j.key = k /\ JobStep(j)) /\ WF_vars(UserStarted(k) /\ UNCHANGED watcher)
  /\ WF_vars(\E t \in tickers : t.ctx = "live" /\ TickStep(t))
  /\ WF_vars(\E t \in tickers : t.ctx = "cancelled" /\ TickStep(t))
  /\ WF_vars(\E d \in drains : DrainStep(d) /\ ~DrainGivesUp(d))
  /\ WF_vars(Dispatch) /\ WF_vars(Boot)
=============================================================================
