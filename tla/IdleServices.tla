---------------------------- MODULE IdleServices ----------------------------
(***************************************************************************)
(* Services that idle-suspend puts to sleep and wakes, in lerd-watcher     *)
(* (internal/watcher/idle_services.go over internal/cli/idle_services.go), *)
(* beside the commands of the user and lerd-ui, which are other processes. *)
(*                                                                         *)
(* Data.  One site stands for the sites using a service; "use" of a        *)
(* service sums up its own key and its sites'.  Needs stands for           *)
(* depends_on and the engines an admin tool administers, one level deep    *)
(* and without a second service that would satisfy the same need.  The     *)
(* file of sleeping services is read and written in a step each.           *)
(* Left out: refresh-admin-ui, which holds svcMu over no state of these,   *)
(* pins, the vhost refreshes of other commands, and a file of sleeping     *)
(* services that cannot be read, which the code takes for an empty one.    *)
(* The tick looks at its candidates in one step.                           *)
(* Bounds.  MaxUpsets of what upsets the engine: starts and stops that     *)
(* fail, crashes, commands of the user, passes of the automatic snapshots; *)
(* no request or tick while MaxWaiting jobs are yet to begin.              *)
(***************************************************************************)
EXTENDS Integers, FiniteSets

CONSTANTS
  Services,  \* installed services
  Needs,     \* the services each of them relies on
  SiteUses,  \* the services the site uses
  Asked,     \* the services somebody asks for by name: through a dashboard or a command
  MaxUpsets, \* bound: failures, crashes, commands, passes of snapshots
  MaxWaiting \* bound: jobs yet to begin when a request comes in

ASSUME ServicesAssumption == IsFiniteSet(Services)
ASSUME NeedsAssumption ==
  /\ Needs \in [Services -> SUBSET Services]
  /\ \A s \in Services : \A n \in Needs[s] : Needs[n] = {}
ASSUME UsesAssumption == SiteUses \subseteq Services /\ Asked \subseteq Services
ASSUME BoundsAssumption == MaxUpsets \in Nat /\ MaxWaiting \in Nat

VARIABLES
  flag,      \* idle-suspended-services.yaml
  running,   \* services whose unit is up
  by,        \* history: who put a service down: "none", "engine", "user" or "lost"
  vhost,     \* the site's vhost, "real" or "waking"; and when it is known to be wrong: "stuck"
             \* is a waking page no one is left to take down, "late" the real vhost put back over
             \* the page of a suspend under way, "bare" the real one, as no page could be written
  on,        \* idle-suspend is on for services
  use,       \* the keys of a service and its sites: "active", or "quiet" past the timeout
  up,        \* the watcher process
  sleeping,  \* e.sleeping
  inFlight,  \* e.inFlight, the services' keys of it
  known,     \* services with an entry in e.svcKeys
  jobs,      \* goroutines of the engine: suspend-svc, wake-svc, release-svc and briefs
  tick,      \* the tick
  snap,      \* the sleeping services a snapshot pass has still to start
  cli,       \* a `lerd service stop` under way
  upsets     \* bound: upsets so far

host == <<flag, running, by, vhost>>
memory == <<sleeping, inFlight, known>>
engine == <<up, memory, jobs, tick, snap>>
vars == <<host, on, use, engine, cli, upsets>>

NewTick == [pc |-> "wait", names |-> {}, wake |-> {}, sleep |-> {}]
NoStop == [pc |-> "none", svc |-> {}, seen |-> {}]

Upset == upsets < MaxUpsets /\ upsets' = upsets + 1

Init ==
  /\ flag = {} /\ running = Services /\ by = [s \in Services |-> "none"] /\ vhost = "real"
  /\ on = "on" /\ use = [s \in Services |-> "active"]
  /\ up = "up" /\ sleeping = {} /\ inFlight = {} /\ known = {} /\ jobs = {}
  /\ tick = NewTick /\ snap = {} /\ cli = NoStop
  /\ upsets = 0

Dependents(s) == {d \in Services : s \in Needs[d]}
\* StopWithDependents and wakeService, of one service.
Downed(s) == {s} \cup Dependents(s)
Raised(s) == {s} \cup Needs[s]

\* serviceKeys and minIdle: a service inherits the keys of what relies on it.
InUse(s) == \E k \in Downed(s) : use[k] = "active"

-----------------------------------------------------------------------------
(* The engine's jobs.  svcMu is held by the job that is past its lock; two     *)
(* wakes of the same names that wait for it are one.                           *)

NewJob(kind, names) ==
  [kind |-> kind, names |-> names, pc |-> "lock", todo |-> names, cur |-> {}, group |-> {},
   pend |-> {}, seen |-> {}, done |-> {}]
Spawn(kind, names) == IF names = {} THEN {} ELSE {NewJob(kind, names)}
To(j, k) == jobs' = (jobs \ {j}) \cup {k}
Ends(j) == jobs' = jobs \ {j}

\* A mutated form gives svcMu back before a suspend is out of inFlight.
HoldsUntilMarked(j) == j.kind # "release" /\ j.pc \notin {"lock", "clear"}
Holds(j) == j.kind # "release" /\ j.pc # "lock" /\ ~(j.kind = "brief" /\ j.pc = "clear")
MuFree == \A j \in jobs : ~Holds(j)

\* asleepOf: what is flagged, or mid-suspend, is to be woken; what the user has
\* stopped since is let go.
Asleep(names) == names \cap (sleeping \cup inFlight)
Released(names) == {n \in Asleep(names) : n \notin inFlight /\ n \notin flag}
ToWake(names) == Asleep(names) \ Released(names)

\* wakeServicesAsync.
WakeAsync(names) ==
  /\ sleeping' = sleeping \ Released(names)
  /\ jobs' = jobs \cup Spawn("wake", ToWake(names)) \cup Spawn("release", Released(names))

\* RestoreSitesAfterServiceWake, unless the site waits on another sleeping service.
\* A release does it without svcMu: a suspend may be between its waking page and its
\* flag.  A write that fails is only warned about.
Waits == flag \cap SiteUses # {}
Swapping == \E k \in jobs : k.kind = "suspend" /\ k.cur \cap SiteUses # {}
Restored == IF Swapping /\ vhost # "real" THEN "late" ELSE "real"
RestoreSite(names) ==
  \/ (names \cap SiteUses = {} \/ Waits) /\ UNCHANGED <<vhost, upsets>>
  \/ names \cap SiteUses # {} /\ ~Waits /\ vhost' = Restored /\ UNCHANGED upsets
  \/ names \cap SiteUses # {} /\ ~Waits /\ Upset /\ vhost' = IF vhost = "waking" THEN "stuck" ELSE vhost

\* Who is still to take the page down: a tick or a wake, of what is asleep; a job.
Looks(j) ==
  \/ j.kind = "release" /\ j.names \cap SiteUses # {}
  \/ j.kind = "wake" /\ j.pc \in {"start", "read", "write"} /\ j.names \cap SiteUses # {}
  \/ /\ j.kind = "suspend" /\ j.pc # "clear"
     /\ (j.todo \cup j.cur \cup j.done) \cap SiteUses # {} \/ (j.pc \in {"read", "write"} /\ j.cur = {})
Watched(asleep, working) == asleep \cap SiteUses # {} \/ \E j \in working : Looks(j)
\* The page after a step that may leave it to nobody.
Page(asleep, working) == IF vhost = "waking" /\ ~Watched(asleep, working) THEN "stuck" ELSE vhost

ReleaseSvc(j) ==
  /\ j.kind = "release"
  /\ RestoreSite(j.names)
  /\ Ends(j)
  /\ UNCHANGED <<flag, running, by, memory, use>>

\* SetIdleSuspended, name by name: serviceSetUpdate reads the file ...
ReadSet(j) ==
  /\ j.pc = "read" /\ j.pend # {}
  /\ To(j, [j EXCEPT !.seen = flag, !.pc = "write"])
  /\ UNCHANGED <<host, memory, upsets, use>>

\* ... and writes it back.  What another process wrote in between is undone: the
\* services it changes beside its own are lost.
Undone(seen, n) == [s \in Services |-> IF s # n /\ (s \in seen) # (s \in flag) THEN "lost" ELSE by[s]]
Setting(j) == j.kind = "suspend" /\ j.cur # {}
Wrote(j, n) == [j EXCEPT !.pend = @ \ {n}, !.seen = {}, !.pc = "read"]
WriteSet(j) ==
  /\ j.pc = "write"
  /\ \E n \in j.pend :
       /\ flag' = IF Setting(j) THEN j.seen \cup {n} ELSE j.seen \ {n}
       /\ by' = [Undone(j.seen, n) EXCEPT ![n] = IF ~Setting(j) /\ n \in running THEN "none" ELSE @]
       /\ To(j, Wrote(j, n))
  /\ vhost' = IF flag \subseteq j.seen THEN vhost ELSE Page(flag' \cup sleeping, jobs')
  /\ UNCHANGED <<running, memory, upsets, use>>

\* An error of the write is ignored: a suspend goes on to stop what it has not flagged.
WriteFails(j) ==
  /\ j.pc = "write" /\ Upset
  /\ \E n \in j.pend :
       /\ by' = [by EXCEPT ![n] = IF @ = "engine" /\ n \notin flag THEN "none" ELSE @]
       /\ To(j, Wrote(j, n))
  /\ UNCHANGED <<flag, running, vhost, memory, use>>

\* Whose services are.  A suspend owns what it is going to flag; what has been
\* started since, and is put down without a flag, is lost.  What is lost and flagged,
\* by a write that brought the flag back, stays so until a suspend takes it anew.
Stray(s) == by[s] = "lost" /\ s \in flag
Become(names, whose) ==
  [s \in Services |-> IF s \in names /\ (Stray(s) => whose = "engine") THEN whose ELSE by[s]]
Raise(names) == running' = running \cup names /\ by' = Become(names, "none")
PutDown(names) ==
  [s \in Services |-> IF s \in names \cap running /\ by[s] = "none"
                      THEN IF s \in flag THEN "engine" ELSE "lost" ELSE by[s]]

-----------------------------------------------------------------------------
(* suspend-svc: SuspendServicesForIdle for a batch. *)

\* Begins under svcMu, or goes on.
MayRun(j) == IF j.pc = "lock" THEN MuFree ELSE j.pc = "next"

\* suspendServiceForIdle: the waking page for its sites, a failure of which is only
\* warned about, then the flags ...
NextService(j) ==
  /\ j.kind = "suspend" /\ MayRun(j)
  /\ \E s \in j.todo :
       /\ \/ vhost' = (IF s \in SiteUses THEN "waking" ELSE vhost) /\ UNCHANGED upsets
          \/ s \in SiteUses /\ Upset /\ vhost' = IF vhost \in {"waking", "stuck"} THEN vhost ELSE "bare"
       /\ LET group == {s} \cup (Dependents(s) \cap running)
          IN /\ by' = Become(group \cap running, "engine")
             /\ To(j, [j EXCEPT !.todo = @ \ {s}, !.cur = {s}, !.group = group, !.pend = group, !.pc = "read"])
  /\ UNCHANGED <<flag, running, memory, use>>

\* ... and the stop of it and its dependents.
\* A mutated form stops first.
Unmarked(j) == j.kind = "suspend" /\ j.pc = "read" /\ j.cur # {}
Flagged(j) == j.kind = "suspend" /\ j.pc = "read" /\ j.pend = {} /\ j.cur # {}
StopSlept(j) ==
  /\ Flagged(j)
  /\ \E s \in j.cur :
       /\ running' = running \ Downed(s)
       /\ by' = PutDown(Downed(s))
       /\ To(j, [j EXCEPT !.pc = "next", !.cur = {}, !.group = {}, !.done = @ \cup j.group])
  /\ UNCHANGED <<flag, vhost, memory, upsets, use>>

\* A unit's stop upsets, the others' do not; the flags are taken back.  What is
\* down now is nobody's, and no one takes the waking page down.
StopFails(j) ==
  /\ Flagged(j) /\ Upset
  /\ \E s \in j.cur :
       /\ \E failing \in Downed(s) \cap running :
            /\ running' = running \ (Downed(s) \ {failing})
            /\ by' = Become({d \in Downed(s) \ {failing} : by[d] # "user"}, "lost")
       /\ To(j, [j EXCEPT !.cur = {}, !.group = {}, !.pend = j.group])
  /\ UNCHANGED <<flag, vhost, memory, use>>

Unflagged(j) ==
  /\ j.kind = "suspend" /\ j.pc = "read" /\ j.pend = {} /\ j.cur = {}
  /\ To(j, [j EXCEPT !.pc = "next"])
  /\ vhost' = Page(flag \cup sleeping, jobs')
  /\ UNCHANGED <<flag, running, by, memory, upsets, use>>

MarkSlept(j) ==
  /\ j.kind = "suspend" /\ j.pc = "next" /\ j.todo = {}
  /\ sleeping' = sleeping \cup j.done
  /\ To(j, [j EXCEPT !.pc = "clear"])
  /\ UNCHANGED <<host, inFlight, known, upsets, use>>

\* The deferred clearInFlight; svcMu goes with the job.  A mutated form forgets it.
NotCleared(j) == inFlight
Cleared(j) == inFlight \ j.names
ClearSuspend(j) ==
  /\ j.kind = "suspend" /\ j.pc = "clear"
  /\ inFlight' = Cleared(j)
  /\ Ends(j)
  /\ UNCHANGED <<host, sleeping, known, upsets, use>>

-----------------------------------------------------------------------------
(* wake-svc: wakeServicesNow over WakeServicesForIdle. *)

\* asleepOf again, under svcMu.
LockWake(j) ==
  /\ j.kind = "wake" /\ j.pc = "lock" /\ MuFree
  /\ LET names == ToWake(j.names)
         woken == IF names = {} THEN {} ELSE {[j EXCEPT !.pc = "start", !.names = names, !.todo = names]}
     IN /\ sleeping' = sleeping \ Released(j.names)
        /\ jobs' = (jobs \ {j}) \cup woken \cup Spawn("release", Released(j.names))
  /\ UNCHANGED <<host, inFlight, known, upsets, use>>

\* WakeService, the services side by side; then the flags of those it started.  One
\* that fails may have started what its service needs, or a service that is not ready.
\* A mutated form leaves them.
LeaveFlags(started) == {}
ToUnflag(started) == started
Started(j, s, ok) ==
  LET done == j.done \cup ok
      last == j.todo = {s}
  IN [j EXCEPT !.todo = @ \ {s}, !.done = done, !.pc = IF last THEN "read" ELSE @,
               !.pend = IF last THEN ToUnflag(done) ELSE {}]
StartWoken(j) ==
  /\ j.kind = "wake" /\ j.pc = "start"
  /\ \E s \in j.todo :
       \/ /\ Raise(Raised(s))
          /\ To(j, Started(j, s, {s}))
          /\ UNCHANGED upsets
       \/ /\ Upset
          /\ \E raised \in {{}, Needs[s], Raised(s)} : Raise(raised)
          /\ To(j, Started(j, s, {}))
  /\ UNCHANGED <<flag, vhost, memory, use>>

RestoreSites(j) ==
  /\ j.kind = "wake" /\ j.pc = "read" /\ j.pend = {}
  /\ RestoreSite(j.names)
  /\ To(j, [j EXCEPT !.pc = "mark", !.seen = flag])
  /\ UNCHANGED <<flag, running, by, memory, use>>

\* A wake is use; what could not be woken stays asleep.  What the site waited on and
\* the user has let go since, no tick finds gone any more.
MarkWoken(j) ==
  /\ j.kind = "wake" /\ j.pc = "mark"
  /\ use' = [s \in Services |-> IF s \in j.names THEN "active" ELSE use[s]]
  /\ sleeping' = (sleeping \ j.names) \cup (j.names \cap flag)
  /\ Ends(j)
  /\ vhost' = IF j.seen \cap SiteUses = {} THEN vhost ELSE Page(flag \cup sleeping', jobs')
  /\ UNCHANGED <<flag, running, by, inFlight, known, upsets>>

-----------------------------------------------------------------------------
(* withServiceBriefly, for a snapshot of a service that sleeps. *)

StartBrief(j) ==
  /\ j.kind = "brief" /\ j.pc = "lock" /\ MuFree
  /\ \/ \E s \in j.names :
          /\ running' = running \cup Raised(s)
          /\ by' = Become(Needs[s], "none")
          /\ To(j, [j EXCEPT !.pc = "stop"])
          /\ UNCHANGED upsets
     \/ /\ Upset
        /\ To(j, [j EXCEPT !.pc = "clear"])
        /\ UNCHANGED <<running, by>>
  /\ UNCHANGED <<flag, vhost, memory, use>>

\* The stop, which may fail.  It may hit what is not flagged: a service woken before
\* the brief had svcMu, a dependent that was up.
StopBrief(j) ==
  /\ j.kind = "brief" /\ j.pc = "stop"
  /\ To(j, [j EXCEPT !.pc = "clear"])
  /\ \/ \E s \in j.names :
          /\ running' = running \ Downed(s)
          /\ by' = PutDown(Downed(s))
          /\ UNCHANGED upsets
     \/ /\ Upset
        /\ UNCHANGED <<running, by>>
  /\ UNCHANGED <<flag, vhost, memory, use>>

\* The deferred clearInFlight runs after svcMu was given back.
ClearBrief(j) ==
  /\ j.kind = "brief" /\ j.pc = "clear"
  /\ inFlight' = Cleared(j)
  /\ Ends(j)
  /\ UNCHANGED <<host, sleeping, known, upsets, use>>

Suspend(j) ==
  \/ NextService(j) \/ StopSlept(j) \/ StopFails(j) \/ Unflagged(j) \/ MarkSlept(j)
  \/ ClearSuspend(j)
Wake(j) == LockWake(j) \/ StartWoken(j) \/ RestoreSites(j) \/ MarkWoken(j)
Brief(j) == StartBrief(j) \/ StopBrief(j) \/ ClearBrief(j)
JobStep(j) ==
  /\ Suspend(j) \/ Wake(j) \/ Brief(j) \/ ReleaseSvc(j) \/ ReadSet(j) \/ WriteSet(j) \/ WriteFails(j)
  /\ UNCHANGED <<on, up, tick, snap, cli>>

-----------------------------------------------------------------------------
(* The tick: tickServices.  Whether the feature is on is read first. *)

MayAsk == up = "up" /\ Cardinality({j \in jobs : j.pc = "lock"}) < MaxWaiting
TickRead ==
  /\ MayAsk /\ tick.pc = "wait"
  /\ tick' = [tick EXCEPT !.pc = on, !.names = flag]
  /\ UNCHANGED <<host, on, use, up, memory, jobs, snap, cli, upsets>>

\* A service asleep but up was started behind the engine's back.  A mutated form
\* of the keys forgets those of what relies on a service.
Stale(s) == s \in flag \cap running
OwnKeyOnly(s) == use[s] = "active"
KeptAwake(s) == InUse(s)

\* syncSleeping: a flag cleared behind the engine's back has its page taken down, but
\* for a service in flight.  A mutated form does so for none.
Gone == sleeping \ tick.names
NoneReleased == {}
ReleasedByTick == Gone \ inFlight

\* And the candidates: what runs and what sleeps.
TickLook ==
  /\ tick.pc \in {"on", "off"}
  /\ sleeping' = tick.names
  /\ jobs' = jobs \cup Spawn("release", ReleasedByTick)
  /\ vhost' = IF Gone \cap inFlight \cap SiteUses = {} THEN vhost ELSE Page(flag \cup tick.names, jobs')
  /\ LET candidates == (running \cup tick.names) \ inFlight
     IN IF tick.pc = "off"
        THEN known' = known /\ tick' = [tick EXCEPT !.pc = "act", !.names = {}, !.wake = tick.names]
        ELSE /\ known' = known \cup running \cup tick.names
             /\ tick' = [pc |-> "act", names |-> {},
                  wake |-> {s \in candidates \cap tick.names : Stale(s) \/ KeptAwake(s)},
                  sleep |-> {s \in candidates \ tick.names : ~KeptAwake(s)}]
  /\ UNCHANGED <<flag, running, by, on, use, up, inFlight, snap, cli, upsets>>

\* suspendServicesAsync and wakeServicesAsync.
TickAct ==
  /\ tick.pc = "act"
  /\ LET batch == tick.sleep \ inFlight
     IN /\ inFlight' = inFlight \cup batch
        /\ sleeping' = sleeping \ Released(tick.wake)
        /\ jobs' = jobs \cup Spawn("suspend", batch) \cup Spawn("wake", ToWake(tick.wake))
                        \cup Spawn("release", Released(tick.wake))
  /\ tick' = NewTick
  /\ UNCHANGED <<host, on, use, up, known, snap, cli, upsets>>

Tick == TickRead \/ TickLook \/ TickAct

-----------------------------------------------------------------------------
(* Requests that reach the watcher, and the clock. *)

\* activity on a service's own key: its dashboard, a client that waits for it.
DashRequest(s) ==
  /\ MayAsk /\ s \in Asked
  /\ use' = [use EXCEPT ![s] = "active"]
  /\ WakeAsync({s})
  /\ UNCHANGED <<host, on, up, inFlight, known, tick, snap, cli, upsets>>

\* activity on the site's key: sleepingFor looks through the keys the ticks left.
SiteRequest ==
  /\ MayAsk
  /\ use' = [s \in Services |-> IF s \in SiteUses THEN "active" ELSE use[s]]
  /\ WakeAsync({s \in known : Downed(s) \cap SiteUses # {}})
  /\ UNCHANGED <<host, on, up, inFlight, known, tick, snap, cli, upsets>>

GoQuiet(s) ==
  /\ use[s] = "active"
  /\ use' = [use EXCEPT ![s] = "quiet"]
  /\ UNCHANGED <<host, on, engine, cli, upsets>>

-----------------------------------------------------------------------------
(* Other processes: the lerd command and lerd-ui. *)

\* lerd service stop: the unit and its dependents first ...
UserStop(s) ==
  /\ Upset /\ cli = NoStop
  /\ running' = running \ Downed(s)
  /\ by' = Become({s} \cup (Downed(s) \cap running), "user")
  /\ cli' = [pc |-> "read", svc |-> {s}, seen |-> {}]
  /\ UNCHANGED <<flag, vhost, on, use, engine>>

\* ... then its flag.  A page the engine knows nothing of, as its tick read the file
\* before the flag was there, is left to nobody.
UserReads ==
  /\ cli.pc = "read"
  /\ cli' = [cli EXCEPT !.pc = "write", !.seen = flag]
  /\ UNCHANGED <<host, on, use, engine, upsets>>

UserWrites ==
  /\ cli.pc = "write"
  /\ flag' = cli.seen \ cli.svc
  /\ \E s \in cli.svc : by' = [Undone(cli.seen, s) EXCEPT ![s] = IF @ = "engine" THEN "user" ELSE @]
  /\ vhost' = Page(flag' \cup sleeping, jobs)
  /\ cli' = NoStop
  /\ UNCHANGED <<running, on, use, engine, upsets>>

\* A start that does not ask the watcher: the service comes up, its flag stays.
StartBehind(s) ==
  /\ Upset /\ s \notin running
  /\ Raise(Raised(s))
  /\ UNCHANGED <<flag, vhost, on, use, engine, cli>>

Off ==
  /\ Upset /\ on = "on"
  /\ on' = "off"
  /\ UNCHANGED <<host, use, engine, cli>>

-----------------------------------------------------------------------------
(* runAutoSnapshots: the engines that are down but flagged are noted, and each *)
(* is later started for its dump.                                             *)

SnapCollect ==
  /\ Upset /\ up = "up" /\ snap = {}
  /\ \A j \in jobs : j.kind # "brief"
  /\ snap' = flag \ running
  /\ UNCHANGED <<host, on, use, up, memory, jobs, tick, cli>>

\* withServiceBriefly: a service in flight is skipped.  The passes are sequential.
SnapBrief(s) ==
  /\ s \in snap
  /\ \A j \in jobs : j.kind # "brief"
  /\ snap' = snap \ {s}
  /\ IF s \in inFlight THEN UNCHANGED <<inFlight, jobs>>
     ELSE inFlight' = inFlight \cup {s} /\ jobs' = jobs \cup {NewJob("brief", {s})}
  /\ UNCHANGED <<host, on, use, up, sleeping, known, tick, cli, upsets>>

-----------------------------------------------------------------------------
(* The watcher is killed, and started again. *)

Crash ==
  /\ Upset /\ up = "up"
  /\ up' = "down"
  /\ by' = Become({s \in running : by[s] = "engine"}, "none")
  /\ sleeping' = {} /\ inFlight' = {} /\ known' = {} /\ jobs' = {}
  /\ tick' = NewTick /\ snap' = {}
  /\ UNCHANGED <<flag, running, vhost, on, use, cli>>

\* newIdleEngine.  A page no flag stands for has no one left to take it down.
Boot ==
  /\ up = "down"
  /\ up' = "up" /\ sleeping' = flag
  /\ vhost' = Page(flag, jobs)
  /\ UNCHANGED <<flag, running, by, on, use, inFlight, known, jobs, tick, snap, cli, upsets>>

User == UserReads \/ UserWrites \/ \E s \in Services : UserStop(s)
Requests == SiteRequest \/ \E s \in Services : DashRequest(s) \/ GoQuiet(s) \/ StartBehind(s)
Snapshots == SnapCollect \/ \E s \in Services : SnapBrief(s)

Next ==
  \/ \E j \in jobs : JobStep(j)
  \/ Tick \/ User \/ Requests \/ Snapshots
  \/ Off \/ Crash \/ Boot

Spec == Init /\ [][Next]_vars

\* Goroutines run, the ticker ticks, systemd restarts the watcher and a command
\* under way ends; nobody has to make a request, stop or start a service.
Fairness ==
  /\ \A kind \in {"suspend", "wake", "release", "brief"} :
       WF_vars(\E j \in jobs : j.kind = kind /\ JobStep(j))
  /\ WF_vars(Tick) /\ WF_vars(Boot)
  /\ WF_vars(UserReads \/ UserWrites) /\ WF_vars(\E s \in Services : SnapBrief(s))
FairSpec == Spec /\ Fairness
=============================================================================
