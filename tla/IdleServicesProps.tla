------------------------- MODULE IdleServicesProps -------------------------
(***************************************************************************)
(* What putting services to sleep must keep true.                          *)
(***************************************************************************)
EXTENDS IdleServices

Job == [kind : {"suspend", "wake", "release", "brief"}, names : SUBSET Services,
        pc : {"lock", "next", "read", "write", "start", "stop", "mark", "clear"},
        todo : SUBSET Services, cur : SUBSET Services, group : SUBSET Services,
        pend : SUBSET Services, seen : SUBSET Services, done : SUBSET Services]

\* Type invariant: of idleEngine's maps, its jobs and the file beside it.
TypeOK ==
  /\ flag \in SUBSET Services /\ running \in SUBSET Services
  /\ by \in [Services -> {"none", "engine", "user", "lost"}]
  /\ vhost \in {"real", "waking", "stuck", "late", "bare"} /\ on \in {"on", "off"}
  /\ use \in [Services -> {"active", "quiet"}]
  /\ up \in {"up", "down"}
  /\ sleeping \in SUBSET Services /\ inFlight \in SUBSET Services /\ known \in SUBSET Services
  /\ jobs \subseteq Job
  /\ tick \in [pc : {"wait", "on", "off", "act"}, names : SUBSET Services,
               wake : SUBSET Services, sleep : SUBSET Services]
  /\ snap \in SUBSET Services
  /\ cli \in [pc : {"none", "read", "write"}, svc : SUBSET Services, seen : SUBSET Services]
  /\ upsets \in 0..MaxUpsets

\* A service that is down because the engine put it to sleep is in the file, at every
\* step a watcher may be killed at (suspendServiceForIdle flags it first); but for
\* what `lost` stands for.
AsleepIsRemembered == \A s \in Services \ running : by[s] = "engine" => s \in flag

\* A wake takes up what is flagged asleep, and nothing else: not what an earlier wake
\* has already woken, nor what the user has stopped since (asleepOf looks again under
\* svcMu, and a suspend leaves inFlight before it gives svcMu back).  Except for a
\* service a suspend or a brief is still to take, or a brief has not let go of.
Takes(s) == \E j \in jobs : j.kind = "wake" /\ j.pc = "start" /\ s \in j.names
Claimed(s) == \E j \in jobs : j.kind \in {"suspend", "brief"} /\ s \in j.names
                             /\ (j.pc = "lock" \/ j.kind = "brief")
WakesOnlyAsleep ==
  [][\A s \in Services : Takes(s)' /\ ~Takes(s) => s \in flag \/ Claimed(s)]_vars

\* With everything at rest, a site with a sleeping service has the waking page, which
\* is what wakes it, and one that waits on none has its own vhost back, whoever ended
\* the sleep: a wake, or a `lerd service stop` that the engine finds out about later
\* (suspendServiceForIdle, RestoreSitesAfterServiceWake, syncSleeping).  Except when a
\* write of the vhost failed or nobody was left to look at it ("bare", "stuck", "late").
AtRest == up = "up" /\ jobs = {} /\ tick = NewTick /\ cli = NoStop /\ sleeping = flag
PageMatches ==
  AtRest =>
    /\ (\E s \in SiteUses \ running : by[s] = "engine") => vhost # "real"
    /\ ~Waits => vhost # "waking"

\* A sleeping service that is used, itself or by what relies on it, is woken.
WakesWhenUsed == \A s \in Services : (s \in flag /\ InUse(s)) ~> (s \notin flag \/ ~InUse(s))

\* A service nothing uses any more goes to sleep.
SleepsWhenUnused ==
  \A s \in Services : <>[](on = "on" /\ ~InUse(s)) => []<>(s \notin running)

\* Switched off, idle-suspend lets go of every service.
WakesWhenOff == on = "off" ~> flag = {}
=============================================================================
