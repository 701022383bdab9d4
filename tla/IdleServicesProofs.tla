------------------------- MODULE IdleServicesProofs -------------------------
(***************************************************************************)
(* For any services, needs and sites, any number of failures, crashes and  *)
(* commands and any number of jobs that wait: a service the engine has put *)
(* to sleep is in the file, a wake takes up only what is asleep, and at    *)
(* rest a site has the waking page when it is to have it, and only then.   *)
(***************************************************************************)
EXTENDS IdleServicesProps, TLAPS

\* One job at a time holds svcMu.
OneHolds == \A j, k \in jobs : Holds(j) /\ Holds(k) => j = k

\* The points a job of each kind passes, and what a suspend has in hand.
Points(kind) ==
  CASE kind = "suspend" -> {"lock", "next", "read", "write", "clear"}
    [] kind = "wake"    -> {"lock", "start", "read", "write", "mark"}
    [] kind = "brief"   -> {"lock", "stop", "clear"}
    [] kind = "release" -> {"lock"}
Working(j) == j.pc \in {"read", "write"}
Shape(j) ==
  /\ j.pc \in Points(j.kind)
  /\ j.kind # "suspend" => j.cur = {}
  /\ j.pc \in {"lock", "next"} => j.cur = {}
  /\ j.pc = "lock" => j.done = {}
  /\ j.cur # {} => \E s \in Services : j.cur = {s} /\ j.group \subseteq Downed(s)
Shapes == \A j \in jobs : Shape(j)

\* What the engine owns is flagged, or still up and about to be flagged.
Claims(j, s) == Setting(j) /\ Working(j) /\ s \in j.pend /\ s \in running
Mine == \A s \in Services : by[s] = "engine" => s \in flag \/ \E j \in jobs : Claims(j, s)

\* What a job is going to unflag is up, or down on somebody else's account.
Unflags(j) == IF Working(j) /\ ~Setting(j) THEN j.pend
              ELSE IF j.kind = "wake" /\ j.pc = "start" THEN j.done ELSE {}
Up(n) == n \in running \/ by[n] # "engine"
Owed == \A j \in jobs : \A n \in Unflags(j) : Up(n)

\* A `lerd service stop` is of one service.
OneStop == \A a, b \in cli.svc : a = b

Rest == OneHolds /\ Shapes /\ Mine /\ Owed /\ OneStop

USE NeedsAssumption, UsesAssumption, BoundsAssumption

-----------------------------------------------------------------------------

LEMMA NewJobIsJob ==
  ASSUME NEW kind \in {"suspend", "wake", "release", "brief"}, NEW names \in SUBSET Services
  PROVE  NewJob(kind, names) \in Job /\ Spawn(kind, names) \in SUBSET Job
BY DEF NewJob, Spawn, Job

\* A job that goes on is a job.
LEMMA ToIsJob ==
  ASSUME jobs \in SUBSET Job, NEW j \in jobs, NEW k \in Job, To(j, k)
  PROVE  jobs' \in SUBSET Job
BY DEF To

LEMMA InitType == Init => TypeOK
BY DEF Init, TypeOK, NewTick, NoStop

LEMMA JobStepType ==
  ASSUME TypeOK, NEW j \in jobs, JobStep(j)
  PROVE  TypeOK'
<1>0. j \in Job BY DEF TypeOK
<1> USE DEF To, Ends, Job, host, memory, Upset
<1>1. CASE NextService(j)
  <2>1. by' \in [Services -> {"none", "engine", "user", "lost"}]
    BY <1>1 DEF NextService, TypeOK, Become
  <2>2. jobs' \subseteq Job
    <3>1. PICK s \in j.todo : To(j, [j EXCEPT !.todo = @ \ {s}, !.cur = {s},
                                 !.group = {s} \cup (Dependents(s) \cap running),
                                 !.pend = {s} \cup (Dependents(s) \cap running), !.pc = "read"])
      BY <1>1 DEF NextService
    <3>2. s \in Services /\ {s} \cup (Dependents(s) \cap running) \in SUBSET Services
      BY <1>0, <3>1 DEF Dependents
    <3> DEFINE group == {s} \cup (Dependents(s) \cap running)
    <3> HIDE DEF group
    <3>3. [j EXCEPT !.todo = @ \ {s}, !.cur = {s}, !.group = group, !.pend = group, !.pc = "read"] \in Job
      BY <1>0, <3>2 DEF group
    <3> QED BY <3>1, <3>3, ToIsJob DEF TypeOK, group
  <2>3. vhost' \in {"real", "waking", "stuck", "late", "bare"} /\ upsets' \in 0 .. MaxUpsets
    BY <1>1 DEF NextService, TypeOK
  <2> QED BY <1>1, <2>1, <2>2, <2>3 DEF NextService, TypeOK, JobStep
<1>2. CASE StopSlept(j)
  <2>1. by' \in [Services -> {"none", "engine", "user", "lost"}]
    BY <1>2 DEF StopSlept, TypeOK, PutDown
  <2>2. jobs' \subseteq Job
    <3>1. [j EXCEPT !.pc = "next", !.cur = {}, !.group = {}, !.done = @ \cup j.group] \in Job
      BY <1>0
    <3> QED BY <1>2, <3>1, ToIsJob DEF StopSlept, TypeOK
  <2> QED BY <1>2, <2>1, <2>2 DEF StopSlept, TypeOK, JobStep
<1>3. CASE StopFails(j)
  <2>1. by' \in [Services -> {"none", "engine", "user", "lost"}]
    BY <1>3 DEF StopFails, TypeOK, Become
  <2>2. jobs' \subseteq Job
    <3>1. [j EXCEPT !.cur = {}, !.group = {}, !.pend = j.group] \in Job
      BY <1>0
    <3> QED BY <1>3, <3>1, ToIsJob DEF StopFails, TypeOK
  <2> QED BY <1>3, <2>1, <2>2 DEF StopFails, TypeOK, JobStep
<1>4. CASE Unflagged(j)
  BY <1>0, <1>4 DEF Unflagged, TypeOK, JobStep, Page
<1>5. CASE MarkSlept(j)
  BY <1>0, <1>5 DEF MarkSlept, TypeOK, JobStep
<1>6. CASE ClearSuspend(j)
  BY <1>0, <1>6 DEF ClearSuspend, TypeOK, JobStep, Cleared
<1>7. CASE LockWake(j)
  <2>1. Released(j.names) \in SUBSET Services /\ ToWake(j.names) \in SUBSET Services
    BY <1>0 DEF Released, ToWake, Asleep, TypeOK
  <2>2. Spawn("release", Released(j.names)) \in SUBSET Job
    BY <2>1, NewJobIsJob
  <2> DEFINE names == ToWake(j.names)
  <2> HIDE DEF names
  <2>3. names \in SUBSET Services BY <2>1 DEF names
  <2>4. [j EXCEPT !.pc = "start", !.names = names, !.todo = names] \in Job
    BY <1>0, <2>3
  <2>5. jobs' \subseteq (jobs \cup {[j EXCEPT !.pc = "start", !.names = names, !.todo = names]})
                       \cup Spawn("release", Released(j.names))
    BY <1>7 DEF LockWake, names
  <2>6. jobs' \subseteq Job BY <2>2, <2>4, <2>5 DEF TypeOK
  <2> QED BY <1>7, <2>6 DEF LockWake, TypeOK, JobStep
<1>8. CASE StartWoken(j)
  <2>1. by' \in [Services -> {"none", "engine", "user", "lost"}] /\ running' \in SUBSET Services
    <3>1. PICK raised \in SUBSET Services : Raise(raised)
      BY <1>0, <1>8 DEF StartWoken, Raised
    <3> QED BY <3>1 DEF TypeOK, Raise, Become
  <2>2. jobs' \subseteq Job
    <3>1. PICK s \in j.todo : \E ok \in {{s}, {}} : To(j, Started(j, s, ok))
      BY <1>8 DEF StartWoken
    <3>2. \A ok \in {{s}, {}} : Started(j, s, ok) \in Job
      <4> TAKE ok \in {{s}, {}}
      <4> DEFINE done == j.done \cup ok
      <4>1. done \in SUBSET Services BY <1>0, <3>1
      <4> HIDE DEF done
      <4>2. CASE j.todo = {s}
        <5>1. Started(j, s, ok) = [j EXCEPT !.todo = @ \ {s}, !.done = done, !.pc = "read", !.pend = done]
          BY <4>2 DEF Started, ToUnflag, done
        <5>2. [j EXCEPT !.todo = @ \ {s}, !.done = done, !.pc = "read", !.pend = done] \in Job
          BY <1>0, <4>1
        <5> QED BY <5>1, <5>2
      <4>3. CASE j.todo # {s}
        <5>2. [j EXCEPT !.todo = @ \ {s}, !.done = done, !.pend = {}] \in Job
          BY <1>0, <4>1
        <5>3. Started(j, s, ok) = [j EXCEPT !.todo = @ \ {s}, !.done = done, !.pend = {}]
          BY <1>0, <4>3 DEF Started, ToUnflag, done
        <5> QED BY <5>2, <5>3
      <4> QED BY <4>2, <4>3
    <3> QED BY <3>1, <3>2, ToIsJob DEF TypeOK
  <2>3. vhost' = vhost /\ upsets' \in 0 .. MaxUpsets
    BY <1>8 DEF StartWoken, TypeOK
  <2> QED BY <1>8, <2>1, <2>2, <2>3 DEF StartWoken, TypeOK, JobStep
<1>9. CASE RestoreSites(j)
  <2>1. [j EXCEPT !.pc = "mark", !.seen = flag] \in Job
    BY <1>0 DEF TypeOK
  <2>2. jobs' \subseteq Job
    BY <1>9, <2>1, ToIsJob DEF RestoreSites, TypeOK
  <2>3. vhost' \in {"real", "waking", "stuck", "late", "bare"} /\ upsets' \in 0 .. MaxUpsets
    BY <1>9 DEF RestoreSites, RestoreSite, Restored, TypeOK
  <2> QED BY <1>9, <2>2, <2>3 DEF RestoreSites, TypeOK, JobStep
<1>10. CASE MarkWoken(j)
  BY <1>0, <1>10 DEF MarkWoken, TypeOK, JobStep, Page
<1>11. CASE StartBrief(j)
  <2>1. by' \in [Services -> {"none", "engine", "user", "lost"}] /\ running' \in SUBSET Services
    BY <1>0, <1>11 DEF StartBrief, TypeOK, Become, Raised
  <2>2. jobs' \subseteq Job
    BY <1>0, <1>11 DEF StartBrief, TypeOK
  <2>3. vhost' = vhost /\ upsets' \in 0 .. MaxUpsets
    BY <1>11 DEF StartBrief, TypeOK
  <2> QED BY <1>11, <2>1, <2>2, <2>3 DEF StartBrief, TypeOK, JobStep
<1>12. CASE StopBrief(j)
  <2>1. by' \in [Services -> {"none", "engine", "user", "lost"}] /\ running' \in SUBSET Services
    BY <1>12 DEF StopBrief, TypeOK, PutDown
  <2>2. jobs' \subseteq Job /\ upsets' \in 0 .. MaxUpsets
    BY <1>0, <1>12 DEF StopBrief, TypeOK
  <2> QED BY <1>12, <2>1, <2>2 DEF StopBrief, TypeOK, JobStep
<1>13. CASE ClearBrief(j)
  BY <1>0, <1>13 DEF ClearBrief, TypeOK, JobStep, Cleared
<1>14. CASE ReleaseSvc(j)
  BY <1>0, <1>14 DEF ReleaseSvc, RestoreSite, TypeOK, JobStep, Restored
<1>15. CASE ReadSet(j)
  <2>1. [j EXCEPT !.seen = flag, !.pc = "write"] \in Job
    BY <1>0 DEF TypeOK
  <2>2. jobs' \subseteq Job
    BY <1>15, <2>1, ToIsJob DEF ReadSet, TypeOK
  <2> QED BY <1>15, <2>2 DEF ReadSet, TypeOK, JobStep
<1>16. CASE WriteSet(j)
  <2>1. PICK n \in j.pend :
          /\ flag' = IF Setting(j) THEN j.seen \cup {n} ELSE j.seen \ {n}
          /\ by' = [Undone(j.seen, n) EXCEPT ![n] = IF ~Setting(j) /\ n \in running THEN "none" ELSE @]
          /\ To(j, Wrote(j, n))
    BY <1>16 DEF WriteSet
  <2>2. by' \in [Services -> {"none", "engine", "user", "lost"}] /\ flag' \in SUBSET Services
    BY <1>0, <2>1 DEF TypeOK, Undone
  <2>3. jobs' \subseteq Job
    <3>1. Wrote(j, n) \in Job
      BY <1>0 DEF Wrote
    <3> QED BY <2>1, <3>1, ToIsJob DEF TypeOK
  <2>4. vhost' \in {"real", "waking", "stuck", "late", "bare"}
    BY <1>16 DEF WriteSet, TypeOK, Page
  <2> QED BY <1>16, <2>2, <2>3, <2>4 DEF WriteSet, TypeOK, JobStep
<1>17. CASE WriteFails(j)
  <2>1. PICK n \in j.pend : by' = [by EXCEPT ![n] = IF @ = "engine" /\ n \notin flag THEN "none" ELSE @]
                           /\ To(j, Wrote(j, n))
    BY <1>17 DEF WriteFails
  <2>2. by' \in [Services -> {"none", "engine", "user", "lost"}]
    BY <1>0, <2>1 DEF TypeOK
  <2>3. Wrote(j, n) \in Job
    BY <1>0, <2>1 DEF Wrote
  <2>4. jobs' \subseteq Job
    BY <2>1, <2>3, ToIsJob DEF TypeOK
  <2> QED BY <1>17, <2>2, <2>4 DEF WriteFails, TypeOK, JobStep
<1> QED
  BY <1>1, <1>2, <1>3, <1>4, <1>5, <1>6, <1>7, <1>8, <1>9, <1>10, <1>11, <1>12, <1>13, <1>14, <1>15, <1>16, <1>17
  DEF JobStep, Suspend, Wake, Brief

-----------------------------------------------------------------------------
(* The type invariant: the other actions. *)

LEMMA TickType ==
  ASSUME TypeOK, Tick
  PROVE  TypeOK'
<1> USE DEF host, memory
<1>1. CASE TickRead
  BY <1>1 DEF TickRead, TypeOK
<1>2. CASE TickLook
  <2>1. ReleasedByTick \in SUBSET Services BY DEF TypeOK, ReleasedByTick, Gone
  <2>2. jobs' \subseteq Job BY <1>2, <2>1, NewJobIsJob DEF TickLook, TypeOK
  <2>3. tick' \in [pc : {"wait", "on", "off", "act"}, names : SUBSET Services,
                   wake : SUBSET Services, sleep : SUBSET Services]
    <3>1. CASE tick.pc = "off" BY <1>2, <3>1 DEF TickLook, TypeOK
    <3>2. CASE tick.pc # "off"
      <4> DEFINE candidates == (running \cup tick.names) \ inFlight
                 wake == {s \in candidates \cap tick.names : Stale(s) \/ KeptAwake(s)}
                 sleep == {s \in candidates \ tick.names : ~KeptAwake(s)}
      <4>1. wake \in SUBSET Services /\ sleep \in SUBSET Services BY DEF TypeOK
      <4>2. tick' = [pc |-> "act", names |-> {}, wake |-> wake, sleep |-> sleep]
        BY <1>2, <3>2 DEF TickLook
      <4> HIDE DEF wake, sleep
      <4> QED BY <4>1, <4>2
    <3> QED BY <3>1, <3>2
  <2>4. /\ known' \in SUBSET Services /\ sleeping' \in SUBSET Services
        /\ vhost' \in {"real", "waking", "stuck", "late", "bare"}
    BY <1>2 DEF TickLook, TypeOK, Page
  <2> QED BY <1>2, <2>2, <2>3, <2>4 DEF TickLook, TypeOK
<1>3. CASE TickAct
  <2>1. tick.sleep \ inFlight \in SUBSET Services BY DEF TypeOK
  <2>2. ToWake(tick.wake) \in SUBSET Services /\ Released(tick.wake) \in SUBSET Services
    BY DEF TypeOK, ToWake, Released, Asleep
  <2>3. jobs' \subseteq Job BY <1>3, <2>1, <2>2, NewJobIsJob DEF TickAct, TypeOK
  <2>4. inFlight' \in SUBSET Services /\ sleeping' \in SUBSET Services
    BY <1>3 DEF TickAct, TypeOK
  <2> QED BY <1>3, <2>3, <2>4 DEF TickAct, TypeOK, NewTick
<1> QED BY <1>1, <1>2, <1>3 DEF Tick

LEMMA RequestType ==
  ASSUME TypeOK, Requests
  PROVE  TypeOK'
<1> USE DEF host, memory, engine
<1>0. \A names \in SUBSET Services :
        ToWake(names) \in SUBSET Services /\ Released(names) \in SUBSET Services
  BY DEF TypeOK, ToWake, Released, Asleep
<1>1. \A names \in SUBSET Services :
        WakeAsync(names) => jobs' \subseteq Job /\ sleeping' \in SUBSET Services
  BY <1>0, NewJobIsJob DEF WakeAsync, TypeOK
<1>2. ASSUME NEW s \in Services, DashRequest(s) PROVE TypeOK'
  BY <1>1, <1>2 DEF DashRequest, TypeOK
<1>3. CASE SiteRequest
  <2>1. {s \in known : Downed(s) \cap SiteUses # {}} \in SUBSET Services BY DEF TypeOK
  <2>2. jobs' \subseteq Job /\ sleeping' \in SUBSET Services
    BY <1>1, <1>3, <2>1 DEF SiteRequest
  <2> QED BY <1>3, <2>2 DEF SiteRequest, TypeOK
<1>4. ASSUME NEW s \in Services, GoQuiet(s) PROVE TypeOK'
  BY <1>4 DEF GoQuiet, TypeOK
<1>5. ASSUME NEW s \in Services, StartBehind(s) PROVE TypeOK'
  BY <1>5 DEF StartBehind, TypeOK, Raised, Raise, Become, Upset
<1> QED BY <1>2, <1>3, <1>4, <1>5 DEF Requests

LEMMA OtherType ==
  ASSUME TypeOK, User \/ Snapshots \/ Off \/ Crash \/ Boot
  PROVE  TypeOK'
<1> USE DEF host, memory, engine
<1>1. ASSUME NEW s \in Services, UserStop(s) PROVE TypeOK'
  BY <1>1 DEF UserStop, TypeOK, Become, Upset
<1>2. CASE UserReads BY <1>2 DEF UserReads, TypeOK
<1>3. CASE UserWrites
  <2>1. by' \in [Services -> {"none", "engine", "user", "lost"}]
    BY <1>3 DEF UserWrites, TypeOK, Undone
  <2> QED BY <1>3, <2>1 DEF UserWrites, TypeOK, Page, NoStop
<1>4. CASE SnapCollect BY <1>4 DEF SnapCollect, TypeOK, Upset
<1>5. ASSUME NEW s \in Services, SnapBrief(s) PROVE TypeOK'
  <2>1. NewJob("brief", {s}) \in Job BY NewJobIsJob
  <2> QED BY <1>5, <2>1 DEF SnapBrief, TypeOK
<1>6. CASE Off BY <1>6 DEF Off, TypeOK, Upset
<1>7. CASE Crash
  <2>1. by' \in [Services -> {"none", "engine", "user", "lost"}]
    BY <1>7 DEF Crash, TypeOK, Become
  <2> QED BY <1>7, <2>1 DEF Crash, TypeOK, Upset, NewTick
<1>8. CASE Boot BY <1>8 DEF Boot, TypeOK, Page
<1> QED BY <1>1, <1>2, <1>3, <1>4, <1>5, <1>6, <1>7, <1>8 DEF User, Snapshots

LEMMA NextType == TypeOK /\ [Next]_vars => TypeOK'
<1> SUFFICES ASSUME TypeOK, [Next]_vars PROVE TypeOK'
  OBVIOUS
<1>1. CASE UNCHANGED vars
  BY <1>1 DEF TypeOK, vars, host, engine, memory
<1> QED BY <1>1, JobStepType, TickType, RequestType, OtherType DEF Next

\* idleEngine's maps, its jobs and the file beside it hold what their types say.
THEOREM TypeCorrect == Spec => []TypeOK
<1> QED BY InitType, NextType, PTL DEF Spec

-----------------------------------------------------------------------------
(* Who holds svcMu, what is claimed and what is owed, across a step of a job. *)

LEMMA InitRest == Init => Rest
BY DEF Init, Rest, OneHolds, Shapes, Mine, Owed, OneStop, NoStop

\* Only a job that holds svcMu claims or owes anything.
LEMMA BusyHolds ==
  ASSUME NEW j \in jobs, Shape(j), Unflags(j) # {} \/ \E s \in Services : Claims(j, s)
  PROVE  Holds(j)
BY DEF Shape, Points, Unflags, Claims, Working, Setting, Holds

\* A job that goes on holds svcMu, or not, as it did; or it takes it while it is free.
LEMMA HoldsOnce ==
  ASSUME OneHolds, NEW j \in jobs, NEW k, To(j, k), Holds(k) => Holds(j) \/ MuFree
  PROVE  OneHolds'
BY DEF OneHolds, To, Holds, MuFree

LEMMA ShapeKept ==
  ASSUME Shapes, NEW j \in jobs, NEW k, To(j, k), Shape(k)
  PROVE  Shapes'
BY DEF Shapes, Shape, To, Points, Downed, Dependents

\* A job goes on, and nothing of what it claims is dropped.
LEMMA MineKept ==
  ASSUME Mine, NEW j \in jobs, NEW k, To(j, k), UNCHANGED <<flag, running, by>>,
         \A s \in Services : Claims(j, s) => Claims(k, s)
  PROVE  Mine'
BY DEF Mine, To, Claims, Setting, Working

\* Nothing becomes the engine's and nothing is stopped: what is owed is still up.
LEMMA OwedKept ==
  ASSUME Owed, NEW j \in jobs, NEW k, To(j, k),
         running \subseteq running', \A s \in Services : by'[s] = "engine" => by[s] = "engine",
         Unflags(k) \subseteq Services,
         \A i \in jobs : Unflags(i) \subseteq Services,
         \A n \in Unflags(k) : n \in Unflags(j) \/ Up(n)'
  PROVE  Owed'
BY DEF Owed, To, Up, Unflags, Setting, Working

LEMMA UnflagsServices ==
  ASSUME TypeOK
  PROVE  \A i \in jobs : Unflags(i) \subseteq Services
BY DEF TypeOK, Job, Unflags

\* A job goes on and the host stays as it is.
LEMMA GoesOn ==
  ASSUME TypeOK, Rest, NEW j \in jobs, NEW k \in Job, To(j, k), UNCHANGED <<flag, running, by, cli>>,
         Shape(k), Holds(k) => Holds(j) \/ MuFree,
         \A s \in Services : Claims(j, s) => Claims(k, s),
         Unflags(k) \subseteq Unflags(j)
  PROVE  Rest'
<1>1. OneHolds' BY HoldsOnce DEF Rest
<1>2. Shapes' BY ShapeKept DEF Rest
<1>3. Mine' BY MineKept DEF Rest
<1>4. Owed'
  <2>1. \A i \in jobs : Unflags(i) \subseteq Services BY UnflagsServices
  <2> QED BY <2>1, OwedKept DEF Rest
<1>5. OneStop' BY DEF Rest, OneStop
<1> QED BY <1>1, <1>2, <1>3, <1>4, <1>5 DEF Rest

\* Jobs that wait for svcMu come, and jobs that neither claim nor owe anything go.
Queued(k) == k.pc = "lock" /\ k.cur = {} /\ k.done = {} /\ k.kind \in {"suspend", "wake", "release", "brief"}
LEMMA ComeAndGo ==
  ASSUME TypeOK, Rest, UNCHANGED <<flag, running, by, cli>>,
         NEW gone \in SUBSET jobs, \A j \in gone, s \in Services : ~Claims(j, s),
         \A k \in jobs' : k \in jobs \/ Queued(k), jobs \ gone \subseteq jobs'
  PROVE  Rest'
<1>1. \A k : Queued(k) => ~Holds(k) /\ Shape(k) /\ Unflags(k) = {}
  BY DEF Queued, Holds, Shape, Points, Unflags, Working
<1>2. OneHolds' BY <1>1 DEF Rest, OneHolds, Holds
<1>3. Shapes' BY <1>1 DEF Rest, Shapes, Shape, Points, Downed, Dependents
<1>4. Mine' BY DEF Rest, Mine, Claims, Setting, Working
<1>5. Owed' BY <1>1 DEF Rest, Owed, Up, Unflags, Setting, Working
<1>6. OneStop' BY DEF Rest, OneStop
<1> QED BY <1>2, <1>3, <1>4, <1>5, <1>6 DEF Rest

LEMMA GoesOff ==
  ASSUME TypeOK, Rest, NEW j \in jobs, jobs' = jobs \ {j}, UNCHANGED <<flag, running, by, cli>>,
         \A s \in Services : ~Claims(j, s)
  PROVE  Rest'
<1> DEFINE gone == {j}
<1>1. gone \in SUBSET jobs /\ \A i \in gone, s \in Services : ~Claims(i, s) OBVIOUS
<1>2. (\A k \in jobs' : k \in jobs \/ Queued(k)) /\ jobs \ gone \subseteq jobs' OBVIOUS
<1> HIDE DEF gone
<1> QED BY <1>1, <1>2, ComeAndGo

LEMMA SpawnedWait ==
  ASSUME NEW kind \in {"suspend", "wake", "release", "brief"}, NEW names
  PROVE  /\ Queued(NewJob(kind, names))
         /\ \A k \in Spawn(kind, names) : Queued(k)
BY DEF NewJob, Spawn, Queued

-----------------------------------------------------------------------------
(* The steps of a suspend. *)

\* Under svcMu nobody else claims or owes anything.
LEMMA Alone ==
  ASSUME Rest, NEW j \in jobs, Holds(j) \/ MuFree
  PROVE  \A i \in jobs : i # j => ~Holds(i) /\ Unflags(i) = {} /\ \A s \in Services : ~Claims(i, s)
BY BusyHolds DEF Rest, OneHolds, Shapes, MuFree

LEMMA NextServiceRest ==
  ASSUME TypeOK, Rest, NEW j \in jobs, NextService(j), UNCHANGED cli
  PROVE  Rest'
<1>0. j \in Job BY DEF TypeOK
<1>1. Shape(j) BY DEF Rest, Shapes
<1>2. PICK s \in j.todo :
        LET group == {s} \cup (Dependents(s) \cap running)
        IN /\ by' = Become(group \cap running, "engine")
           /\ To(j, [j EXCEPT !.todo = @ \ {s}, !.cur = {s}, !.group = group, !.pend = group, !.pc = "read"])
  BY DEF NextService
<1>3. PICK group \in SUBSET Services :
        group = {s} \cup (Dependents(s) \cap running) /\ s \in Services /\ group \subseteq Downed(s)
  <2>1. s \in Services BY <1>0 DEF Job
  <2>2. {s} \cup (Dependents(s) \cap running) \in SUBSET Services BY <2>1 DEF Dependents
  <2> QED BY <2>1, <2>2 DEF Downed
<1> DEFINE k == [j EXCEPT !.todo = @ \ {s}, !.cur = {s}, !.group = group, !.pend = group, !.pc = "read"]
<1>4. /\ k.kind = "suspend" /\ k.cur = {s} /\ k.group = group /\ k.pend = group /\ k.pc = "read"
      /\ To(j, k) /\ by' = Become(group \cap running, "engine")
  BY <1>0, <1>2, <1>3 DEF Job, NextService
<1>5. flag' = flag /\ running' = running BY DEF NextService
<1>6. Holds(j) \/ MuFree BY DEF NextService, MayRun, Holds
<1> HIDE DEF k
<1>7. OneHolds' BY <1>4, <1>6, HoldsOnce DEF Rest
<1>8. Shapes'
  <2>1. Shape(k) BY <1>3, <1>4 DEF Shape, Points
  <2> QED BY <1>4, <2>1, ShapeKept DEF Rest
<1>9. Mine'
  <2> SUFFICES ASSUME NEW n \in Services, by'[n] = "engine"
               PROVE  n \in flag' \/ \E i \in jobs' : Claims(i, n)'
    BY DEF Mine
  <2>1. CASE n \in group \cap running
    <3>1. Claims(k, n)' BY <1>4, <1>5, <2>1 DEF Claims, Setting, Working
    <3> QED BY <1>4, <3>1 DEF To
  <2>2. CASE n \notin group \cap running
    <3>1. by[n] = "engine" BY <1>4, <2>2 DEF Become
    <3>2. \A i \in jobs : ~Claims(i, n)
      <4>1. ~Claims(j, n) BY DEF NextService, MayRun, Claims, Working
      <4> QED BY <1>6, <4>1, Alone
    <3> QED BY <1>5, <3>1, <3>2 DEF Rest, Mine
  <2> QED BY <2>1, <2>2
<1>10. Owed'
  <2>1. Unflags(k) = {} BY <1>4 DEF Unflags, Setting, Working
  <2>2. \A i \in jobs' : Unflags(i)' = {}
    BY <1>4, <1>6, <2>1, Alone DEF To, Unflags, Setting, Working
  <2> QED BY <2>2 DEF Owed
<1>11. OneStop' BY DEF Rest, OneStop
<1> QED BY <1>7, <1>8, <1>9, <1>10, <1>11 DEF Rest

LEMMA StopSleptRest ==
  ASSUME TypeOK, Rest, NEW j \in jobs, StopSlept(j), UNCHANGED cli
  PROVE  Rest'
<1>0. j \in Job BY DEF TypeOK
<1> DEFINE k == [j EXCEPT !.pc = "next", !.cur = {}, !.group = {}, !.done = @ \cup j.group]
<1>1. PICK s \in j.cur : running' = running \ Downed(s) /\ by' = PutDown(Downed(s)) /\ To(j, k)
  BY DEF StopSlept
<1>2. k.kind = "suspend" /\ k.pc = "next" /\ k.cur = {}
  BY <1>0 DEF Job, StopSlept, Flagged
<1>3. flag' = flag BY DEF StopSlept
<1>4. Holds(j) BY DEF StopSlept, Flagged, Holds
<1> HIDE DEF k
<1>5. OneHolds' BY <1>1, <1>4, HoldsOnce DEF Rest
<1>6. Shapes'
  <2>1. Shape(k) BY <1>2 DEF Shape, Points
  <2> QED BY <1>1, <2>1, ShapeKept DEF Rest
<1>7. Mine'
  <2> SUFFICES ASSUME NEW n \in Services, by'[n] = "engine" PROVE n \in flag
    BY <1>3 DEF Mine
  <2>1. by[n] = "engine" \/ n \in flag BY <1>1 DEF PutDown
  <2>2. \A i \in jobs : ~Claims(i, n)
    <3>1. ~Claims(j, n) BY DEF StopSlept, Flagged, Claims
    <3> QED BY <1>4, <3>1, Alone
  <2> QED BY <2>1, <2>2 DEF Rest, Mine
<1>8. Owed'
  <2>1. Unflags(k) = {} BY <1>2 DEF Unflags, Working
  <2>2. \A i \in jobs' : Unflags(i)' = {}
    BY <1>1, <1>4, <2>1, Alone DEF To, Unflags, Setting, Working
  <2> QED BY <2>2 DEF Owed
<1>9. OneStop' BY DEF Rest, OneStop
<1> QED BY <1>5, <1>6, <1>7, <1>8, <1>9 DEF Rest

LEMMA StopFailsRest ==
  ASSUME TypeOK, Rest, NEW j \in jobs, StopFails(j), UNCHANGED cli
  PROVE  Rest'
<1>0. j \in Job BY DEF TypeOK
<1> DEFINE k == [j EXCEPT !.cur = {}, !.group = {}, !.pend = j.group]
<1>1. PICK s \in j.cur :
        /\ \E failing \in Downed(s) \cap running :
             /\ running' = running \ (Downed(s) \ {failing})
             /\ by' = Become({d \in Downed(s) \ {failing} : by[d] # "user"}, "lost")
        /\ To(j, k)
  BY DEF StopFails
<1>2. PICK failing \in Downed(s) \cap running :
        /\ running' = running \ (Downed(s) \ {failing})
        /\ by' = Become({d \in Downed(s) \ {failing} : by[d] # "user"}, "lost")
  BY <1>1
<1>3. k.kind = "suspend" /\ k.pc = "read" /\ k.cur = {} /\ k.pend = j.group /\ k.group = {}
  BY <1>0 DEF Job, StopFails, Flagged
<1>4. flag' = flag BY DEF StopFails
<1>5. Holds(j) BY DEF StopFails, Flagged, Holds
<1>6. j.group \subseteq Downed(s) /\ j.group \subseteq Services
  BY <1>0, <1>1 DEF Rest, Shapes, Shape, Job
<1> HIDE DEF k
<1>7. OneHolds' BY <1>1, <1>5, HoldsOnce DEF Rest
<1>8. Shapes'
  <2>1. Shape(k) BY <1>3 DEF Shape, Points
  <2> QED BY <1>1, <2>1, ShapeKept DEF Rest
<1>9. Mine'
  <2> SUFFICES ASSUME NEW n \in Services, by'[n] = "engine" PROVE n \in flag
    BY <1>4 DEF Mine
  <2>1. by[n] = "engine" BY <1>2 DEF Become
  <2>2. \A i \in jobs : ~Claims(i, n)
    <3>1. ~Claims(j, n) BY DEF StopFails, Flagged, Claims
    <3> QED BY <1>5, <3>1, Alone
  <2> QED BY <2>1, <2>2 DEF Rest, Mine
<1>10. Owed'
  <2>1. \A n \in j.group : n \in running' \/ by'[n] # "engine"
    <3> TAKE n \in j.group
    <3>1. CASE n = failing BY <1>2, <3>1
    <3>2. CASE n # failing BY <1>2, <1>6, <3>2 DEF Become, Stray
    <3> QED BY <3>1, <3>2
  <2>2. \A i \in jobs' : Unflags(i)' \subseteq j.group
    BY <1>1, <1>3, <1>5, Alone DEF To, Unflags, Setting, Working
  <2> QED BY <2>1, <2>2 DEF Owed, Up
<1>11. OneStop' BY DEF Rest, OneStop
<1> QED BY <1>7, <1>8, <1>9, <1>10, <1>11 DEF Rest

-----------------------------------------------------------------------------
(* The file's steps, and the steps of a wake and of a brief. *)

LEMMA WroteFields ==
  ASSUME NEW j \in Job, NEW n \in j.pend
  PROVE  /\ Wrote(j, n) \in Job /\ Wrote(j, n).pc = "read" /\ Wrote(j, n).pend = j.pend \ {n}
         /\ Wrote(j, n).kind = j.kind /\ Wrote(j, n).names = j.names /\ Wrote(j, n).cur = j.cur
         /\ Wrote(j, n).group = j.group /\ Wrote(j, n).todo = j.todo /\ Wrote(j, n).done = j.done
BY DEF Wrote, Job

LEMMA WriteSetRest ==
  ASSUME TypeOK, Rest, NEW j \in jobs, WriteSet(j), UNCHANGED cli
  PROVE  Rest'
<1>0. j \in Job BY DEF TypeOK
<1>1. PICK n \in j.pend :
        /\ flag' = IF Setting(j) THEN j.seen \cup {n} ELSE j.seen \ {n}
        /\ by' = [Undone(j.seen, n) EXCEPT ![n] = IF ~Setting(j) /\ n \in running THEN "none" ELSE @]
        /\ To(j, Wrote(j, n))
  BY DEF WriteSet
<1> DEFINE k == Wrote(j, n)
<1>2. /\ n \in Services /\ To(j, k)
      /\ k.kind = j.kind /\ k.cur = j.cur /\ k.group = j.group /\ k.pend = j.pend \ {n} /\ k.pc = "read"
  BY <1>0, <1>1, WroteFields DEF Job
<1>3. running' = running /\ j.pc = "write" BY DEF WriteSet
<1>4. Shape(j) BY DEF Rest, Shapes
<1>5. Holds(j) BY <1>3, <1>4 DEF Holds, Shape, Points
<1>6. \A s \in Services : s # n => by'[s] = IF (s \in j.seen) # (s \in flag) THEN "lost" ELSE by[s]
  BY <1>1, <1>2 DEF Undone
<1>7. by'[n] = IF ~Setting(j) /\ n \in running THEN "none" ELSE by[n]
  BY <1>1, <1>2 DEF Undone
<1> HIDE DEF k
<1>8. OneHolds' BY <1>2, <1>5, HoldsOnce DEF Rest
<1>9. Shapes'
  <2>0. j.kind \in {"suspend", "wake"} BY <1>0, <1>3, <1>4 DEF Shape, Points, Job
  <2>1. k.pc \in Points(k.kind) BY <1>2, <2>0 DEF Points
  <2>2. Shape(k) BY <1>2, <1>4, <2>1 DEF Shape
  <2> QED BY <1>2, <2>2, ShapeKept DEF Rest
<1>10. Mine'
  <2> SUFFICES ASSUME NEW s \in Services, by'[s] = "engine"
               PROVE  s \in flag' \/ \E i \in jobs' : Claims(i, s)'
    BY DEF Mine
  <2>1. CASE s = n
    <3>1. CASE Setting(j) BY <1>1, <2>1, <3>1
    <3>2. CASE ~Setting(j)
      <4>1. n \in Unflags(j) BY <1>1, <1>3, <3>2 DEF Unflags, Working
      <4>2. Up(n) BY <4>1 DEF Rest, Owed
      <4> QED BY <1>7, <2>1, <3>2, <4>2 DEF Up
    <3> QED BY <3>1, <3>2
  <2>2. CASE s # n
    <3>1. by[s] = "engine" /\ (s \in j.seen <=> s \in flag) BY <1>6, <2>2
    <3>2. CASE s \in flag BY <1>1, <2>2, <3>1, <3>2
    <3>3. CASE s \notin flag
      <4>1. PICK i \in jobs : Claims(i, s) BY <3>1, <3>3 DEF Rest, Mine
      <4>2. i = j BY <1>5, <4>1, Alone
      <4>3. Claims(k, s)' BY <1>2, <1>3, <2>2, <4>1, <4>2 DEF Claims, Setting, Working
      <4> QED BY <1>2, <4>3 DEF To
    <3> QED BY <3>2, <3>3
  <2> QED BY <2>1, <2>2
<1>11. Owed'
  <2>1. \A i \in jobs : Unflags(i) \subseteq Services BY UnflagsServices
  <2>2. \A s \in Services : by'[s] = "engine" => by[s] = "engine" BY <1>6, <1>7
  <2>3. Unflags(k) \subseteq Unflags(j)
    BY <1>2, <1>3 DEF Unflags, Working, Setting
  <2>4. \A m \in Unflags(k) : m \in Unflags(j) \/ Up(m)' BY <2>3
  <2> QED BY <1>2, <1>3, <2>1, <2>2, <2>3, <2>4, OwedKept DEF Rest
<1>12. OneStop' BY DEF Rest, OneStop
<1> QED BY <1>8, <1>9, <1>10, <1>11, <1>12 DEF Rest

\* What was about to be flagged and is not is nobody's, and stays up.
LEMMA WriteFailsRest ==
  ASSUME TypeOK, Rest, NEW j \in jobs, WriteFails(j), UNCHANGED cli
  PROVE  Rest'
<1>0. j \in Job BY DEF TypeOK
<1>1. PICK n \in j.pend : by' = [by EXCEPT ![n] = IF @ = "engine" /\ n \notin flag THEN "none" ELSE @]
                         /\ To(j, Wrote(j, n))
  BY DEF WriteFails
<1> DEFINE k == Wrote(j, n)
<1>2. /\ n \in Services /\ To(j, k)
      /\ k.kind = j.kind /\ k.cur = j.cur /\ k.group = j.group /\ k.pend = j.pend \ {n} /\ k.pc = "read"
  BY <1>0, <1>1, WroteFields DEF Job
<1>3. UNCHANGED <<flag, running>> /\ j.pc = "write" BY DEF WriteFails
<1>4. Shape(j) BY DEF Rest, Shapes
<1>5. Holds(j) BY <1>3, <1>4 DEF Holds, Shape, Points
<1>6. \A s \in Services : by'[s] = IF s = n /\ by[s] = "engine" /\ s \notin flag THEN "none" ELSE by[s]
  BY <1>1, <1>2 DEF TypeOK
<1> HIDE DEF k
<1>7. OneHolds' BY <1>2, <1>5, HoldsOnce DEF Rest
<1>8. Shapes'
  <2>0. j.kind \in {"suspend", "wake"} BY <1>0, <1>3, <1>4 DEF Shape, Points, Job
  <2>1. k.pc \in Points(k.kind) BY <1>2, <2>0 DEF Points
  <2>2. Shape(k) BY <1>2, <1>4, <2>1 DEF Shape
  <2> QED BY <1>2, <2>2, ShapeKept DEF Rest
<1>9. Mine'
  <2> SUFFICES ASSUME NEW s \in Services, by'[s] = "engine", s \notin flag
               PROVE  \E i \in jobs' : Claims(i, s)'
    BY <1>3 DEF Mine
  <2>1. by[s] = "engine" /\ s # n BY <1>6
  <2>2. PICK i \in jobs : Claims(i, s) BY <2>1 DEF Rest, Mine
  <2>3. i = j BY <1>5, <2>2, Alone
  <2>4. Claims(k, s)' BY <1>2, <1>3, <2>1, <2>2, <2>3 DEF Claims, Setting, Working
  <2> QED BY <1>2, <2>4 DEF To
<1>10. Owed'
  <2>1. \A i \in jobs : Unflags(i) \subseteq Services BY UnflagsServices
  <2>2. Unflags(k) \subseteq Unflags(j)
    BY <1>2, <1>3 DEF Unflags, Working, Setting
  <2>3. \A s \in Services : by'[s] = "engine" => by[s] = "engine" BY <1>6
  <2> QED BY <1>2, <1>3, <2>1, <2>2, <2>3, OwedKept DEF Rest
<1>11. OneStop' BY DEF Rest, OneStop
<1> QED BY <1>7, <1>8, <1>9, <1>10, <1>11 DEF Rest

\* What is started, with what it needs, is nobody's any more.
LEMMA RaisedRest ==
  ASSUME TypeOK, Rest, NEW j \in jobs, NEW k \in Job, To(j, k), UNCHANGED <<flag, cli>>,
         running \subseteq running', \A s \in Services : by'[s] = "engine" => by[s] = "engine",
         Shape(k), Holds(k) => Holds(j) \/ MuFree,
         \A s \in Services : ~Claims(j, s),
         \A n \in Unflags(k) : n \in Unflags(j) \/ n \in running'
  PROVE  Rest'
<1>1. OneHolds' BY HoldsOnce DEF Rest
<1>2. Shapes' BY ShapeKept DEF Rest
<1>3. Mine'
  <2> SUFFICES ASSUME NEW n \in Services, by'[n] = "engine"
               PROVE  n \in flag \/ \E i \in jobs' : Claims(i, n)'
    BY DEF Mine
  <2>1. n \in flag \/ \E i \in jobs : i # j /\ Claims(i, n) BY DEF Rest, Mine
  <2> QED BY <2>1 DEF To, Claims, Setting, Working
<1>4. Owed'
  <2>1. \A i \in jobs : Unflags(i) \subseteq Services BY UnflagsServices
  <2>2. Unflags(k) \subseteq Services BY DEF Unflags, Job
  <2> QED BY <2>1, <2>2, OwedKept DEF Rest, Up
<1>5. OneStop' BY DEF Rest, OneStop
<1> QED BY <1>1, <1>2, <1>3, <1>4, <1>5 DEF Rest

LEMMA StartWokenRest ==
  ASSUME TypeOK, Rest, NEW j \in jobs, StartWoken(j), UNCHANGED cli
  PROVE  Rest'
<1>0. j \in Job BY DEF TypeOK
<1>1. PICK s \in j.todo : \/ Raise(Raised(s)) /\ To(j, Started(j, s, {s}))
                          \/ To(j, Started(j, s, {})) /\ \E raised : Raise(raised)
  BY DEF StartWoken
<1>2. PICK ok \in {{s}, {}} : To(j, Started(j, s, ok)) /\ ok \subseteq running'
  BY <1>1 DEF Raise, Raised
<1>3. running \subseteq running' /\ \A n \in Services : by'[n] = "engine" => by[n] = "engine"
  BY <1>1 DEF Raise, Become
<1>4. j.kind = "wake" /\ j.pc = "start" /\ flag' = flag BY DEF StartWoken
<1>5. Shape(j) /\ j.cur = {} BY <1>4 DEF Rest, Shapes, Shape
<1>6. PICK k \in Job : /\ k = Started(j, s, ok) /\ k.kind = "wake" /\ k.cur = {} /\ k.pc \in {"start", "read"}
                       /\ k.done = j.done \cup ok /\ k.pend \subseteq k.done
  <2> DEFINE done == j.done \cup ok
  <2>1. done \in SUBSET Services BY <1>0, <1>1 DEF Job
  <2> HIDE DEF done
  <2>2. CASE j.todo = {s}
    <3> DEFINE k == [j EXCEPT !.todo = @ \ {s}, !.done = done, !.pc = "read", !.pend = done]
    <3>1. Started(j, s, ok) = k BY <2>2 DEF Started, ToUnflag, done
    <3>2. k \in Job BY <1>0, <2>1 DEF Job
    <3>3. k.kind = j.kind /\ k.cur = j.cur /\ k.pc = "read" /\ k.done = done /\ k.pend = done
      BY <1>0 DEF Job
    <3> QED BY <1>4, <1>5, <3>1, <3>2, <3>3 DEF done
  <2>3. CASE j.todo # {s}
    <3> DEFINE k == [j EXCEPT !.todo = @ \ {s}, !.done = done, !.pend = {}]
    <3>1. Started(j, s, ok) = k BY <1>0, <2>3 DEF Started, ToUnflag, done, Job
    <3>2. k \in Job BY <1>0, <2>1 DEF Job
    <3>3. k.kind = j.kind /\ k.cur = j.cur /\ k.pc = j.pc /\ k.done = done /\ k.pend = {}
      BY <1>0 DEF Job
    <3> QED BY <1>4, <1>5, <3>1, <3>2, <3>3 DEF done
  <2> QED BY <2>2, <2>3
<1>7. Shape(k) BY <1>6 DEF Shape, Points
<1>8. Holds(j) /\ \A n \in Services : ~Claims(j, n) BY <1>4 DEF Holds, Claims, Setting
<1>9. \A n \in Unflags(k) : n \in Unflags(j) \/ n \in running'
  <2>1. Unflags(k) \subseteq j.done \cup ok BY <1>6 DEF Unflags
  <2>2. Unflags(j) = j.done BY <1>4 DEF Unflags, Working
  <2> QED BY <1>2, <2>1, <2>2
<1>10. To(j, k) BY <1>2, <1>6
<1> QED BY <1>3, <1>4, <1>7, <1>8, <1>9, <1>10, RaisedRest

LEMMA BriefRest ==
  ASSUME TypeOK, Rest, NEW j \in jobs, Brief(j), UNCHANGED cli
  PROVE  Rest'
<1>0. j \in Job BY DEF TypeOK
<1>1. j.kind = "brief" BY DEF Brief, StartBrief, StopBrief, ClearBrief
<1>2. j.cur = {} /\ (\A n \in Services : ~Claims(j, n)) BY <1>1 DEF Rest, Shapes, Shape, Claims, Setting
<1> DEFINE stop == [j EXCEPT !.pc = "stop"]
           clear == [j EXCEPT !.pc = "clear"]
<1>3. /\ stop \in Job /\ stop.kind = "brief" /\ stop.cur = {} /\ stop.pc = "stop"
      /\ clear \in Job /\ clear.kind = "brief" /\ clear.cur = {} /\ clear.pc = "clear"
  BY <1>0, <1>1, <1>2 DEF Job
<1>4. CASE StartBrief(j)
  <2>1. PICK k \in {stop, clear} : To(j, k) BY <1>4 DEF StartBrief
  <2>2. k \in Job /\ k.kind = "brief" /\ k.cur = {} /\ k.pc \in {"stop", "clear"} BY <1>3
  <2> HIDE DEF stop, clear
  <2>3. Shape(k) /\ Unflags(k) = {} BY <2>2 DEF Shape, Points, Unflags, Working
  <2>4. Holds(j) \/ MuFree BY <1>4 DEF StartBrief
  <2>5. /\ flag' = flag /\ running \subseteq running'
        /\ \A n \in Services : by'[n] = "engine" => by[n] = "engine"
    BY <1>4 DEF StartBrief, Become
  <2> QED BY <1>2, <2>1, <2>2, <2>3, <2>4, <2>5, RaisedRest
<1>5. CASE StopBrief(j)
  <2>1. To(j, clear) /\ flag' = flag BY <1>5 DEF StopBrief
  <2>2. \/ \E s \in j.names : running' = running \ Downed(s) /\ by' = PutDown(Downed(s))
        \/ UNCHANGED <<running, by>>
    BY <1>5 DEF StopBrief
  <2> HIDE DEF stop, clear
  <2>3. Holds(j) BY <1>5 DEF StopBrief, Holds
  <2>4. OneHolds' BY <2>1, <2>3, HoldsOnce DEF Rest
  <2>5. Shape(clear) BY <1>3 DEF Shape, Points
  <2>6. Shapes' BY <2>1, <2>5, ShapeKept DEF Rest
  <2>7. Mine'
    <3> SUFFICES ASSUME NEW n \in Services, by'[n] = "engine" PROVE n \in flag
      BY <2>1 DEF Mine
    <3>1. by[n] = "engine" \/ n \in flag BY <2>2 DEF PutDown
    <3>2. \A i \in jobs : ~Claims(i, n) BY <1>2, <2>3, Alone
    <3> QED BY <3>1, <3>2 DEF Rest, Mine
  <2>8. Owed'
    <3>1. Unflags(clear) = {} BY <1>3 DEF Unflags, Working
    <3>2. \A i \in jobs' : Unflags(i)' = {}
      BY <2>1, <2>3, <3>1, Alone DEF To, Unflags, Setting, Working
    <3> QED BY <3>2 DEF Owed
  <2>9. OneStop' BY DEF Rest, OneStop
  <2> QED BY <2>4, <2>6, <2>7, <2>8, <2>9 DEF Rest
<1>6. CASE ClearBrief(j)
  <2>1. UNCHANGED <<flag, running, by>> /\ jobs' = jobs \ {j} BY <1>6 DEF ClearBrief, Ends, host
  <2> QED BY <1>1, <1>2, <2>1, GoesOff
<1> QED BY <1>4, <1>5, <1>6 DEF Brief

LEMMA JobStepRest ==
  ASSUME TypeOK, Rest, NEW j \in jobs, JobStep(j)
  PROVE  Rest'
<1>0. j \in Job /\ Shape(j) BY DEF TypeOK, Rest, Shapes
<1>1. UNCHANGED cli BY DEF JobStep
<1>2. CASE NextService(j) BY <1>1, <1>2, NextServiceRest
<1>3. CASE StopSlept(j) BY <1>1, <1>3, StopSleptRest
<1>4. CASE StopFails(j) BY <1>1, <1>4, StopFailsRest
<1>5. CASE Unflagged(j)
  <2> DEFINE k == [j EXCEPT !.pc = "next"]
  <2>1. To(j, k) /\ UNCHANGED <<flag, running, by>> BY <1>5 DEF Unflagged
  <2>2. k \in Job /\ k.kind = "suspend" /\ k.pc = "next" /\ k.cur = {}
    BY <1>0, <1>5 DEF Unflagged, Job
  <2>3. Holds(j) /\ \A s \in Services : ~Claims(j, s) BY <1>5 DEF Unflagged, Holds, Claims, Setting
  <2> HIDE DEF k
  <2>4. Shape(k) /\ Unflags(k) = {} BY <2>2 DEF Shape, Points, Unflags, Working
  <2> QED BY <1>1, <2>1, <2>2, <2>3, <2>4, GoesOn
<1>6. CASE MarkSlept(j)
  <2> DEFINE k == [j EXCEPT !.pc = "clear"]
  <2>1. To(j, k) /\ UNCHANGED <<flag, running, by>> BY <1>6 DEF MarkSlept, host
  <2>2. k \in Job /\ k.kind = "suspend" /\ k.pc = "clear" /\ k.cur = {}
    BY <1>0, <1>6 DEF MarkSlept, Job, Shape
  <2>3. Holds(j) /\ \A s \in Services : ~Claims(j, s) BY <1>6 DEF MarkSlept, Holds, Claims, Working
  <2> HIDE DEF k
  <2>4. Shape(k) /\ Unflags(k) = {} BY <2>2 DEF Shape, Points, Unflags, Working
  <2> QED BY <1>1, <2>1, <2>2, <2>3, <2>4, GoesOn
<1>7. CASE ClearSuspend(j)
  <2>1. UNCHANGED <<flag, running, by>> /\ jobs' = jobs \ {j} BY <1>7 DEF ClearSuspend, Ends, host
  <2>2. \A s \in Services : ~Claims(j, s) BY <1>7 DEF ClearSuspend, Claims, Working
  <2> QED BY <1>1, <2>1, <2>2, GoesOff
<1>8. CASE LockWake(j)
  <2>1. UNCHANGED <<flag, running, by>> /\ j.kind = "wake" /\ j.pc = "lock" /\ MuFree
    BY <1>8 DEF LockWake, host
  <2>2. PICK k : k = [j EXCEPT !.pc = "start", !.names = ToWake(j.names), !.todo = ToWake(j.names)]
    OBVIOUS
  <2>3. k.kind = "wake" /\ k.cur = {} /\ k.pc = "start" /\ k.done = {}
    BY <1>0, <2>1, <2>2 DEF Job, Shape
  <2>4. \A i \in jobs' : i \in jobs \/ i = k \/ Queued(i)
    BY <1>8, <2>2, SpawnedWait DEF LockWake
  <2>5. Shape(k) /\ Unflags(k) = {} BY <2>3 DEF Shape, Points, Unflags, Working
  <2>6. \A i : Queued(i) => ~Holds(i) /\ Shape(i) /\ Unflags(i) = {}
    BY DEF Queued, Holds, Shape, Points, Unflags, Working
  <2>7. \A i \in jobs : Unflags(i) = {} /\ ~Holds(i) /\ \A s \in Services : ~Claims(i, s)
    BY <2>1, BusyHolds DEF Rest, Shapes, MuFree
  <2>8. OneHolds' BY <2>4, <2>6, <2>7 DEF OneHolds, Holds
  <2>9. Shapes' BY <2>4, <2>5, <2>6 DEF Rest, Shapes, Shape, Points, Downed, Dependents
  <2>10. Mine' BY <2>1, <2>7 DEF Rest, Mine
  <2>11. Owed'
    <3>1. \A i \in jobs' : Unflags(i)' = {}
      BY <2>4, <2>5, <2>6, <2>7 DEF Unflags, Setting, Working
    <3> QED BY <3>1 DEF Owed
  <2>12. OneStop' BY <1>1 DEF Rest, OneStop
  <2> QED BY <2>8, <2>9, <2>10, <2>11, <2>12 DEF Rest
<1>9. CASE StartWoken(j) BY <1>1, <1>9, StartWokenRest
<1>10. CASE RestoreSites(j)
  <2> DEFINE k == [j EXCEPT !.pc = "mark", !.seen = flag]
  <2>1. To(j, k) /\ UNCHANGED <<flag, running, by>> BY <1>10 DEF RestoreSites
  <2>2. k \in Job /\ k.kind = "wake" /\ k.pc = "mark" /\ k.cur = {}
    BY <1>0, <1>10 DEF RestoreSites, Job, Shape, TypeOK
  <2>3. Holds(j) /\ \A s \in Services : ~Claims(j, s) BY <1>10 DEF RestoreSites, Holds, Claims, Setting
  <2> HIDE DEF k
  <2>4. Shape(k) /\ Unflags(k) = {} BY <2>2 DEF Shape, Points, Unflags, Working
  <2> QED BY <1>1, <2>1, <2>2, <2>3, <2>4, GoesOn
<1>11. CASE MarkWoken(j)
  <2>1. UNCHANGED <<flag, running, by>> /\ jobs' = jobs \ {j} BY <1>11 DEF MarkWoken, Ends, host
  <2>2. \A s \in Services : ~Claims(j, s) BY <1>11 DEF MarkWoken, Claims, Setting
  <2> QED BY <1>1, <2>1, <2>2, GoesOff
<1>12. CASE Brief(j) BY <1>1, <1>12, BriefRest
<1>13. CASE ReleaseSvc(j)
  <2>1. UNCHANGED <<flag, running, by>> /\ jobs' = jobs \ {j} BY <1>13 DEF ReleaseSvc, Ends
  <2>2. \A s \in Services : ~Claims(j, s) BY <1>13 DEF ReleaseSvc, Claims, Setting
  <2> QED BY <1>1, <2>1, <2>2, GoesOff
<1>14. CASE ReadSet(j)
  <2> DEFINE k == [j EXCEPT !.seen = flag, !.pc = "write"]
  <2>1. To(j, k) /\ UNCHANGED <<flag, running, by>> /\ j.pc = "read" BY <1>14 DEF ReadSet, host
  <2>0. k \in Job BY <1>0 DEF Job, TypeOK
  <2>2. PICK i \in Job : /\ i = k /\ i.kind = j.kind /\ i.cur = j.cur /\ i.group = j.group
                         /\ i.pend = j.pend /\ i.pc = "write"
    BY <1>0, <2>0 DEF Job
  <2> HIDE DEF k
  <2>3. j.kind \in {"suspend", "wake"} /\ Holds(j)
    BY <1>0, <2>1 DEF Shape, Points, Job, Holds
  <2>4. i.pc \in Points(i.kind) BY <2>2, <2>3 DEF Points
  <2>5. Shape(i) BY <1>0, <2>1, <2>2, <2>4 DEF Shape
  <2>6. Unflags(i) \subseteq Unflags(j) /\ \A s \in Services : Claims(j, s) => Claims(i, s)
    BY <2>1, <2>2 DEF Unflags, Claims, Working, Setting
  <2>7. To(j, i) BY <2>1, <2>2
  <2> QED BY <1>1, <2>1, <2>3, <2>5, <2>6, <2>7, GoesOn
<1>15. CASE WriteSet(j) BY <1>1, <1>15, WriteSetRest
<1>16. CASE WriteFails(j) BY <1>1, <1>16, WriteFailsRest
<1> QED
  BY <1>2, <1>3, <1>4, <1>5, <1>6, <1>7, <1>8, <1>9, <1>10, <1>11, <1>12, <1>13, <1>14, <1>15, <1>16
  DEF JobStep, Suspend, Wake

-----------------------------------------------------------------------------
(* The steps of the tick, of the user and of the process. *)

\* Jobs are only added, and they wait.
LEMMA MoreJobs ==
  ASSUME TypeOK, Rest, UNCHANGED <<flag, running, by, cli>>,
         \A k \in jobs' : k \in jobs \/ Queued(k), jobs \subseteq jobs'
  PROVE  Rest'
BY ComeAndGo

LEMMA WakeAsyncWaits ==
  ASSUME NEW names, WakeAsync(names)
  PROVE  (\A k \in jobs' : k \in jobs \/ Queued(k)) /\ jobs \subseteq jobs'
BY SpawnedWait DEF WakeAsync

LEMMA TickRest ==
  ASSUME TypeOK, Rest, Tick
  PROVE  Rest'
<1>1. UNCHANGED <<flag, running, by, cli>> BY DEF Tick, TickRead, TickLook, TickAct, host
<1>2. (\A k \in jobs' : k \in jobs \/ Queued(k)) /\ jobs \subseteq jobs'
  BY SpawnedWait DEF Tick, TickRead, TickLook, TickAct
<1> QED BY <1>1, <1>2, MoreJobs

LEMMA StoppedRest ==
  ASSUME TypeOK, Rest, NEW s \in Services, UserStop(s)
  PROVE  Rest'
<1>1. /\ jobs' = jobs /\ flag' = flag /\ running' = running \ Downed(s)
      /\ by' = Become({s} \cup (Downed(s) \cap running), "user") /\ cli'.svc = {s}
  BY DEF UserStop, engine
<1>2. OneHolds' /\ Shapes' BY <1>1 DEF Rest, OneHolds, Holds, Shapes, Shape, Points, Downed, Dependents
<1>3. Mine'
  <2> SUFFICES ASSUME NEW n \in Services, by'[n] = "engine"
               PROVE  n \in flag \/ \E i \in jobs : Claims(i, n)'
    BY <1>1 DEF Mine
  <2>1. by[n] = "engine" /\ (n \in running => n \in running') BY <1>1 DEF Become, Stray
  <2> QED BY <1>1, <2>1 DEF Rest, Mine, Claims, Setting, Working
<1>4. Owed'
  <2>1. \A i \in jobs : Unflags(i) \subseteq Services BY UnflagsServices
  <2>2. \A n \in Services : Up(n) => Up(n)' BY <1>1 DEF Up, Become, Stray
  <2> QED BY <1>1, <2>1, <2>2 DEF Rest, Owed, Unflags, Setting, Working
<1>5. OneStop' BY <1>1 DEF OneStop
<1> QED BY <1>2, <1>3, <1>4, <1>5 DEF Rest

LEMMA UserWritesRest ==
  ASSUME TypeOK, Rest, UserWrites
  PROVE  Rest'
<1>1. jobs' = jobs /\ running' = running /\ flag' = cli.seen \ cli.svc /\ cli'.svc = {}
  BY DEF UserWrites, engine, NoStop
<1>2. PICK s \in cli.svc : by' = [Undone(cli.seen, s) EXCEPT ![s] = IF @ = "engine" THEN "user" ELSE @]
  BY DEF UserWrites
<1>3. s \in Services /\ \A n \in cli.svc : n = s BY DEF TypeOK, Rest, OneStop
<1>4. by'[s] # "engine" BY <1>2, <1>3 DEF Undone
<1>5. \A n \in Services : n # s => by'[n] = IF (n \in cli.seen) # (n \in flag) THEN "lost" ELSE by[n]
  BY <1>2, <1>3 DEF Undone
<1>6. OneHolds' /\ Shapes' BY <1>1 DEF Rest, OneHolds, Holds, Shapes, Shape, Points, Downed, Dependents
<1>7. Mine'
  <2> SUFFICES ASSUME NEW n \in Services, by'[n] = "engine"
               PROVE  n \in flag' \/ \E i \in jobs : Claims(i, n)'
    BY <1>1 DEF Mine
  <2>1. n # s /\ by[n] = "engine" /\ (n \in cli.seen <=> n \in flag) BY <1>4, <1>5
  <2>2. CASE n \in flag BY <1>1, <1>3, <2>1, <2>2
  <2>3. CASE n \notin flag BY <1>1, <2>1, <2>3 DEF Rest, Mine, Claims, Setting, Working
  <2> QED BY <2>2, <2>3
<1>8. Owed'
  <2>1. \A i \in jobs : Unflags(i) \subseteq Services BY UnflagsServices
  <2>2. \A n \in Services : Up(n) => Up(n)' BY <1>1, <1>4, <1>5 DEF Up
  <2> QED BY <1>1, <2>1, <2>2 DEF Rest, Owed, Unflags, Setting, Working
<1>9. OneStop' BY <1>1 DEF OneStop
<1> QED BY <1>6, <1>7, <1>8, <1>9 DEF Rest

LEMMA StartedRest ==
  ASSUME TypeOK, Rest, NEW s \in Services, StartBehind(s)
  PROVE  Rest'
<1>1. /\ jobs' = jobs /\ flag' = flag /\ cli' = cli /\ running \subseteq running'
      /\ \A n \in Services : by'[n] = "engine" => by[n] = "engine"
  BY DEF StartBehind, engine, Raise, Become
<1>2. OneHolds' /\ Shapes' BY <1>1 DEF Rest, OneHolds, Holds, Shapes, Shape, Points, Downed, Dependents
<1>3. Mine' BY <1>1 DEF Rest, Mine, Claims, Setting, Working
<1>4. Owed'
  <2>1. \A i \in jobs : Unflags(i) \subseteq Services BY UnflagsServices
  <2>2. \A n \in Services : Up(n) => Up(n)' BY <1>1 DEF Up
  <2> QED BY <1>1, <2>1, <2>2 DEF Rest, Owed, Unflags, Setting, Working
<1>5. OneStop' BY <1>1 DEF Rest, OneStop
<1> QED BY <1>2, <1>3, <1>4, <1>5 DEF Rest

\* The jobs go with the watcher; what was up and about to be flagged is nobody's.
LEMMA CrashRest ==
  ASSUME TypeOK, Rest, Crash
  PROVE  Rest'
<1>1. /\ jobs' = {} /\ flag' = flag /\ running' = running /\ cli' = cli
      /\ by' = Become({s \in running : by[s] = "engine"}, "none")
  BY DEF Crash
<1>2. OneHolds' /\ Shapes' /\ Owed' BY <1>1 DEF OneHolds, Shapes, Owed
<1>3. Mine'
  <2> SUFFICES ASSUME NEW n \in Services, by'[n] = "engine" PROVE n \in flag
    BY <1>1 DEF Mine
  <2>1. by[n] = "engine" /\ n \notin running BY <1>1 DEF Become, Stray
  <2> QED BY <2>1 DEF Rest, Mine, Claims
<1>4. OneStop' BY <1>1 DEF Rest, OneStop
<1> QED BY <1>2, <1>3, <1>4 DEF Rest

LEMMA NextRest == TypeOK /\ Rest /\ [Next]_vars => Rest'
<1> SUFFICES ASSUME TypeOK, Rest, [Next]_vars PROVE Rest'
  OBVIOUS
<1> USE DEF host, engine, memory
<1>1. CASE UNCHANGED vars BY <1>1, MoreJobs DEF vars
<1>2. CASE UserReads
  <2>1. cli'.svc = cli.svc BY <1>2 DEF UserReads, TypeOK
  <2>2. UNCHANGED <<flag, running, by, jobs>> BY <1>2 DEF UserReads
  <2>3. OneHolds' /\ Shapes' BY <2>2 DEF Rest, OneHolds, Holds, Shapes, Shape, Points, Downed, Dependents
  <2>4. Mine' /\ Owed' BY <2>2 DEF Rest, Mine, Owed, Up, Unflags, Claims, Setting, Working
  <2> QED BY <2>1, <2>3, <2>4 DEF Rest, OneStop
<1>3. CASE SiteRequest BY <1>3, WakeAsyncWaits, MoreJobs DEF SiteRequest
<1>4. ASSUME NEW s \in Services, DashRequest(s) PROVE Rest'
  BY <1>4, WakeAsyncWaits, MoreJobs DEF DashRequest
<1>5. ASSUME NEW s \in Services, GoQuiet(s) PROVE Rest'
  BY <1>5, MoreJobs DEF GoQuiet
<1>6. ASSUME NEW s \in Services, SnapBrief(s) PROVE Rest'
  BY <1>6, SpawnedWait, MoreJobs DEF SnapBrief
<1>7. CASE SnapCollect \/ Off \/ Boot BY <1>7, MoreJobs DEF SnapCollect, Off, Boot
<1> QED
  BY <1>1, <1>2, <1>3, <1>4, <1>5, <1>6, <1>7, JobStepRest, TickRest, StoppedRest, UserWritesRest,
     StartedRest, CrashRest
  DEF Next, User, Requests, Snapshots

LEMMA RestRemembers == Rest => AsleepIsRemembered
BY DEF Rest, Mine, Claims, AsleepIsRemembered

\* Whatever fails, is killed or runs beside it: a service the engine has put to sleep
\* is in the file the next watcher reads.
THEOREM SleepIsRemembered == Spec => []AsleepIsRemembered
<1>1. Init => TypeOK /\ Rest BY InitType, InitRest
<1>2. (TypeOK /\ Rest) /\ [Next]_vars => (TypeOK /\ Rest)' BY NextType, NextRest
<1> QED BY <1>1, <1>2, RestRemembers, PTL DEF Spec

-----------------------------------------------------------------------------
(* What a wake takes up. *)

\* A service in flight is that of a suspend or a brief.
Taken(j, s) == j.kind \in {"suspend", "brief"} /\ s \in j.names
Owned == \A s \in inFlight : \E j \in jobs : Taken(j, s)

\* A job goes on with its names, or lets them go as it ends; a wake takes none.
LEMMA OwnedKept ==
  ASSUME Owned, NEW j \in jobs, jobs \ {j} \subseteq jobs', inFlight' \subseteq inFlight,
         \/ j.kind \in {"wake", "release"}
         \/ inFlight' \cap j.names = {}
         \/ \E k \in jobs' : k.kind = j.kind /\ k.names = j.names
  PROVE  Owned'
<1> SUFFICES ASSUME NEW s \in inFlight' PROVE \E k \in jobs' : Taken(k, s)
  BY DEF Owned, Taken
<1>1. PICK i \in jobs : Taken(i, s)
  BY DEF Owned
<1>2. CASE i # j
  BY <1>1, <1>2
<1>3. CASE i = j
  BY <1>1, <1>3 DEF Taken
<1> QED BY <1>2, <1>3

LEMMA JobStepOwned ==
  ASSUME TypeOK, Owned, NEW j \in jobs, JobStep(j)
  PROVE  Owned'
<1>0. j \in Job BY DEF TypeOK
<1>1. jobs \ {j} \subseteq jobs'
  BY DEF JobStep, Suspend, Wake, Brief, NextService, StopSlept, StopFails, Unflagged, MarkSlept, ClearSuspend,
         LockWake, StartWoken, RestoreSites, MarkWoken, StartBrief, StopBrief, ClearBrief, ReleaseSvc, ReadSet,
         WriteSet, WriteFails, To, Ends
<1>2. CASE j.kind \in {"wake", "release"}
  <2>1. inFlight' = inFlight
    BY <1>2 DEF JobStep, Suspend, Wake, Brief, NextService, StopSlept, StopFails, Unflagged, MarkSlept,
         ClearSuspend, LockWake, StartWoken, RestoreSites, MarkWoken, StartBrief, StopBrief, ClearBrief,
         ReleaseSvc, ReadSet, WriteSet, WriteFails, memory
  <2> QED BY <1>1, <1>2, <2>1, OwnedKept
<1>3. CASE j.kind \in {"suspend", "brief"} /\ (ClearSuspend(j) \/ ClearBrief(j))
  <2>1. inFlight' = inFlight \ j.names
    BY <1>3 DEF ClearSuspend, ClearBrief, Cleared
  <2> QED BY <1>1, <2>1, OwnedKept
<1>4. CASE j.kind \in {"suspend", "brief"} /\ ~(ClearSuspend(j) \/ ClearBrief(j))
  <2>1. inFlight' = inFlight
    BY <1>4 DEF JobStep, Suspend, Wake, Brief, NextService, StopSlept, StopFails, Unflagged, MarkSlept,
         LockWake, StartWoken, RestoreSites, MarkWoken, StartBrief, StopBrief,
         ReleaseSvc, ReadSet, WriteSet, WriteFails, memory
  <2>2. \E k \in jobs' : k.kind = j.kind /\ k.names = j.names
    <3>1. CASE NextService(j)
      <4>1. PICK s, k : To(j, k) /\ k = [j EXCEPT !.todo = @ \ {s}, !.cur = {s}, !.group = {s} \cup (Dependents(s) \cap running),
                                           !.pend = {s} \cup (Dependents(s) \cap running), !.pc = "read"]
        BY <3>1 DEF NextService
      <4>2. k.kind = j.kind /\ k.names = j.names BY <1>0, <4>1 DEF Job
      <4> QED BY <4>1, <4>2 DEF To
    <3>2. CASE StopSlept(j)
      <4>1. PICK k : To(j, k) /\ k = [j EXCEPT !.pc = "next", !.cur = {}, !.group = {}, !.done = @ \cup j.group]
        BY <3>2 DEF StopSlept
      <4>2. k.kind = j.kind /\ k.names = j.names BY <1>0, <4>1 DEF Job
      <4> QED BY <4>1, <4>2 DEF To
    <3>3. CASE StopFails(j)
      <4>1. PICK k : To(j, k) /\ k = [j EXCEPT !.cur = {}, !.group = {}, !.pend = j.group]
        BY <3>3 DEF StopFails
      <4>2. k.kind = j.kind /\ k.names = j.names BY <1>0, <4>1 DEF Job
      <4> QED BY <4>1, <4>2 DEF To
    <3>4. CASE Unflagged(j) \/ MarkSlept(j) \/ Brief(j)
      <4>1. PICK pc, k : To(j, k) /\ k = [j EXCEPT !.pc = pc]
        BY <1>4, <3>4 DEF Unflagged, MarkSlept, Brief, StartBrief, StopBrief
      <4>2. k.kind = j.kind /\ k.names = j.names BY <1>0, <4>1 DEF Job
      <4> QED BY <4>1, <4>2 DEF To
    <3>5. CASE ReadSet(j)
      <4>1. PICK k : To(j, k) /\ k = [j EXCEPT !.seen = flag, !.pc = "write"]
        BY <3>5 DEF ReadSet
      <4>2. k.kind = j.kind /\ k.names = j.names BY <1>0, <4>1 DEF Job
      <4> QED BY <4>1, <4>2 DEF To
    <3>6. CASE WriteSet(j) \/ WriteFails(j)
      <4>1. PICK n \in j.pend : To(j, Wrote(j, n))
        BY <3>6 DEF WriteSet, WriteFails
      <4>2. Wrote(j, n).kind = j.kind /\ Wrote(j, n).names = j.names BY <1>0, <4>1, WroteFields
      <4> QED BY <4>1, <4>2 DEF To
    <3> QED
      BY <1>4, <3>1, <3>2, <3>3, <3>4, <3>5, <3>6
      DEF JobStep, Suspend, Wake, LockWake, StartWoken, RestoreSites, MarkWoken, ReleaseSvc
  <2> QED BY <1>1, <2>1, <2>2, OwnedKept
<1> QED BY <1>0, <1>2, <1>3, <1>4 DEF Job

LEMMA NextOwned == TypeOK /\ Owned /\ [Next]_vars => Owned'
<1> SUFFICES ASSUME TypeOK, Owned, [Next]_vars PROVE Owned'
  OBVIOUS
<1> USE DEF host, engine, memory
<1>1. CASE UNCHANGED vars BY <1>1 DEF Owned, vars
<1>2. ASSUME NEW j \in jobs, JobStep(j) PROVE Owned' BY <1>2, JobStepOwned
<1>3. CASE jobs \subseteq jobs' /\ inFlight' \subseteq inFlight BY <1>3 DEF Owned, Taken
<1>4. CASE TickAct
  <2> DEFINE batch == tick.sleep \ inFlight
  <2>1. inFlight' = inFlight \cup batch /\ jobs \subseteq jobs' /\ Spawn("suspend", batch) \subseteq jobs'
    BY <1>4 DEF TickAct
  <2>2. batch # {} => \E k \in jobs' : k.kind = "suspend" /\ k.names = batch
    BY <2>1 DEF Spawn, NewJob
  <2> HIDE DEF batch
  <2> QED BY <2>1, <2>2 DEF Owned, Taken
<1>5. ASSUME NEW s \in Services, SnapBrief(s) PROVE Owned'
  <2>1. CASE s \in inFlight BY <1>5, <2>1 DEF SnapBrief, Owned
  <2>2. CASE s \notin inFlight
    <3>1. inFlight' = inFlight \cup {s} /\ jobs \subseteq jobs' /\ NewJob("brief", {s}) \in jobs'
      BY <1>5, <2>2 DEF SnapBrief
    <3>2. Taken(NewJob("brief", {s}), s) BY DEF Taken, NewJob
    <3> QED BY <3>1, <3>2 DEF Owned, Taken
  <2> QED BY <2>1, <2>2
<1>6. CASE Crash BY <1>6 DEF Crash, Owned
<1>7. CASE TickRead \/ TickLook \/ User \/ Requests \/ SnapCollect \/ Off \/ Boot
  BY <1>3, <1>7 DEF TickRead, TickLook, User, UserStop, UserReads, UserWrites, Requests, SiteRequest, DashRequest,
     GoQuiet, StartBehind, SnapCollect, Off, Boot, WakeAsync
<1> QED BY <1>1, <1>2, <1>4, <1>5, <1>6, <1>7 DEF Next, Tick, Snapshots

\* Only a wake that has just got svcMu takes up services.
LEMMA TakenAtLock ==
  ASSUME TypeOK, [Next]_vars, NEW s \in Services, Takes(s)', ~Takes(s)
  PROVE  \E j \in jobs : LockWake(j) /\ s \in ToWake(j.names)
<1>1. PICK k \in jobs' : k.kind = "wake" /\ k.pc = "start" /\ s \in k.names
  BY DEF Takes
<1>2. k \notin jobs
  BY <1>1 DEF Takes
<1>3. \A kind, names : k \notin Spawn(kind, names)
  BY <1>1 DEF Spawn, NewJob
<1>4. CASE ~\E j \in jobs : JobStep(j)
  <2> USE DEF host, engine, memory
  <2>1. k \notin jobs \cup {NewJob("brief", {n}) : n \in Services}
    BY <1>1, <1>2 DEF NewJob
  <2>2. \A names : ~WakeAsync(names)
    BY <1>2, <1>3 DEF WakeAsync
  <2>3. ~Tick
    BY <1>2, <1>3 DEF Tick, TickRead, TickLook, TickAct
  <2>4. ~User /\ ~Off /\ ~Crash /\ ~Boot /\ jobs' # jobs
    BY <1>1, <1>2 DEF User, UserStop, UserReads, UserWrites, Off, Crash, Boot
  <2>5. ~Requests
    BY <2>2, <2>4 DEF Requests, SiteRequest, DashRequest, GoQuiet, StartBehind
  <2>6. ~Snapshots
    BY <2>1, <2>4, <1>1 DEF Snapshots, SnapCollect, SnapBrief
  <2> QED BY <1>4, <2>3, <2>4, <2>5, <2>6 DEF Next, vars
<1>5. ASSUME NEW j \in jobs, JobStep(j), ~LockWake(j) PROVE FALSE
  <2>0. j \in Job BY DEF TypeOK
  <2>1. ~StartWoken(j)
    <3> SUFFICES ASSUME StartWoken(j) PROVE FALSE
      OBVIOUS
    <3>1. PICK n, ok : To(j, Started(j, n, ok))
      BY DEF StartWoken
    <3>2. k = Started(j, n, ok)
      BY <1>2, <3>1 DEF To
    <3>3. k.names = j.names
      BY <2>0, <3>2 DEF Started, Job
    <3> QED BY <1>1, <3>3 DEF StartWoken, Takes
  <2>2. ~NextService(j) /\ ~StopSlept(j) /\ ~StopFails(j)
    <3>1. ~NextService(j)
      <4> SUFFICES ASSUME NextService(j) PROVE FALSE
        OBVIOUS
      <4>1. PICK s1, i : To(j, i) /\ i = [j EXCEPT !.todo = @ \ {s1}, !.cur = {s1}, !.group = {s1} \cup (Dependents(s1) \cap running),
                                           !.pend = {s1} \cup (Dependents(s1) \cap running), !.pc = "read"]
        BY DEF NextService
      <4>2. i = k /\ j.kind = "suspend" BY <1>2, <4>1 DEF To, NextService
      <4> QED BY <1>1, <2>0, <4>1, <4>2 DEF Job
    <3>2. ~StopSlept(j)
      <4> SUFFICES ASSUME StopSlept(j) PROVE FALSE
        OBVIOUS
      <4>1. PICK i : To(j, i) /\ i = [j EXCEPT !.pc = "next", !.cur = {}, !.group = {}, !.done = @ \cup j.group]
        BY DEF StopSlept
      <4>2. i = k /\ j.kind = "suspend" BY <1>2, <4>1 DEF To, StopSlept, Flagged
      <4> QED BY <1>1, <2>0, <4>1, <4>2 DEF Job
    <3>3. ~StopFails(j)
      <4> SUFFICES ASSUME StopFails(j) PROVE FALSE
        OBVIOUS
      <4>1. PICK i : To(j, i) /\ i = [j EXCEPT !.cur = {}, !.group = {}, !.pend = j.group]
        BY DEF StopFails
      <4>2. i = k /\ j.kind = "suspend" BY <1>2, <4>1 DEF To, StopFails, Flagged
      <4> QED BY <1>1, <2>0, <4>1, <4>2 DEF Job
    <3> QED BY <3>1, <3>2, <3>3
  <2>3. ~Unflagged(j) /\ ~MarkSlept(j) /\ ~RestoreSites(j) /\ ~StartBrief(j) /\ ~StopBrief(j)
    <3>1. ~Unflagged(j)
      <4> SUFFICES ASSUME Unflagged(j) PROVE FALSE
        OBVIOUS
      <4>1. PICK i : To(j, i) /\ i.pc = "next"
        BY <2>0 DEF Unflagged, Job
      <4> QED BY <1>1, <1>2, <4>1 DEF To
    <3>2. ~MarkSlept(j)
      <4> SUFFICES ASSUME MarkSlept(j) PROVE FALSE
        OBVIOUS
      <4>1. PICK i : To(j, i) /\ i.pc = "clear"
        BY <2>0 DEF MarkSlept, Job
      <4> QED BY <1>1, <1>2, <4>1 DEF To
    <3>3. ~RestoreSites(j)
      <4> SUFFICES ASSUME RestoreSites(j) PROVE FALSE
        OBVIOUS
      <4>1. PICK i : To(j, i) /\ i = [j EXCEPT !.pc = "mark", !.seen = flag]
        BY DEF RestoreSites
      <4>2. i.pc = "mark" BY <2>0, <4>1 DEF Job
      <4> QED BY <1>1, <1>2, <4>1, <4>2 DEF To
    <3>4. ~StartBrief(j)
      <4> SUFFICES ASSUME StartBrief(j) PROVE FALSE
        OBVIOUS
      <4>1. PICK i : To(j, i) /\ i.pc \in {"stop", "clear"}
        BY <2>0 DEF StartBrief, Job
      <4> QED BY <1>1, <1>2, <4>1 DEF To
    <3>5. ~StopBrief(j)
      <4> SUFFICES ASSUME StopBrief(j) PROVE FALSE
        OBVIOUS
      <4>1. PICK i : To(j, i) /\ i.pc = "clear"
        BY <2>0 DEF StopBrief, Job
      <4> QED BY <1>1, <1>2, <4>1 DEF To
    <3> QED BY <3>1, <3>2, <3>3, <3>4, <3>5
  <2>4. ~ReadSet(j) /\ ~WriteSet(j) /\ ~WriteFails(j)
    <3>1. ~ReadSet(j)
      BY <1>1, <1>2, <2>0 DEF ReadSet, To, Job
    <3>2. ~WriteSet(j) /\ ~WriteFails(j)
      <4> SUFFICES ASSUME WriteSet(j) \/ WriteFails(j) PROVE FALSE
        OBVIOUS
      <4>1. PICK n \in j.pend : To(j, Wrote(j, n))
        BY DEF WriteSet, WriteFails
      <4>2. k = Wrote(j, n) BY <1>2, <4>1 DEF To
      <4> QED BY <1>1, <2>0, <4>1, <4>2, WroteFields
    <3> QED BY <3>1, <3>2
  <2>5. ~ClearSuspend(j) /\ ~MarkWoken(j) /\ ~ClearBrief(j) /\ ~ReleaseSvc(j)
    BY <1>2 DEF ClearSuspend, MarkWoken, ClearBrief, ReleaseSvc, Ends
  <2> QED BY <1>5, <2>1, <2>2, <2>3, <2>4, <2>5 DEF JobStep, Suspend, Wake, Brief
<1>6. PICK j \in jobs : LockWake(j)
  BY <1>4, <1>5
<1>7. k = [j EXCEPT !.pc = "start", !.names = ToWake(j.names), !.todo = ToWake(j.names)]
  BY <1>2, <1>3, <1>6 DEF LockWake
<1>8. k.names = ToWake(j.names)
  BY <1>7 DEF TypeOK, Job
<1> QED BY <1>1, <1>6, <1>8

\* asleepOf under svcMu, and a suspend that leaves inFlight before it gives svcMu back:
\* a wake takes up what is flagged, or what a waiting suspend or a brief has in flight, and
\* never what another wake has woken or the user has stopped since.
THEOREM WakeTakesAsleep == Spec => WakesOnlyAsleep
<1>1. TypeOK /\ Owned /\ [Next]_vars =>
        [\A s \in Services : Takes(s)' /\ ~Takes(s) => s \in flag \/ Claimed(s)]_vars
  <2> SUFFICES ASSUME TypeOK, Owned, [Next]_vars, NEW s \in Services, Takes(s)', ~Takes(s), s \notin flag
               PROVE  Claimed(s)
    OBVIOUS
  <2>1. PICK j \in jobs : LockWake(j) /\ s \in ToWake(j.names)
    BY TakenAtLock
  <2>2. s \in inFlight /\ MuFree
    BY <2>1 DEF LockWake, ToWake, Released, Asleep
  <2>3. PICK i \in jobs : Taken(i, s)
    BY <2>2 DEF Owned
  <2>4. i.kind = "suspend" => i.pc = "lock"
    BY <2>2 DEF MuFree, Holds
  <2> QED BY <2>3, <2>4 DEF Taken, Claimed
<1>2. Init => TypeOK /\ Owned
  BY InitType DEF Init, Owned
<1>3. TypeOK /\ Owned /\ [Next]_vars => (TypeOK /\ Owned)'
  BY NextType, NextOwned
<1> QED BY <1>1, <1>2, <1>3, PTL DEF Spec, WakesOnlyAsleep

-----------------------------------------------------------------------------
(* The waking page. *)

\* A site that uses a service uses what that relies on.
UsesWhatItNeeds == \A s \in SiteUses : Needs[s] \subseteq SiteUses

\* What a job has in hand: a suspend between its page and its stop is at a service the
\* site uses, if it is to flag one; and a wake starts and unflags what it has taken up.
Hands(j) ==
  /\ j.cur # {} => j.kind = "suspend" /\ j.pc \in {"read", "write"}
  /\ j.cur \subseteq j.group
  /\ j.cur # {} /\ j.pend \cap SiteUses # {} => j.cur \cap SiteUses # {}
  /\ j.kind = "wake" => /\ j.todo \cup j.done \cup j.pend \subseteq j.names
                        /\ j.pc = "lock" => j.pend = {}

\* The page is up from before a suspend's first flag until the last flag is gone; but for
\* flags that another's write brought back.
Covers(j) == j.cur \cap SiteUses # {}
Covered == \A j \in jobs : Covers(j) => vhost # "real"
FlagPage == \A s \in flag \cap SiteUses : by[s] = "lost" \/ vhost # "real"

\* While it is up, a service the site uses is asleep to the file or to the engine, or a
\* job at work looks at the page before it ends; and a wake that was to take it down has.
WakingWhy == up = "up" /\ vhost = "waking" => Watched(flag \cup sleeping, jobs)
TakesDown(j) == j.kind = "wake" /\ j.pc = "mark" /\ j.names \cap SiteUses # {} /\ j.seen \cap SiteUses = {}
Restoring == \A j \in jobs : TakesDown(j) => vhost # "waking"

PageInv == (\A j \in jobs : Hands(j)) /\ Covered /\ FlagPage /\ WakingWhy /\ Restoring

\* A job of the next state is one of this, or has a page only if the page is up.
Fits(i) == i \in jobs \/ (Hands(i) /\ (Covers(i) => vhost' # "real") /\ (TakesDown(i) => vhost' # "waking"))
\* A job that is at no page.
Plain(i) == Hands(i) /\ ~Covers(i) /\ ~TakesDown(i)

\* A step that takes no page down.
LEMMA PageKept ==
  ASSUME PageInv, vhost # "real" => vhost' # "real", \A i \in jobs' : Fits(i),
         \A s \in flag' \cap SiteUses : by'[s] = "lost" \/ vhost' # "real" \/ (s \in flag /\ by[s] # "lost"),
         WakingWhy', vhost' = "waking" => vhost = "waking" \/ \A i \in jobs' : ~TakesDown(i)
  PROVE  PageInv'
<1>1. \A i \in jobs' : Hands(i)' BY DEF PageInv, Hands, Fits
<1>2. Covered' BY DEF PageInv, Covered, Covers, Fits
<1>3. FlagPage' BY DEF PageInv, FlagPage
<1>4. Restoring' BY DEF PageInv, Restoring, TakesDown, Fits
<1> QED BY <1>1, <1>2, <1>3, <1>4 DEF PageInv

\* A page that stays up for the reason it was, or for another.
LEMMA WakingKept ==
  ASSUME WakingWhy, vhost' = "waking" => vhost = "waking", up' = up,
         \A s \in SiteUses \cap (flag \cup sleeping) :
           s \in flag' \cup sleeping' \/ \E k \in jobs' : Looks(k),
         \A i \in jobs : Looks(i) => (flag' \cup sleeping') \cap SiteUses # {} \/ \E k \in jobs' : Looks(k)
  PROVE  WakingWhy'
BY DEF WakingWhy, Watched, Looks

\* A step that looks at the page leaves none to nobody.
LEMMA PageLooked ==
  ASSUME NEW asleep, asleep = flag' \cup sleeping', vhost' = Page(asleep, jobs')
  PROVE  /\ WakingWhy'
         /\ vhost # "real" => vhost' # "real"
         /\ vhost' = "waking" => vhost = "waking"
BY DEF WakingWhy, Watched, Looks, Page

\* Jobs come, and jobs go that have no page to look at.
LEMMA PageLeft ==
  ASSUME PageInv, UNCHANGED <<flag, vhost, up>>, \A i \in jobs' : i \in jobs \/ Plain(i),
         \A s \in Services : by[s] = "lost" /\ s \in flag => by'[s] = "lost",
         \A s \in SiteUses \cap sleeping : s \in sleeping' \/ \E k \in jobs' : Looks(k),
         \A i \in jobs : Looks(i) => sleeping' \cap SiteUses # {} \/ \E k \in jobs' : Looks(k)
  PROVE  PageInv'
<1>1. WakingWhy'
  <2>1. \A s \in SiteUses \cap (flag \cup sleeping) : s \in flag' \cup sleeping' \/ \E k \in jobs' : Looks(k)
    OBVIOUS
  <2>2. \A i \in jobs : Looks(i) => (flag' \cup sleeping') \cap SiteUses # {} \/ \E k \in jobs' : Looks(k)
    OBVIOUS
  <2> QED BY <2>1, <2>2, WakingKept DEF PageInv
<1>2. \A i \in jobs' : Fits(i) BY DEF Fits, Plain
<1>3. \A s \in flag' \cap SiteUses : by'[s] = "lost" \/ vhost' # "real" \/ (s \in flag /\ by[s] # "lost")
  OBVIOUS
<1> QED BY <1>1, <1>2, <1>3, PageKept

LEMMA SpawnedBegin ==
  ASSUME NEW kind, NEW names
  PROVE  \A k \in Spawn(kind, names) \cup {NewJob(kind, names)} : Plain(k)
BY DEF NewJob, Spawn, Hands, Plain, Covers, TakesDown

\* What is let go of has a job that takes its page down.
LEMMA ReleaseLooks ==
  ASSUME NEW names, NEW s \in names \cap SiteUses, Spawn("release", names) \subseteq jobs'
  PROVE  \E k \in jobs' : Looks(k)
<1>1. NewJob("release", names) \in jobs' BY DEF Spawn
<1>2. Looks(NewJob("release", names)) BY DEF NewJob, Looks
<1> QED BY <1>1, <1>2

\* What a stop does to whose the services are.
LEMMA PutDownKeeps ==
  ASSUME TypeOK, NEW names, by' = PutDown(names)
  PROVE  \A n \in Services : by[n] = "lost" => by'[n] = "lost"
BY DEF PutDown

\* And a start: what was lost and flagged stays so.
LEMMA BecomeKeeps ==
  ASSUME TypeOK, NEW names, NEW whose, whose # "engine", by' = Become(names, whose)
  PROVE  \A n \in Services : by[n] = "lost" /\ n \in flag => by'[n] = "lost"
BY DEF Become, Stray

-----------------------------------------------------------------------------
(* The page and the steps of a suspend. *)

LEMMA NextServicePage ==
  ASSUME TypeOK, Rest, PageInv, UsesWhatItNeeds, NEW j \in jobs, NextService(j), UNCHANGED up
  PROVE  PageInv'
<1>0. j \in Job /\ Shape(j) /\ Hands(j) BY DEF TypeOK, Rest, Shapes, PageInv
<1>1. PICK s \in j.todo :
        /\ \/ vhost' = (IF s \in SiteUses THEN "waking" ELSE vhost)
           \/ s \in SiteUses /\ vhost' = IF vhost \in {"waking", "stuck"} THEN vhost ELSE "bare"
        /\ LET group == {s} \cup (Dependents(s) \cap running)
           IN /\ by' = Become(group \cap running, "engine")
              /\ To(j, [j EXCEPT !.todo = @ \ {s}, !.cur = {s}, !.group = group, !.pend = group, !.pc = "read"])
  BY DEF NextService
<1>2. PICK group : group = {s} \cup (Dependents(s) \cap running)
  OBVIOUS
<1>3. PICK k : k = [j EXCEPT !.todo = @ \ {s}, !.cur = {s}, !.group = group, !.pend = group, !.pc = "read"]
  OBVIOUS
<1>4. /\ k.kind = "suspend" /\ k.cur = {s} /\ k.pend = group /\ k.pc = "read" /\ k.group = group
      /\ k.todo = j.todo \ {s} /\ k.done = j.done
  BY <1>0, <1>3 DEF Job, NextService
<1>5. To(j, k) /\ by' = Become(group \cap running, "engine") /\ s \in Services
  BY <1>0, <1>1, <1>2, <1>3 DEF Job
<1>6. UNCHANGED <<flag, running, sleeping>> BY DEF NextService, memory
<1>7. s \in SiteUses => vhost' # "real"
  BY <1>1
<1>8. Fits(k)
  <2>1. group \cap SiteUses # {} => s \in SiteUses
    BY <1>2, <1>5 DEF UsesWhatItNeeds, Dependents
  <2> QED BY <1>2, <1>4, <1>7, <2>1 DEF Fits, Hands, Covers, TakesDown
<1>9. \A n \in Services : by'[n] = "engine" \/ by'[n] = by[n]
  BY <1>5 DEF Become
<1>10. \A n \in Services : by'[n] = "engine" => n \in group \cap running \/ by[n] = "engine"
  BY <1>5 DEF Become
<1>11. WakingWhy'
  <2>1. CASE s \in SiteUses
    <3>1. Looks(k) /\ k \in jobs' BY <1>4, <1>5, <2>1 DEF Looks, To
    <3> QED BY <3>1 DEF WakingWhy, Watched, Looks
  <2>2. CASE s \notin SiteUses
    <3>1. Looks(j) => Looks(k) /\ k \in jobs'
      BY <1>0, <1>4, <1>5, <2>2 DEF NextService, MayRun, Shape, Looks, To
    <3>2. \A i \in jobs : Looks(i) => (flag' \cup sleeping') \cap SiteUses # {} \/ \E n \in jobs' : Looks(n)
      BY <1>5, <3>1 DEF To
    <3> QED BY <1>1, <1>6, <2>2, <3>2, WakingKept DEF PageInv
  <2> QED BY <2>1, <2>2
<1>12. \A n \in flag' \cap SiteUses : by'[n] = "lost" \/ vhost' # "real" \/ (n \in flag /\ by[n] # "lost")
  <2> SUFFICES ASSUME NEW n \in flag \cap SiteUses, by[n] = "lost", by'[n] # "lost" PROVE vhost' # "real"
    BY <1>6
  <2>1. n \in group BY <1>9, <1>10
  <2>2. s \in SiteUses BY <1>2, <1>5, <2>1 DEF UsesWhatItNeeds, Dependents
  <2> QED BY <1>7, <2>2
<1>13. vhost # "real" => vhost' # "real" BY <1>1
<1>14. \A i \in jobs' : Fits(i) BY <1>5, <1>8 DEF To, Fits
<1>15. \A i \in jobs' : ~TakesDown(i)
  <2>1. Holds(j) \/ MuFree BY DEF NextService, MayRun, Holds
  <2>2. \A i \in jobs : i # j => ~Holds(i) BY <2>1, Alone
  <2> QED BY <1>4, <1>5, <2>2 DEF To, TakesDown, Holds
<1> QED BY <1>11, <1>12, <1>13, <1>14, <1>15, PageKept

LEMMA StopSleptPage ==
  ASSUME TypeOK, Rest, PageInv, NEW j \in jobs, StopSlept(j), UNCHANGED up
  PROVE  PageInv'
<1>0. j \in Job /\ Shape(j) /\ Hands(j) BY DEF TypeOK, Rest, Shapes, PageInv
<1>1. PICK k : k = [j EXCEPT !.pc = "next", !.cur = {}, !.group = {}, !.done = @ \cup j.group]
  OBVIOUS
<1>2. k.kind = "suspend" /\ k.cur = {} /\ k.pc = "next" /\ k.todo = j.todo /\ k.done = j.done \cup j.group
  BY <1>0, <1>1 DEF Job, StopSlept, Flagged
<1>3. To(j, k) /\ UNCHANGED <<flag, vhost, sleeping>> /\ \E names : by' = PutDown(names)
  BY <1>1 DEF StopSlept, memory
<1>4. Plain(k) BY <1>2 DEF Plain, Hands, Covers, TakesDown
<1>5. Looks(j) => Looks(k)
  BY <1>0, <1>2 DEF StopSlept, Flagged, Looks, Hands
<1>6. k \in jobs' /\ \A i \in jobs : Looks(i) => \E n \in jobs' : Looks(n)
  BY <1>3, <1>5 DEF To
<1>7. \A s \in Services : by[s] = "lost" => by'[s] = "lost"
  BY <1>3, PutDownKeeps
<1> QED BY <1>3, <1>4, <1>6, <1>7, PageLeft DEF To

LEMMA StopFailsPage ==
  ASSUME TypeOK, Rest, PageInv, NEW j \in jobs, StopFails(j), UNCHANGED up
  PROVE  PageInv'
<1>0. j \in Job /\ Shape(j) /\ Hands(j) BY DEF TypeOK, Rest, Shapes, PageInv
<1>1. PICK k : k = [j EXCEPT !.cur = {}, !.group = {}, !.pend = j.group]
  OBVIOUS
<1>2. k.kind = "suspend" /\ k.cur = {} /\ k.pc = "read" BY <1>0, <1>1 DEF Job, StopFails, Flagged
<1>3. To(j, k) /\ UNCHANGED <<flag, vhost, sleeping>> /\ \E names : by' = Become(names, "lost")
  BY <1>1 DEF StopFails, memory
<1>4. Plain(k) /\ Looks(k) BY <1>2 DEF Plain, Hands, Covers, TakesDown, Looks
<1>5. k \in jobs' /\ \A i \in jobs' : i \in jobs \/ Plain(i)
  BY <1>3, <1>4 DEF To
<1>6. \A s \in Services : by[s] = "lost" /\ s \in flag => by'[s] = "lost"
  BY <1>3, BecomeKeeps
<1> QED BY <1>3, <1>4, <1>5, <1>6, PageLeft

LEMMA SuspendPage ==
  ASSUME TypeOK, Rest, PageInv, UsesWhatItNeeds, NEW j \in jobs, Suspend(j), UNCHANGED up
  PROVE  PageInv'
<1>0. j \in Job /\ Shape(j) /\ Hands(j) BY DEF TypeOK, Rest, Shapes, PageInv
<1>1. CASE Unflagged(j)
  <2>1. PICK k : k = [j EXCEPT !.pc = "next"] OBVIOUS
  <2>2. k.kind = "suspend" /\ k.cur = {} BY <1>0, <1>1, <2>1 DEF Job, Unflagged
  <2>3. /\ To(j, k) /\ UNCHANGED <<flag, running, by, sleeping>>
        /\ vhost' = Page(flag \cup sleeping, jobs')
    BY <1>1, <2>1 DEF Unflagged, memory
  <2>4. /\ WakingWhy'
        /\ vhost # "real" => vhost' # "real"
        /\ vhost' = "waking" => vhost = "waking"
    <3>1. PICK asleep : asleep = flag \cup sleeping OBVIOUS
    <3>2. asleep = flag' \cup sleeping' /\ vhost' = Page(asleep, jobs') BY <2>3, <3>1
    <3> QED BY <3>2, PageLooked
  <2>5. \A i \in jobs' : Fits(i)
    BY <2>2, <2>3 DEF To, Hands, Covers, TakesDown, Fits
  <2>6. \A n \in flag' \cap SiteUses : by'[n] = "lost" \/ vhost' # "real" \/ (n \in flag /\ by[n] # "lost")
    BY <2>3
  <2> QED BY <2>4, <2>5, <2>6, PageKept
<1>2. CASE MarkSlept(j)
  <2>1. PICK k : k = [j EXCEPT !.pc = "clear"] OBVIOUS
  <2>2. k.kind = "suspend" /\ k.cur = {} BY <1>0, <1>2, <2>1 DEF Job, MarkSlept, Shape
  <2>3. To(j, k) /\ UNCHANGED <<flag, by, vhost>> /\ sleeping' = sleeping \cup j.done
    BY <1>2, <2>1 DEF MarkSlept, host
  <2>4. Looks(j) => sleeping' \cap SiteUses # {} BY <1>0, <1>2, <2>3 DEF MarkSlept, Shape, Looks
  <2>5. \A i \in jobs : Looks(i) => sleeping' \cap SiteUses # {} \/ \E n \in jobs' : Looks(n)
    BY <2>3, <2>4 DEF To
  <2>6. \A i \in jobs' : i \in jobs \/ Plain(i)
    BY <2>2, <2>3 DEF To, Hands, Plain, Covers, TakesDown
  <2> QED BY <2>3, <2>5, <2>6, PageLeft
<1>3. CASE ClearSuspend(j)
  <2>1. jobs' = jobs \ {j} /\ UNCHANGED <<flag, by, vhost, sleeping>> BY <1>3 DEF ClearSuspend, Ends, host
  <2>2. ~Looks(j) BY <1>3 DEF ClearSuspend, Looks
  <2> QED BY <2>1, <2>2, PageLeft
<1> QED BY <1>1, <1>2, <1>3, NextServicePage, StopSleptPage, StopFailsPage DEF Suspend

-----------------------------------------------------------------------------
(* The page and the other jobs. *)

\* A wake or a release goes, or goes on to no page, after RestoreSitesAfterServiceWake: the
\* page is taken down where no flag stands for it, or is known to be wrong.
LEMMA PageBack ==
  ASSUME PageInv, NEW j \in jobs, RestoreSite(j.names), UNCHANGED <<flag, by, up, sleeping>>,
         Looks(j) => j.names \cap SiteUses # {}, jobs \ {j} \subseteq jobs',
         \A i \in jobs' : i \in jobs \/ (Hands(i) /\ ~Covers(i)
                                         /\ (TakesDown(i) => j.names \cap SiteUses # {} /\ ~Waits))
  PROVE  PageInv'
<1>1. \A i \in jobs' : Hands(i)' BY DEF PageInv, Hands
<1>2. CASE (j.names \cap SiteUses = {} \/ Waits) /\ vhost' = vhost
  <2>1. \A i \in jobs' : i \in jobs \/ Plain(i) BY <1>2 DEF Plain
  <2>2. \A i \in jobs : Looks(i) => (flag' \cup sleeping') \cap SiteUses # {} \/ \E k \in jobs' : Looks(k)
    BY <1>2 DEF Waits
  <2>3. WakingWhy' BY <1>2, <2>2, WakingKept DEF PageInv
  <2>4. \A i \in jobs' : Fits(i) BY <2>1 DEF Fits, Plain
  <2> QED BY <1>2, <2>3, <2>4, PageKept
<1>3. CASE j.names \cap SiteUses # {} /\ ~Waits
           /\ vhost' \in {Restored, IF vhost = "waking" THEN "stuck" ELSE vhost}
  <2>1. vhost' # "waking" BY <1>3 DEF Restored
  <2>2. WakingWhy' /\ Restoring' BY <2>1 DEF WakingWhy, Restoring
  <2>3. flag' \cap SiteUses = {} BY <1>3 DEF Waits
  <2>4. FlagPage' BY <2>3 DEF FlagPage
  <2>5. Covered'
    <3> SUFFICES ASSUME NEW i \in jobs', Covers(i) PROVE vhost' # "real"
      BY DEF Covered, Covers
    <3>1. i \in jobs /\ i.kind = "suspend" /\ vhost # "real"
      BY DEF PageInv, Hands, Covers, Covered
    <3>2. Swapping BY <3>1 DEF Swapping, Covers
    <3> QED BY <1>3, <3>1, <3>2 DEF Restored
  <2> QED BY <1>1, <2>2, <2>4, <2>5 DEF PageInv
<1> QED BY <1>2, <1>3 DEF RestoreSite

LEMMA StartedFields ==
  ASSUME NEW j \in Job, NEW s \in Services, NEW ok \in SUBSET {s}, NEW k, k = Started(j, s, ok)
  PROVE  /\ k.kind = j.kind /\ k.names = j.names /\ k.cur = j.cur /\ k.todo = j.todo \ {s}
         /\ k.done = j.done \cup ok /\ k.pend \subseteq k.done /\ k.pc \in {j.pc, "read"}
<1> DEFINE done == j.done \cup ok
           last == j.todo = {s}
           pend == IF last THEN done ELSE {}
           pc == IF last THEN "read" ELSE j.pc
<1>1. k = [j EXCEPT !.todo = @ \ {s}, !.done = done, !.pc = pc, !.pend = pend]
  BY DEF Started, ToUnflag, Job
<1>2. pend \subseteq done /\ pc \in {j.pc, "read"} OBVIOUS
<1> HIDE DEF pend, pc, done
<1>3. /\ k.kind = j.kind /\ k.names = j.names /\ k.cur = j.cur /\ k.todo = j.todo \ {s}
      /\ k.done = done /\ k.pend = pend /\ k.pc = pc
  BY <1>1 DEF Job
<1> QED BY <1>2, <1>3 DEF done

LEMMA StartWokenPage ==
  ASSUME TypeOK, Rest, PageInv, NEW j \in jobs, StartWoken(j), UNCHANGED up
  PROVE  PageInv'
<1>0. j \in Job /\ Shape(j) /\ Hands(j) /\ j.kind = "wake" /\ j.pc = "start"
  BY DEF TypeOK, Rest, Shapes, PageInv, StartWoken
<1>1. PICK s \in j.todo : /\ To(j, Started(j, s, {s})) \/ To(j, Started(j, s, {}))
                          /\ \E raised : Raise(raised)
  BY DEF StartWoken
<1>13. PICK ok \in {{s}, {}} : To(j, Started(j, s, ok))
  BY <1>1
<1>2. s \in Services /\ s \in j.names /\ j.cur = {} /\ ok \in SUBSET {s} BY <1>0, <1>1 DEF Job, Hands, Shape
<1>3. PICK k : k = Started(j, s, ok) OBVIOUS
<1>4. /\ k.kind = j.kind /\ k.names = j.names /\ k.cur = j.cur /\ k.todo = j.todo \ {s}
      /\ k.done = j.done \cup ok /\ k.pend \subseteq k.done /\ k.pc \in {j.pc, "read"}
  BY <1>0, <1>2, <1>3, StartedFields
<1>5. Hands(k) BY <1>0, <1>2, <1>4 DEF Hands
<1>6. Plain(k) BY <1>0, <1>2, <1>4, <1>5 DEF Plain, Covers, TakesDown
<1>7. Looks(j) => Looks(k) BY <1>0, <1>4 DEF Looks
<1>8. UNCHANGED <<flag, vhost, sleeping>> BY DEF StartWoken, memory
<1>9. \A n \in Services : by[n] = "lost" /\ n \in flag => by'[n] = "lost"
  BY <1>1, BecomeKeeps DEF Raise
<1>10. To(j, k) BY <1>13, <1>3
<1>11. \A i \in jobs : Looks(i) => \E n \in jobs' : Looks(n) BY <1>7, <1>10 DEF To
<1>12. \A i \in jobs' : i \in jobs \/ Plain(i) BY <1>6, <1>10 DEF To
<1> QED BY <1>8, <1>9, <1>11, <1>12, PageLeft

LEMMA WakePage ==
  ASSUME TypeOK, Rest, PageInv, NEW j \in jobs, Wake(j), UNCHANGED up
  PROVE  PageInv'
<1>0. j \in Job /\ Shape(j) /\ Hands(j) BY DEF TypeOK, Rest, Shapes, PageInv
<1>1. CASE LockWake(j)
  <2>1. PICK names, freed : names = ToWake(j.names) /\ freed = Released(j.names) OBVIOUS
  <2>2. PICK k : k = [j EXCEPT !.pc = "start", !.names = names, !.todo = names] OBVIOUS
  <2>3. /\ jobs' \subseteq (jobs \ {j}) \cup {k} \cup Spawn("release", freed)
        /\ jobs \ {j} \subseteq jobs' /\ UNCHANGED <<flag, running, by, vhost>>
        /\ Spawn("release", freed) \subseteq jobs' /\ sleeping' = sleeping \ freed
    BY <1>1, <2>1, <2>2 DEF LockWake, host
  <2>4. Plain(k)
    <3>1. k.kind = j.kind /\ k.names = names /\ k.todo = names /\ k.cur = j.cur /\ k.done = j.done
          /\ k.pend = j.pend /\ k.pc = "start" /\ k.group = j.group
      BY <1>0, <2>2 DEF Job
    <3>2. j.kind = "wake" /\ j.pc = "lock" BY <1>1 DEF LockWake
    <3> QED BY <1>0, <3>1, <3>2 DEF Shape, Hands, Plain, Covers, TakesDown
  <2>5. ~Looks(j) BY <1>1 DEF LockWake, Looks
  <2>6. \A i \in jobs' : i \in jobs \/ Plain(i) BY <2>3, <2>4, SpawnedBegin
  <2>7. \A s \in SiteUses \cap sleeping : s \in sleeping' \/ \E n \in jobs' : Looks(n)
    BY <2>3, ReleaseLooks
  <2>8. \A i \in jobs : Looks(i) => \E n \in jobs' : Looks(n) BY <2>3, <2>5
  <2> QED BY <2>3, <2>6, <2>7, <2>8, PageLeft
<1>2. CASE StartWoken(j) BY <1>2, StartWokenPage
<1>3. CASE RestoreSites(j)
  <2>1. PICK k : k = [j EXCEPT !.pc = "mark", !.seen = flag] OBVIOUS
  <2>2. k.kind = j.kind /\ k.names = j.names /\ k.cur = j.cur /\ k.todo = j.todo /\ k.done = j.done
        /\ k.pend = j.pend /\ k.pc = "mark" /\ k.group = j.group /\ k.seen = flag
    BY <1>0, <2>1 DEF Job
  <2>3. j.kind = "wake" /\ j.pc = "read" /\ To(j, k) /\ UNCHANGED <<flag, by, sleeping>> /\ RestoreSite(j.names)
    BY <1>3, <2>1 DEF RestoreSites, memory
  <2>4. Hands(k) /\ ~Covers(k) /\ (TakesDown(k) => j.names \cap SiteUses # {} /\ ~Waits)
    BY <1>0, <2>2, <2>3 DEF Hands, Shape, Covers, TakesDown, Waits
  <2>5. Looks(j) => j.names \cap SiteUses # {} BY <2>3 DEF Looks
  <2>6. \A i \in jobs' : i \in jobs \/ (Hands(i) /\ ~Covers(i)
                                        /\ (TakesDown(i) => j.names \cap SiteUses # {} /\ ~Waits))
    BY <2>3, <2>4 DEF To
  <2>7. jobs \ {j} \subseteq jobs' BY <2>3 DEF To
  <2> QED BY <2>3, <2>5, <2>6, <2>7, PageBack
<1>4. CASE MarkWoken(j)
  <2>1. /\ jobs' = jobs \ {j} /\ UNCHANGED <<flag, running, by>> /\ ~Looks(j)
        /\ sleeping' = (sleeping \ j.names) \cup (j.names \cap flag)
    BY <1>4 DEF MarkWoken, Ends, Looks
  <2>2. CASE j.seen \cap SiteUses = {}
    <3>1. vhost' = vhost BY <1>4, <2>2 DEF MarkWoken
    <3>2. CASE j.names \cap SiteUses = {}
      <4>1. \A s \in SiteUses \cap sleeping : s \in sleeping' BY <2>1, <3>2
      <4> QED BY <2>1, <3>1, <4>1, PageLeft
    <3>3. CASE j.names \cap SiteUses # {}
      <4>1. vhost # "waking" BY <1>4, <2>2, <3>3 DEF MarkWoken, PageInv, Restoring, TakesDown
      <4>2. WakingWhy' BY <3>1, <4>1 DEF WakingWhy
      <4>3. \A i \in jobs' : Fits(i) BY <2>1 DEF Fits
      <4> QED BY <2>1, <3>1, <4>2, <4>3, PageKept
    <3> QED BY <3>2, <3>3
  <2>3. CASE j.seen \cap SiteUses # {}
    <3>1. PICK asleep : asleep = flag \cup sleeping' OBVIOUS
    <3>2. asleep = flag' \cup sleeping' /\ vhost' = Page(asleep, jobs')
      BY <1>4, <2>1, <2>3, <3>1 DEF MarkWoken
    <3>3. /\ WakingWhy'
          /\ vhost # "real" => vhost' # "real"
          /\ vhost' = "waking" => vhost = "waking"
      BY <3>2, PageLooked
    <3>4. \A i \in jobs' : Fits(i) BY <2>1 DEF Fits
    <3>5. \A s \in flag' \cap SiteUses : by'[s] = "lost" \/ vhost' # "real" \/ (s \in flag /\ by[s] # "lost")
      BY <2>1
    <3> QED BY <3>3, <3>4, <3>5, PageKept
  <2> QED BY <2>2, <2>3
<1> QED BY <1>1, <1>2, <1>3, <1>4 DEF Wake

LEMMA ReleasePage ==
  ASSUME TypeOK, PageInv, NEW j \in jobs, ReleaseSvc(j), UNCHANGED up
  PROVE  PageInv'
<1>1. jobs' = jobs \ {j} /\ UNCHANGED <<flag, by, sleeping>> /\ RestoreSite(j.names)
  BY DEF ReleaseSvc, Ends, memory
<1>2. Looks(j) => j.names \cap SiteUses # {} BY DEF ReleaseSvc, Looks
<1> QED BY <1>1, <1>2, PageBack

LEMMA BriefPage ==
  ASSUME TypeOK, Rest, PageInv, NEW j \in jobs, Brief(j), UNCHANGED up
  PROVE  PageInv'
<1>0. j \in Job /\ Shape(j) /\ Hands(j) BY DEF TypeOK, Rest, Shapes, PageInv
<1>1. j.kind = "brief" /\ j.cur = {} /\ ~Looks(j) /\ UNCHANGED <<flag, vhost, sleeping>>
  BY <1>0 DEF Brief, StartBrief, StopBrief, ClearBrief, Shape, Looks, host, memory
<1>2. ASSUME NEW pc, NEW k, k = [j EXCEPT !.pc = pc] PROVE Plain(k)
  <2>1. k.kind = "brief" /\ k.cur = {} BY <1>0, <1>1, <1>2 DEF Job
  <2> QED BY <2>1 DEF Plain, Hands, Covers, TakesDown
<1>3. /\ jobs \ {j} \subseteq jobs'
      /\ \A i \in jobs' : i \in jobs \/ Plain(i)
  <2>1. CASE ClearBrief(j) BY <2>1 DEF ClearBrief, Ends
  <2>2. CASE StartBrief(j) \/ StopBrief(j)
    <3>1. PICK pc, k : k = [j EXCEPT !.pc = pc] /\ To(j, k)
      BY <2>2 DEF StartBrief, StopBrief
    <3> QED BY <3>1, <1>2 DEF To
  <2> QED BY <2>1, <2>2 DEF Brief
<1>4. \A s \in Services : by[s] = "lost" /\ s \in flag => by'[s] = "lost"
  <2>1. CASE StartBrief(j)
    <3>1. by' = by \/ \E names : by' = Become(names, "none") BY <2>1 DEF StartBrief
    <3> QED BY <3>1, BecomeKeeps
  <2>2. CASE StopBrief(j)
    <3>1. by' = by \/ \E names : by' = PutDown(names) BY <2>2 DEF StopBrief
    <3> QED BY <3>1, PutDownKeeps
  <2>3. CASE ClearBrief(j) BY <2>3 DEF ClearBrief, host
  <2> QED BY <2>1, <2>2, <2>3 DEF Brief
<1> QED BY <1>1, <1>3, <1>4, PageLeft

-----------------------------------------------------------------------------
(* The page and the flag file. *)

\* A job at the file goes on, with what it has left to do.
LEMMA FileStep ==
  ASSUME NEW j \in Job, Shape(j), Hands(j), j.pc \in {"read", "write"}, j.kind \in {"suspend", "wake"},
         NEW k, k.kind = j.kind, k.names = j.names, k.cur = j.cur, k.group = j.group, k.todo = j.todo,
         k.done = j.done, k.pend \subseteq j.pend, k.pc \in {"read", "write"}
  PROVE  Hands(k) /\ ~TakesDown(k) /\ (Covers(k) <=> Covers(j)) /\ (Looks(j) => Looks(k))
BY DEF Hands, TakesDown, Covers, Looks

LEMMA ReadSetPage ==
  ASSUME TypeOK, Rest, PageInv, NEW j \in jobs, ReadSet(j), UNCHANGED up
  PROVE  PageInv'
<1>0. /\ j \in Job /\ Shape(j) /\ Hands(j) /\ j.pc = "read"
      /\ UNCHANGED <<flag, running, by, vhost, sleeping>>
  BY DEF TypeOK, Rest, Shapes, PageInv, ReadSet, host, memory
<1>1. PICK k : k = [j EXCEPT !.seen = flag, !.pc = "write"] OBVIOUS
<1>2. To(j, k) BY <1>1 DEF ReadSet
<1>3. /\ k.kind = j.kind /\ k.names = j.names /\ k.cur = j.cur /\ k.todo = j.todo /\ k.done = j.done
      /\ k.pend = j.pend /\ k.pc = "write" /\ k.group = j.group
  BY <1>0, <1>1 DEF Job
<1>4. j.kind \in {"suspend", "wake"} BY <1>0 DEF Shape, Points, Job
<1>5. Hands(k) /\ ~TakesDown(k) /\ (Covers(k) <=> Covers(j)) /\ (Looks(j) => Looks(k))
  BY <1>0, <1>3, <1>4, FileStep
<1>6. Fits(k) BY <1>0, <1>5 DEF Fits, PageInv, Covered
<1>7. \A i \in jobs' : Fits(i) BY <1>2, <1>6 DEF To, Fits
<1>8. \A i \in jobs : Looks(i) => \E n \in jobs' : Looks(n) BY <1>2, <1>5 DEF To
<1>9. WakingWhy' BY <1>0, <1>8, WakingKept DEF PageInv
<1> QED BY <1>0, <1>7, <1>9, PageKept

\* What a write of the file does to the services beside the one it is for.
LEMMA UndoneKeeps ==
  ASSUME TypeOK, NEW seen \in SUBSET Services, NEW n \in Services, NEW m \in Services, m # n
  PROVE  Undone(seen, n)[m] = IF (m \in seen) # (m \in flag) THEN "lost" ELSE by[m]
BY DEF Undone

LEMMA WriteSetPage ==
  ASSUME TypeOK, Rest, PageInv, NEW j \in jobs, WriteSet(j), UNCHANGED up
  PROVE  PageInv'
<1>0. j \in Job /\ Shape(j) /\ Hands(j) /\ j.pc = "write" /\ UNCHANGED <<running, sleeping>>
  BY DEF TypeOK, Rest, Shapes, PageInv, WriteSet, memory
<1>1. PICK n \in j.pend :
        /\ flag' = IF Setting(j) THEN j.seen \cup {n} ELSE j.seen \ {n}
        /\ by' = [Undone(j.seen, n) EXCEPT ![n] = IF ~Setting(j) /\ n \in running THEN "none" ELSE @]
        /\ To(j, Wrote(j, n))
  BY DEF WriteSet
<1>2. PICK k : k = Wrote(j, n) OBVIOUS
<1>3. /\ k.kind = j.kind /\ k.names = j.names /\ k.cur = j.cur /\ k.todo = j.todo /\ k.done = j.done
      /\ k.pend = j.pend \ {n} /\ k.pc = "read" /\ k.group = j.group
  BY <1>0, <1>2, WroteFields
<1>4. To(j, k) /\ n \in Services /\ j.seen \in SUBSET Services /\ j.pend \in SUBSET Services
  BY <1>0, <1>1, <1>2 DEF Job
<1>5. \A m \in Services : m # n =>
        /\ m \in flag' <=> m \in j.seen
        /\ by'[m] = IF (m \in j.seen) # (m \in flag) THEN "lost" ELSE by[m]
  <2> SUFFICES ASSUME NEW m \in Services, m # n
               PROVE  /\ m \in flag' <=> m \in j.seen
                      /\ by'[m] = IF (m \in j.seen) # (m \in flag) THEN "lost" ELSE by[m]
    OBVIOUS
  <2>1. by'[m] = Undone(j.seen, n)[m] BY <1>1
  <2> QED BY <1>1, <1>4, <2>1, UndoneKeeps
<1>6. j.kind \in {"suspend", "wake"} BY <1>0 DEF Shape, Points, Job
<1>7. Hands(k) /\ ~TakesDown(k) /\ (Covers(k) <=> Covers(j)) /\ (Looks(j) => Looks(k))
  BY <1>0, <1>3, <1>6, FileStep
<1>8. vhost' = vhost \/ vhost' = Page(flag' \cup sleeping, jobs') BY DEF WriteSet
<1>9. vhost # "real" => vhost' # "real" BY <1>8 DEF Page
<1>10. vhost' = "waking" => vhost = "waking" BY <1>8 DEF Page
<1>11. n \in SiteUses /\ Setting(j) => vhost # "real"
  BY <1>0, <1>1 DEF Setting, Hands, PageInv, Covered, Covers
<1>12. Fits(k) BY <1>7, <1>9 DEF Fits, PageInv, Covered
<1>13. n \in SiteUses /\ ~Setting(j) => Looks(k)
  <2>1. j.kind = "wake" => n \in j.names BY <1>0, <1>1 DEF Hands
  <2> QED BY <1>3, <1>6, <2>1 DEF Looks, Setting
<1>14. k \in jobs' /\ \A i \in jobs : Looks(i) => \E m \in jobs' : Looks(m) BY <1>4, <1>7 DEF To
<1>15. WakingWhy'
  <2>1. CASE flag \subseteq j.seen
    <3>1. \A s \in SiteUses \cap (flag \cup sleeping) : s \in flag' \cup sleeping' \/ \E m \in jobs' : Looks(m)
      BY <1>0, <1>1, <1>13, <1>14, <2>1
    <3> QED BY <1>10, <1>14, <3>1, WakingKept DEF PageInv
  <2>2. CASE ~(flag \subseteq j.seen)
    <3>1. PICK asleep : asleep = flag' \cup sleeping OBVIOUS
    <3>2. asleep = flag' \cup sleeping' /\ vhost' = Page(asleep, jobs') BY <1>0, <2>2, <3>1 DEF WriteSet
    <3> QED BY <3>2, PageLooked
  <2> QED BY <2>1, <2>2
<1>16. \A m \in flag' \cap SiteUses : by'[m] = "lost" \/ vhost' # "real" \/ (m \in flag /\ by[m] # "lost")
  BY <1>1, <1>5, <1>9, <1>11
<1>17. \A i \in jobs' : Fits(i) BY <1>4, <1>12 DEF To, Fits
<1> QED BY <1>9, <1>10, <1>15, <1>16, <1>17, PageKept

LEMMA WriteFailsPage ==
  ASSUME TypeOK, Rest, PageInv, NEW j \in jobs, WriteFails(j), UNCHANGED up
  PROVE  PageInv'
<1>0. j \in Job /\ Shape(j) /\ Hands(j) /\ j.pc = "write" /\ UNCHANGED <<flag, running, vhost, sleeping>>
  BY DEF TypeOK, Rest, Shapes, PageInv, WriteFails, memory
<1>1. PICK n \in j.pend : by' = [by EXCEPT ![n] = IF @ = "engine" /\ n \notin flag THEN "none" ELSE @]
                         /\ To(j, Wrote(j, n))
  BY DEF WriteFails
<1>2. PICK k : k = Wrote(j, n) OBVIOUS
<1>3. /\ k.kind = j.kind /\ k.names = j.names /\ k.cur = j.cur /\ k.todo = j.todo /\ k.done = j.done
      /\ k.pend = j.pend \ {n} /\ k.pc = "read" /\ k.group = j.group
  BY <1>0, <1>2, WroteFields
<1>4. To(j, k) BY <1>1, <1>2
<1>5. j.kind \in {"suspend", "wake"} BY <1>0 DEF Shape, Points, Job
<1>6. Hands(k) /\ ~TakesDown(k) /\ (Covers(k) <=> Covers(j)) /\ (Looks(j) => Looks(k))
  BY <1>0, <1>3, <1>5, FileStep
<1>7. Fits(k) BY <1>0, <1>6 DEF Fits, PageInv, Covered
<1>8. \A i \in jobs' : Fits(i) BY <1>4, <1>7 DEF To, Fits
<1>9. \A i \in jobs : Looks(i) => \E m \in jobs' : Looks(m) BY <1>4, <1>6 DEF To
<1>10. WakingWhy' BY <1>0, <1>9, WakingKept DEF PageInv
<1>11. \A s \in Services : by[s] = "lost" => by'[s] = "lost" BY <1>1 DEF TypeOK
<1> QED BY <1>0, <1>8, <1>10, <1>11, PageKept

LEMMA JobStepPage ==
  ASSUME TypeOK, Rest, PageInv, UsesWhatItNeeds, NEW j \in jobs, JobStep(j)
  PROVE  PageInv'
BY SuspendPage, WakePage, BriefPage, ReleasePage, ReadSetPage, WriteSetPage, WriteFailsPage DEF JobStep

-----------------------------------------------------------------------------
(* The page and what is not a step of a job. *)

LEMMA UserWritesPage ==
  ASSUME TypeOK, Rest, PageInv, UserWrites
  PROVE  PageInv'
<1>1. PICK s \in cli.svc :
        by' = [Undone(cli.seen, s) EXCEPT ![s] = IF @ = "engine" THEN "user" ELSE @]
  BY DEF UserWrites
<1>2. UNCHANGED <<running, jobs, up, sleeping>> /\ flag' = cli.seen \ cli.svc
  BY DEF UserWrites, engine, memory
<1>3. cli.svc = {s} /\ s \in Services /\ cli.seen \in SUBSET Services
  BY <1>1 DEF Rest, OneStop, TypeOK
<1>4. \A m \in Services : m # s =>
        by'[m] = IF (m \in cli.seen) # (m \in flag) THEN "lost" ELSE by[m]
  <2> SUFFICES ASSUME NEW m \in Services, m # s
               PROVE  by'[m] = IF (m \in cli.seen) # (m \in flag) THEN "lost" ELSE by[m]
    OBVIOUS
  <2>1. by'[m] = Undone(cli.seen, s)[m] BY <1>1
  <2> QED BY <1>3, <2>1, UndoneKeeps
<1>5. PICK asleep : asleep = flag' \cup sleeping OBVIOUS
<1>6. asleep = flag' \cup sleeping' /\ vhost' = Page(asleep, jobs') BY <1>2, <1>5 DEF UserWrites
<1>7. /\ WakingWhy'
      /\ vhost # "real" => vhost' # "real"
      /\ vhost' = "waking" => vhost = "waking"
  BY <1>6, PageLooked
<1>8. \A m \in flag' \cap SiteUses : by'[m] = "lost" \/ vhost' # "real" \/ (m \in flag /\ by[m] # "lost")
  BY <1>2, <1>3, <1>4
<1>9. \A i \in jobs' : Fits(i) BY <1>2 DEF Fits
<1> QED BY <1>7, <1>8, <1>9, PageKept

LEMMA TickLookPage ==
  ASSUME TypeOK, PageInv, TickLook
  PROVE  PageInv'
<1>1. /\ sleeping' = tick.names /\ jobs \subseteq jobs' /\ Spawn("release", ReleasedByTick) \subseteq jobs'
      /\ UNCHANGED <<flag, by, up>> /\ \A i \in jobs' : i \in jobs \/ i \in Spawn("release", ReleasedByTick)
  BY DEF TickLook
<1>2. \A i \in jobs' : i \in jobs \/ Plain(i) BY <1>1, SpawnedBegin
<1>3. CASE Gone \cap inFlight \cap SiteUses = {}
  <2>1. vhost' = vhost BY <1>3 DEF TickLook
  <2>2. \A s \in SiteUses \cap sleeping : s \in sleeping' \/ \E k \in jobs' : Looks(k)
    BY <1>1, <1>3, ReleaseLooks DEF Gone, ReleasedByTick
  <2> QED BY <1>1, <1>2, <2>1, <2>2, PageLeft
<1>4. CASE Gone \cap inFlight \cap SiteUses # {}
  <2>1. PICK asleep : asleep = flag \cup tick.names OBVIOUS
  <2>2. asleep = flag' \cup sleeping' /\ vhost' = Page(asleep, jobs') BY <1>1, <1>4, <2>1 DEF TickLook
  <2>3. /\ WakingWhy'
        /\ vhost # "real" => vhost' # "real"
        /\ vhost' = "waking" => vhost = "waking"
    BY <2>2, PageLooked
  <2>4. \A i \in jobs' : Fits(i) BY <1>2 DEF Fits, Plain
  <2> QED BY <1>1, <2>3, <2>4, PageKept
<1> QED BY <1>3, <1>4

LEMMA CrashPage ==
  ASSUME TypeOK, PageInv, Crash
  PROVE  PageInv'
<1>1. /\ jobs' = {} /\ up' = "down" /\ UNCHANGED <<flag, running, vhost>>
      /\ by' = Become({s \in running : by[s] = "engine"}, "none")
  BY DEF Crash
<1>2. \A s \in Services : by[s] = "lost" /\ s \in flag => by'[s] = "lost" BY <1>1, BecomeKeeps
<1>3. WakingWhy' BY <1>1 DEF WakingWhy
<1>4. \A s \in flag' \cap SiteUses : by'[s] = "lost" \/ vhost' # "real" \/ (s \in flag /\ by[s] # "lost")
  BY <1>1, <1>2
<1> QED BY <1>1, <1>2, <1>3, <1>4, PageKept

LEMMA BootPage ==
  ASSUME TypeOK, PageInv, Boot
  PROVE  PageInv'
<1>1. UNCHANGED <<flag, by, jobs>> /\ sleeping' = flag /\ vhost' = Page(flag, jobs') BY DEF Boot
<1>2. PICK asleep : asleep = flag OBVIOUS
<1>3. asleep = flag' \cup sleeping' /\ vhost' = Page(asleep, jobs') BY <1>1, <1>2
<1>4. /\ WakingWhy'
      /\ vhost # "real" => vhost' # "real"
      /\ vhost' = "waking" => vhost = "waking"
  BY <1>3, PageLooked
<1>5. \A i \in jobs' : Fits(i) BY <1>1 DEF Fits
<1> QED BY <1>1, <1>4, <1>5, PageKept

LEMMA NextPage == UsesWhatItNeeds /\ TypeOK /\ Rest /\ PageInv /\ [Next]_vars => PageInv'
<1> SUFFICES ASSUME UsesWhatItNeeds, TypeOK, Rest, PageInv, [Next]_vars PROVE PageInv'
  OBVIOUS
<1> USE DEF host, engine, memory
<1>1. ASSUME UNCHANGED <<flag, by, vhost, up, sleeping>>, jobs \subseteq jobs',
             \A i \in jobs' : i \in jobs \/ Plain(i)
      PROVE  PageInv'
  BY <1>1, PageLeft
<1>2. ASSUME NEW freed, UNCHANGED <<flag, by, vhost, up>>, jobs \cup Spawn("release", freed) \subseteq jobs',
             \A i \in jobs' : i \in jobs \/ Plain(i), sleeping' = sleeping \ freed
      PROVE  PageInv'
  <2>1. \A s \in SiteUses \cap sleeping : s \in sleeping' \/ \E k \in jobs' : Looks(k)
    BY <1>2, ReleaseLooks
  <2> QED BY <1>2, <2>1, PageLeft
<1>3. ASSUME NEW names, WakeAsync(names), UNCHANGED <<flag, by, vhost, up>> PROVE PageInv'
  <2>1. PICK freed : freed = Released(names) OBVIOUS
  <2>2. /\ jobs \cup Spawn("release", freed) \subseteq jobs' /\ sleeping' = sleeping \ freed
        /\ \A i \in jobs' : i \in jobs \/ Plain(i)
    BY <1>3, <2>1, SpawnedBegin DEF WakeAsync
  <2> QED BY <1>2, <1>3, <2>2
<1>4. CASE UNCHANGED vars BY <1>1, <1>4 DEF vars
<1>5. CASE Tick
  <2>1. CASE TickRead BY <1>1, <2>1 DEF TickRead
  <2>2. CASE TickAct
    <3>1. PICK freed : freed = Released(tick.wake) OBVIOUS
    <3>2. /\ jobs \cup Spawn("release", freed) \subseteq jobs' /\ sleeping' = sleeping \ freed
          /\ UNCHANGED <<flag, by, vhost, up>> /\ \A i \in jobs' : i \in jobs \/ Plain(i)
      BY <2>2, <3>1, SpawnedBegin DEF TickAct
    <3> QED BY <1>2, <3>2
  <2> QED BY <1>5, <2>1, <2>2, TickLookPage DEF Tick
<1>6. CASE Requests
  <2>1. CASE SiteRequest BY <1>3, <2>1 DEF SiteRequest
  <2>2. ASSUME NEW s \in Services, DashRequest(s) PROVE PageInv' BY <1>3, <2>2 DEF DashRequest
  <2>3. ASSUME NEW s \in Services, GoQuiet(s) PROVE PageInv' BY <1>1, <2>3 DEF GoQuiet
  <2>4. ASSUME NEW s \in Services, StartBehind(s) PROVE PageInv'
    <3>1. UNCHANGED <<flag, vhost, up, sleeping, jobs>> /\ \E names : by' = Become(names, "none")
      BY <2>4 DEF StartBehind, Raise
    <3>2. \A n \in Services : by[n] = "lost" /\ n \in flag => by'[n] = "lost" BY <3>1, BecomeKeeps
    <3> QED BY <3>1, <3>2, PageLeft
  <2> QED BY <1>6, <2>1, <2>2, <2>3, <2>4 DEF Requests
<1>7. CASE Snapshots
  <2>1. CASE SnapCollect BY <1>1, <2>1 DEF SnapCollect
  <2>2. ASSUME NEW s \in Services, SnapBrief(s) PROVE PageInv' BY <1>1, <2>2, SpawnedBegin DEF SnapBrief
  <2> QED BY <1>7, <2>1, <2>2 DEF Snapshots
<1>8. CASE Off BY <1>1, <1>8 DEF Off
<1>9. CASE User
  <2>1. CASE UserReads BY <1>1, <2>1 DEF UserReads
  <2>2. ASSUME NEW s \in Services, UserStop(s) PROVE PageInv'
    <3>1. UNCHANGED <<flag, vhost, up, sleeping, jobs>> /\ \E names : by' = Become(names, "user")
      BY <2>2 DEF UserStop
    <3>2. \A n \in Services : by[n] = "lost" /\ n \in flag => by'[n] = "lost" BY <3>1, BecomeKeeps
    <3> QED BY <3>1, <3>2, PageLeft
  <2> QED BY <1>9, <2>1, <2>2, UserWritesPage DEF User
<1> QED BY <1>4, <1>5, <1>6, <1>7, <1>8, <1>9, JobStepPage, CrashPage, BootPage DEF Next

LEMMA InitPage == Init => PageInv
BY DEF Init, PageInv, Covered, FlagPage, WakingWhy, Restoring

LEMMA PageImplies == Rest /\ PageInv => PageMatches
BY DEF Rest, Mine, PageInv, FlagPage, WakingWhy, Watched, AtRest, PageMatches, Waits

\* suspendServiceForIdle puts the waking page up before its first flag, and whoever ends
\* the sleep takes it down or knows of somebody who will: a wake, the tick that finds the
\* flag gone (syncSleeping), the release of what the user has stopped.  So with everything
\* at rest, a site with a service put to sleep has a page and one that waits on none has
\* its own vhost back, wherever a site that uses a service also uses what that relies on;
\* starts, stops, the file's writes and the vhost's may fail.  A vhost whose write failed,
\* or whose page no one was left to look at, is told apart ("bare", "stuck", "late").
THEOREM PageIsRight == ASSUME UsesWhatItNeeds PROVE Spec => []PageMatches
<1>1. Init => TypeOK /\ Rest /\ PageInv BY InitType, InitRest, InitPage
<1>2. (TypeOK /\ Rest /\ PageInv) /\ [Next]_vars => (TypeOK /\ Rest /\ PageInv)'
  BY NextType, NextRest, NextPage
<1> QED BY <1>1, <1>2, PageImplies, PTL DEF Spec
=============================================================================
