--------------------------- MODULE IdleEngineProps ---------------------------
(* What the idle engine promises. *)
EXTENDS IdleEngine

\* Type correctness; a key is never given the worker of another key, and a tick
\* past its first look is at a key.
Own(f) == f \in [Keys -> SUBSET Workers] /\ \A k \in Keys : f[k] \subseteq WorkersOf[k]
JobOK(j) == j \in Job /\ j.todo \subseteq WorkersOf[j.key] /\ j.names \subseteq WorkersOf[j.key]
TickerOK(t) == t \in Ticker /\ (t.pc \in {"probe", "store", "decide"} => t.cur \in Keys)
DiskOK ==
  /\ enabled \in {"on", "off"}
  /\ Own(list)
  /\ pinned \subseteq Sites /\ paused \subseteq Sites
  /\ declared \in [Sites -> SUBSET Workers] /\ \A s \in Sites : declared[s] \subseteq WorkersOf[s]
MachineOK == Own(running) /\ checkouts \subseteq Worktrees
BeliefOK ==
  /\ suspended \subseteq Keys /\ inFlight \subseteq Keys
  /\ \A j \in jobs : JobOK(j)
LoopOK ==
  /\ record \in [Keys -> {"none", "active", "quiet"}]
  /\ \A t \in tickers : TickerOK(t)
RestOK ==
  /\ up \in {"up", "down"} /\ session \in {"on", "off"}
  /\ drains \subseteq Drain
  /\ ctl \in Seq({"on", "off"})
CliOK == starting \subseteq Keys \X Workers /\ toggles \in 0 .. MaxToggles /\ Own(want)
TypeOK == DiskOK /\ MachineOK /\ BeliefOK /\ LoopOK /\ RestOK /\ CliOK

\* One suspend or resume at a time works on a key, and inFlight names exactly
\* the keys being worked on: what the comment on the field promises.
JobsExclusive ==
  /\ inFlight = {j.key : j \in jobs}
  /\ \A i, j \in jobs : i.key = j.key => i = j

\* A session has one live tick loop, and only a session has one, whatever enables
\* and disables arrive.
OneLoop ==
  /\ session = "on" <=> \E t \in tickers : t.ctx = "live"
  /\ \A t, u \in tickers : t.ctx = "live" /\ u.ctx = "live" => t = u

\* A worker the user wants is up, or the list on disk names it, or the job at
\* work on its key still holds its name: while the watcher lives, no step forgets a
\* worker.  For a key whose workers all sleep and wake the same way, or one that
\* toggles do not interrupt twice: a tick that read the list before a suspend wrote it
\* takes the key for awake, and the second suspend lists only what it finds running
\* or declared.
Held(k) == UNION {j.names \cup j.todo : j \in {i \in jobs : i.key = k}}
Forgotten(k) == want[k] \ (running[k] \cup list[k] \cup Held(k))
NothingLost == [][up = "up" /\ up' = "up" => \A k \in Keys : Forgotten(k)' \subseteq Forgotten(k)]_vars

\* A site in use with idle-suspend on wakes: its workers are all up in the end,
\* if none was lost to a crash.
InUse(k) == enabled = "on" /\ record[k] = "active" /\ up = "up"
WakesWhenActive ==
  \A k \in Keys : <>[](InUse(k) /\ Forgotten(k) = {}) => <>[](want[k] \subseteq running[k])

\* A site nobody uses falls asleep: what stays up is what has no build to sleep
\* on.  Not one that a crash in the middle of a resume left with some workers up and
\* others listed, which counts as asleep until it is used again.
HalfWoken(k) == list[k] # {} /\ ~(running[k] \subseteq Vite)
Unused(k) ==
  enabled = "on" /\ record[k] = "quiet" /\ SiteOf(k) \notin pinned /\ up = "up" /\ starting = {}
SleepsWhenQuiet == \A k \in Keys : <>[](Unused(k) /\ ~HalfWoken(k)) => <>[](running[k] \subseteq Vite)

\* A worker .lerd.yaml declares is not left unmarked on a site that sleeps, even
\* when the watcher died between stopping it and listing it.  Not so a worker that
\* waits for a build: stopped after the others, it can be lost to such a crash.
MarkRestored ==
  \A s \in Sites : <>[]Unused(s) => <>[](declared[s] \ Vite \subseteq running[s] \cup list[s])

\* A pinned site is woken and stays up, if none of its workers was lost to a crash.
PinnedAwake(k) == enabled = "on" /\ SiteOf(k) \in pinned /\ up = "up"
PinnedWakes ==
  \A k \in Keys : <>[](PinnedAwake(k) /\ Forgotten(k) = {}) => <>[](want[k] \subseteq running[k])
=============================================================================
