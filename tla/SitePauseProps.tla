--------------------------- MODULE SitePauseProps ---------------------------
(* What is left of the idle engine's marks when sites are paused, unpaused *)
(* and written back under it.                                              *)
EXTENDS SitePause, IdleEngineProps

\* Type correctness of the engine and the commands; no key is ever given the worker
\* of another key.
CommandOK(c, s) == c \in Command /\ c.caught \subseteq WorkersOf[s] /\ Own(c.copy)
CommandsOK ==
  /\ parked \in [Sites -> SUBSET Workers] /\ \A s \in Sites : parked[s] \subseteq WorkersOf[s]
  /\ DOMAIN command = Sites /\ \A s \in Sites : CommandOK(command[s], s)
  /\ pauses \in 0 .. MaxPauses
PauseTypeOK == TypeOK /\ CommandsOK

\* Whatever a pause, an unpause, a worker start or a worker stop has interleaved with the
\* engine's jobs, and whatever record was written back over theirs: a quiet site that is
\* not paused is not left believed asleep with a listed worker up, nor awake, nor down
\* with nothing listed to wake; provided that now and then a tick meets it without a job.
\* (Some of its workers may be missing from the list: README, observations.)
Probed(k) == \E t \in tickers : t.pc = "probe" /\ t.cur = k
MarksEndTrue ==
  \A s \in Sites : <>[](Unused(s) /\ s \notin paused) /\ []<>Probed(s) =>
    <>[](/\ list[s] \cap running[s] = {}
         /\ list[s] = {} => running[s] \cup declared[s] \subseteq Vite)
=============================================================================
