--------------------------- MODULE CommandRunProps ---------------------------
(* What a page that streams a run can count on. *)
EXTENDS CommandRun

\* Type correctness; the buffer holds at most MaxKept lines.
ChildOK == /\ command \in {"none", "up", "exited", "unstarted"} /\ result \in {"nil", "err"}
           /\ written \in 0 .. MaxLines
RunOK ==
  /\ appended \in 0 .. MaxLines /\ dropped \in 0 .. MaxLines
  /\ lines \in Seq(1 .. MaxLines) /\ Len(lines) <= MaxKept
  /\ status \in {"running", "done", "failed"} /\ waiters \subseteq Pages
RegistryOK == entry \in {"none", "kept", "swept"}
StreamsOK ==
  /\ pc \in [Pages -> {"away", "top", "reading", "select", "closing", "told"}]
  /\ from \in [Pages -> 0 .. MaxLines] /\ frames \in [Pages -> Seq(1 .. MaxLines)]
  /\ told \in [Pages -> {"none", "ok", "error"}]
RunTypeOK == ChildOK /\ RunOK /\ RegistryOK /\ StreamsOK

\* A page is sent each line at most once and in order, however the lines, the
\* evictions and its reads interleave, and a line it was not sent although it was
\* sent a later one has left the buffer: nothing is replayed twice or skipped.
Sent(p) == {frames[p][i] : i \in DOMAIN frames[p]}
FramesInOrder ==
  \A p \in Pages :
    /\ \A i, j \in DOMAIN frames[p] : i < j => frames[p][i] < frames[p][j]
    /\ \A n \in 1 .. from[p] : n \in Sent(p) \/ n <= dropped

\* A page that blocks on its channel has been sent all there is and the run is
\* still going: the next line or the end will wake it, so no wake-up is lost.
SleepsOnlyCaughtUp ==
  \A p \in Pages : pc[p] = "select" /\ p \in waiters => status = "running" /\ from[p] = appended

\* The done event comes after every line the command wrote, says how the command
\* ended, and finds in the buffer the same last lines the page was sent.
ToldTheEnd ==
  \A p \in Pages : pc[p] = "told" =>
    /\ from[p] = written
    /\ told[p] = IF result = "nil" THEN "ok" ELSE "error"
    /\ \A i \in DOMAIN lines : lines[i] \in Sent(p)
=============================================================================
