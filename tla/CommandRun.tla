----------------------------- MODULE CommandRun -----------------------------
(***************************************************************************)
(* One command the dashboard started on the host (internal/ui/runs.go) and *)
(* the pages that stream it (internal/ui/runs_http.go).                    *)
(*                                                                         *)
(* Data.  A line is its number.  A page's event stream is the sequence of  *)
(* frames it was sent; a channel of r.waiters is named by the page that    *)
(* waits on it.  Time.  runRetention may pass at any moment after the run  *)
(* has finished.  Bound.  MaxLines lines of output.                        *)
(***************************************************************************)
EXTENDS Integers, Sequences

CONSTANTS
  Pages,      \* browser pages that may stream the run
  MaxKept,    \* runMaxLines
  MaxLines    \* bound: lines the command writes

ASSUME KeptAssumption == MaxKept \in Nat \ {0}
ASSUME LinesAssumption == MaxLines \in Nat \ {0}

VARIABLES
  command,    \* the child: "none", "up", "exited" (cmd.Wait returned) or "unstarted"
  result,     \* what execRun returns: "nil" or "err"
  written,    \* lines the command has written to its pipe
  appended,   \* lines the drain has handed to append
  lines,      \* r.lines
  dropped,    \* r.dropped
  status,     \* r.status
  waiters,    \* r.waiters: pages with an open channel
  entry,      \* the run's place in the registry: "none", "kept" or "swept"
  pc,         \* where each page's handleRunStream is
  from,       \* its local of that name
  frames,     \* the lines it was sent
  told        \* its done event: "none", "ok" or "error"

child == <<command, result, written>>
run == <<appended, lines, dropped, status, waiters>>
streams == <<pc, from, frames, told>>
runVars == <<child, run, entry, streams>>

RunInit ==
  /\ command = "none" /\ result = "nil" /\ written = 0
  /\ appended = 0 /\ lines = <<>> /\ dropped = 0 /\ status = "running" /\ waiters = {}
  /\ entry = "none"
  /\ pc = [p \in Pages |-> "away"]
  /\ from = [p \in Pages |-> 0]
  /\ frames = [p \in Pages |-> <<>>]
  /\ told = [p \in Pages |-> "none"]

-----------------------------------------------------------------------------
(* The run: one action per critical section under r.mu. *)

\* wake(): every channel is closed and forgotten; a mutated form closes none.
NoneWoken == waiters
Woken == {}

\* append: the buffer's head makes room; a mutated form does not count it.
Excess(n) == IF n > MaxKept THEN n - MaxKept ELSE 0
EvictedUncounted(evict) == dropped
Evicted(evict) == dropped + evict
append(line) ==
  LET longer == Append(lines, line)
      evict == Excess(Len(longer))
  IN /\ lines' = SubSeq(longer, evict + 1, Len(longer))
     /\ dropped' = Evicted(evict)
     /\ waiters' = Woken

\* Start puts the run in the registry before its command exists.
Start ==
  /\ entry = "none"
  /\ entry' = "kept"
  /\ UNCHANGED <<child, run, streams>>

\* cmd.Start of execRun.
Launch ==
  /\ entry # "none" /\ command = "none"
  /\ command' = "up"
  /\ UNCHANGED <<result, written, run, entry, streams>>

\* cmd.Start fails: the error is the run's only line.
LaunchFails ==
  /\ entry # "none" /\ command = "none"
  /\ command' = "unstarted" /\ result' = "err" /\ written' = 1
  /\ appended' = 1
  /\ append(1)
  /\ UNCHANGED <<status, entry, streams>>

\* Some process that holds the command's output writes a line.
Write ==
  /\ command = "up" /\ written < MaxLines
  /\ written' = written + 1
  /\ UNCHANGED <<command, result, run, entry, streams>>

\* cmd.Wait returns: the command exited and nothing holds its output any more.
Exit ==
  /\ command = "up"
  /\ command' = "exited"
  /\ result' \in {"nil", "err"}
  /\ UNCHANGED <<written, run, entry, streams>>

\* The drain reads the next line.
Drain ==
  /\ command \in {"up", "exited"} /\ appended < written
  /\ appended' = appended + 1
  /\ append(appended + 1)
  /\ UNCHANGED <<child, status, entry, streams>>

\* execRun returns at the end of the output (the pipe is closed after cmd.Wait); a
\* mutated form gives up on the pipe when the command is gone.
CommandGone == command \in {"exited", "unstarted"}
OutputEnded == command \in {"exited", "unstarted"} /\ appended = written

finish ==
  /\ OutputEnded /\ status = "running"
  /\ status' = IF result = "err" THEN "failed" ELSE "done"
  /\ waiters' = Woken
  /\ UNCHANGED <<child, appended, lines, dropped, entry, streams>>

-----------------------------------------------------------------------------
(* The registry. *)

\* sweep(), from the start of a run or a listing, once runRetention has passed.
sweep ==
  /\ entry = "kept" /\ status # "running"
  /\ entry' = "swept"
  /\ UNCHANGED <<child, run, streams>>

-----------------------------------------------------------------------------
(* handleRunStream. *)

\* reg.Get finds the run; a page that reloads starts again at line 0.
Open(p) ==
  /\ pc[p] = "away" /\ entry = "kept"
  /\ pc' = [pc EXCEPT ![p] = "top"]
  /\ UNCHANGED <<child, run, entry, from, frames, told>>

\* wait(): a run that finished hands out a channel that is closed already.
Parked(p) == IF status # "running" THEN waiters ELSE waiters \cup {p}
wait(p) ==
  /\ pc[p] = "top"
  /\ pc' = [pc EXCEPT ![p] = "reading"]
  /\ waiters' = Parked(p)
  /\ UNCHANGED <<child, appended, lines, dropped, status, entry, from, frames, told>>

\* read(from): a reader that fell behind the head is moved up to it.
MovedUp(i) == IF i < dropped THEN dropped ELSE i
Unread(i) == SubSeq(lines, MovedUp(i) - dropped + 1, Len(lines))
read(p) ==
  /\ pc[p] = "reading"
  /\ frames' = [frames EXCEPT ![p] = @ \o Unread(from[p])]
  /\ from' = [from EXCEPT ![p] = dropped + Len(lines)]
  /\ pc' = [pc EXCEPT ![p] = IF status # "running" THEN "closing" ELSE "select"]
  /\ UNCHANGED <<child, run, entry, told>>

\* The done event, from a snapshot taken after the last lines were sent.
tell(p) ==
  /\ pc[p] = "closing"
  /\ told' = [told EXCEPT ![p] = IF status = "done" THEN "ok" ELSE "error"]
  /\ pc' = [pc EXCEPT ![p] = "told"]
  /\ UNCHANGED <<child, run, entry, from, frames>>

\* select: the channel is closed, or the page went away and its stream with it.
Wake(p) ==
  /\ pc[p] = "select" /\ p \notin waiters
  /\ pc' = [pc EXCEPT ![p] = "top"]
  /\ UNCHANGED <<child, run, entry, from, frames, told>>
LeaveRun(p) ==
  /\ pc[p] \in {"select", "told"}
  /\ pc' = [pc EXCEPT ![p] = "away"]
  /\ from' = [from EXCEPT ![p] = 0]
  /\ frames' = [frames EXCEPT ![p] = <<>>]
  /\ told' = [told EXCEPT ![p] = "none"]
  /\ UNCHANGED <<child, run, entry>>

-----------------------------------------------------------------------------
\* A mutated form of the loop that reads the buffer before it asks for a channel.
ReadFirst(p) ==
  \/ /\ pc[p] = "top"
     /\ frames' = [frames EXCEPT ![p] = @ \o Unread(from[p])]
     /\ from' = [from EXCEPT ![p] = dropped + Len(lines)]
     /\ pc' = [pc EXCEPT ![p] = IF status # "running" THEN "closing" ELSE "reading"]
     /\ UNCHANGED <<child, run, entry, told>>
  \/ /\ pc[p] = "reading"
     /\ pc' = [pc EXCEPT ![p] = "select"]
     /\ waiters' = Parked(p)
     /\ UNCHANGED <<child, appended, lines, dropped, status, entry, from, frames, told>>
  \/ tell(p) \/ Wake(p)

Stream(p) == wait(p) \/ read(p) \/ tell(p) \/ Wake(p)
Runner == Launch \/ LaunchFails \/ Drain \/ finish

RunNext ==
  \/ Start \/ Runner \/ Write \/ Exit \/ sweep
  \/ \E p \in Pages : Open(p) \/ Stream(p) \/ LeaveRun(p)

RunSpec == RunInit /\ [][RunNext]_runVars
=============================================================================
