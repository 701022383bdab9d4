-------------------------- MODULE CommandRunProofs ---------------------------
(***************************************************************************)
(* For any number of pages, lines and any size of the buffer: a page is    *)
(* sent the lines in order and without a hole that the buffer still holds, *)
(* sleeps only when it has them all, and is told the end after the last.   *)
(***************************************************************************)
EXTENDS CommandRunProps, TLAPS

\* The buffer holds the last lines that were appended, in order.
BufferIs(ls, dr, app) ==
  /\ dr + Len(ls) = app
  /\ \A i \in DOMAIN ls : ls[i] = dr + i
Buffer ==
  /\ BufferIs(lines, dropped, appended)
  /\ appended <= written
  /\ command = "none" => written = 0

\* A run that ended has seen the end of its output and nobody waits for it.
Ended ==
  status # "running" =>
    /\ command \in {"exited", "unstarted"} /\ appended = written /\ waiters = {}
    /\ status = "done" <=> result = "nil"

\* What one page has been sent, and when it believes the run over.
SentOK(fr, fm) ==
  /\ \A i \in DOMAIN fr : fr[i] <= fm
  /\ \A i, j \in DOMAIN fr : i < j => fr[i] < fr[j]
Complete(fr, fm, dr) == \A n \in 1 .. fm : n <= dr \/ \E i \in DOMAIN fr : fr[i] = n
PageOK(p) ==
  /\ from[p] <= appended
  /\ SentOK(frames[p], from[p])
  /\ Complete(frames[p], from[p], dropped)
  /\ pc[p] \in {"closing", "told"} => status # "running" /\ from[p] = appended
  /\ pc[p] = "told" => told[p] = IF result = "nil" THEN "ok" ELSE "error"
  /\ pc[p] = "select" /\ p \in waiters => status = "running" /\ from[p] = appended

IInv == RunTypeOK /\ Buffer /\ Ended /\ \A p \in Pages : PageOK(p)

USE KeptAssumption, LinesAssumption DEF Woken, Evicted, Excess, OutputEnded

\* append keeps the last lines, and no more than MaxKept of them.
LEMMA AppendKeepsBuffer ==
  ASSUME RunOK, BufferIs(lines, dropped, appended), appended + 1 <= MaxLines, append(appended + 1)
  PROVE  /\ lines' \in Seq(1 .. MaxLines) /\ Len(lines') <= MaxKept
         /\ dropped' \in Nat /\ dropped <= dropped'
         /\ BufferIs(lines', dropped', appended + 1)
         /\ waiters' = {}
<1> DEFINE longer == Append(lines, appended + 1)
           evict == Excess(Len(longer))
<1>1. /\ lines \in Seq(1 .. MaxLines) /\ Len(lines) \in Nat /\ Len(lines) <= MaxKept
      /\ appended \in Nat /\ dropped \in Nat /\ appended + 1 \in 1 .. MaxLines
      /\ dropped + Len(lines) = appended
  BY DEF RunOK, BufferIs
<1>2. longer \in Seq(1 .. MaxLines) /\ Len(longer) = Len(lines) + 1
  BY <1>1
<1>3. \A i \in 1 .. Len(longer) : longer[i] = dropped + i
  BY <1>1 DEF BufferIs
<1>4. evict \in {0, 1} /\ Len(longer) - evict <= MaxKept /\ evict <= Len(longer)
  BY <1>1, <1>2
<1>5. lines' = SubSeq(longer, evict + 1, Len(longer)) /\ dropped' = dropped + evict /\ waiters' = {}
  BY DEF append
<1> HIDE DEF longer, evict
<1>6. /\ lines' \in Seq(1 .. MaxLines) /\ Len(lines') = Len(longer) - evict
      /\ \A i \in 1 .. Len(lines') : lines'[i] = longer[evict + i]
  BY <1>2, <1>4, <1>5
<1>7. BufferIs(lines', dropped', appended + 1)
  <2>1. dropped' + Len(lines') = appended + 1
    <3>1. Len(lines') = Len(lines) + 1 - evict /\ dropped' = dropped + evict
      BY <1>1, <1>2, <1>4, <1>5, <1>6
    <3>2. CASE evict = 0
      BY <3>1, <3>2, <1>1
    <3>3. CASE evict = 1
      BY <3>1, <3>3, <1>1
    <3>4. QED
      BY <3>2, <3>3, <1>4
  <2>2. ASSUME NEW i \in 1 .. Len(lines') PROVE lines'[i] = dropped' + i
    <3>1. evict + i \in 1 .. Len(longer) /\ lines'[i] = longer[evict + i]
      BY <1>2, <1>4, <1>6
    <3>2. QED
      BY <3>1, <1>1, <1>3, <1>4, <1>5
  <2>3. DOMAIN lines' = 1 .. Len(lines')
    BY <1>6
  <2>4. QED
    BY <2>1, <2>2, <2>3 DEF BufferIs
<1>8. QED
  BY <1>1, <1>2, <1>4, <1>5, <1>6, <1>7

\* What read hands out: the lines from where the reader was, or from the head.
LEMMA UnreadIs ==
  ASSUME RunOK, BufferIs(lines, dropped, appended), NEW i \in Nat, i <= appended
  PROVE  /\ Unread(i) \in Seq(1 .. MaxLines)
         /\ Len(Unread(i)) = appended - MovedUp(i)
         /\ \A k \in DOMAIN Unread(i) : Unread(i)[k] = MovedUp(i) + k
<1>1. /\ lines \in Seq(1 .. MaxLines) /\ Len(lines) \in Nat
      /\ appended \in Nat /\ dropped \in Nat /\ dropped + Len(lines) = appended
      /\ \A k \in 1 .. Len(lines) : lines[k] = dropped + k
  BY DEF RunOK, BufferIs
<1> DEFINE m == MovedUp(i) - dropped + 1
<1>2. m \in Nat /\ 1 <= m /\ m <= Len(lines) + 1
  BY <1>1 DEF MovedUp
<1>3. Unread(i) = SubSeq(lines, m, Len(lines))
  BY DEF Unread
<1>4. MovedUp(i) = dropped + m - 1
  BY <1>1 DEF MovedUp
<1> HIDE DEF m
<1>5. /\ SubSeq(lines, m, Len(lines)) \in Seq(1 .. MaxLines)
      /\ Len(SubSeq(lines, m, Len(lines))) = Len(lines) - m + 1
      /\ \A k \in 1 .. Len(lines) - m + 1 : SubSeq(lines, m, Len(lines))[k] = lines[m + k - 1]
  BY <1>1, <1>2
<1>6. ASSUME NEW k \in 1 .. Len(lines) - m + 1 PROVE lines[m + k - 1] = MovedUp(i) + k
  <2>1. m + k - 1 \in 1 .. Len(lines)
    BY <1>1, <1>2
  <2>2. lines[m + k - 1] = dropped + (m + k - 1)
    BY <2>1, <1>1
  <2>3. QED
    BY <2>2, <1>1, <1>2, <1>4
<1>7. Len(lines) - m + 1 = appended - MovedUp(i)
  BY <1>1, <1>2, <1>4
<1>8. QED
  BY <1>3, <1>5, <1>6, <1>7

\* The invariant holds initially ...
LEMMA InitIInv == RunInit => IInv
<1> SUFFICES ASSUME RunInit PROVE IInv
  OBVIOUS
<1>1. RunTypeOK
  BY DEF RunInit, RunTypeOK, ChildOK, RunOK, RegistryOK, StreamsOK
<1>2. Buffer /\ Ended
  BY DEF RunInit, Buffer, BufferIs, Ended
<1>3. \A p \in Pages : PageOK(p)
  <2> TAKE p \in Pages
  <2>1. from[p] = 0 /\ frames[p] = <<>> /\ pc[p] = "away" /\ appended = 0 /\ dropped = 0
    BY DEF RunInit
  <2>2. SentOK(<<>>, 0) /\ Complete(<<>>, 0, 0)
    BY DEF SentOK, Complete
  <2>3. QED
    BY <2>1, <2>2 DEF PageOK
<1>4. QED
  BY <1>1, <1>2, <1>3 DEF IInv

-----------------------------------------------------------------------------
\* The pages are undisturbed by a step that leaves the streams alone and either
\* appends a line or changes nothing they were told of.
LEMMA PagesStay ==
  ASSUME IInv, UNCHANGED streams, appended' \in Nat, dropped' \in Nat,
         appended <= appended', dropped <= dropped', waiters' \subseteq waiters,
         \/ waiters' = {} /\ (status = "running" \/ UNCHANGED <<status, appended, result>>)
         \/ UNCHANGED <<status, appended, result>>
  PROVE  \A p \in Pages : PageOK(p)'
<1> TAKE p \in Pages
<1>1. /\ PageOK(p) /\ from[p] \in Nat /\ appended \in Nat /\ dropped \in Nat
      /\ pc' = pc /\ from' = from /\ frames' = frames /\ told' = told
  BY DEF IInv, RunTypeOK, StreamsOK, RunOK, streams
<1>2. Complete(frames[p], from[p], dropped')
  BY <1>1 DEF PageOK, Complete
<1>3. /\ pc[p] \in {"closing", "told"} => status' # "running" /\ from[p] = appended'
      /\ pc[p] = "told" => told[p] = IF result' = "nil" THEN "ok" ELSE "error"
  BY <1>1 DEF PageOK
<1>4. pc[p] = "select" /\ p \in waiters' => status' = "running" /\ from[p] = appended'
  BY <1>1 DEF PageOK
<1>5. from[p] <= appended' /\ SentOK(frames[p], from[p])
  BY <1>1 DEF PageOK
<1>6. QED
  BY <1>1, <1>2, <1>3, <1>4, <1>5 DEF PageOK

\* A step that leaves the run and its command alone keeps the other parts.
LEMMA RunStays ==
  ASSUME IInv, UNCHANGED <<child, run>>
  PROVE  ChildOK' /\ RunOK' /\ Buffer' /\ Ended'
BY DEF IInv, RunTypeOK, ChildOK, RunOK, Buffer, Ended, child, run

LEMMA StartKeeps == IInv /\ Start => IInv'
<1> SUFFICES ASSUME IInv, Start PROVE IInv'
  OBVIOUS
<1>1. UNCHANGED <<child, run>> /\ UNCHANGED streams /\ entry' = "kept"
  BY DEF Start
<1>2. \A p \in Pages : PageOK(p)'
  <2>1. appended \in Nat /\ dropped \in Nat /\ UNCHANGED <<appended, dropped, status, waiters, result>>
    BY <1>1 DEF run, child, IInv, RunTypeOK, RunOK
  <2>2. QED
    BY <2>1, <1>1, PagesStay
<1>3. RegistryOK' /\ StreamsOK'
  BY <1>1 DEF RegistryOK, StreamsOK, streams, IInv, RunTypeOK
<1>4. QED
  BY <1>1, <1>2, <1>3, RunStays DEF IInv, RunTypeOK

LEMMA SweepKeeps == IInv /\ sweep => IInv'
<1> SUFFICES ASSUME IInv, sweep PROVE IInv'
  OBVIOUS
<1>1. UNCHANGED <<child, run>> /\ UNCHANGED streams /\ entry' = "swept"
  BY DEF sweep
<1>2. \A p \in Pages : PageOK(p)'
  <2>1. appended \in Nat /\ dropped \in Nat /\ UNCHANGED <<appended, dropped, status, waiters, result>>
    BY <1>1 DEF run, child, IInv, RunTypeOK, RunOK
  <2>2. QED
    BY <2>1, <1>1, PagesStay
<1>3. RegistryOK' /\ StreamsOK'
  BY <1>1 DEF RegistryOK, StreamsOK, streams, IInv, RunTypeOK
<1>4. QED
  BY <1>1, <1>2, <1>3, RunStays DEF IInv, RunTypeOK

\* The command starts, writes or exits: the run has not ended.
LEMMA ChildKeeps == IInv /\ (Launch \/ Write \/ Exit) => IInv'
<1> SUFFICES ASSUME IInv, Launch \/ Write \/ Exit PROVE IInv'
  OBVIOUS
<1>1. UNCHANGED run /\ UNCHANGED <<entry, streams>>
  BY DEF Launch, Write, Exit
<1>2. command \in {"none", "up"} /\ status = "running"
  BY DEF Launch, Write, Exit, IInv, Ended, RunTypeOK, RunOK
<1>3. ChildOK' /\ written' \in Nat /\ written <= written' /\ command' # "none"
  BY DEF Launch, Write, Exit, IInv, RunTypeOK, ChildOK
<1>4. RunOK' /\ RegistryOK' /\ StreamsOK'
  BY <1>1 DEF run, streams, IInv, RunTypeOK, RunOK, RegistryOK, StreamsOK
<1>5. Buffer' /\ Ended'
  BY <1>1, <1>2, <1>3 DEF run, IInv, RunTypeOK, RunOK, ChildOK, Buffer, BufferIs, Ended
<1>6. \A p \in Pages : PageOK(p)'
  <2> TAKE p \in Pages
  <2>1. pc[p] \notin {"closing", "told"}
    BY <1>2 DEF IInv, PageOK
  <2>2. QED
    BY <2>1, <1>1, <1>2 DEF run, streams, IInv, PageOK
<1>7. QED
  BY <1>3, <1>4, <1>5, <1>6 DEF IInv, RunTypeOK

\* A line is appended while the run goes on.
LEMMA AppendKeeps == IInv /\ (LaunchFails \/ Drain) => IInv'
<1> SUFFICES ASSUME IInv, LaunchFails \/ Drain PROVE IInv'
  OBVIOUS
<1>1. RunOK /\ BufferIs(lines, dropped, appended) /\ appended <= written
      /\ appended \in Nat /\ written \in 0 .. MaxLines /\ dropped \in Nat
  BY DEF IInv, RunTypeOK, RunOK, ChildOK, Buffer
<1>2. /\ append(appended + 1) /\ appended' = appended + 1 /\ appended + 1 <= MaxLines
      /\ appended' <= written' /\ written' \in 0 .. MaxLines
      /\ status' = status /\ command' # "none" /\ ChildOK' /\ UNCHANGED <<entry, streams>>
  <2>1. CASE LaunchFails
    <3>1. command = "none" /\ written = 0 /\ appended = 0
      BY <2>1, <1>1 DEF LaunchFails, IInv, Buffer
    <3>2. QED
      BY <2>1, <3>1 DEF LaunchFails, ChildOK
  <2>2. CASE Drain
    BY <2>2, <1>1 DEF Drain, child, IInv, RunTypeOK, ChildOK
  <2>3. QED
    BY <2>1, <2>2
<1>3. status = "running"
  BY <1>1 DEF LaunchFails, Drain, IInv, Ended, RunTypeOK, RunOK
<1>4. /\ lines' \in Seq(1 .. MaxLines) /\ Len(lines') <= MaxKept
      /\ dropped' \in Nat /\ dropped <= dropped'
      /\ BufferIs(lines', dropped', appended + 1)
      /\ waiters' = {}
  BY <1>1, <1>2, AppendKeepsBuffer
<1>5. dropped' \in 0 .. MaxLines
  <2>1. Len(lines') \in Nat
    BY <1>4
  <2>2. dropped' + Len(lines') = appended + 1
    BY <1>4 DEF BufferIs
  <2>3. QED
    BY <2>1, <2>2, <1>1, <1>2, <1>4
<1>6. RunOK' /\ RegistryOK' /\ StreamsOK'
  BY <1>1, <1>2, <1>3, <1>4, <1>5 DEF IInv, RunTypeOK, RunOK, RegistryOK, StreamsOK, streams
<1>7. Buffer' /\ Ended'
  BY <1>2, <1>3, <1>4 DEF Buffer, Ended
<1>8. \A p \in Pages : PageOK(p)'
  BY <1>1, <1>2, <1>3, <1>4, PagesStay
<1>9. QED
  BY <1>2, <1>6, <1>7, <1>8 DEF IInv, RunTypeOK

LEMMA FinishKeeps == IInv /\ finish => IInv'
<1> SUFFICES ASSUME IInv, finish PROVE IInv'
  OBVIOUS
<1>1. /\ command \in {"exited", "unstarted"} /\ appended = written /\ status = "running"
      /\ status' = (IF result = "err" THEN "failed" ELSE "done") /\ waiters' = {}
      /\ UNCHANGED <<child, appended, lines, dropped, entry, streams>>
  BY DEF finish
<1>2. result \in {"nil", "err"}
  BY DEF IInv, RunTypeOK, ChildOK
<1>3. RunTypeOK'
  BY <1>1 DEF IInv, RunTypeOK, ChildOK, RunOK, RegistryOK, StreamsOK, child, streams
<1>4. Buffer' /\ Ended'
  BY <1>1, <1>2 DEF IInv, Buffer, Ended, child
<1>5. \A p \in Pages : PageOK(p)'
  <2>1. appended \in Nat /\ dropped \in Nat
    BY DEF IInv, RunTypeOK, RunOK
  <2>2. QED
    BY <2>1, <1>1, PagesStay
<1>6. QED
  BY <1>3, <1>4, <1>5 DEF IInv

-----------------------------------------------------------------------------
\* A page that moves without reading.
LEMMA PageMoves ==
  ASSUME IInv, NEW p \in Pages, UNCHANGED <<child, appended, lines, dropped, status, entry>>,
         \A q \in Pages \ {p} : /\ pc'[q] = pc[q] /\ from'[q] = from[q] /\ frames'[q] = frames[q]
                                /\ told'[q] = told[q] /\ (q \in waiters' <=> q \in waiters),
         waiters' \subseteq Pages, status # "running" => waiters' = waiters,
         StreamsOK', PageOK(p)'
  PROVE  IInv'
<1>1. ChildOK' /\ RegistryOK' /\ RunOK'
  BY DEF IInv, RunTypeOK, ChildOK, RegistryOK, RunOK, child
<1>2. Buffer' /\ Ended'
  BY DEF IInv, Buffer, Ended, child
<1>3. ASSUME NEW q \in Pages \ {p} PROVE PageOK(q)'
  BY <1>3 DEF IInv, PageOK, child
<1>4. QED
  BY <1>1, <1>2, <1>3 DEF IInv, RunTypeOK

LEMMA WaitKeeps == \A p \in Pages : IInv /\ wait(p) => IInv'
<1> SUFFICES ASSUME NEW p \in Pages, IInv, wait(p) PROVE IInv'
  OBVIOUS
<1>1. /\ pc[p] = "top" /\ pc' = [pc EXCEPT ![p] = "reading"] /\ waiters' = Parked(p)
      /\ UNCHANGED <<child, appended, lines, dropped, status, entry, from, frames, told>>
  BY DEF wait
<1>2. StreamsOK /\ waiters \subseteq Pages /\ PageOK(p)
  BY DEF IInv, RunTypeOK, RunOK
<1>3. StreamsOK' /\ pc'[p] = "reading" /\ \A q \in Pages \ {p} : pc'[q] = pc[q]
  BY <1>1, <1>2 DEF StreamsOK
<1>4. /\ waiters' \subseteq Pages /\ (status # "running" => waiters' = waiters)
      /\ \A q \in Pages \ {p} : q \in waiters' <=> q \in waiters
  BY <1>1, <1>2 DEF Parked
<1>5. PageOK(p)'
  BY <1>1, <1>2, <1>3 DEF PageOK, child
<1>6. QED
  BY <1>1, <1>3, <1>4, <1>5, PageMoves

\* Open, Wake and tell: nothing is read, and the page does not go to sleep.
LEMMA QuietMoves == \A p \in Pages : IInv /\ (Open(p) \/ Wake(p) \/ tell(p)) => IInv'
<1> SUFFICES ASSUME NEW p \in Pages, IInv, Open(p) \/ Wake(p) \/ tell(p) PROVE IInv'
  OBVIOUS
<1>1. StreamsOK /\ waiters \subseteq Pages /\ PageOK(p)
  BY DEF IInv, RunTypeOK, RunOK
<1>2. UNCHANGED <<child, appended, lines, dropped, status, entry, waiters, from, frames>>
  BY DEF Open, Wake, tell, run
<1>3. CASE Open(p) \/ Wake(p)
  <2>1. pc' = [pc EXCEPT ![p] = "top"] /\ told' = told
    BY <1>3 DEF Open, Wake
  <2>2. StreamsOK' /\ pc'[p] = "top" /\ \A q \in Pages \ {p} : pc'[q] = pc[q]
    BY <1>1, <1>2, <2>1 DEF StreamsOK
  <2>3. PageOK(p)'
    BY <1>1, <1>2, <2>1, <2>2 DEF PageOK, child
  <2>4. QED
    BY <1>1, <1>2, <2>1, <2>2, <2>3, PageMoves
<1>4. CASE tell(p)
  <2>1. /\ pc[p] = "closing" /\ pc' = [pc EXCEPT ![p] = "told"]
        /\ told' = [told EXCEPT ![p] = IF status = "done" THEN "ok" ELSE "error"]
    BY <1>4 DEF tell
  <2>2. /\ StreamsOK' /\ pc'[p] = "told" /\ told'[p] = (IF status = "done" THEN "ok" ELSE "error")
        /\ \A q \in Pages \ {p} : pc'[q] = pc[q] /\ told'[q] = told[q]
    BY <1>1, <1>2, <2>1 DEF StreamsOK
  <2>3. status # "running" /\ from[p] = appended /\ (status = "done" <=> result = "nil")
    BY <1>1, <2>1 DEF PageOK, IInv, Ended
  <2>4. PageOK(p)'
    BY <1>1, <1>2, <2>1, <2>2, <2>3 DEF PageOK, child
  <2>5. QED
    BY <1>1, <1>2, <2>2, <2>4, PageMoves
<1>5. QED
  BY <1>3, <1>4

LEMMA LeaveKeeps == \A p \in Pages : IInv /\ LeaveRun(p) => IInv'
<1> SUFFICES ASSUME NEW p \in Pages, IInv, LeaveRun(p) PROVE IInv'
  OBVIOUS
<1>1. /\ pc' = [pc EXCEPT ![p] = "away"] /\ from' = [from EXCEPT ![p] = 0]
      /\ frames' = [frames EXCEPT ![p] = <<>>] /\ told' = [told EXCEPT ![p] = "none"]
      /\ UNCHANGED <<child, appended, lines, dropped, status, entry, waiters>>
  BY DEF LeaveRun, run
<1>2. StreamsOK /\ waiters \subseteq Pages /\ appended \in Nat
  BY DEF IInv, RunTypeOK, RunOK
<1>3. /\ pc'[p] = "away" /\ from'[p] = 0 /\ frames'[p] = <<>> /\ StreamsOK'
      /\ \A q \in Pages \ {p} : /\ pc'[q] = pc[q] /\ from'[q] = from[q] /\ frames'[q] = frames[q]
                                /\ told'[q] = told[q]
  BY <1>1, <1>2 DEF StreamsOK
<1>4. PageOK(p)'
  <2>1. SentOK(<<>>, 0) /\ Complete(<<>>, 0, dropped')
    BY DEF SentOK, Complete
  <2>2. QED
    BY <1>1, <1>2, <1>3, <2>1 DEF PageOK
<1>5. QED
  BY <1>1, <1>2, <1>3, <1>4, PageMoves

\* read: the new frames follow the old ones, and leave out only what was evicted.
LEMMA ReadKeeps == \A p \in Pages : IInv /\ read(p) => IInv'
<1> SUFFICES ASSUME NEW p \in Pages, IInv, read(p) PROVE IInv'
  OBVIOUS
<1> DEFINE old == frames[p]
           new == Unread(from[p])
           up == MovedUp(from[p])
<1>1. /\ pc[p] = "reading" /\ frames' = [frames EXCEPT ![p] = old \o new]
      /\ from' = [from EXCEPT ![p] = dropped + Len(lines)]
      /\ pc' = [pc EXCEPT ![p] = IF status # "running" THEN "closing" ELSE "select"]
      /\ UNCHANGED <<child, appended, lines, dropped, status, entry, waiters, told>>
  BY DEF read, run
<1>2. /\ StreamsOK /\ RunOK /\ waiters \subseteq Pages /\ appended \in 0 .. MaxLines /\ dropped \in Nat
      /\ BufferIs(lines, dropped, appended) /\ PageOK(p)
  BY DEF IInv, RunTypeOK, RunOK, Buffer
<1>3. /\ dropped + Len(lines) = appended /\ Len(lines) \in Nat /\ from[p] \in Nat /\ from[p] <= appended
      /\ old \in Seq(1 .. MaxLines)
  BY <1>2 DEF BufferIs, StreamsOK, PageOK, RunOK
<1>4. /\ up \in Nat /\ from[p] <= up /\ up <= appended /\ (up = from[p] \/ up = dropped)
  BY <1>2, <1>3 DEF MovedUp
<1>5. /\ new \in Seq(1 .. MaxLines) /\ Len(new) = appended - up
      /\ \A k \in DOMAIN new : new[k] = up + k
  BY <1>2, <1>3, UnreadIs
<1> HIDE DEF old, new, up
<1>6. /\ old \o new \in Seq(1 .. MaxLines) /\ Len(old \o new) = Len(old) + Len(new)
      /\ Len(old) \in Nat /\ Len(new) \in Nat
      /\ \A i \in 1 .. Len(old) : (old \o new)[i] = old[i]
      /\ \A k \in 1 .. Len(new) : (old \o new)[Len(old) + k] = new[k]
  BY <1>3, <1>5
<1>7. StreamsOK' /\ from'[p] = appended /\ frames'[p] = old \o new
      /\ \A q \in Pages \ {p} : /\ pc'[q] = pc[q] /\ from'[q] = from[q] /\ frames'[q] = frames[q]
                                /\ told'[q] = told[q]
  BY <1>1, <1>2, <1>3, <1>6 DEF StreamsOK
<1>8. SentOK(old, from[p]) /\ Complete(old, from[p], dropped)
  BY <1>2 DEF PageOK, old
<1>9. SentOK(old \o new, appended)
  <2> DEFINE all == old \o new
  <2>1. ASSUME NEW i \in 1 .. Len(old) + Len(new)
        PROVE  \/ i \in 1 .. Len(old) /\ all[i] = old[i] /\ old[i] <= from[p] /\ old[i] \in Nat
               \/ i - Len(old) \in 1 .. Len(new) /\ all[i] = up + (i - Len(old))
    <3>1. CASE i <= Len(old)
      BY <3>1, <1>3, <1>6, <1>8 DEF SentOK
    <3>2. CASE i > Len(old)
      <4>1. i - Len(old) \in 1 .. Len(new) /\ i = Len(old) + (i - Len(old))
        BY <3>2, <1>6
      <4>2. all[Len(old) + (i - Len(old))] = new[i - Len(old)]
        BY <4>1, <1>6
      <4>3. new[i - Len(old)] = up + (i - Len(old))
        BY <4>1, <1>5
      <4>4. QED
        BY <4>1, <4>2, <4>3
    <3>3. QED
      BY <3>1, <3>2, <1>6
  <2>2. \A i, j \in 1 .. Len(old) : i < j => old[i] < old[j]
    BY <1>3, <1>8 DEF SentOK
  <2> HIDE DEF all
  <2>3. ASSUME NEW i \in 1 .. Len(old) + Len(new) PROVE all[i] <= appended
    <3>1. CASE all[i] = old[i] /\ old[i] <= from[p] /\ old[i] \in Nat
      BY <3>1, <1>2, <1>3
    <3>2. CASE i - Len(old) \in 1 .. Len(new) /\ all[i] = up + (i - Len(old))
      BY <3>2, <1>2, <1>4, <1>5, <1>6
    <3>3. QED
      BY <2>1, <3>1, <3>2
  <2>4. ASSUME NEW i \in 1 .. Len(old) + Len(new), NEW j \in 1 .. Len(old) + Len(new), i < j
        PROVE  all[i] < all[j]
    <3>1. CASE j \in 1 .. Len(old)
      <4>1. i \in 1 .. Len(old)
        BY <3>1, <2>4, <1>6
      <4>2. all[i] = old[i] /\ all[j] = old[j]
        BY <3>1, <4>1, <1>6 DEF all
      <4>3. QED
        BY <4>1, <4>2, <3>1, <2>2, <2>4
    <3>2. CASE j \notin 1 .. Len(old)
      <4>1. all[j] = up + (j - Len(old)) /\ j - Len(old) \in 1 .. Len(new)
        BY <3>2, <2>1
      <4>2. CASE all[i] = old[i] /\ old[i] <= from[p] /\ old[i] \in Nat
        BY <4>1, <4>2, <1>3, <1>4, <1>6
      <4>3. CASE i - Len(old) \in 1 .. Len(new) /\ all[i] = up + (i - Len(old))
        BY <4>1, <4>3, <2>4, <1>4, <1>6
      <4>4. QED
        BY <2>1, <4>2, <4>3
    <3>3. QED
      BY <3>1, <3>2
  <2>5. DOMAIN all = 1 .. Len(old) + Len(new)
    BY <1>6 DEF all
  <2>6. QED
    BY <2>3, <2>4, <2>5 DEF SentOK, all
<1>10. Complete(old \o new, appended, dropped)
  <2> SUFFICES ASSUME NEW n \in 1 .. appended, n > dropped
               PROVE  \E i \in DOMAIN (old \o new) : (old \o new)[i] = n
    BY <1>2 DEF Complete
  <2>1. CASE n <= from[p]
    <3>1. PICK i \in DOMAIN old : old[i] = n
      BY <2>1, <1>2, <1>3, <1>8 DEF Complete
    <3>2. i \in 1 .. Len(old) /\ i \in 1 .. Len(old) + Len(new)
      BY <3>1, <1>3, <1>6
    <3>3. QED
      BY <3>1, <3>2, <1>6
  <2>2. CASE n > from[p]
    <3>1. n > up
      BY <2>2, <1>2, <1>3, <1>4
    <3>2. n - up \in 1 .. Len(new)
      BY <3>1, <1>2, <1>4, <1>5
    <3>3. (old \o new)[Len(old) + (n - up)] = up + (n - up)
      BY <3>2, <1>5, <1>6
    <3>4. Len(old) + (n - up) \in DOMAIN (old \o new)
      BY <3>2, <1>6
    <3>5. QED
      BY <3>3, <3>4, <1>4
  <2>3. QED
    BY <2>1, <2>2, <1>2, <1>3
<1>11. pc'[p] = IF status # "running" THEN "closing" ELSE "select"
  BY <1>1, <1>2 DEF StreamsOK
<1>12. PageOK(p)'
  <2>1. p \in waiters' => status = "running"
    BY <1>1 DEF IInv, Ended
  <2>2. /\ SentOK(frames'[p], from'[p]) /\ Complete(frames'[p], from'[p], dropped')
        /\ from'[p] <= appended'
    <3>1. from'[p] = appended /\ frames'[p] = old \o new /\ dropped' = dropped /\ appended' = appended
      BY <1>1, <1>7
    <3>2. SentOK(frames'[p], from'[p])
      BY <3>1, <1>9
    <3>3. Complete(frames'[p], from'[p], dropped')
      BY <3>1, <1>10
    <3>4. QED
      BY <3>1, <3>2, <3>3, <1>2
  <2>3. status' = status /\ appended' = appended /\ pc'[p] # "told"
    BY <1>1, <1>11
  <2>4. QED
    BY <2>1, <2>2, <2>3, <1>7, <1>11 DEF PageOK
<1>13. QED
  BY <1>1, <1>2, <1>7, <1>12, PageMoves

-----------------------------------------------------------------------------
\* ... and every step preserves it.
LEMMA NextIInv == IInv /\ [RunNext]_runVars => IInv'
<1> SUFFICES ASSUME IInv, [RunNext]_runVars PROVE IInv'
  OBVIOUS
<1>1. CASE Start \/ sweep
  BY <1>1, StartKeeps, SweepKeeps
<1>2. CASE Runner \/ Write \/ Exit
  BY <1>2, ChildKeeps, AppendKeeps, FinishKeeps DEF Runner
<1>3. CASE \E p \in Pages : Open(p) \/ Stream(p) \/ LeaveRun(p)
  BY <1>3, WaitKeeps, QuietMoves, LeaveKeeps, ReadKeeps DEF Stream
<1>4. CASE UNCHANGED runVars
  BY <1>4 DEF runVars, child, run, streams, IInv, RunTypeOK, ChildOK, RunOK, RegistryOK, StreamsOK,
              Buffer, Ended, PageOK
<1>5. QED
  BY <1>1, <1>2, <1>3, <1>4 DEF RunNext

LEMMA Inductive == RunSpec => []IInv
BY InitIInv, NextIInv, PTL DEF RunSpec

\* The types of runs.go and runs_http.go hold, and the buffer never exceeds
\* runMaxLines.
THEOREM TypeCorrect == RunSpec => []RunTypeOK
<1>1. IInv => RunTypeOK
  BY DEF IInv
<1>2. QED
  BY <1>1, Inductive, PTL

\* read and append together: no page is sent a line twice, out of order, or past
\* a line the buffer still holds.
THEOREM StreamsAreFaithful == RunSpec => []FramesInOrder
<1>1. IInv => FramesInOrder
  <2> SUFFICES ASSUME IInv, NEW p \in Pages
               PROVE  /\ \A i, j \in DOMAIN frames[p] : i < j => frames[p][i] < frames[p][j]
                      /\ \A n \in 1 .. from[p] : n \in Sent(p) \/ n <= dropped
    BY DEF FramesInOrder
  <2>1. SentOK(frames[p], from[p]) /\ Complete(frames[p], from[p], dropped)
    BY DEF IInv, PageOK
  <2>2. \A n \in 1 .. from[p] : n \in Sent(p) \/ n <= dropped
    BY <2>1 DEF Complete, Sent
  <2>3. QED
    BY <2>1, <2>2 DEF SentOK
<1>2. QED
  BY <1>1, Inductive, PTL

\* wait before read: no page blocks on its channel with something to read.
THEOREM NoLostWakeup == RunSpec => []SleepsOnlyCaughtUp
<1>1. IInv => SleepsOnlyCaughtUp
  BY DEF IInv, SleepsOnlyCaughtUp, PageOK
<1>2. QED
  BY <1>1, Inductive, PTL

\* finish after the drain and wake: the done event is the last and tells the truth.
THEOREM DoneIsLast == RunSpec => []ToldTheEnd
<1>1. IInv => ToldTheEnd
  <2> SUFFICES ASSUME IInv, NEW p \in Pages, pc[p] = "told"
               PROVE  /\ from[p] = written
                      /\ told[p] = IF result = "nil" THEN "ok" ELSE "error"
                      /\ \A i \in DOMAIN lines : lines[i] \in Sent(p)
    BY DEF ToldTheEnd
  <2>1. PageOK(p) /\ Ended /\ Buffer /\ RunOK
    BY DEF IInv, RunTypeOK
  <2>2. from[p] = appended /\ appended = written
    BY <2>1 DEF PageOK, Ended
  <2>3. ASSUME NEW i \in DOMAIN lines PROVE lines[i] \in Sent(p)
    <3>1. /\ lines[i] = dropped + i /\ i \in 1 .. Len(lines) /\ Len(lines) \in Nat
          /\ dropped + Len(lines) = appended /\ dropped \in Nat
      BY <2>1 DEF Buffer, BufferIs, RunOK
    <3>2. lines[i] \in 1 .. from[p] /\ ~(lines[i] <= dropped)
      BY <3>1, <2>2
    <3>3. QED
      BY <3>2, <2>1 DEF PageOK, Complete, Sent
  <2>4. QED
    BY <2>1, <2>2, <2>3 DEF PageOK
<1>2. QED
  BY <1>1, Inductive, PTL
=============================================================================
