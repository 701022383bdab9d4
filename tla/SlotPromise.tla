----------------------------- MODULE SlotPromise -----------------------------
(***************************************************************************)
(* What a reader of a dashboard snapshot may rely on, without the locks of *)
(* SnapshotSlot: get() and fresh() of internal/ui/snapshot.go as two       *)
(* events, the call and the answer.                                        *)
(***************************************************************************)
EXTENDS Integers

CONSTANTS
  Callers,    \* the goroutines that read the slot
  MaxWorld,   \* bound: versions of what the snapshot describes
  Nil         \* the nil []byte

MaxAttempts == 3

VARIABLES
  world,      \* version of the state the snapshot describes
  acked,      \* version the last invalidation was called for
  data,       \* the value built last
  read,       \* each caller's read
  outdated    \* callers whose current build an invalidation has outdated

vars == <<world, acked, data, read, outdated>>

Version == 0..MaxWorld
Bytes   == Version \cup {Nil}

\* floor and stale are acked and data at the call: what the reader knew to be
\* invalidated, and what there was.
Read == [st : {"idle", "reading", "done"}, via : {"get", "fresh"}, floor : Version, stale : Bytes,
         attempt : 1..MaxAttempts, ret : Bytes,
         how : {"none", "current", "busy", "failed", "outdated"}]

NoRead == [st |-> "idle", via |-> "get", floor |-> 0, stale |-> Nil, attempt |-> 1,
           ret |-> Nil, how |-> "none"]

Init ==
  /\ world = 0 /\ acked = 0 /\ data = Nil
  /\ read = [c \in Callers |-> NoRead]
  /\ outdated = {}

Mutate ==
  /\ world < MaxWorld
  /\ world' = world + 1
  /\ UNCHANGED <<acked, data, read, outdated>>

\* An invalidation outdates the builds under way.
invalidate ==
  /\ acked' = world
  /\ \E S \in SUBSET {c \in Callers : read[c].st = "reading"} : outdated' = outdated \cup S
  /\ UNCHANGED <<world, data, read>>

Answered(v, floor, ret, how) ==
  [st |-> "done", via |-> v, floor |-> floor, stale |-> Nil, attempt |-> 1, ret |-> ret, how |-> how]

Asked(v) ==
  [st |-> "reading", via |-> v, floor |-> acked, stale |-> data, attempt |-> 1, ret |-> Nil, how |-> "none"]

\* A value that is still fresh is returned at once.
Hit(c, v) ==
  /\ read[c].st = "idle"
  /\ data \in acked..world
  /\ read' = [read EXCEPT ![c] = Answered(v, acked, data, "current")]
  /\ UNCHANGED <<world, acked, data, outdated>>

Begin(c, v) ==
  /\ read[c].st = "idle"
  /\ read' = [read EXCEPT ![c] = Asked(v)]
  /\ UNCHANGED <<world, acked, data, outdated>>

Finish(c, ret, how) == read' = [read EXCEPT ![c] = Answered(@.via, @.floor, ret, how)]

\* A value no older than the call; or the old one: to get() because another
\* caller builds, to both when the build failed.
Answer(c) ==
  /\ read[c].st = "reading"
  /\ \/ \E ret \in read[c].floor..world : data' = ret /\ Finish(c, ret, "current")
     \/ /\ read[c].via = "get" /\ read[c].stale # Nil
        /\ \E d \in Callers \ {c} : read[d].st = "reading"
        /\ Finish(c, read[c].stale, "busy") /\ UNCHANGED data
     \/ Finish(c, read[c].stale, "failed") /\ UNCHANGED data
  /\ outdated' = outdated \ {c}
  /\ UNCHANGED <<world, acked>>

\* fresh() builds again when an invalidation came in, and answers nil when
\* MaxAttempts builds were outdated.
Retry(c) ==
  /\ read[c].st = "reading" /\ read[c].via = "fresh"
  /\ c \in outdated
  /\ data' \in read[c].floor..world
  /\ \/ read[c].attempt < MaxAttempts /\ read' = [read EXCEPT ![c].attempt = @ + 1]
     \/ read[c].attempt = MaxAttempts /\ Finish(c, Nil, "outdated")
  /\ outdated' = outdated \ {c}
  /\ UNCHANGED <<world, acked>>

Again(c) ==
  /\ read[c].st = "done"
  /\ read' = [read EXCEPT ![c] = NoRead]
  /\ UNCHANGED <<world, acked, data, outdated>>

Next ==
  \/ Mutate \/ invalidate
  \/ \E c \in Callers :
       \/ \E v \in {"get", "fresh"} : Hit(c, v) \/ Begin(c, v)
       \/ Answer(c) \/ Retry(c) \/ Again(c)

Spec == Init /\ [][Next]_vars

\* Every read is answered.
FairSpec == Spec /\ \A c \in Callers : WF_vars(Answer(c) \/ Retry(c))
=============================================================================
