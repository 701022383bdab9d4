-------------------------- MODULE SnapshotSlotProps -------------------------
(***************************************************************************)
(* What a snapshot slot promises its readers.                              *)
(***************************************************************************)
EXTENDS SnapshotSlot

PC == {"idle", "try", "lock", "recheck", "build", "store", "done"}

\* Every variable has its type: the bytes are a version or nil, and the retry
\* loop of load never passes its cap of three attempts.
TypeOK ==
  /\ world \in Version /\ acked \in Version
  /\ data \in Bytes /\ at \in {"zero", "recent", "aged"} /\ gen \in 0..MaxGen
  /\ builder \subseteq Callers
  /\ pc \in [Callers -> PC]
  /\ call \in [Callers -> Frame]

\* A value the slot serves as fresh, or may serve as fresh again once the TTL
\* lengthens, reflects every mutation that was followed by an invalidation: a
\* rebuild that began before one never hides it (snapshot.go:45).
FreshCoversInvalidations ==
  at # "zero" => data # Nil /\ data >= acked

\* fresh(), the read behind a websocket broadcast, never ships a value older
\* than the invalidations that preceded the call, unless its build failed.
BroadcastCoversCall ==
  \A c \in Callers :
    pc[c] = "done" /\ call[c].via = "fresh" /\ call[c].how # "failed" /\ call[c].ret # Nil => call[c].ret >= call[c].floor

\* get() leaves a caller empty-handed only after a failed build, never because
\* another caller was building or an invalidation came in (snapshot.go:37).
GetAnswersUnlessBuildFailed ==
  \A c \in Callers :
    pc[c] = "done" /\ call[c].via = "get" /\ call[c].ret = Nil => call[c].how = "failed"

-----------------------------------------------------------------------------
(* SnapshotSlot keeps SlotPromise, which DashboardFeed builds on. *)

HowOf(path) == IF path \in {"hit", "built"} THEN "current" ELSE path
ReadOf(c) ==
  [st |-> IF pc[c] \in {"idle", "done"} THEN pc[c] ELSE "reading", via |-> call[c].via, floor |-> call[c].floor,
   stale |-> call[c].stale, attempt |-> call[c].attempt, ret |-> call[c].ret, how |-> HowOf(call[c].how)]

\* The reads as SlotPromise sees them, and the builds an invalidation outdated.
Reads == [c \in Callers |-> ReadOf(c)]
Outdated == {c \in Callers : pc[c] \in {"build", "store"} /\ call[c].gen # gen}

Promise == INSTANCE SlotPromise WITH read <- Reads, outdated <- Outdated

\* get() and fresh() behave, towards their callers, as two atomic events that
\* keep the promise of SlotPromise, whatever the locks and retries in between;
\* that every read is answered is part of it.
KeepsPromise == Promise!FairSpec
=============================================================================
