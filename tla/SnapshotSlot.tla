---------------------------- MODULE SnapshotSlot ----------------------------
(***************************************************************************)
(* One slot of the dashboard's snapshot cache (internal/ui/snapshot.go):   *)
(* the JSON of /api/sites, /api/services or /api/status, behind a short    *)
(* state mutex and a long build mutex.                                     *)
(*                                                                         *)
(* Data.  The bytes are the version of the machine's state they describe;  *)
(* a build reads that version at one instant between its start and its     *)
(* store.  Time.  s.at is "zero" (the zero time), "recent" while            *)
(* time.Since(s.at) < currentSnapshotTTL(), or "aged"; the TTL runs out in *)
(* Age, and the longer TTL of a dashboard with no visible tab revives an   *)
(* aged value in Lengthen.                                                 *)
(* Bounds.  MaxWorld mutations and MaxGen invalidations.                   *)
(***************************************************************************)
EXTENDS Integers

CONSTANTS
  Callers,    \* goroutines that read the slot: HTTP handlers and the invalidator
  MaxWorld,   \* bound: mutations of the machine's state
  MaxGen,     \* bound: invalidations of the slot
  Nil         \* the nil []byte

MaxAttempts == 3   \* `if attempt == 3` of load

ASSUME BoundsAssumption == MaxWorld \in Nat /\ MaxGen \in Nat
ASSUME NilAssumption == Nil \notin Int

VARIABLES
  world,      \* version of the state the builds describe
  acked,      \* history: version the last invalidation was called for
  data,       \* s.data
  at,         \* s.at: "zero", "recent" (within the TTL) or "aged"
  gen,        \* s.gen
  builder,    \* holders of s.build (a mutex: at most one)
  pc,         \* where each caller is in load
  call        \* the locals of each caller's load

slot == <<data, at, gen>>
vars == <<world, acked, slot, builder, pc, call>>

Version == 0..MaxWorld
Bytes   == Version \cup {Nil}

\* via is load's parameter wait ("fresh" waits, "get" does not), floor the value
\* of acked when load was entered, ret what load returned and how the path it
\* returned by; the others are the locals of load.
Frame == [via : {"get", "fresh"}, floor : Version, stale : Bytes, gen : 0..MaxGen,
          built : Bytes, attempt : 1..MaxAttempts, ret : Bytes,
          how : {"none", "hit", "busy", "built", "failed", "outdated"}]

NoFrame == [via |-> "get", floor |-> 0, stale |-> Nil, gen |-> 0, built |-> Nil,
            attempt |-> 1, ret |-> Nil, how |-> "none"]

Init ==
  /\ world = 0 /\ acked = 0
  /\ data = Nil /\ at = "zero" /\ gen = 0
  /\ builder = {}
  /\ pc = [c \in Callers |-> "idle"]
  /\ call = [c \in Callers |-> NoFrame]

-----------------------------------------------------------------------------
(* The environment of the slot. *)

\* A handler changes what the snapshot describes.
Mutate ==
  /\ world < MaxWorld
  /\ world' = world + 1
  /\ UNCHANGED <<acked, slot, builder, pc, call>>

\* invalidate(): called after a mutation, by publishAfter and by the bus.
invalidate ==
  /\ gen < MaxGen
  /\ acked' = world
  /\ at' = "zero"
  /\ gen' = gen + 1
  /\ UNCHANGED <<world, data, builder, pc, call>>

\* currentSnapshotTTL() has passed since s.at, or shrank: a tab became visible.
Age ==
  /\ at = "recent"
  /\ at' = "aged"
  /\ UNCHANGED <<world, acked, data, gen, builder, pc, call>>

\* The last visible tab went away, and s.at is within the longer TTL.
Lengthen ==
  /\ at = "aged"
  /\ at' = "recent"
  /\ UNCHANGED <<world, acked, data, gen, builder, pc, call>>

-----------------------------------------------------------------------------
(* load, one action per critical section. *)

\* s.data != nil && time.Since(s.at) < currentSnapshotTTL()
Usable == data # Nil /\ at = "recent"

\* `defer s.build.Unlock()`.
Unlocked(c) == builder \ {c}

\* load returns b: its locals are gone, and a build mutex it held is released.
Return(c, b, path) ==
  /\ pc' = [pc EXCEPT ![c] = "done"]
  /\ builder' = Unlocked(c)
  /\ call' = [call EXCEPT ![c] = [NoFrame EXCEPT !.via = call[c].via, !.floor = call[c].floor,
                                                !.ret = b, !.how = path]]

\* The first look under s.mu returns a usable value at once.
CallHit(c, v) ==
  /\ pc[c] = "idle" /\ Usable
  /\ pc' = [pc EXCEPT ![c] = "done"]
  /\ call' = [call EXCEPT ![c] = [NoFrame EXCEPT !.via = v, !.floor = acked,
                                                !.ret = data, !.how = "hit"]]
  /\ UNCHANGED <<world, acked, slot, builder>>

\* `stale != nil && !wait`, and a mutated form that forgets the cold cache.
TriesEvenWhenCold(v) == v = "get"
OnlyTries(v) == data # Nil /\ v = "get"

\* Otherwise the caller keeps the old value.  One that holds a value and does
\* not wait will only try the build mutex.
CallMiss(c, v) ==
  /\ pc[c] = "idle" /\ ~Usable
  /\ call' = [call EXCEPT ![c] = [NoFrame EXCEPT !.via = v, !.floor = acked, !.stale = data]]
  /\ pc' = [pc EXCEPT ![c] = IF OnlyTries(v) THEN "try" ELSE "lock"]
  /\ UNCHANGED <<world, acked, slot, builder>>

TryLockFails(c) ==
  /\ pc[c] = "try" /\ builder # {}
  /\ Return(c, call[c].stale, "busy")
  /\ UNCHANGED <<world, acked, slot>>

TakeBuild(c) ==
  /\ pc[c] \in {"try", "lock"} /\ builder = {}
  /\ builder' = {c}
  /\ pc' = [pc EXCEPT ![c] = "recheck"]
  /\ UNCHANGED <<world, acked, slot, call>>

\* The loop's look under s.mu: another caller built it meanwhile ...
RecheckHit(c) ==
  /\ pc[c] = "recheck" /\ Usable
  /\ Return(c, data, "hit")
  /\ UNCHANGED <<world, acked, slot>>

\* ... or this one builds, for the invalidations it knows of.
RecheckMiss(c) ==
  /\ pc[c] = "recheck" /\ ~Usable
  /\ call' = [call EXCEPT ![c].gen = gen]
  /\ pc' = [pc EXCEPT ![c] = "build"]
  /\ UNCHANGED <<world, acked, slot, builder>>

\* s.fn() reads the state ...
Build(c) ==
  /\ pc[c] = "build"
  /\ call' = [call EXCEPT ![c].built = world]
  /\ pc' = [pc EXCEPT ![c] = "store"]
  /\ UNCHANGED <<world, acked, slot, builder>>

\* ... or fails: nothing is stored, the value load began with is returned.
BuildFails(c) ==
  /\ pc[c] = "build"
  /\ Return(c, call[c].stale, "failed")
  /\ UNCHANGED <<world, acked, slot>>

\* s.at after the store, and a mutated form that ignores s.gen.
StampAlways(c) == "recent"
Stamp(c) == IF gen = call[c].gen THEN "recent" ELSE at

\* `attempt == 3`.
LastAttempt(c) == call[c].attempt = MaxAttempts

\* The store under s.mu.  A build an invalidation outdated is kept, but is not
\* fresh; a waiting caller tries again, MaxAttempts times at most.
Store(c) ==
  LET current == gen = call[c].gen
  IN /\ pc[c] = "store"
     /\ data' = call[c].built
     /\ at' = Stamp(c)
     /\ \/ /\ current \/ call[c].via = "get"
           /\ Return(c, call[c].built, "built")
        \/ /\ ~current /\ call[c].via = "fresh" /\ LastAttempt(c)
           /\ Return(c, Nil, "outdated")
        \/ /\ ~current /\ call[c].via = "fresh" /\ ~LastAttempt(c)
           /\ call' = [call EXCEPT ![c].attempt = @ + 1, ![c].built = Nil]
           /\ pc' = [pc EXCEPT ![c] = "recheck"]
           /\ UNCHANGED builder
     /\ UNCHANGED <<world, acked, gen>>

\* The caller has used the answer and may call again.
Again(c) ==
  /\ pc[c] = "done"
  /\ pc' = [pc EXCEPT ![c] = "idle"]
  /\ call' = [call EXCEPT ![c] = NoFrame]
  /\ UNCHANGED <<world, acked, slot, builder>>

load(c) ==
  \/ TryLockFails(c)
  \/ TakeBuild(c)
  \/ RecheckHit(c)
  \/ RecheckMiss(c)
  \/ Build(c)
  \/ BuildFails(c)
  \/ Store(c)

Call(c) == \E v \in {"get", "fresh"} : CallHit(c, v) \/ CallMiss(c, v)

Next ==
  \/ Mutate
  \/ invalidate
  \/ Age
  \/ Lengthen
  \/ \E c \in Callers : Call(c) \/ load(c) \/ Again(c)

Spec == Init /\ [][Next]_vars

\* A goroutine in load keeps running; Go's mutex hands over to a goroutine that
\* has waited 1ms (starvation mode), so the build mutex is strongly fair.
FairSpec ==
  /\ Spec
  /\ \A c \in Callers : WF_vars(load(c)) /\ SF_vars(TakeBuild(c))
=============================================================================
