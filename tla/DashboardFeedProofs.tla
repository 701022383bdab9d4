------------------------- MODULE DashboardFeedProofs -------------------------
(***************************************************************************)
(* The dashboard feed for any number of handlers and tabs, any buffers and *)
(* any bounds: it uses the snapshot slot by its promise alone, counts the  *)
(* visible windows right and leaves nothing of a connection that ended,    *)
(* and leaves the open tabs with the present state when it comes to rest.  *)
(***************************************************************************)
EXTENDS DashboardFeedProps, FiniteSetTheorems, TLAPS

-----------------------------------------------------------------------------
(* The inductive invariant.                                                 *)

\* What SlotPromise keeps by itself: an answer called current is no older than
\* the invalidations before the call, and nothing is newer than the world.
SlotTypeOK ==
  /\ world \in Version /\ acked \in Version /\ data \in Bytes
  /\ read \in [Callers -> Slot!Read] /\ outdated \subseteq Callers
ReadSound(r) ==
  /\ r.floor <= acked
  /\ r.stale # Nil => r.stale <= world
  /\ r.st = "idle" => r = Slot!NoRead
  /\ r.st = "done" /\ r.how = "current" => r.ret \in r.floor..world
SlotInv ==
  /\ SlotTypeOK
  /\ acked <= world /\ (data # Nil => data <= world)
  /\ \A c \in Callers : ReadSound(read[c])

\* The invalidator reads for an event with the kind, and for no other.
InvalidatorReads ==
  /\ inv = "read" => event = "kind"
  /\ inv # "send" \/ event = "nothing" => read[Invalidator] = Slot!NoRead

\* A change is announced, or will be, or never because the hub dropped the
\* invalidator.
Announced(e) == \E i \in 1..Len(e) : e[i] = "kind"
Pending ==
  \/ \E h \in Handlers : handler[h] # "idle"
  \/ dirty = "yes" \/ Announced(events) \/ subbed = "out"
Pushing == event = "kind" /\ inv \in {"peers", "read", "send"}

\* What no one is yet to announce has been invalidated, also for the push under way.
NothingUnknown ==
  ~Pending =>
    /\ acked = world
    /\ Pushing /\ inv = "send" => read[Invalidator].floor = world

\* The last frame a tab has or will be sent: one of its channel, what it shows, or
\* what its first read answers.
LastIs(s, v) == \E i \in 1..Len(s) : s[i] = v /\ \A j \in (i + 1)..Len(s) : s[j] = Nil
NoneIn(s) == \A i \in 1..Len(s) : s[i] = Nil
Reached(t) ==
  \/ LastIs(chan[t], world)
  \/ /\ NoneIn(chan[t])
     /\ tab[t] = "live" => shown[t] = world
     /\ tab[t] = "reading" => read[t].floor = world

\* Once a change is pushed, that frame is the present state.
PushedReaches == ~Pending /\ ~Pushing /\ spoiled = "no" => \A t \in peers : Reached(t)

FeedInv ==
  /\ FeedOK /\ SlotInv
  /\ InvalidatorReads /\ NothingUnknown /\ PushedReaches

USE BoundsAssumption, NilAssumption, CapsAssumption, InvalidatorAssumption DEF Callers

-----------------------------------------------------------------------------
(* The slot by its promise.                                                 *)

\* Every step of the feed is a step of the promise, or leaves the slot alone.
LEMMA StepUsesSlot == [Next]_vars => [Slot!Next]_Slot!vars
<1> SUFFICES ASSUME [Next]_vars PROVE Slot!Next \/ UNCHANGED Slot!vars
  OBVIOUS
<1> USE DEF slot, Slot!vars, Slot!Next
<1>1. ASSUME NEW h \in Handlers, Change(h) \/ Invalidate(h) \/ Publish(h)
      PROVE  Slot!Next \/ UNCHANGED Slot!vars
  BY <1>1 DEF Change, Invalidate, Publish
<1>2. CASE Fire \/ flush
  BY <1>2 DEF Fire, flush
<1>3. CASE Push
  BY <1>3 DEF Push, Receive, Invalidates, LookForPeers, ReadFresh, Broadcast, InvalidatorEnds
<1>4. ASSUME NEW t \in Tabs, Connect(t) \/ TabStep(t) \/ Return(t) \/ Reader(t)
      PROVE  Slot!Next \/ UNCHANGED Slot!vars
  BY <1>4 DEF Connect, TabStep, Refresh, ReadFirst, FirstFrame, Frame, Uncount, Leave,
              Return, Reader, Hear, Settle, ReaderEnds
<1>5. ASSUME NEW c \in Callers, Answered(c)
      PROVE  Slot!Next \/ UNCHANGED Slot!vars
  BY <1>5 DEF Answered
<1>6. CASE UNCHANGED vars
  BY <1>6 DEF vars
<1>7. QED
  BY <1>1, <1>2, <1>3, <1>4, <1>5, <1>6 DEF Next

\* The feed uses the slot by get, fresh and invalidate alone: what it does to the
\* slot is a behaviour of SlotPromise, which SnapshotSlot implements.
THEOREM FeedUsesSlot == Spec => Slot!Spec
<1>1. Init => Slot!Init
  BY DEF Init
<1>2. QED
  BY <1>1, StepUsesSlot, PTL DEF Spec, Slot!Spec

\* The types of a read.
LEMMA ReadTypes ==
  /\ Slot!NoRead \in Slot!Read
  /\ \A v \in {"get", "fresh"}, floor \in Version, ret \in Bytes,
        how \in {"none", "current", "busy", "failed", "outdated"} :
       Slot!Answered(v, floor, ret, how) \in Slot!Read
  /\ \A v \in {"get", "fresh"} : acked \in Version /\ data \in Bytes => Slot!Asked(v) \in Slot!Read
BY DEF Slot!NoRead, Slot!Read, Slot!Answered, Slot!Asked, Slot!Version, Slot!Bytes,
       Slot!MaxAttempts, Version, Bytes

\* What a read holds.
LEMMA ReadHolds ==
  ASSUME NEW r \in Slot!Read
  PROVE  /\ r.st \in {"idle", "reading", "done"} /\ r.via \in {"get", "fresh"}
         /\ r.floor \in Version /\ r.stale \in Bytes /\ r.ret \in Bytes
         /\ r.attempt \in 1..Slot!MaxAttempts
         /\ r.how \in {"none", "current", "busy", "failed", "outdated"}
BY DEF Slot!Read, Slot!Version, Slot!Bytes, Version, Bytes

\* A step that moves c's read alone.
LEMMA OneReads ==
  ASSUME SlotInv, NEW c \in Callers, NEW r \in Slot!Read, read' = [read EXCEPT ![c] = r],
         UNCHANGED <<world, acked>>, data' \in Bytes, data' # Nil => data' <= world,
         outdated' \subseteq Callers, ReadSound(r)
  PROVE  SlotInv'
<1>1. SlotTypeOK' /\ acked' <= world' /\ (data' # Nil => data' <= world')
  BY DEF SlotInv, SlotTypeOK
<1>2. ASSUME NEW d \in Callers PROVE ReadSound(read[d])'
  <2>1. read'[d] = IF d = c THEN r ELSE read[d]
    BY DEF SlotInv, SlotTypeOK
  <2>2. QED
    BY <2>1 DEF SlotInv, SlotTypeOK, ReadSound
<1>3. QED
  BY <1>1, <1>2 DEF SlotInv

\* The promise keeps what the feed relies on.
LEMMA SlotStep == SlotInv /\ [Slot!Next]_Slot!vars => SlotInv'
<1> SUFFICES ASSUME SlotInv, [Slot!Next]_Slot!vars PROVE SlotInv'
  OBVIOUS
<1>0. /\ world \in Version /\ acked \in Version /\ data \in Bytes /\ acked <= world
      /\ data # Nil => data <= world
      /\ read \in [Callers -> Slot!Read] /\ outdated \subseteq Callers
      /\ \A c \in Callers : ReadSound(read[c])
  BY DEF SlotInv, SlotTypeOK
<1>1. CASE Slot!Mutate
  <2>1. /\ world' = world + 1 /\ world' \in Version /\ UNCHANGED <<acked, data, read, outdated>>
    BY <1>0, <1>1 DEF Slot!Mutate, Version
  <2>2. ASSUME NEW c \in Callers PROVE ReadSound(read[c])'
    <3>1. read[c].ret \in Bytes /\ read[c].stale \in Bytes /\ read[c].floor \in Version
      BY <1>0, ReadHolds
    <3>2. QED
      BY <1>0, <2>1, <3>1 DEF ReadSound, Version, Bytes
  <2>3. QED
    BY <1>0, <2>1, <2>2 DEF SlotInv, SlotTypeOK, Version, Bytes
<1>2. CASE Slot!invalidate
  <2>1. acked' = world /\ outdated' \subseteq Callers /\ UNCHANGED <<world, data, read>>
    BY <1>0, <1>2 DEF Slot!invalidate
  <2>2. ASSUME NEW c \in Callers PROVE ReadSound(read[c])'
    <3>1. read[c].floor \in Version
      BY <1>0, ReadHolds
    <3>2. QED
      BY <1>0, <2>1, <3>1 DEF ReadSound, Version
  <2>3. QED
    BY <1>0, <2>1, <2>2 DEF SlotInv, SlotTypeOK, Version
<1>3. ASSUME NEW c \in Callers, NEW v \in {"get", "fresh"}, Slot!Hit(c, v) \/ Slot!Begin(c, v)
      PROVE  SlotInv'
  <2>1. CASE Slot!Hit(c, v)
    <3>1. Slot!Answered(v, acked, data, "current") \in Slot!Read
      BY <1>0, ReadTypes
    <3>2. ReadSound(Slot!Answered(v, acked, data, "current"))
      BY <1>0, <2>1 DEF ReadSound, Slot!Answered, Slot!Hit, Version
    <3>3. QED
      BY <1>0, <2>1, <3>1, <3>2, OneReads DEF Slot!Hit
  <2>2. CASE Slot!Begin(c, v)
    <3>1. Slot!Asked(v) \in Slot!Read
      BY <1>0, ReadTypes
    <3>2. ReadSound(Slot!Asked(v))
      BY <1>0, <2>2 DEF ReadSound, Slot!Asked, Version
    <3>3. QED
      BY <1>0, <2>2, <3>1, <3>2, OneReads DEF Slot!Begin
  <2>3. QED
    BY <1>3, <2>1, <2>2
<1>4. ASSUME NEW c \in Callers, Slot!Answer(c) \/ Slot!Retry(c)
      PROVE  SlotInv'
  <2>0. /\ read[c] \in Slot!Read /\ ReadSound(read[c]) /\ read[c].st = "reading"
        /\ UNCHANGED <<world, acked>> /\ outdated' \subseteq Callers
        /\ read[c].via \in {"get", "fresh"} /\ read[c].floor \in Version /\ read[c].stale \in Bytes
    BY <1>0, <1>4, ReadHolds DEF Slot!Answer, Slot!Retry
  <2>1. ASSUME NEW ret \in Bytes, NEW how \in {"current", "busy", "failed", "outdated"},
               Slot!Finish(c, ret, how), how = "current" => ret \in read[c].floor..world,
               data' \in Bytes, data' # Nil => data' <= world
        PROVE  SlotInv'
    <3>1. read' = [read EXCEPT ![c] = Slot!Answered(read[c].via, read[c].floor, ret, how)]
      BY <1>0, <2>1 DEF Slot!Finish
    <3>2. Slot!Answered(read[c].via, read[c].floor, ret, how) \in Slot!Read
      BY <2>0, ReadTypes
    <3>3. ReadSound(Slot!Answered(read[c].via, read[c].floor, ret, how))
      BY <2>0, <2>1 DEF ReadSound, Slot!Answered
    <3>4. QED
      BY <2>0, <2>1, <3>1, <3>2, <3>3, OneReads
  <2>2. CASE Slot!Answer(c)
    <3>1. ASSUME NEW ret \in read[c].floor..world, data' = ret, Slot!Finish(c, ret, "current")
          PROVE  SlotInv'
      <4>1. ret \in Bytes /\ data' \in Bytes /\ (data' # Nil => data' <= world)
        BY <1>0, <2>0, <3>1 DEF Version, Bytes
      <4>2. QED
        BY <2>1, <3>1, <4>1
    <3>2. CASE Slot!Finish(c, read[c].stale, "busy") /\ UNCHANGED data
      BY <1>0, <2>0, <2>1, <3>2
    <3>3. CASE Slot!Finish(c, read[c].stale, "failed") /\ UNCHANGED data
      BY <1>0, <2>0, <2>1, <3>3
    <3>4. QED
      BY <2>2, <3>1, <3>2, <3>3 DEF Slot!Answer
  <2>3. CASE Slot!Retry(c)
    <3>1. data' \in Bytes /\ (data' # Nil => data' <= world)
      BY <1>0, <2>0, <2>3 DEF Slot!Retry, Version, Bytes
    <3>2. CASE Slot!Finish(c, Nil, "outdated")
      <4>1. Nil \in Bytes
        BY DEF Bytes
      <4>2. QED
        BY <2>1, <3>1, <3>2, <4>1
    <3>3. CASE read[c].attempt < Slot!MaxAttempts /\ read' = [read EXCEPT ![c].attempt = @ + 1]
      <4>1. PICK r : r = [read[c] EXCEPT !.attempt = @ + 1]
        OBVIOUS
      <4>2. read' = [read EXCEPT ![c] = r]
        BY <1>0, <3>3, <4>1
      <4>3. r \in Slot!Read
        BY <2>0, <3>3, <4>1 DEF Slot!Read, Slot!MaxAttempts
      <4>4. ReadSound(r)
        BY <2>0, <4>1 DEF ReadSound, Slot!Read
      <4>5. QED
        BY <2>0, <3>1, <4>2, <4>3, <4>4, OneReads
    <3>4. QED
      BY <2>3, <3>2, <3>3 DEF Slot!Retry
  <2>4. QED
    BY <1>4, <2>2, <2>3
<1>5. ASSUME NEW c \in Callers, Slot!Again(c)
      PROVE  SlotInv'
  <2>1. ReadSound(Slot!NoRead)
    BY <1>0 DEF ReadSound, Slot!NoRead, Version
  <2>2. QED
    BY <1>0, <1>5, <2>1, ReadTypes, OneReads DEF Slot!Again
<1>6. CASE UNCHANGED Slot!vars
  BY <1>0, <1>6 DEF Slot!vars, SlotInv, SlotTypeOK, ReadSound
<1>7. QED
  BY <1>1, <1>2, <1>3, <1>4, <1>5, <1>6 DEF Slot!Next

-----------------------------------------------------------------------------
(* The channels.                                                            *)

\* What sending to and receiving from a tab's channel does to its last frame.
LEMMA LastFrame ==
  ASSUME NEW s \in Seq(Bytes), NEW v \in Version
  PROVE  /\ NoneIn(<<>>)
         /\ LastIs(Append(s, v), v)
         /\ LastIs(s, v) => LastIs(Append(s, Nil), v)
         /\ NoneIn(s) => NoneIn(Append(s, Nil))
         /\ s # <<>> /\ LastIs(s, v) => LastIs(Tail(s), v) \/ (Head(s) = v /\ NoneIn(Tail(s)))
         /\ s # <<>> /\ NoneIn(s) => Head(s) = Nil /\ NoneIn(Tail(s))
<1> USE DEF LastIs, NoneIn
<1>1. ASSUME NEW m \in Bytes
      PROVE  /\ Len(Append(s, m)) = Len(s) + 1 /\ Append(s, m)[Len(s) + 1] = m
             /\ \A i \in 1..Len(s) : Append(s, m)[i] = s[i]
  OBVIOUS
<1>2. Len(s) \in Nat /\ v \in Bytes /\ Nil \in Bytes
  BY DEF Bytes
<1>3. LastIs(Append(s, v), v)
  BY <1>1, <1>2
<1>4. ASSUME LastIs(s, v) PROVE LastIs(Append(s, Nil), v)
  <2>1. PICK i \in 1..Len(s) : s[i] = v /\ \A j \in (i + 1)..Len(s) : s[j] = Nil
    BY <1>4
  <2>2. i \in 1..Len(Append(s, Nil)) /\ Append(s, Nil)[i] = v
    BY <1>1, <1>2, <2>1
  <2>3. ASSUME NEW j \in (i + 1)..Len(Append(s, Nil)) PROVE Append(s, Nil)[j] = Nil
    <3>1. CASE j = Len(s) + 1
      BY <1>1, <1>2, <3>1
    <3>2. CASE j \in 1..Len(s)
      BY <1>1, <1>2, <2>1, <3>2
    <3>3. QED
      BY <1>1, <1>2, <2>1, <3>1, <3>2
  <2>4. QED
    BY <2>2, <2>3
<1>5. ASSUME NoneIn(s) PROVE NoneIn(Append(s, Nil))
  <2>1. ASSUME NEW j \in 1..Len(Append(s, Nil)) PROVE Append(s, Nil)[j] = Nil
    <3>1. j = Len(s) + 1 \/ j \in 1..Len(s)
      BY <1>1, <1>2
    <3>2. QED
      BY <1>1, <1>2, <1>5, <3>1
  <2>2. QED
    BY <2>1
<1>6. ASSUME s # <<>>
      PROVE  /\ Len(s) >= 1 /\ Head(s) = s[1] /\ Len(Tail(s)) = Len(s) - 1
             /\ \A i \in 1..Len(Tail(s)) : Tail(s)[i] = s[i + 1]
  BY <1>6
<1>7. ASSUME s # <<>>, LastIs(s, v)
      PROVE  LastIs(Tail(s), v) \/ (Head(s) = v /\ NoneIn(Tail(s)))
  <2>1. PICK i \in 1..Len(s) : s[i] = v /\ \A j \in (i + 1)..Len(s) : s[j] = Nil
    BY <1>7
  <2>2. CASE i = 1
    <3>1. ASSUME NEW j \in 1..Len(Tail(s)) PROVE Tail(s)[j] = Nil
      BY <1>2, <1>6, <1>7, <2>1, <2>2
    <3>2. QED
      BY <1>6, <1>7, <2>1, <2>2, <3>1
  <2>3. CASE i # 1
    <3>1. i - 1 \in 1..Len(Tail(s)) /\ Tail(s)[i - 1] = v
      BY <1>2, <1>6, <1>7, <2>1, <2>3
    <3>2. ASSUME NEW j \in ((i - 1) + 1)..Len(Tail(s)) PROVE Tail(s)[j] = Nil
      <4>1. j + 1 \in (i + 1)..Len(s) /\ Tail(s)[j] = s[j + 1]
        BY <1>2, <1>6, <1>7, <2>1, <2>3
      <4>2. QED
        BY <2>1, <4>1
    <3>3. QED
      BY <3>1, <3>2
  <2>4. QED
    BY <2>2, <2>3
<1>8. ASSUME s # <<>>, NoneIn(s)
      PROVE  Head(s) = Nil /\ NoneIn(Tail(s))
  BY <1>2, <1>6, <1>8
<1>9. NoneIn(<<>>)
  OBVIOUS
<1>10. QED
  BY <1>3, <1>4, <1>5, <1>7, <1>8, <1>9

\* What sending to and receiving from the invalidator's channel does to the
\* announcements in it.
LEMMA AnnouncedOps ==
  ASSUME NEW e \in Seq(Event)
  PROVE  /\ ~Announced(<<>>)
         /\ Announced(e) => Announced(Append(e, "kind")) /\ Announced(Append(e, "nothing"))
         /\ Announced(Append(e, "kind"))
         /\ e # <<>> /\ Announced(e) => Head(e) = "kind" \/ Announced(Tail(e))
<1> USE DEF Announced
<1>1. ASSUME NEW m \in Event
      PROVE  /\ Len(Append(e, m)) = Len(e) + 1 /\ Append(e, m)[Len(e) + 1] = m
             /\ \A i \in 1..Len(e) : Append(e, m)[i] = e[i]
  OBVIOUS
<1>2. Len(e) \in Nat /\ "kind" \in Event /\ "nothing" \in Event
  BY DEF Event
<1>3. ASSUME e # <<>>, Announced(e) PROVE Head(e) = "kind" \/ Announced(Tail(e))
  <2>1. PICK i \in 1..Len(e) : e[i] = "kind"
    BY <1>3
  <2>2. CASE i = 1
    BY <1>3, <2>1, <2>2
  <2>3. CASE i # 1
    <3>1. i - 1 \in 1..Len(Tail(e)) /\ Tail(e)[i - 1] = e[(i - 1) + 1] /\ (i - 1) + 1 = i
      BY <1>2, <1>3, <2>1, <2>3
    <3>2. QED
      BY <2>1, <3>1
  <2>4. QED
    BY <2>2, <2>3
<1>4. Announced(e) => Announced(Append(e, "kind")) /\ Announced(Append(e, "nothing"))
  BY <1>1, <1>2
<1>5. Announced(Append(e, "kind"))
  BY <1>1, <1>2
<1>6. ~Announced(<<>>)
  OBVIOUS
<1>7. QED
  BY <1>3, <1>4, <1>5, <1>6

-----------------------------------------------------------------------------
(* Every step keeps the invariant.                                          *)

\* The slot keeps its own, whatever step of the feed uses it.
LEMMA SlotInvStep == SlotInv /\ [Next]_vars => SlotInv'
BY StepUsesSlot, SlotStep

\* A step of the slot alone moves no other variable.
LEMMA TypesStep ==
  ASSUME FeedOK, SlotInv', [Next]_vars
  PROVE  FeedOK'
<1> USE DEF SlotInv, SlotTypeOK
<1>0. SlotTypeOK'
  OBVIOUS
<1>1. ASSUME NEW h \in Handlers, Change(h) \/ Invalidate(h) \/ Publish(h)
      PROVE  FeedOK'
  <2>1. /\ handler' \in [Handlers -> {"idle", "changed", "announcing"}]
        /\ dirty' \in {"yes", "no"} /\ timer' \in {"nil", "armed", "fired"}
        /\ UNCHANGED <<orphans, flushes, events, subbed, inv, event, broker, tabs>>
    BY <1>1 DEF FeedOK, HubOK, Change, Invalidate, Publish, hub
  <2>2. QED
    BY <1>0, <2>1 DEF FeedOK, HubOK, TabsOK, broker, tabs
<1>2. CASE Fire
  <2>1. /\ orphans' \in Nat /\ flushes' \in Nat /\ timer' \in {"nil", "armed", "fired"}
        /\ UNCHANGED <<handler, dirty, events, subbed, inv, event, broker, tabs>>
    BY <1>2 DEF FeedOK, HubOK, Fire
  <2>2. QED
    BY <1>0, <2>1 DEF FeedOK, HubOK, TabsOK, broker, tabs
<1>3. CASE flush
  <2>1. /\ orphans' \in Nat /\ flushes' \in Nat /\ timer' = "nil" /\ dirty' = "no"
        /\ UNCHANGED <<handler, inv, event, broker, tabs>>
    BY <1>3 DEF FeedOK, HubOK, flush
  <2>2. /\ events' \in Seq(Event) /\ Len(events') <= SubCap /\ subbed' \in {"in", "out"}
    BY <1>3 DEF FeedOK, HubOK, flush, HasRoom, Event
  <2>3. QED
    BY <1>0, <2>1, <2>2 DEF FeedOK, HubOK, TabsOK, broker, tabs
<1>4. CASE Receive
  <2>1. /\ inv' = "peers" /\ UNCHANGED <<handler, dirty, timer, orphans, flushes, subbed, broker, tabs>>
        /\ event' = Head(events) /\ events' = Tail(events) /\ events # <<>>
    BY <1>4 DEF Receive
  <2>2. event' \in Event /\ events' \in Seq(Event) /\ Len(events') <= SubCap
    BY <2>1 DEF FeedOK, HubOK
  <2>3. QED
    BY <1>0, <2>1, <2>2 DEF FeedOK, HubOK, TabsOK, broker, tabs
<1>5. CASE LookForPeers \/ ReadFresh \/ InvalidatorEnds
  <2>1. inv' \in {"receive", "read", "send", "gone"} /\ UNCHANGED <<handler, hub, event, broker, tabs>>
    BY <1>5 DEF LookForPeers, ReadFresh, InvalidatorEnds
  <2>2. QED
    BY <1>0, <2>1 DEF FeedOK, HubOK, TabsOK, hub, broker, tabs
<1>6. CASE Broadcast
  <2>1. /\ inv' = "receive" /\ event' = "nothing" /\ spoiled' \in {"yes", "no"}
        /\ UNCHANGED <<handler, hub, tab, shown, connects>>
    BY <1>6 DEF Broadcast, Spoiled, FeedOK, TabsOK
  <2>2. read[Invalidator].ret \in Bytes
    BY ReadHolds DEF FeedOK
  <2>3. peers' \subseteq Tabs
    BY <1>6 DEF Broadcast, FeedOK, TabsOK
  <2>4. \A t \in peers' : t \in peers /\ Len(chan[t]) # PeerCap
    BY <1>6 DEF Broadcast
  <2>5. chan' = [t \in Tabs |-> IF t \in peers' THEN Append(chan[t], read[Invalidator].ret) ELSE chan[t]]
    BY <1>6 DEF Broadcast
  <2>6. ASSUME NEW t \in Tabs PROVE chan'[t] \in Seq(Bytes) /\ Len(chan'[t]) <= PeerCap
    <3>1. chan[t] \in Seq(Bytes) /\ Len(chan[t]) <= PeerCap
      BY DEF FeedOK, TabsOK
    <3>2. QED
      BY <2>2, <2>4, <2>5, <3>1
  <2>7. chan' \in [Tabs -> Seq(Bytes)] /\ \A t \in Tabs : Len(chan'[t]) <= PeerCap
    BY <2>5, <2>6
  <2>8. QED
    BY <1>0, <2>1, <2>3, <2>7 DEF FeedOK, HubOK, TabsOK, Event, hub
<1>7. ASSUME NEW t \in Tabs, Connect(t) \/ Leave(t)
      PROVE  FeedOK'
  <2>1. /\ tab' \in [Tabs -> Places] /\ shown' \in [Tabs -> Bytes]
        /\ peers' \subseteq Tabs /\ connects' \in 0..MaxConnects
        /\ UNCHANGED <<handler, hub, inv, event, spoiled>>
    <3>1. CASE Connect(t)
      <4>1. connects' \in 0..MaxConnects
        BY <3>1 DEF FeedOK, TabsOK, Connect
      <4>2. QED
        BY <3>1, <4>1 DEF FeedOK, TabsOK, Connect, Bytes, Places
    <3>2. CASE Leave(t)
      BY <3>2 DEF FeedOK, TabsOK, Leave, Places
    <3>3. QED
      BY <1>7, <3>1, <3>2
  <2>2. chan' = [chan EXCEPT ![t] = <<>>]
    BY <1>7 DEF Connect, Leave
  <2>3. chan' \in [Tabs -> Seq(Bytes)] /\ \A u \in Tabs : Len(chan'[u]) <= PeerCap
    BY <2>2 DEF FeedOK, TabsOK
  <2>4. QED
    BY <1>0, <2>1, <2>3 DEF FeedOK, HubOK, TabsOK, hub
<1>8. ASSUME NEW t \in Tabs, Refresh(t) \/ ReadFirst(t) \/ FirstFrame(t)
      PROVE  FeedOK'
  <2>1. read[t].ret \in Bytes
    BY ReadHolds DEF FeedOK
  <2>2. /\ tab' \in [Tabs -> Places] /\ shown' \in [Tabs -> Bytes]
        /\ spoiled' \in {"yes", "no"}
        /\ UNCHANGED <<handler, hub, inv, event, broker, connects>>
    BY <1>8, <2>1 DEF FeedOK, TabsOK, Refresh, ReadFirst, FirstFrame, Returns, Spoiled, Places
  <2>3. QED
    BY <1>0, <2>2 DEF FeedOK, HubOK, TabsOK, hub, broker
<1>9. ASSUME NEW t \in Tabs, Frame(t)
      PROVE  FeedOK'
  <2>1. /\ chan[t] \in Seq(Bytes) /\ chan[t] # <<>> /\ Len(chan[t]) <= PeerCap
        /\ chan' = [chan EXCEPT ![t] = Tail(chan[t])]
        /\ shown' \in {shown, [shown EXCEPT ![t] = IF Head(chan[t]) = Nil THEN shown[t] ELSE Head(chan[t])]}
        /\ tab' \in [Tabs -> Places]
        /\ UNCHANGED <<handler, hub, inv, event, peers, connects, spoiled>>
    BY <1>9 DEF FeedOK, TabsOK, Frame, Returns, Places
  <2>2. Head(chan[t]) \in Bytes /\ Tail(chan[t]) \in Seq(Bytes) /\ Len(Tail(chan[t])) <= PeerCap
    BY <2>1
  <2>3. chan' \in [Tabs -> Seq(Bytes)] /\ \A u \in Tabs : Len(chan'[u]) <= PeerCap
    BY <2>1, <2>2 DEF FeedOK, TabsOK
  <2>4. shown' \in [Tabs -> Bytes]
    BY <2>1, <2>2 DEF FeedOK, TabsOK
  <2>5. QED
    BY <1>0, <2>1, <2>3, <2>4 DEF FeedOK, HubOK, TabsOK, hub
<1>10. ASSUME NEW t \in Tabs, Uncount(t) \/ Return(t) \/ Reader(t)
      PROVE  FeedOK'
  <2>1. tab' \in [Tabs -> Places] /\ UNCHANGED <<handler, hub, inv, event, broker, shown, connects, spoiled>>
    BY <1>10 DEF FeedOK, TabsOK, Uncount, Return, Returns, Reader, Hear, Settle, ReaderEnds, tabs, Places
  <2>2. QED
    BY <1>0, <2>1 DEF FeedOK, HubOK, TabsOK, hub, broker
<1>11. CASE (\E c \in Callers : Answered(c)) \/ UNCHANGED vars
  <2>1. UNCHANGED <<handler, hub, inv, event, broker, tabs>>
    BY <1>11 DEF Answered, vars
  <2>2. QED
    BY <1>0, <2>1 DEF FeedOK, HubOK, TabsOK, hub, broker, tabs
<1>12. QED
  BY <1>1, <1>2, <1>3, <1>4, <1>5, <1>6, <1>7, <1>8, <1>9, <1>10, <1>11 DEF Next, Push, TabStep

\* Once something is pending it is until the invalidator takes the announcement, and
\* a change makes something pending.
LEMMA PendingStays ==
  ASSUME FeedOK, [Next]_vars, ~Pending'
  PROVE  /\ world' = world
         /\ Pending => Receive /\ Head(events) = "kind"
<1> USE DEF Pending
<1>0. events \in Seq(Event) /\ handler \in [Handlers -> {"idle", "changed", "announcing"}]
      /\ dirty \in {"yes", "no"} /\ subbed \in {"in", "out"}
  BY DEF FeedOK, HubOK
<1>1. ASSUME NEW h \in Handlers, Change(h) \/ Invalidate(h) \/ Publish(h)
      PROVE  FALSE
  BY <1>0, <1>1 DEF Change, Invalidate, Publish
<1>2. CASE flush
  <2>1. subbed' = "in" /\ dirty' = "no" /\ UNCHANGED <<handler, world>> /\ ~Announced(events')
    BY <1>0, <1>2 DEF flush, HasRoom, slot
  <2>2. events' = Append(events, IF dirty = "yes" THEN "kind" ELSE "nothing") /\ subbed = "in"
    BY <1>2, <2>1 DEF flush, HasRoom
  <2>3. dirty = "no" /\ ~Announced(events)
    BY <1>0, <2>1, <2>2, AnnouncedOps
  <2>4. QED
    BY <2>1, <2>2, <2>3
<1>3. CASE Receive
  <2>1. UNCHANGED <<handler, dirty, subbed, world>> /\ events # <<>> /\ events' = Tail(events)
    BY <1>3 DEF Receive, Invalidates, Slot!invalidate, slot
  <2>2. QED
    BY <1>0, <1>3, <2>1, AnnouncedOps
<1>4. CASE Fire \/ LookForPeers \/ ReadFresh \/ InvalidatorEnds \/ Broadcast
  BY <1>4 DEF Fire, LookForPeers, ReadFresh, InvalidatorEnds, Broadcast, hub, slot,
              Slot!Hit, Slot!Begin, Slot!Again
<1>5. ASSUME NEW t \in Tabs, Connect(t) \/ TabStep(t) \/ Return(t) \/ Reader(t)
      PROVE  UNCHANGED <<world, handler, dirty, events, subbed>>
  BY <1>5 DEF Connect, TabStep, Refresh, ReadFirst, FirstFrame, Frame, Uncount, Leave,
              Return, Reader, Hear, Settle, ReaderEnds, hub, slot,
              Slot!Hit, Slot!Begin, Slot!Again, Slot!invalidate
<1>6. CASE (\E c \in Callers : Answered(c)) \/ UNCHANGED vars
  BY <1>6 DEF Answered, Slot!Answer, Slot!Retry, vars, hub, slot
<1>7. QED
  BY <1>1, <1>2, <1>3, <1>4, <1>5, <1>6 DEF Next, Push

\* A read's floor moves only when the read begins or its answer was used.
LEMMA FloorMoves ==
  ASSUME SlotInv, [Next]_vars, NEW c \in Callers, read'[c] # read[c]
  PROVE  \/ read'[c].floor = read[c].floor /\ Answered(c)
         \/ c = Invalidator /\ (ReadFresh \/ (Broadcast /\ event = "kind"))
         \/ c \in Tabs /\ (ReadFirst(c) \/ FirstFrame(c))
<1>0. read \in [Callers -> Slot!Read] /\ \A d \in Callers : read[d] \in Slot!Read
  BY DEF SlotInv, SlotTypeOK
<1>1. ASSUME NEW h \in Handlers, Change(h) \/ Invalidate(h) \/ Publish(h)
      PROVE  UNCHANGED read
  BY <1>1 DEF Change, Invalidate, Publish, Slot!Mutate, Slot!invalidate, slot
<1>2. CASE Fire \/ flush \/ LookForPeers \/ InvalidatorEnds \/ Receive
  BY <1>2 DEF Fire, flush, LookForPeers, InvalidatorEnds, Receive, Invalidates, Slot!invalidate, slot
<1>3. CASE ReadFresh \/ Broadcast
  BY <1>0, <1>3 DEF ReadFresh, Broadcast, Slot!Hit, Slot!Begin, Slot!Again, slot
<1>4. ASSUME NEW t \in Tabs,
             Connect(t) \/ Frame(t) \/ Refresh(t) \/ Uncount(t) \/ Leave(t) \/ Return(t) \/ Reader(t)
      PROVE  UNCHANGED read
  BY <1>4 DEF Connect, Frame, Refresh, Uncount, Leave, Return, Reader, Hear, Settle, ReaderEnds,
              Slot!invalidate, slot
<1>5. ASSUME NEW t \in Tabs, ReadFirst(t) \/ FirstFrame(t)
      PROVE  c = t
  BY <1>0, <1>5 DEF ReadFirst, FirstFrame, Slot!Hit, Slot!Begin, Slot!Again
<1>6. ASSUME NEW d \in Callers, Answered(d)
      PROVE  c = d /\ read'[c].floor = read[c].floor
  BY <1>0, <1>6 DEF Answered, Slot!Answer, Slot!Retry, Slot!Finish, Slot!Answered, Slot!Read
<1>7. QED
  BY <1>1, <1>2, <1>3, <1>4, <1>5, <1>6 DEF Next, Push, TabStep, vars, slot

\* What each part of the feed does to the invalidator.
LEMMA InvalidatorMoves ==
  ASSUME [Next]_vars
  PROVE  UNCHANGED <<inv, event>> \/ Push
<1>1. ASSUME NEW h \in Handlers, Change(h) \/ Invalidate(h) \/ Publish(h)
      PROVE  UNCHANGED <<inv, event>>
  BY <1>1 DEF Change, Invalidate, Publish
<1>2. ASSUME NEW t \in Tabs, Connect(t) \/ TabStep(t) \/ Return(t) \/ Reader(t)
      PROVE  UNCHANGED <<inv, event>>
  BY <1>2 DEF Connect, TabStep, Refresh, ReadFirst, FirstFrame, Frame, Uncount, Leave,
              Return, Reader, Hear, Settle, ReaderEnds
<1>3. QED
  BY <1>1, <1>2 DEF Next, Fire, flush, Answered, vars

LEMMA InvalidatorReadsStep ==
  ASSUME FeedInv, [Next]_vars
  PROVE  InvalidatorReads'
<1> USE DEF FeedInv
<1>0. /\ event \in Event /\ inv \in {"receive", "peers", "read", "send", "gone"}
      /\ read[Invalidator] \in Slot!Read /\ read \in [Callers -> Slot!Read]
  BY DEF FeedOK
<1>1. CASE UNCHANGED <<inv, event>>
  <2>1. ASSUME read'[Invalidator] # read[Invalidator], read[Invalidator] = Slot!NoRead
        PROVE  ReadFresh \/ Broadcast
    <3>1. ~Answered(Invalidator)
      BY <2>1 DEF Answered, Slot!Answer, Slot!Retry, Slot!NoRead
    <3>2. QED
      BY <2>1, <3>1, FloorMoves
  <2>2. ~ReadFresh /\ (Broadcast => event = "nothing" /\ inv = "send")
    BY <1>0, <1>1 DEF ReadFresh, Broadcast
  <2>3. Broadcast => FALSE
    BY <1>0, <1>1, <2>2 DEF Broadcast
  <2>4. QED
    BY <1>1, <2>1, <2>2, <2>3 DEF InvalidatorReads
<1>2. CASE Receive
  <2>1. inv = "receive" /\ inv' = "peers" /\ UNCHANGED read
    BY <1>2 DEF Receive, Invalidates, Slot!invalidate, slot
  <2>2. QED
    BY <2>1 DEF InvalidatorReads
<1>3. CASE LookForPeers
  BY <1>0, <1>3 DEF LookForPeers, InvalidatorReads, slot, Event
<1>4. CASE InvalidatorEnds
  BY <1>4 DEF InvalidatorEnds, InvalidatorReads, slot
<1>5. CASE ReadFresh
  BY <1>5 DEF ReadFresh, InvalidatorReads
<1>6. CASE Broadcast
  <2>1. inv = "send" /\ inv' = "receive" /\ event' = "nothing"
    BY <1>6 DEF Broadcast
  <2>2. read'[Invalidator] = Slot!NoRead
    BY <1>0, <1>6, <2>1 DEF Broadcast, Slot!Again, InvalidatorReads, slot
  <2>3. QED
    BY <2>1, <2>2 DEF InvalidatorReads
<1>7. QED
  BY <1>1, <1>2, <1>3, <1>4, <1>5, <1>6, InvalidatorMoves DEF Push

\* The state the slot's invalidations know of, while nothing is pending.
LEMMA AckedStays ==
  ASSUME FeedInv, [Next]_vars, ~Pending'
  PROVE  world' = world /\ acked' = world
<1>0. /\ world' = world /\ (Pending => Receive /\ Head(events) = "kind")
      /\ ~Pending => acked = world
  BY PendingStays DEF FeedInv, NothingUnknown
<1>1. CASE Pending
  BY <1>0, <1>1 DEF Receive, Invalidates, Slot!invalidate
<1>2. CASE ~Pending
  <2>1. acked' \in {acked, world}
    BY StepUsesSlot DEF Slot!Next, Slot!Mutate, Slot!invalidate, Slot!Hit, Slot!Begin, Slot!Answer,
       Slot!Retry, Slot!Again, Slot!vars
  <2>2. QED
    BY <1>0, <1>2, <2>1
<1>3. QED
  BY <1>0, <1>1, <1>2

LEMMA NothingUnknownStep ==
  ASSUME FeedInv, [Next]_vars
  PROVE  NothingUnknown'
<1> SUFFICES ASSUME ~Pending' PROVE acked' = world' /\ (Pushing' /\ inv' = "send" => read'[Invalidator].floor = world')
  BY DEF NothingUnknown
<1>1. /\ acked' = world' /\ world' = world
      /\ Pending => Receive /\ inv' = "peers"
  BY AckedStays, PendingStays DEF FeedInv, Receive
<1>2. ASSUME ~Pending, Pushing', inv' = "send"
      PROVE  read'[Invalidator].floor = world'
  <2>0. /\ acked = world /\ (Pushing /\ inv = "send" => read[Invalidator].floor = world)
        /\ read \in [Callers -> Slot!Read]
    BY <1>2 DEF FeedInv, NothingUnknown, FeedOK
  <2>1. CASE UNCHANGED <<inv, event>>
    <3>1. Pushing /\ inv = "send" /\ event = "kind"
      BY <1>2, <2>1 DEF Pushing
    <3>2. ~ReadFresh /\ ~Broadcast
      BY <2>1, <3>1 DEF ReadFresh, Broadcast
    <3>3. read'[Invalidator].floor = read[Invalidator].floor
      BY <3>2, FloorMoves DEF FeedInv
    <3>4. QED
      BY <1>1, <2>0, <3>1, <3>3
  <2>2. CASE ReadFresh
    <3>1. read'[Invalidator].floor = acked
      BY <2>0, <2>2 DEF ReadFresh, Slot!Hit, Slot!Begin, Slot!Answered, Slot!Asked
    <3>2. QED
      BY <1>1, <2>0, <3>1
  <2>3. CASE LookForPeers
    BY <1>2, <2>3 DEF LookForPeers, Pushing
  <2>4. CASE Receive \/ InvalidatorEnds \/ Broadcast
    BY <1>2, <2>4 DEF Receive, InvalidatorEnds, Broadcast
  <2>5. QED
    BY <2>1, <2>2, <2>3, <2>4, InvalidatorMoves DEF Push
<1>3. QED
  BY <1>1, <1>2

\* A tab that nothing of the step is about is reached as before.
LEMMA ReachedStays ==
  ASSUME NEW t \in Tabs, Reached(t), world' = world, chan'[t] = chan[t],
         tab'[t] = tab[t], shown'[t] = shown[t], read'[t].floor = read[t].floor
  PROVE  Reached(t)'
BY DEF Reached, LastIs, NoneIn

\* The invalidator's steps: the one that ends a push reaches every peer it keeps.
LEMMA BroadcastReaches ==
  ASSUME FeedInv, Broadcast, ~Pending', spoiled' = "no", NEW t \in peers'
  PROVE  Reached(t)'
<1> DEFINE msg == read[Invalidator].ret
<1>0. /\ t \in peers /\ t \in Tabs /\ chan'[t] = Append(chan[t], msg)
      /\ UNCHANGED <<world, acked, tab, shown, handler, hub>> /\ chan[t] \in Seq(Bytes)
      /\ read \in [Callers -> Slot!Read] /\ inv = "send" /\ world \in Version /\ event \in Event
      /\ tab[t] \in Places
  BY DEF Broadcast, FeedInv, FeedOK, TabsOK, Slot!Again, slot
<1>1. ~Pending
  BY <1>0 DEF Pending, hub
<1>2. CASE event = "kind"
  <2>1. read[Invalidator].how = "current" /\ read[Invalidator].st = "done"
    BY <1>2 DEF Broadcast, Spoiled, Slot!Again
  <2>2. msg \in read[Invalidator].floor..world
    BY <2>1 DEF FeedInv, SlotInv, ReadSound
  <2>3. read[Invalidator].floor = world
    BY <1>0, <1>1, <1>2 DEF FeedInv, NothingUnknown, Pushing
  <2>4. msg = world
    BY <1>0, <2>2, <2>3 DEF Version
  <2>5. LastIs(chan'[t], world)
    BY <1>0, <2>4, LastFrame
  <2>6. QED
    BY <1>0, <2>5 DEF Reached, LastIs
<1>3. CASE event = "nothing"
  <2>1. msg = Nil
    BY <1>3 DEF FeedInv, InvalidatorReads, Slot!NoRead
  <2>2. Reached(t) /\ UNCHANGED read
    BY <1>0, <1>1, <1>3 DEF FeedInv, PushedReaches, Pushing, Broadcast, slot
  <2>3. CASE LastIs(chan[t], world)
    <3>1. LastIs(chan'[t], world)
      BY <1>0, <2>1, <2>3, LastFrame
    <3>2. QED
      BY <1>0, <3>1 DEF Reached, LastIs
  <2>4. CASE NoneIn(chan[t]) /\ ~LastIs(chan[t], world)
    <3>1. NoneIn(chan'[t])
      BY <1>0, <2>1, <2>4, LastFrame
    <3>2. QED
      BY <1>0, <2>2, <2>4, <3>1 DEF Reached, NoneIn
  <2>5. QED
    BY <2>2, <2>3, <2>4 DEF Reached
<1>4. QED
  BY <1>0, <1>2, <1>3 DEF Event

\* A tab's own steps: its first read begins with the present state, and its channel
\* overlays what it shows.
LEMMA TabReaches ==
  ASSUME FeedInv, NEW t \in Tabs, TabStep(t), ~Pending, ~Pending', t \in peers, Reached(t),
         acked = world, world' = world, spoiled' = "no"
  PROVE  Reached(t)'
<1>0. /\ chan[t] \in Seq(Bytes) /\ chan \in [Tabs -> Seq(Bytes)] /\ shown \in [Tabs -> Bytes]
      /\ tab \in [Tabs -> Places]
      /\ read \in [Callers -> Slot!Read] /\ read[t] \in Slot!Read /\ world \in Version
  BY DEF FeedInv, FeedOK, TabsOK
<1>1. CASE Refresh(t)
  <2>1. chan'[t] = chan[t] /\ tab'[t] = "refreshed"
    BY <1>0, <1>1 DEF Refresh, broker
  <2>2. LastIs(chan[t], world) \/ NoneIn(chan[t])
    BY DEF Reached
  <2>3. QED
    BY <2>1, <2>2 DEF Reached, LastIs, NoneIn
<1>2. CASE ReadFirst(t)
  <2>1. /\ chan'[t] = chan[t] /\ tab'[t] = "reading"
        /\ read'[t].floor = world
    BY <1>0, <1>2 DEF ReadFirst, broker, Slot!Hit, Slot!Begin, Slot!Answered, Slot!Asked
  <2>2. LastIs(chan[t], world) \/ NoneIn(chan[t])
    BY DEF Reached
  <2>3. QED
    BY <2>1, <2>2 DEF Reached, LastIs, NoneIn
<1>3. CASE FirstFrame(t)
  <2>0. /\ chan'[t] = chan[t] /\ tab[t] = "reading"
        /\ tab'[t] \in {"live", "closing"} /\ read[t].st = "done"
    BY <1>0, <1>3 DEF FirstFrame, Returns, broker, Slot!Again
  <2>1. tab'[t] = "live" => shown'[t] = read[t].ret /\ read[t].how = "current"
    BY <1>0, <1>3 DEF FirstFrame, Returns, Spoiled
  <2>2. CASE LastIs(chan[t], world)
    BY <2>0, <2>2 DEF Reached, LastIs
  <2>3. CASE NoneIn(chan[t]) /\ read[t].floor = world
    <3>1. tab'[t] = "live" => read[t].ret \in read[t].floor..world
      BY <2>0, <2>1 DEF FeedInv, SlotInv, ReadSound
    <3>2. tab'[t] = "live" => shown'[t] = world
      BY <1>0, <2>1, <2>3, <3>1 DEF Version
    <3>3. QED
      BY <2>0, <2>3, <3>2 DEF Reached, NoneIn
  <2>4. QED
    BY <2>0, <2>2, <2>3 DEF Reached
<1>4. CASE Frame(t)
  <2>1. /\ chan'[t] = Tail(chan[t]) /\ chan[t] # <<>> /\ tab[t] = "live" /\ tab'[t] \in {"live", "closing"}
        /\ tab'[t] = "live" => shown'[t] = IF Head(chan[t]) = Nil THEN shown[t] ELSE Head(chan[t])
    BY <1>0, <1>4 DEF Frame, Returns
  <2>2. world # Nil
    BY <1>0 DEF Version
  <2>3. CASE LastIs(Tail(chan[t]), world)
    BY <2>1, <2>3 DEF Reached, LastIs
  <2>4. CASE Head(chan[t]) = world /\ NoneIn(Tail(chan[t]))
    BY <2>1, <2>2, <2>4 DEF Reached, NoneIn
  <2>5. CASE NoneIn(chan[t]) /\ shown[t] = world
    <3>1. Head(chan[t]) = Nil /\ NoneIn(Tail(chan[t]))
      BY <1>0, <2>1, <2>5, LastFrame
    <3>2. QED
      BY <2>1, <2>5, <3>1 DEF Reached, NoneIn
  <2>6. QED
    BY <1>0, <2>1, <2>3, <2>4, <2>5, LastFrame DEF Reached
<1>5. CASE Uncount(t) \/ Leave(t)
  <2>1. NoneIn(chan'[t]) \/ chan'[t] = chan[t]
    <3>1. CASE Uncount(t)
      BY <3>1 DEF Uncount, broker
    <3>2. CASE Leave(t)
      <4>1. chan'[t] = <<>>
        BY <1>0, <3>2 DEF Leave
      <4>2. QED
        BY <1>0, <4>1, LastFrame
    <3>3. QED
      BY <1>5, <3>1, <3>2
  <2>2. tab'[t] \in {"leaving", "off"} /\ UNCHANGED slot
    BY <1>0, <1>5 DEF Uncount, Leave
  <2>3. QED
    BY <2>1, <2>2 DEF Reached, LastIs, NoneIn
<1>6. QED
  BY <1>1, <1>2, <1>3, <1>4, <1>5 DEF TabStep

LEMMA PushedReachesStep ==
  ASSUME FeedInv, [Next]_vars
  PROVE  PushedReaches'
<1> SUFFICES ASSUME ~Pending', ~Pushing', spoiled' = "no", NEW t \in peers'
             PROVE  Reached(t)'
  BY DEF PushedReaches
<1>0. /\ peers \subseteq Tabs /\ inv \in {"receive", "peers", "read", "send", "gone"} /\ event \in Event
      /\ tab \in [Tabs -> Places] /\ shown \in [Tabs -> Bytes]
      /\ chan \in [Tabs -> Seq(Bytes)] /\ read \in [Callers -> Slot!Read]
  BY DEF FeedInv, FeedOK, TabsOK
<1>1. CASE Broadcast
  BY <1>1, BroadcastReaches
<1>2. ~Pending /\ acked = world /\ world' = world
  <2>1. ~(Receive /\ Head(events) = "kind")
    BY DEF Receive, Pushing
  <2>2. QED
    BY <2>1, PendingStays DEF FeedInv, NothingUnknown
<1>3. ASSUME UNCHANGED <<chan, tab, shown, spoiled, peers>>, ~Pushing
      PROVE  Reached(t)'
  <2>1. Reached(t) /\ t \in Tabs
    BY <1>0, <1>2, <1>3 DEF FeedInv, PushedReaches
  <2>2. CASE read'[t].floor = read[t].floor
    BY <1>2, <1>3, <2>1, <2>2, ReachedStays
  <2>3. CASE read'[t].floor # read[t].floor
    <3>1. ReadFirst(t) \/ FirstFrame(t)
      BY <2>1, <2>3, FloorMoves DEF FeedInv
    <3>2. tab'[t] # tab[t]
      BY <1>0, <2>1, <3>1 DEF ReadFirst, FirstFrame, Returns
    <3>3. QED
      BY <1>3, <3>2
  <2>4. QED
    BY <2>2, <2>3
<1>4. ASSUME NEW h \in Handlers, Change(h) \/ Invalidate(h) \/ Publish(h)
      PROVE  FALSE
  BY <1>2, <1>4 DEF Change, Invalidate, Publish, Pending, FeedInv, FeedOK
<1>5. CASE Fire \/ flush
  <2>1. UNCHANGED <<inv, event, broker, tabs>>
    BY <1>5 DEF Fire, flush
  <2>2. QED
    BY <1>3, <2>1 DEF Pushing, broker, tabs
<1>6. CASE Receive \/ InvalidatorEnds \/ LookForPeers \/ ReadFresh
  <2>1. UNCHANGED <<broker, tabs>>
    BY <1>6 DEF Receive, InvalidatorEnds, LookForPeers, ReadFresh
  <2>2. ~Pushing
    <3>1. CASE LookForPeers
      BY <3>1, <2>1 DEF LookForPeers, Pushing, broker
    <3>2. CASE ReadFresh
      BY <3>2 DEF ReadFresh, Pushing, FeedInv, InvalidatorReads
    <3>3. CASE Receive \/ InvalidatorEnds
      BY <3>3 DEF Receive, InvalidatorEnds, Pushing
    <3>4. QED
      BY <1>6, <3>1, <3>2, <3>3
  <2>3. QED
    BY <1>3, <2>1, <2>2 DEF broker, tabs
<1>7. ASSUME NEW u \in Tabs, Connect(u) \/ TabStep(u) \/ Return(u) \/ Reader(u)
      PROVE  Reached(t)'
  <2>1. /\ ~Pushing
        /\ t \in Tabs /\ spoiled = "no"
    <3>1. UNCHANGED <<inv, event>> /\ (FirstFrame(u) \/ UNCHANGED spoiled)
      BY <1>7 DEF Connect, TabStep, Refresh, ReadFirst, FirstFrame, Frame, Uncount, Leave,
                  Return, Reader, Hear, Settle, ReaderEnds, tabs
    <3>2. FirstFrame(u) => spoiled = "no"
      BY DEF FirstFrame, Returns, Spoiled
    <3>3. t \in Tabs
      BY <1>0, <1>7 DEF Connect, TabStep, Refresh, ReadFirst, FirstFrame, Frame, Uncount, Leave,
                        Return, Reader, Hear, Settle, ReaderEnds, broker
    <3>4. QED
      BY <3>1, <3>2, <3>3 DEF Pushing
  <2>2. CASE t = u
    <3>1. CASE Connect(u)
      <4>1. chan'[t] = <<>> /\ tab'[t] = "added"
        BY <1>0, <2>2, <3>1 DEF Connect
      <4>2. QED
        BY <4>1 DEF Reached, NoneIn
    <3>2. CASE Return(u) \/ Reader(u)
      <4>1. /\ t \in peers /\ chan'[t] = chan[t] /\ shown'[t] = shown[t] /\ read' = read
            /\ tab'[t] \in {tab[t], "closing"}
        BY <1>0, <2>1, <2>2, <3>2 DEF Return, Returns, Reader, Hear, Settle, ReaderEnds, broker, slot, tabs
      <4>2. Reached(t)
        BY <1>2, <2>1, <4>1 DEF FeedInv, PushedReaches
      <4>3. QED
        BY <1>2, <4>1, <4>2 DEF Reached, LastIs, NoneIn
    <3>3. CASE TabStep(u)
      <4>1. t \in peers
        BY <3>3 DEF TabStep, Refresh, ReadFirst, FirstFrame, Frame, Uncount, Leave, broker
      <4>2. Reached(t)
        BY <1>2, <2>1, <4>1 DEF FeedInv, PushedReaches
      <4>3. QED
        BY <1>2, <2>2, <2>1, <3>3, <4>1, <4>2, TabReaches
    <3>4. QED
      BY <1>7, <3>1, <3>2, <3>3
  <2>3. CASE t # u
    <3>1. /\ t \in peers /\ chan'[t] = chan[t] /\ tab'[t] = tab[t] /\ shown'[t] = shown[t]
          /\ read'[t].floor = read[t].floor
      <4>1. CASE Connect(u) \/ Refresh(u) \/ ReadFirst(u)
        BY <1>0, <2>1, <2>3, <4>1 DEF Connect, Refresh, ReadFirst, broker, slot,
                                     Slot!Hit, Slot!Begin, Slot!invalidate
      <4>2. CASE FirstFrame(u) \/ Frame(u)
        BY <1>0, <2>1, <2>3, <4>2 DEF FirstFrame, Frame, Returns, broker, slot, Slot!Again
      <4>3. CASE Uncount(u) \/ Leave(u) \/ Return(u) \/ Reader(u)
        BY <1>0, <2>1, <2>3, <4>3 DEF Uncount, Leave, Return, Returns, Reader, Hear, Settle, ReaderEnds,
                                     broker, slot, tabs
      <4>4. QED
        BY <1>7, <4>1, <4>2, <4>3 DEF TabStep
    <3>2. Reached(t)
      BY <1>2, <2>1, <3>1 DEF FeedInv, PushedReaches
    <3>3. QED
      BY <1>2, <2>1, <3>1, <3>2, ReachedStays
  <2>4. QED
    BY <2>2, <2>3
<1>8. CASE (\E c \in Callers : Answered(c)) \/ UNCHANGED vars
  <2>1. UNCHANGED <<inv, event, broker, tabs>>
    BY <1>8 DEF Answered, vars
  <2>2. QED
    BY <1>3, <2>1 DEF Pushing, broker, tabs
<1>9. QED
  BY <1>1, <1>4, <1>5, <1>6, <1>7, <1>8 DEF Next, Push

-----------------------------------------------------------------------------
(* The windows that are counted.                                            *)

Windows == {t \in Tabs : Counted(t)}

\* A reader runs only in an open connection.
SeenInv ==
  /\ SeenOK /\ LeavesNothing
  /\ \A t \in Tabs : tab[t] \in {"off", "added", "leaving"} => reader[t] \in {"none", "done"}

\* A window joins or leaves the count.
LEMMA CountMoves ==
  ASSUME SeenInv, NEW t \in Tabs
  PROVE  /\ visible = Cardinality(Windows) /\ visible \in Nat
         /\ t \notin Windows => Cardinality(Windows \cup {t}) = visible + 1
         /\ t \in Windows => Cardinality(Windows \ {t}) = visible - 1 /\ visible # 0
<1>1. IsFiniteSet(Windows) /\ visible = Cardinality(Windows) /\ visible \in Nat
  BY TabsAssumption, FS_Subset DEF Windows, SeenInv, LeavesNothing, SeenOK
<1>2. visible = 0 <=> Windows = {}
  BY <1>1, FS_EmptySet
<1>3. QED
  BY <1>1, <1>2, FS_AddElement, FS_RemoveElement

\* A step that keeps every window in or out of the count.
LEMMA CountStays ==
  ASSUME SeenInv, SeenOK', visible' = visible,
         \A t \in Tabs : Counted(t)' <=> Counted(t),
         \A t \in Tabs : tab'[t] = "off" => t \notin peers',
         \A t \in Tabs : tab'[t] \in {"off", "added", "leaving"} => reader'[t] \in {"none", "done"}
  PROVE  SeenInv'
<1>1. {t \in Tabs : Counted(t)}' = {t \in Tabs : Counted(t)}
  OBVIOUS
<1>2. QED
  BY <1>1 DEF SeenInv, LeavesNothing

\* The main loop's steps and the reader's.
LEMMA TabKeepsCount ==
  ASSUME FeedOK, SeenInv, NEW t \in Tabs, Connect(t) \/ TabStep(t) \/ Return(t) \/ Reader(t)
  PROVE  SeenInv'
<1>0. /\ tab \in [Tabs -> Places] /\ peers \subseteq Tabs /\ SeenOK
      /\ reader \in [Tabs -> {"none", "on", "noted", "done"}] /\ says \subseteq Tabs
      /\ \A u \in Tabs : tab[u] = "off" => u \notin peers
      /\ \A u \in Tabs : tab[u] \in {"off", "added", "leaving"} => reader[u] \in {"none", "done"}
  BY DEF FeedOK, TabsOK, SeenInv, SeenOK, LeavesNothing
<1>1. CASE Connect(t) \/ Leave(t)
  <2>1. /\ tab[t] \in {"off", "leaving"} /\ tab'[t] \in {"added", "off"} /\ UNCHANGED seen
        /\ \A u \in Tabs \ {t} : tab'[u] = tab[u] /\ (u \in peers' <=> u \in peers)
        /\ tab'[t] = "off" => t \notin peers'
    BY <1>0, <1>1 DEF Connect, Leave
  <2>2. \A u \in Tabs : Counted(u)' <=> Counted(u)
    BY <1>0, <2>1 DEF Counted, seen
  <2>3. QED
    BY <1>0, <2>1, <2>2, CountStays DEF seen, SeenOK
<1>2. CASE ReadFirst(t) \/ FirstFrame(t) \/ Frame(t) \/ Return(t)
  <2>1. /\ tab[t] \in {"refreshed", "reading", "live"} /\ tab'[t] \in {"reading", "live", "closing"}
        /\ \A u \in Tabs \ {t} : tab'[u] = tab[u]
        /\ peers' = peers /\ UNCHANGED seen
    BY <1>0, <1>2 DEF ReadFirst, FirstFrame, Frame, Return, Returns, broker
  <2>2. \A u \in Tabs : Counted(u)' <=> Counted(u)
    BY <1>0, <2>1 DEF Counted, seen
  <2>3. QED
    BY <1>0, <2>1, <2>2, CountStays DEF seen, SeenOK
<1>3. CASE Settle(t) \/ ReaderEnds(t)
  <2>1. /\ UNCHANGED <<tab, peers, visible>> /\ says' \subseteq Tabs
        /\ reader' \in [Tabs -> {"none", "on", "noted", "done"}]
        /\ \A u \in Tabs \ {t} : reader'[u] = reader[u] /\ (u \in says' <=> u \in says)
        /\ reader[t] \in {"on", "noted"}
    BY <1>0, <1>3 DEF Settle, ReaderEnds, tabs, broker
  <2>2. \A u \in Tabs : Counted(u)' <=> Counted(u)
    <3>1. ASSUME NEW u \in Tabs \ {t} PROVE Counted(u)' <=> Counted(u)
      BY <2>1 DEF Counted
    <3>2. Counted(t)' <=> Counted(t)
      BY <1>0, <1>3, <2>1 DEF Counted, Settle, ReaderEnds
    <3>3. QED
      BY <3>1, <3>2
  <2>3. QED
    BY <1>0, <2>1, <2>2, CountStays DEF SeenOK
<1>4. CASE Refresh(t) \/ Uncount(t) \/ Hear(t)
  <2>1. /\ peers' = peers /\ tab'[t] # "off" /\ \A u \in Tabs \ {t} : tab'[u] = tab[u]
        /\ says' \subseteq Tabs /\ reader' \in [Tabs -> {"none", "on", "noted", "done"}]
        /\ \A u \in Tabs \ {t} : reader'[u] = reader[u] /\ (u \in says' <=> u \in says)
        /\ tab'[t] \in {"off", "added", "leaving"} => reader'[t] \in {"none", "done"}
    <3>1. CASE Refresh(t)
      BY <1>0, <3>1 DEF Refresh, broker
    <3>2. CASE Uncount(t)
      BY <1>0, <3>2 DEF Uncount, Joined, broker
    <3>3. CASE Hear(t)
      BY <1>0, <3>3 DEF Hear, broker, tabs
    <3>4. QED
      BY <1>4, <3>1, <3>2, <3>3
  <2>2. \A u \in Tabs \ {t} : Counted(u)' <=> Counted(u)
    BY <2>1 DEF Counted
  <2>3. \/ t \notin Windows /\ Counted(t)' /\ visible' = visible + 1
        \/ t \in Windows /\ ~Counted(t)' /\ visible' = visible - 1
        \/ (Counted(t)' <=> Counted(t)) /\ visible' = visible
    <3>0. t \in Windows <=> Counted(t)
      BY DEF Windows
    <3>1. CASE Refresh(t)
      BY <1>0, <3>0, <3>1 DEF Refresh, noteVisibility, Counted
    <3>2. CASE Uncount(t)
      <4>1. tab[t] = "closing" /\ tab'[t] = "leaving" /\ reader[t] = "done"
        BY <1>0, <3>2 DEF Uncount, Joined
      <4>2. (Counted(t) <=> t \in says) /\ ~Counted(t)'
        BY <4>1 DEF Counted
      <4>3. QED
        BY <3>0, <3>2, <4>2, CountMoves DEF Uncount, noteVisibility
    <3>3. CASE Hear(t)
      <4>1. /\ reader[t] = "on" /\ reader'[t] = "noted" /\ tab' = tab /\ says' = says
            /\ tab[t] \in {"refreshed", "reading", "live", "closing"}
        BY <1>0, <3>3 DEF Hear, tabs, Places
      <4>2. (Counted(t) <=> t \in says) /\ (Counted(t)' <=> t \notin says)
        BY <4>1 DEF Counted
      <4>3. QED
        BY <3>0, <3>3, <4>2, CountMoves DEF Hear, noteVisibility
    <3>4. QED
      BY <1>4, <3>1, <3>2, <3>3
  <2>4. visible' = Cardinality(Windows') /\ visible' \in Nat
    <3>1. CASE t \notin Windows /\ Counted(t)' /\ visible' = visible + 1
      <4>1. Windows' = Windows \cup {t}
        BY <2>2, <3>1 DEF Windows
      <4>2. QED
        BY <3>1, <4>1, CountMoves
    <3>2. CASE t \in Windows /\ ~Counted(t)' /\ visible' = visible - 1
      <4>1. Windows' = Windows \ {t}
        BY <2>2, <3>2 DEF Windows
      <4>2. visible \in Nat /\ visible # 0 /\ Cardinality(Windows \ {t}) = visible - 1
        BY <3>2, CountMoves
      <4>3. QED
        BY <3>2, <4>1, <4>2
    <3>3. CASE (Counted(t)' <=> Counted(t)) /\ visible' = visible
      <4>1. Windows' = Windows
        BY <2>2, <3>3 DEF Windows
      <4>2. QED
        BY <3>3, <4>1, CountMoves
    <3>4. QED
      BY <2>3, <3>1, <3>2, <3>3
  <2>5. QED
    BY <1>0, <2>1, <2>4 DEF SeenInv, SeenOK, LeavesNothing, Windows
<1>5. QED
  BY <1>1, <1>2, <1>3, <1>4 DEF TabStep, Reader

LEMMA SeenInvStep == FeedInv /\ SeenInv /\ [Next]_vars => SeenInv'
<1> SUFFICES ASSUME FeedOK, SeenInv, [Next]_vars PROVE SeenInv'
  BY DEF FeedInv
<1>1. ASSUME UNCHANGED <<tab, seen>>, peers' \subseteq peers
      PROVE  SeenInv'
  <2>1. \A t \in Tabs : Counted(t)' <=> Counted(t)
    BY <1>1 DEF Counted, seen
  <2>2. QED
    BY <1>1, <2>1, CountStays DEF SeenInv, SeenOK, LeavesNothing, seen
<1>2. ASSUME NEW h \in Handlers, Change(h) \/ Invalidate(h) \/ Publish(h)
      PROVE  SeenInv'
  BY <1>1, <1>2 DEF Change, Invalidate, Publish, broker, tabs
<1>3. CASE Fire \/ flush \/ Push
  BY <1>1, <1>3 DEF Fire, flush, Push, Receive, LookForPeers, ReadFresh, Broadcast, InvalidatorEnds,
                    broker, tabs
<1>4. CASE (\E c \in Callers : Answered(c)) \/ UNCHANGED vars
  BY <1>1, <1>4 DEF Answered, vars, broker, tabs
<1>5. QED
  BY <1>2, <1>3, <1>4, TabKeepsCount DEF Next

-----------------------------------------------------------------------------
(* The theorems.                                                            *)

LEMMA InitFeedInv == Init => FeedInv /\ SeenInv
<1> SUFFICES ASSUME Init PROVE FeedInv /\ SeenInv
  OBVIOUS
<1> USE DEF Init, Slot!Init
<1>1. SlotInv
  <2>1. ReadSound(Slot!NoRead)
    BY DEF ReadSound, Slot!NoRead
  <2>2. QED
    BY <2>1, ReadTypes DEF SlotInv, SlotTypeOK, Version, Bytes
<1>2. HubOK
  BY DEF HubOK
<1>3. TabsOK
  <2>1. <<>> \in Seq(Bytes) /\ Len(<<>>) <= PeerCap /\ 0 \in 0..MaxConnects
    OBVIOUS
  <2>2. QED
    BY <2>1 DEF TabsOK, Bytes, Places
<1>4. FeedOK
  BY <1>1, <1>2, <1>3 DEF SlotInv, SlotTypeOK, FeedOK, Event
<1>5. InvalidatorReads /\ NothingUnknown /\ PushedReaches
  BY DEF InvalidatorReads, NothingUnknown, PushedReaches, Pushing
<1>6. SeenInv
  <2>1. Windows = {}
    BY DEF Windows, Counted
  <2>2. QED
    BY <2>1, FS_EmptySet DEF SeenInv, SeenOK, LeavesNothing, Windows
<1>7. QED
  BY <1>1, <1>4, <1>5, <1>6 DEF FeedInv

LEMMA FeedInvStep == FeedInv /\ [Next]_vars => FeedInv'
<1> SUFFICES ASSUME FeedInv, [Next]_vars PROVE FeedInv'
  OBVIOUS
<1>1. SlotInv' /\ FeedOK'
  BY SlotInvStep, TypesStep DEF FeedInv
<1>2. QED
  BY <1>1, InvalidatorReadsStep, NothingUnknownStep, PushedReachesStep DEF FeedInv

\* Type correctness; the hub's and the broker's channels keep within their buffers
\* (eventbus.Subscribe, ui/ws_broker.go add).
THEOREM TypeCorrect == Spec => []TypeOK
<1>1. FeedInv /\ SeenInv => TypeOK
  BY DEF FeedInv, SeenInv, TypeOK
<1>2. QED
  BY <1>1, InitFeedInv, FeedInvStep, SeenInvStep, PTL DEF Spec

\* The count of visible windows is right, and nothing is left of a connection that has
\* ended, for any number of tabs: the cleanup closes the socket and waits for the reader
\* before it reads connVisible, on every return path (handleWS of ui/ws.go).
THEOREM CountIsRight == Spec => []LeavesNothing
<1>1. SeenInv => LeavesNothing
  BY DEF SeenInv
<1>2. QED
  BY <1>1, InitFeedInv, FeedInvStep, SeenInvStep, PTL DEF Spec

\* When all is quiet every open tab shows the present state, for any number of
\* handlers and tabs and any buffers: the invalidator invalidates before it builds what
\* it pushes, and a tab that connects in between invalidates and reads after it is
\* among the peers (runSnapshotInvalidator, handleWS).
THEOREM RestIsCurrent == Spec => []RestsCurrent
<1>1. FeedInv => RestsCurrent
  <2> SUFFICES ASSUME FeedInv, AtRest, spoiled = "no", subbed = "in",
                      NEW t \in Tabs, Watching(t), chan[t] = <<>>
               PROVE  shown[t] = world
    BY DEF RestsCurrent
  <2>1. ~Pending /\ ~Pushing
    BY DEF AtRest, Pending, Pushing, Announced
  <2>2. Reached(t) /\ tab[t] = "live"
    BY <2>1 DEF FeedInv, PushedReaches, Watching
  <2>3. ~LastIs(chan[t], world)
    BY DEF LastIs
  <2>4. QED
    BY <2>2, <2>3 DEF Reached
<1>2. QED
  BY <1>1, InitFeedInv, FeedInvStep, PTL DEF Spec
=============================================================================
