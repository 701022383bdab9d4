---------------------------- MODULE DashboardFeed ----------------------------
(***************************************************************************)
(* How a change reaches the open dashboards: the debounced hub of          *)
(* internal/eventbus, the goroutine that invalidates and rebuilds the      *)
(* snapshot (runSnapshotInvalidator), the broker's channels and the        *)
(* two goroutines of each tab's websocket handler, the main loop and the   *)
(* reader, with the count of visible windows they share.  The snapshot     *)
(* slot is there by its promise, which SnapshotSlot is shown to keep.      *)
(*                                                                         *)
(* Data.  One kind of snapshot; its bytes are versions.  Of the frames a   *)
(* page sends only visibility changes something here.                      *)
(* Bounds.  MaxWorld changes, MaxConnects connections.                     *)
(***************************************************************************)
EXTENDS Integers, Sequences, FiniteSets

CONSTANTS
  Handlers,     \* the goroutines that change what the snapshot describes
  Tabs,         \* dashboards
  Invalidator,  \* runSnapshotInvalidator
  SubCap,       \* buffer of a hub subscriber
  PeerCap,      \* buffer of a broker channel
  MaxWorld,     \* bound: changes
  MaxConnects,  \* bound: connections
  Nil           \* the nil []byte

ASSUME BoundsAssumption == MaxWorld \in Nat /\ MaxConnects \in Nat
ASSUME NilAssumption == Nil \notin Int
ASSUME TabsAssumption == IsFiniteSet(Tabs)
ASSUME InvalidatorAssumption == Invalidator \notin Tabs
ASSUME CapsAssumption == SubCap \in Nat \ {0} /\ PeerCap \in Nat \ {0}

Callers == Tabs \cup {Invalidator}

VARIABLES
  world, acked, data, read, outdated,  \* the slot's promise
  handler,   \* each handler: "idle", "changed" (will invalidate) or "announcing"
  dirty,     \* h.dirty: "yes" or "no"
  timer,     \* h.timer: "nil", "armed" or "fired"
  orphans,   \* armed timers that h.timer no longer points to
  flushes,   \* flush goroutines that wait for h.mu
  events,    \* the invalidator's channel
  subbed,    \* "in" or "out" of h.subs
  inv,       \* where the invalidator is
  event,     \* the event it handles
  peers,     \* b.peers
  chan,      \* the channel of each tab
  tab,       \* where the main loop of each tab's handler is
  reader,    \* its reader: "none", "on", "noted" (has counted, not yet said so) or "done"
  says,      \* the tabs whose connVisible is set
  visible,   \* visibleClients
  shown,     \* what each tab shows
  connects,  \* connections made
  spoiled    \* history: "yes" when the last push, or a first frame since, fell short

slot   == <<world, acked, data, read, outdated>>
hub    == <<dirty, timer, orphans, flushes, events, subbed>>
broker == <<peers, chan>>
tabs   == <<tab, shown, connects, spoiled>>
seen   == <<reader, says, visible>>
vars   == <<slot, handler, hub, inv, event, broker, tabs, seen>>

Slot == INSTANCE SlotPromise

\* An event with the kind, or one that a second flush sends with none.
Event == {"kind", "nothing"}

Init ==
  /\ Slot!Init
  /\ handler = [h \in Handlers |-> "idle"]
  /\ dirty = "no" /\ timer = "nil" /\ orphans = 0 /\ flushes = 0
  /\ events = <<>> /\ subbed = "in"
  /\ inv = "receive" /\ event = "nothing"
  /\ peers = {} /\ chan = [t \in Tabs |-> <<>>]
  /\ tab = [t \in Tabs |-> "off"] /\ shown = [t \in Tabs |-> Nil]
  /\ reader = [t \in Tabs |-> "none"] /\ says = {} /\ visible = 0
  /\ connects = 0 /\ spoiled = "no"

-----------------------------------------------------------------------------
(* Those who change something. *)

\* A request handler under publishAfter, or code that only publishes.
Change(h) ==
  /\ handler[h] = "idle"
  /\ Slot!Mutate
  /\ \E next \in {"changed", "announcing"} : handler' = [handler EXCEPT ![h] = next]
  /\ UNCHANGED <<hub, inv, event, broker, tabs, seen>>

Invalidate(h) ==
  /\ handler[h] = "changed"
  /\ Slot!invalidate
  /\ handler' = [handler EXCEPT ![h] = "announcing"]
  /\ UNCHANGED <<hub, inv, event, broker, tabs, seen>>

\* Hub.Publish: a timer that is already set is Reset, also one that has fired and
\* whose flush still waits.
Publish(h) ==
  /\ handler[h] = "announcing"
  /\ handler' = [handler EXCEPT ![h] = "idle"]
  /\ dirty' = "yes" /\ timer' = "armed"
  /\ UNCHANGED <<slot, orphans, flushes, events, subbed, inv, event, broker, tabs, seen>>

-----------------------------------------------------------------------------
(* The hub. *)

Fire ==
  /\ \/ timer = "armed" /\ timer' = "fired" /\ UNCHANGED orphans
     \/ orphans > 0 /\ orphans' = orphans - 1 /\ UNCHANGED timer
  /\ flushes' = flushes + 1
  /\ UNCHANGED <<slot, handler, dirty, events, subbed, inv, event, broker, tabs, seen>>

\* A subscriber takes an event without blocking, and a mutated form without a
\* bound on its buffer.
AlwaysRoom == subbed = "in"
HasRoom == subbed = "in" /\ Len(events) < SubCap

\* Hub.flush: a subscriber whose buffer is full is dropped and its channel closed.
flush ==
  /\ flushes > 0
  /\ flushes' = flushes - 1
  /\ orphans' = IF timer = "armed" THEN orphans + 1 ELSE orphans
  /\ timer' = "nil" /\ dirty' = "no"
  /\ \/ /\ HasRoom
        /\ events' = Append(events, IF dirty = "yes" THEN "kind" ELSE "nothing")
        /\ UNCHANGED subbed
     \/ ~HasRoom /\ subbed' = "out" /\ UNCHANGED events
  /\ UNCHANGED <<slot, handler, inv, event, broker, tabs, seen>>

-----------------------------------------------------------------------------
(* The invalidator. *)

\* What an event does to the slot, and a mutated form that leaves it to
\* publishAfter.
TrustsPublisher(e) == UNCHANGED slot
Invalidates(e) ==
  \/ e = "kind" /\ Slot!invalidate
  \/ e = "nothing" /\ UNCHANGED slot

Receive ==
  /\ inv = "receive" /\ events # <<>>
  /\ event' = Head(events) /\ events' = Tail(events)
  /\ Invalidates(Head(events))
  /\ inv' = "peers"
  /\ UNCHANGED <<handler, dirty, timer, orphans, flushes, subbed, broker, tabs, seen>>

\* range ends on the closed channel, and the goroutine with it.
InvalidatorEnds ==
  /\ inv = "receive" /\ events = <<>> /\ subbed = "out"
  /\ inv' = "gone"
  /\ UNCHANGED <<slot, handler, hub, event, broker, tabs, seen>>

\* hasPeers.
LookForPeers ==
  /\ inv = "peers"
  /\ inv' = IF peers = {} THEN "receive" ELSE IF event = "kind" THEN "read" ELSE "send"
  /\ UNCHANGED <<slot, handler, hub, event, broker, tabs, seen>>

ReadFresh ==
  /\ inv = "read"
  /\ Slot!Hit(Invalidator, "fresh") \/ Slot!Begin(Invalidator, "fresh")
  /\ inv' = "send"
  /\ UNCHANGED <<handler, hub, event, broker, tabs, seen>>

\* What c's read makes of spoiled.
Spoiled(c, before) == IF read[c].how = "current" THEN before ELSE "yes"

\* broadcast: Nil leaves the kind out; a peer whose buffer is full is dropped.
Broadcast ==
  /\ inv = "send"
  /\ \/ /\ event = "kind" /\ Slot!Again(Invalidator)
        /\ spoiled' = Spoiled(Invalidator, "no")
     \/ event = "nothing" /\ UNCHANGED <<slot, spoiled>>
  /\ LET msg == read[Invalidator].ret
         full == {t \in peers : Len(chan[t]) = PeerCap}
     IN /\ peers' = peers \ full
        /\ chan' = [t \in Tabs |-> IF t \in peers \ full THEN Append(chan[t], msg) ELSE chan[t]]
  /\ inv' = "receive" /\ event' = "nothing"
  /\ UNCHANGED <<handler, hub, tab, shown, connects, seen>>

-----------------------------------------------------------------------------
(* A tab's websocket handler: the main loop. *)

\* noteVisibility, which never leaves a count below zero.
noteVisibility(isVisible) ==
  visible' = IF isVisible THEN visible + 1 ELSE IF visible = 0 THEN 0 ELSE visible - 1

Connect(t) ==
  /\ tab[t] = "off" /\ connects < MaxConnects
  /\ connects' = connects + 1
  /\ tab' = [tab EXCEPT ![t] = "added"] /\ shown' = [shown EXCEPT ![t] = Nil]
  /\ peers' = peers \cup {t} /\ chan' = [chan EXCEPT ![t] = <<>>]
  /\ UNCHANGED <<slot, handler, hub, inv, event, spoiled, seen>>

\* PollNow and snapshots.Invalidate, the window counted, the reader started.
Refresh(t) ==
  /\ tab[t] = "added"
  /\ Slot!invalidate
  /\ tab' = [tab EXCEPT ![t] = "refreshed"]
  /\ noteVisibility(TRUE) /\ says' = says \cup {t} /\ reader' = [reader EXCEPT ![t] = "on"]
  /\ UNCHANGED <<handler, hub, inv, event, broker, shown, connects, spoiled>>

ReadFirst(t) ==
  /\ tab[t] = "refreshed"
  /\ Slot!Hit(t, "get") \/ Slot!Begin(t, "get")
  /\ tab' = [tab EXCEPT ![t] = "reading"]
  /\ UNCHANGED <<handler, hub, inv, event, broker, shown, connects, spoiled, seen>>

\* Every return path runs the cleanup, which closes the socket first.
Returns(t) == tab' = [tab EXCEPT ![t] = "closing"]

FirstFrame(t) ==
  /\ tab[t] = "reading"
  /\ Slot!Again(t)
  /\ \/ /\ shown' = [shown EXCEPT ![t] = read[t].ret]
        /\ tab' = [tab EXCEPT ![t] = "live"]
        /\ spoiled' = Spoiled(t, spoiled)
     \/ Returns(t) /\ UNCHANGED <<shown, spoiled>>
  /\ UNCHANGED <<handler, hub, inv, event, broker, connects, seen>>

Frame(t) ==
  /\ tab[t] = "live" /\ chan[t] # <<>>
  /\ \/ /\ shown' = [shown EXCEPT ![t] = IF Head(chan[t]) = Nil THEN @ ELSE Head(chan[t])]
        /\ UNCHANGED tab
     \/ Returns(t) /\ UNCHANGED shown
  /\ chan' = [chan EXCEPT ![t] = Tail(@)]
  /\ UNCHANGED <<slot, handler, hub, inv, event, peers, connects, spoiled, seen>>

\* A ping fails, the reader is done, or the broker has closed the channel.
Dropped(t) == t \notin peers /\ chan[t] = <<>>
Return(t) ==
  /\ tab[t] = "live"
  /\ Returns(t)
  /\ UNCHANGED <<slot, handler, hub, inv, event, broker, shown, connects, spoiled, seen>>

\* The cleanup waits for the reader before it looks at connVisible, and a mutated
\* form that only closes the socket.
NotWaited(t) == TRUE
Joined(t) == reader[t] = "done"
Uncount(t) ==
  /\ tab[t] = "closing" /\ Joined(t)
  /\ \/ t \in says /\ noteVisibility(FALSE)
     \/ t \notin says /\ UNCHANGED visible
  /\ tab' = [tab EXCEPT ![t] = "leaving"]
  /\ UNCHANGED <<slot, handler, hub, inv, event, broker, shown, connects, spoiled, reader, says>>

\* The deferred broker.remove, last.
Leave(t) ==
  /\ tab[t] = "leaving"
  /\ tab' = [tab EXCEPT ![t] = "off"]
  /\ peers' = peers \ {t} /\ chan' = [chan EXCEPT ![t] = <<>>]
  /\ UNCHANGED <<slot, handler, hub, inv, event, shown, connects, spoiled, seen>>

-----------------------------------------------------------------------------
(* The reader. *)

\* A visibility frame that says something new, while the socket is open: the count
\* first, connVisible next.
Hear(t) ==
  /\ reader[t] = "on" /\ tab[t] # "closing"
  /\ noteVisibility(t \notin says)
  /\ reader' = [reader EXCEPT ![t] = "noted"]
  /\ UNCHANGED <<slot, handler, hub, inv, event, broker, tabs, says>>

Settle(t) ==
  /\ reader[t] = "noted"
  /\ says' = IF t \in says THEN says \ {t} ELSE says \cup {t}
  /\ reader' = [reader EXCEPT ![t] = "on"]
  /\ UNCHANGED <<slot, handler, hub, inv, event, broker, tabs, visible>>

\* A close frame, a page that fell silent, or the closed socket.
ReaderEnds(t) ==
  /\ reader[t] = "on"
  /\ reader' = [reader EXCEPT ![t] = "done"]
  /\ UNCHANGED <<slot, handler, hub, inv, event, broker, tabs, says, visible>>

-----------------------------------------------------------------------------
\* The slot answers a reader, in its own time.
Answered(c) ==
  /\ Slot!Answer(c) \/ Slot!Retry(c)
  /\ UNCHANGED <<handler, hub, inv, event, broker, tabs, seen>>

Push == Receive \/ LookForPeers \/ ReadFresh \/ Broadcast \/ InvalidatorEnds

TabStep(t) == Refresh(t) \/ ReadFirst(t) \/ FirstFrame(t) \/ Frame(t) \/ Uncount(t) \/ Leave(t)
Reader(t) == Hear(t) \/ Settle(t) \/ ReaderEnds(t)

Next ==
  \/ \E h \in Handlers : Change(h) \/ Invalidate(h) \/ Publish(h)
  \/ Fire \/ flush \/ Push
  \/ \E t \in Tabs : Connect(t) \/ TabStep(t) \/ Return(t) \/ Reader(t)
  \/ \E c \in Callers : Answered(c)

Spec == Init /\ [][Next]_vars

\* A handler goes on, a timer fires, a goroutine runs, a slot answers; a closed
\* channel, a reader that is done and a closed socket are noticed.  A page need
\* neither come nor leave nor say anything.
FairSpec ==
  /\ Spec
  /\ \A h \in Handlers : WF_vars(Invalidate(h) \/ Publish(h))
  /\ WF_vars(Fire) /\ WF_vars(flush) /\ WF_vars(Push)
  /\ \A t \in Tabs :
       /\ WF_vars(TabStep(t)) /\ WF_vars(Return(t) /\ (Dropped(t) \/ Joined(t)))
       /\ WF_vars(Settle(t) \/ (tab[t] = "closing" /\ ReaderEnds(t)))
  /\ \A c \in Callers : WF_vars(Answered(c))
=============================================================================
