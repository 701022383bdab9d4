-------------------------- MODULE DashboardFeedProps -------------------------
(* What the live dashboard promises. *)
EXTENDS DashboardFeed

Version == 0..MaxWorld
Bytes   == Version \cup {Nil}

\* Type correctness; the channels stay within their buffers.
HubOK ==
  /\ dirty \in {"yes", "no"} /\ timer \in {"nil", "armed", "fired"}
  /\ orphans \in Nat /\ flushes \in Nat
  /\ events \in Seq(Event) /\ Len(events) <= SubCap
  /\ subbed \in {"in", "out"}
Places ==
  {"off", "added", "refreshed", "reading", "live", "closing", "leaving"}
TabsOK ==
  /\ peers \subseteq Tabs
  /\ chan \in [Tabs -> Seq(Bytes)] /\ \A t \in Tabs : Len(chan[t]) <= PeerCap
  /\ tab \in [Tabs -> Places]
  /\ shown \in [Tabs -> Bytes] /\ connects \in 0..MaxConnects /\ spoiled \in {"yes", "no"}
SeenOK ==
  /\ reader \in [Tabs -> {"none", "on", "noted", "done"}]
  /\ says \subseteq Tabs /\ visible \in Nat
FeedOK ==
  /\ world \in Version /\ acked \in Version /\ data \in Bytes
  /\ read \in [Callers -> Slot!Read] /\ outdated \subseteq Callers
  /\ handler \in [Handlers -> {"idle", "changed", "announcing"}]
  /\ inv \in {"receive", "peers", "read", "send", "gone"} /\ event \in Event
  /\ HubOK /\ TabsOK
TypeOK == FeedOK /\ SeenOK

\* The count of visible windows, which decides how often lerd polls and how long a
\* snapshot lives, is that of the open connections whose page last said so, whichever
\* way a connection ends and whatever its reader is at: none is lost, none counted
\* twice.  And a connection that has ended leaves nothing behind: no peer the
\* invalidator would rebuild snapshots for, no reader.
Counted(t) ==
  /\ tab[t] \in {"refreshed", "reading", "live", "closing"}
  /\ t \in says <=> reader[t] # "noted"
LeavesNothing ==
  /\ visible = Cardinality({t \in Tabs : Counted(t)})
  /\ \A t \in Tabs : tab[t] = "off" => t \notin peers /\ reader[t] \in {"none", "done"}

Watching(t) == tab[t] = "live" /\ t \in peers

\* When nothing is under way any more, every open tab shows the present state,
\* unless the last push or a first frame fell short, or the hub has dropped the
\* invalidator: a push that finds no peer is made up for by the first frame, and
\* an older frame never stays on top of a newer one.
AtRest ==
  /\ \A h \in Handlers : handler[h] = "idle"
  /\ dirty = "no" /\ events = <<>> /\ inv = "receive"
RestsCurrent ==
  AtRest /\ spoiled = "no" /\ subbed = "in" =>
    \A t \in Tabs : Watching(t) /\ chan[t] = <<>> => shown[t] = world

\* A change that is yet to be announced while a tab is open is shown there,
\* unless the tab goes, the build behind the push fails or is outdated to the
\* last try, or the hub has dropped the invalidator.
Unannounced == \E h \in Handlers : handler[h] # "idle"
Unpushed == read[Invalidator].how \in {"failed", "outdated"} \/ subbed = "out"
ChangeShown ==
  \A t \in Tabs, v \in Version :
    (Watching(t) /\ world = v /\ Unannounced) ~>
      (~Watching(t) \/ Unpushed \/ (shown[t] # Nil /\ shown[t] >= v))
=============================================================================
