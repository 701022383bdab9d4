-------------------------- MODULE MCDashboardFeed --------------------------
(* The dashboard feed on small instances. *)
EXTENDS DashboardFeedProps
=============================================================================
