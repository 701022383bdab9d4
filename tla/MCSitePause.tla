----------------------------- MODULE MCSitePause -----------------------------
(* Instances of SitePause for TLC: those of the idle engine. *)
EXTENDS SitePauseProps, MCIdleEngine
=============================================================================
