--------------------------- MODULE MCSnapshotSlot ---------------------------
(* The snapshot slot on a small instance, and the properties TLC checks. *)
EXTENDS SnapshotSlotProps
=============================================================================
