--------------------------- MODULE MCIdleServices ---------------------------
(* Instances of the sleeping services for TLC. *)
EXTENDS IdleServicesProps

\* A database and its admin tool; the site and the commands use the database.
MCNeeds == [s \in Services |-> IF s = "admin" THEN {"db"} ELSE {}]
MCSiteUses == {"db"}
MCAsked == {"db"}
=============================================================================
