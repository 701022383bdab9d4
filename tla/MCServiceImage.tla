--------------------------- MODULE MCServiceImage ---------------------------
(* Instances of ServiceImage for TLC: a line with two images and one beyond. *)
EXTENDS ServiceImageProps

OneProcess == [c \in Callers |-> "ui"]
TwoProcesses == [c \in {"c1", "c2"} |-> IF c = "c1" THEN "ui" ELSE "cli"]
MCLineOf == [i \in {"a1", "a2", "b1"} |-> IF i = "b1" THEN "b" ELSE "a"]
MCNewerOf == [i \in {"a1", "a2", "b1"} |-> IF i = "a1" THEN "a2" ELSE None]
=============================================================================
