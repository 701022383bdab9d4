--------------------------- MODULE MCSiteRegistry ---------------------------
(* Instances of the site registry for TLC. *)
EXTENDS SiteRegistryProps

MCProcOf == [a \in Actors |-> IF a = "page" THEN "ui" ELSE IF a = "lerd" THEN "cli" ELSE "watcher"]
Site(n) == [name |-> n, idle |-> FALSE, user |-> FALSE]
MCFirst == <<Site("a"), Site("b")>>
Set(n, f, v) == [kind |-> "set", site |-> n, field |-> f, value |-> v]
Remove(n) == [kind |-> "remove", site |-> n]
Link(n) == [kind |-> "add", record |-> Site(n)]
Pause(n, v) == [kind |-> "pause", site |-> n, value |-> v]
Repair(n) == [kind |-> "repair", site |-> n, value |-> FALSE]
Load == [kind |-> "load"]
MCDoes ==
  [engine |-> {Set("a", "idle", TRUE), Set("a", "idle", FALSE)},
   watch |-> {Load},
   page |-> {Load, [kind |-> "reorder", order |-> <<"b">>], Pause("a", TRUE)},
   lerd |-> {Set("a", "user", TRUE), Remove("b"), Link("b"), [kind |-> "restore"], Repair("a")}]
=============================================================================
