---------------------------- MODULE MCIdleEngine ----------------------------
(* Instances of IdleEngine for TLC: a site alone, a site with an undeclared    *)
(* dev server, and a worktree with vite under a site with or without workers.  *)
EXTENDS IdleEngineProps

NoParents == [w \in {} |-> NoKey]
OneParent == [w \in {"wt"} |-> "app"]
OneSite == [k \in {"app"} |-> Workers]
SiteAndWorktree == [k \in {"app", "wt"} |-> IF k = "wt" THEN Workers \ {"queue"} ELSE {"queue"}]
WorktreeOnly == [k \in {"app", "wt"} |-> IF k = "wt" THEN Workers ELSE {}]
=============================================================================
