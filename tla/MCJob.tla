------------------------------- MODULE MCJob -------------------------------
(* A batch of two tasks; agents leave one file that is fine or not, and may    *)
(* give another the name of a transcript table.  There is a secret in the id   *)
(* of one task, and in the session the other has in the second job.            *)
EXTENDS Job, TLC

MCBatches == {<<"t1", "t2">>}
MCOrder == <<"claude_runs", "report">>
MCScrub == [t \in {"t1", "t2"} |-> IF t = "t1" THEN "***" ELSE t]
MCMasked == {<<"t2", 2>>}
MCLeavings ==
  {NoFiles, "report" :> "good", "report" :> "unkeyed",
   "claude_runs" :> "good" @@ "report" :> "empty",
   "claude_runs" :> "unreadable" @@ "report" :> "good"}
=============================================================================
