--------------------------- MODULE MCMemoryRuntime ---------------------------
(***************************************************************************)
(* Rewinds and edits against work in flight, and progress: one summary job *)
(* over messages 1 and 2 with an embedding job behind it; a third message, *)
(* so that the branch can grow again after a rewind; two provider targets  *)
(* and record revisions, three attempts.  The clock has one value and the  *)
(* limits of the task profiles never bind: MemoryQueue is about those.     *)
(***************************************************************************)
EXTENDS MemoryRuntime, TLC

CONSTANTS s1, e1, summaryTask, embeddingTask

MCSummaryOf == s1 :> s1 @@ e1 :> s1
MCFirstOf == s1 :> 1
MCLastOf == s1 :> 2
MCInputOf == [k \in {s1, e1} |-> k]
MCProfileOf == s1 :> summaryTask @@ e1 :> embeddingTask
MCLimits == [p \in {summaryTask, embeddingTask} |-> 9]
MCTime == {0}
=============================================================================
