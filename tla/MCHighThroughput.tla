-------------------------- MODULE MCHighThroughput --------------------------
(* Two tasks and two managers of one worker each.  Everything may happen to  *)
(* the first manager, which prefetches a task; the second one stays alive.   *)
EXTENDS HighThroughput, TLC

CONSTANTS t1, t2, m1, m2, w1, w2

MCTasks == {t1, t2}
MCManagers == {m1, m2}
MCWorkers == {w1, w2}
MCHome == (w1 :> m1) @@ (w2 :> m2)
MCCapacity == (m1 :> 2) @@ (m2 :> 1)
MCFaults == {"pack", "unpack"}
MCEvents == (m1 :> {"die", "late", "hold", "drain", "worker dies"}) @@ (m2 :> {})
=============================================================================
