--------------------------- MODULE MCMPIScheduler ---------------------------
(* Two nodes; three tasks that all fit, that need all nodes, of which one  *)
(* names no number of nodes, or one asks for more nodes than there are.    *)
EXTENDS MPIScheduler, TLC

CONSTANTS t1, t2, t3, n1, n2

MCTasks == {t1, t2, t3}
MCNodes == {n1, n2}
MCNodeOrder == <<n1, n2>>
NeedsOf(a, b, c) == (t1 :> a) @@ (t2 :> b) @@ (t3 :> c)
MCSetups ==
  [needs: {NeedsOf(1, 1, 1), NeedsOf(2, 2, 2), NeedsOf(1, 1, 2), NeedsOf(1, 2, 0),
           NeedsOf(1, 1, 3)},
   faults: {{}, {"twice"}, {"vanish"}}]
=============================================================================
