-------------------------- MODULE MCQueueExecutors --------------------------
(* An instance of QueueExecutors: both executors, with each fault alone    *)
(* and with all of them.                                                   *)
EXTENDS QueueExecutors

MCSetups ==
  [vine: BOOLEAN, faults: {{}, {"die"}, {"die", "raise", "stop", "factory"}, {"parent", "die"},
                           {"refuse", "die", "raise", "parent", "stop", "factory"}}]
=============================================================================
