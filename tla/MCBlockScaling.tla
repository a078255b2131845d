--------------------------- MODULE MCBlockScaling ---------------------------
(* An instance of BlockScaling: each way to scale with the error handlers  *)
(* that end an executor.                                                   *)
EXTENDS BlockScaling

MCParallelism == <<1, 1>>
MCSetups ==
  {[htex |-> TRUE, strategy |-> "htex", handler |-> "simple", faults |-> {"cancel"}],
   [htex |-> FALSE, strategy |-> "simple", handler |-> "windowed", faults |-> {"submit", "hold job"}],
   [htex |-> FALSE, strategy |-> "simple", handler |-> "simple", faults |-> {"job fails", "unknown"}],
   [htex |-> TRUE, strategy |-> "none", handler |-> "simple", faults |-> {"submit"}],
   [htex |-> TRUE, strategy |-> "none", handler |-> "simple", faults |-> {"mismatch"}]}
=============================================================================
