---------------------------- MODULE MCMonitoring ----------------------------
(* An instance of Monitoring: each radio with the faults it is exposed to. *)
EXTENDS Monitoring

MCSetups ==
  {[radio |-> "udp", usage |-> FALSE, faults |-> {"loss"}],
   [radio |-> "file", usage |-> FALSE, faults |-> {"dup"}],
   [radio |-> "htex", usage |-> TRUE, faults |-> {"killed"}],
   [radio |-> "queue", usage |-> FALSE, faults |-> {"statement"}]}
=============================================================================
