---------------------------- MODULE MCProviders ----------------------------
(* An instance of Providers: every provider, with every fault.             *)
EXTENDS Providers

CONSTANTS j1, j2
MCJobs == {j1, j2}
AllFaults == {"query", "submit", "cancel"}
MCSetups == [kind: Kinds, faults: {AllFaults}]
              \cup {[kind |-> "torque", faults |-> {}], [kind |-> "local", faults |-> {"submit"}]}
=============================================================================
