----------------------------- MODULE MCRepaired -----------------------------
(* Small workflows for RepairedDataFlow. *)
EXTENDS RepairedDataFlow

CONSTANTS t1, t2, t3, k1

Three == {t1, t2, t3}
MCKeys == {k1}

(* Three independent calls; or t3 consumes both other results.              *)
Fork3 == (t1 :> {}) @@ (t2 :> {}) @@ (t3 :> {})
Join3 == (t1 :> {}) @@ (t2 :> {}) @@ (t3 :> {t1, t2})

(* All calls are equal calls of a cached app, or none is of a cached app. *)
Uncached3 == [t \in Three |-> NoKey]
EqualThree == [t \in Three |-> k1]

=============================================================================
