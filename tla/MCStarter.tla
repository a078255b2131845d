----------------------------- MODULE MCStarter ------------------------------
(* Two equal calls of a cached app for StarterDataFlow. *)
EXTENDS StarterDataFlow

CONSTANTS t1, t2, k1

Two == {t1, t2}
MCKeys == {k1}
Flat2 == (t1 :> {}) @@ (t2 :> {})
EqualTwo == (t1 :> k1) @@ (t2 :> k1)

=============================================================================
