----------------------------- MODULE MCJoinApp ------------------------------
(* Join apps on up to three inner futures, none (an empty list) included. *)
EXTENDS JoinApp

CONSTANTS i1, i2, i3

MCInner == {i1, i2, i3}

=============================================================================
