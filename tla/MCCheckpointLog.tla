-------------------------- MODULE MCCheckpointLog ---------------------------
(* Two hashes, a few outcomes, three runs. *)
EXTENDS CheckpointLog

CONSTANTS h1, h2

MCHashes == {h1, h2}

=============================================================================
