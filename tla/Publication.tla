---------------------------- MODULE Publication -----------------------------
(***************************************************************************)
(* What a kernel promises a workflow about the moment an AppFuture becomes *)
(* done, without saying how: whatever must be true of a finished task is   *)
(* true before its future shows it.                                        *)
(***************************************************************************)
CONSTANTS
  Tasks, Keys, NoKey, Key,
  Retaining,   \* finished tasks stay in the task table
  Known        \* hashes whose outcome is known at the start

VARIABLES
  recording, \* successes of cached apps are kept for later runs
  visible,   \* visible[t]: what the future of t shows
  recorded,  \* tasks whose success is on disk or queued for it
  reusable,  \* hashes an equal call finds an outcome for
  listed     \* tasks in the task table

pubVars == <<recording, visible, recorded, reusable, listed>>

Init ==
  /\ recording \in BOOLEAN
  /\ visible = [t \in Tasks |-> "nothing"]
  /\ recorded = {}
  /\ reusable = Known
  /\ listed = {}

Enlist(t) ==
  /\ visible[t] = "nothing"
  /\ listed' = listed \cup {t}
  /\ UNCHANGED <<recording, visible, recorded, reusable>>

Delist(t) ==
  /\ visible[t] = "nothing" /\ ~Retaining
  /\ listed' = listed \ {t}
  /\ UNCHANGED <<recording, visible, recorded, reusable>>

(* A success is recorded while nobody can see it yet. *)
Record(t) ==
  /\ visible[t] = "nothing" /\ recording
  /\ recorded' = recorded \cup {t}
  /\ UNCHANGED <<recording, visible, reusable, listed>>

Learn(k) ==
  /\ reusable' = reusable \cup {k}
  /\ UNCHANGED <<recording, visible, recorded, listed>>

PublishResult(t) ==
  /\ visible[t] = "nothing"
  /\ Key[t] # NoKey => Key[t] \in reusable
  /\ Key[t] # NoKey /\ recording => t \in recorded
  /\ t \in listed <=> Retaining
  /\ visible' = [visible EXCEPT ![t] = "result"]
  /\ UNCHANGED <<recording, recorded, reusable, listed>>

(* A failure is never recorded as a success. *)
PublishException(t) ==
  /\ visible[t] = "nothing"
  /\ t \notin recorded
  /\ t \in listed <=> Retaining
  /\ visible' = [visible EXCEPT ![t] = "exception"]
  /\ UNCHANGED <<recording, recorded, reusable, listed>>

Next ==
  \/ \E t \in Tasks : \/ Enlist(t)
                      \/ Delist(t)
                      \/ Record(t)
                      \/ PublishResult(t)
                      \/ PublishException(t)
  \/ \E k \in Keys : Learn(k)

Spec == Init /\ [][Next]_pubVars

=============================================================================
