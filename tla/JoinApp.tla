------------------------------- MODULE JoinApp ------------------------------
(***************************************************************************)
(* One join app: the tail of handle_exec_update for a join task and        *)
(* handle_join_update (parsl/dataflow/dflow.py).  The body of the join app *)
(* has returned something; if that is a future or a list of futures, the   *)
(* handler attaches handle_join_update to each inner future, one after the *)
(* other, and the threads that complete the inner futures run it, all      *)
(* under join_lock.  The outer task is published with the lock held.       *)
(*                                                                         *)
(* Actors: the thread that handles the outer task (the attacher) and, for  *)
(* every inner future, the thread that completes it.  An inner future that *)
(* is done when the callback is attached has it called by the attacher.    *)
(*                                                                         *)
(* Publishing (the starter sets the future, then memo, record and wipe;    *)
(* the repaired kernel the other way round) is one of several steps in the *)
(* DataFlow modules; here it only has a beginning and an end, between      *)
(* which join_lock stays taken.                                            *)
(***************************************************************************)
EXTENDS Naturals, FiniteSets

CONSTANTS
  Inner,    \* the inner futures
  NoThread  \* join_lock is free

ASSUME InnerAssumption == IsFiniteSet(Inner) /\ NoThread \notin Inner \cup {"attacher"}

(* What the body returned: "invalid" stands for anything but futures. *)
Joinables == {"futures", "invalid"}
Threads == Inner \cup {"attacher"}

VARIABLES
  joinable,  \* what the body of the join app returned
  joined,    \* the inner futures among it: one future, a list or an empty list
  inner,     \* inner[i]: "running", "result" or "exception"
  attached,  \* inner futures that have the callback in their list
  toAttach,  \* inner futures the attacher has yet to deal with
  status,    \* task_record['status'] of the outer task
  lock,      \* who holds join_lock
  place,        \* place[th]: where a thread is
  outer,     \* the outer AppFuture
  updates    \* how often the outer future was set

joinVars == <<joinable, joined, inner, attached, toAttach, status, lock, place, outer, updates>>

AllDone == \A i \in joined : inner[i] # "running"
SomeFailed == \E i \in joined : inner[i] = "exception"

JoinInit ==
  /\ joinable \in Joinables
  /\ joined \in SUBSET Inner
  /\ inner = [i \in Inner |-> "running"]
  /\ attached = {}
  /\ toAttach = {}
  /\ status = "launched"
  /\ lock = NoThread
  /\ place = [th \in Threads |-> IF th = "attacher" THEN "exec" ELSE "working"]
  /\ outer = "unset"
  /\ updates = 0

-----------------------------------------------------------------------------
(* handle_exec_update once the body of the join app has succeeded. *)

(* A future or a list of futures: the task is joining.  With an empty list *)
(* handle_join_update is called directly.                                  *)
StartJoining ==
  /\ place["attacher"] = "exec"
  /\ joinable = "futures"
  /\ status' = "joining"
  /\ toAttach' = joined
  /\ place' = [place EXCEPT !["attacher"] = IF joined = {} THEN "callback" ELSE "attaching"]
  /\ UNCHANGED <<joinable, joined, inner, attached, lock, outer, updates>>

(* Anything else fails the task with a TypeError. *)
RejectJoinable ==
  /\ place["attacher"] = "exec"
  /\ joinable = "invalid"
  /\ status' = "failed"
  /\ outer' = "exception"
  /\ updates' = 1
  /\ place' = [place EXCEPT !["attacher"] = "returned"]
  /\ UNCHANGED <<joinable, joined, inner, attached, toAttach, lock>>

(* Mutant: the callback of a future that is already done is not called. *)
AttachWithoutCall(i) ==
  /\ place["attacher"] = "attaching"
  /\ i \in toAttach
  /\ toAttach' = toAttach \ {i}
  /\ attached' = attached \cup {i}
  /\ UNCHANGED <<joinable, joined, inner, status, lock, place, outer, updates>>

(* inner_future.add_done_callback. *)
AttachTo(i) ==
  /\ place["attacher"] = "attaching"
  /\ i \in toAttach
  /\ toAttach' = toAttach \ {i}
  /\ IF inner[i] = "running"
     THEN attached' = attached \cup {i} /\ UNCHANGED place
     ELSE place' = [place EXCEPT !["attacher"] = "callback"] /\ UNCHANGED attached
  /\ UNCHANGED <<joinable, joined, inner, status, lock, outer, updates>>

AttacherReturns ==
  /\ place["attacher"] = "attaching"
  /\ toAttach = {}
  /\ place' = [place EXCEPT !["attacher"] = "returned"]
  /\ UNCHANGED <<joinable, joined, inner, attached, toAttach, status, lock, outer, updates>>

-----------------------------------------------------------------------------
(* An inner future is set; its thread goes on to its callbacks. *)
CompleteInner(i) ==
  /\ place[i] = "working"
  /\ \E r \in {"result", "exception"} : inner' = [inner EXCEPT ![i] = r]
  /\ place' = [place EXCEPT ![i] = IF i \in attached THEN "callback" ELSE "returned"]
  /\ UNCHANGED <<joinable, joined, attached, toAttach, status, lock, outer, updates>>

-----------------------------------------------------------------------------
(* handle_join_update. *)

(* What a thread goes back to when its call of handle_join_update returns. *)
AfterCallback(th) == IF th = "attacher" THEN "attaching" ELSE "returned"

Acquire(th) ==
  /\ place[th] = "callback"
  /\ lock = NoThread
  /\ lock' = th
  /\ place' = [place EXCEPT ![th] = "locked"]
  /\ UNCHANGED <<joinable, joined, inner, attached, toAttach, status, outer, updates>>

(* Not joining any more, or not all inner futures are done. *)
Skip(th) ==
  /\ place[th] = "locked"
  /\ status # "joining" \/ ~AllDone
  /\ lock' = NoThread
  /\ place' = [place EXCEPT ![th] = AfterCallback(th)]
  /\ UNCHANGED <<joinable, joined, inner, attached, toAttach, status, outer, updates>>

(* Some inner future failed: the task fails with a JoinError. *)
JoinFails(th) ==
  /\ place[th] = "locked"
  /\ status = "joining" /\ AllDone
  /\ SomeFailed
  /\ status' = "failed"
  /\ place' = [place EXCEPT ![th] = "publishing"]
  /\ UNCHANGED <<joinable, joined, inner, attached, toAttach, lock, outer, updates>>

(* Mutant: no look at the other inner futures. *)
JoinSucceedsEarly(th) ==
  /\ place[th] = "locked"
  /\ status = "joining"
  /\ ~SomeFailed
  /\ status' = "exec_done"
  /\ place' = [place EXCEPT ![th] = "publishing"]
  /\ UNCHANGED <<joinable, joined, inner, attached, toAttach, lock, outer, updates>>

(* All succeeded: _complete_task. *)
JoinSucceeds(th) ==
  /\ place[th] = "locked"
  /\ status = "joining" /\ AllDone
  /\ ~SomeFailed
  /\ status' = "exec_done"
  /\ place' = [place EXCEPT ![th] = "publishing"]
  /\ UNCHANGED <<joinable, joined, inner, attached, toAttach, lock, outer, updates>>

SetOuter(th) ==
  /\ place[th] = "publishing"
  /\ outer' = IF status = "exec_done" THEN "result" ELSE "exception"
  /\ updates' = IF updates = 0 THEN 1 ELSE 2
  /\ lock' = NoThread
  /\ place' = [place EXCEPT ![th] = AfterCallback(th)]
  /\ UNCHANGED <<joinable, joined, inner, attached, toAttach, status>>

-----------------------------------------------------------------------------
Callback(th) == \/ Acquire(th)
                \/ Skip(th)
                \/ JoinFails(th)
                \/ JoinSucceeds(th)
                \/ SetOuter(th)

Attacher == \/ StartJoining
            \/ RejectJoinable
            \/ \E i \in Inner : AttachTo(i)
            \/ AttacherReturns

JoinNext == \/ Attacher
            \/ \E i \in Inner : CompleteInner(i)
            \/ \E th \in Threads : Callback(th)

(* Inner tasks complete and threads run on.  Join_lock is released for good *)
(* after finitely many calls, so weak fairness is enough to get it.         *)
Fairness == /\ WF_joinVars(Attacher)
            /\ \A i \in Inner : WF_joinVars(CompleteInner(i))
            /\ \A th \in Threads : WF_joinVars(Callback(th))

JoinSpec == JoinInit /\ [][JoinNext]_joinVars
JoinFairSpec == JoinSpec /\ Fairness

-----------------------------------------------------------------------------
JoinTypeOK ==
  /\ joinable \in Joinables
  /\ joined \subseteq Inner
  /\ inner \in [Inner -> {"running", "result", "exception"}]
  /\ attached \subseteq Inner
  /\ toAttach \subseteq Inner
  /\ status \in {"launched", "joining", "exec_done", "failed"}
  /\ lock \in Threads \cup {NoThread}
  /\ place \in [Threads -> {"exec", "attaching", "working", "callback", "locked",
                            "publishing", "returned"}]
  /\ outer \in {"unset", "result", "exception"}
  /\ updates \in {0, 1, 2}

(* The outer future is set at most once, although every inner future's     *)
(* callback may find all of them done.                                     *)
SetOnce == updates <= 1

(* The outer future follows the inner ones: it is set once, when all of    *)
(* them are done, to a result if and only if all succeeded.                *)
OuterFollowsInner ==
  /\ JoinTypeOK /\ SetOnce
  /\ outer # "unset" /\ joinable = "futures" =>
       AllDone /\ (outer = "exception" <=> SomeFailed)

(* The outer future is eventually set, whatever the body returned. *)
OuterEventuallySet == <>(outer # "unset")

=============================================================================
