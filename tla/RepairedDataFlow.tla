-------------------------- MODULE RepairedDataFlow --------------------------
(***************************************************************************)
(* The repaired kernel (solution/dflow.py, solution/memoization.py): a     *)
(* task's outcome is recorded, made reusable and removed from the task     *)
(* table before its AppFuture is set.                                      *)
(*   success: checkpoint record -> memo -> final state -> wipe -> future   *)
(*   failure: final state -> memo of the failure -> wipe -> future         *)
(* A required checkpoint record that cannot be written turns the success   *)
(* into a failure that never reaches the memo.                             *)
(* Writes to tasks.pkl are all or nothing here (CheckpointLog models how   *)
(* that is achieved) and under checkpoint_lock, hence atomic.              *)
(***************************************************************************)
EXTENDS DataFlowCore

-----------------------------------------------------------------------------
(* _record_task_outcome for a success, up to update_memo. *)

(* task_exit: checkpoint(outcomes=[outcome]) writes the record now. *)
RecordTaskExit(t) ==
  /\ mode = "task_exit" /\ hashed[t]
  /\ Advance(t, "ok", "install")
  /\ file' = Append(file, t)
  /\ UNCHANGED <<sub, toWatch, tasks, status, fut, waiters, exec, fromMemo,
                 hashed, failCost, ran, rechecks, pool, launcher, memo, queue,
                 cleanup, wait, owed, mode>>

(* Mutant: a failed write is logged and the success goes on. *)
RecordFailureIgnored(t) ==
  /\ hashed[t] /\ mode = "task_exit" /\ DiskFails
  /\ Advance(t, "ok", "install")
  /\ UNCHANGED <<sub, toWatch, tasks, status, fut, waiters, exec, fromMemo,
                 hashed, failCost, ran, rechecks, pool, launcher, memo, queue,
                 file, cleanup, wait, owed, mode>>

(* ... or fails to; or, in any mode, TaskOutcome cannot pickle the result.  *)
(* The exception reaches _complete_task.                                   *)
RecordFails(t) ==
  /\ hashed[t]
  /\ \/ mode = "task_exit" /\ DiskFails
     \/ mode # "none" /\ "pickle" \in Faults
  /\ Advance(t, "ok", "unpublished")
  /\ UNCHANGED <<sub, toWatch, tasks, status, fut, waiters, exec, fromMemo,
                 hashed, failCost, ran, rechecks, pool, launcher, memo, queue,
                 file, cleanup, wait, owed, mode>>

(* Deferred modes: the outcome is queued. *)
RecordDeferred(t) ==
  /\ mode = "deferred" /\ hashed[t]
  /\ Advance(t, "ok", "install")
  /\ queue' = Append(queue, t)
  /\ UNCHANGED <<sub, toWatch, tasks, status, fut, waiters, exec, fromMemo,
                 hashed, failCost, ran, rechecks, pool, launcher, memo, file,
                 cleanup, wait, owed, mode>>

(* No checkpointing, or an app that is not cached. *)
RecordNothing(t) ==
  /\ mode = "none" \/ ~hashed[t]
  /\ Advance(t, "ok", "install")
  /\ UNCHANGED <<sub, toWatch, tasks, status, fut, waiters, exec, fromMemo,
                 hashed, failCost, ran, rechecks, pool, launcher, memo, queue,
                 file, cleanup, wait, owed, mode>>

MemoUpdate(t, entry) ==
  memo' = IF hashed[t] THEN [memo EXCEPT ![Key[t]] = entry] ELSE memo

(* Mutant: successes are not put into the memo. *)
InstallNothing(t) ==
  /\ Advance(t, "install", "final")
  /\ UNCHANGED <<sub, toWatch, tasks, status, fut, waiters, exec, fromMemo,
                 hashed, failCost, ran, rechecks, pool, launcher, memo, queue,
                 file, cleanup, wait, owed, mode>>

(* Memoizer.update_memo with the prepared entry. *)
InstallMemo(t) ==
  /\ Advance(t, "install", "final")
  /\ MemoUpdate(t, "ok")
  /\ UNCHANGED <<sub, toWatch, tasks, status, fut, waiters, exec, fromMemo,
                 hashed, failCost, ran, rechecks, pool, launcher, queue, file,
                 cleanup, wait, owed, mode>>

(* _complete_task moves the record to its final state. *)
EnterFinalState(t) ==
  /\ Advance(t, "final", "wipe")
  /\ status' = [status EXCEPT ![t] = DoneState(t)]
  /\ UNCHANGED <<sub, toWatch, tasks, fut, waiters, exec, fromMemo, hashed,
                 failCost, ran, rechecks, pool, launcher, memo, queue, file,
                 cleanup, wait, owed, mode>>

(* _complete_task's except branch. *)
PublicationFailed(t) ==
  /\ Advance(t, "unpublished", "wipe")
  /\ status' = [status EXCEPT ![t] = "failed"]
  /\ UNCHANGED <<sub, toWatch, tasks, fut, waiters, exec, fromMemo, hashed,
                 failCost, ran, rechecks, pool, launcher, memo, queue, file,
                 cleanup, wait, owed, mode>>

(* Mutant: failures are queued for the checkpoint too. *)
RecordFailureToo(t) ==
  /\ Advance(t, "err", "wipe")
  /\ MemoUpdate(t, "err")
  /\ queue' = IF mode = "deferred" /\ hashed[t] THEN Append(queue, t) ELSE queue
  /\ UNCHANGED <<sub, toWatch, tasks, status, fut, waiters, exec, fromMemo,
                 hashed, failCost, ran, rechecks, pool, launcher, file,
                 cleanup, wait, owed, mode>>

(* _record_task_outcome for a failure: only the memo learns of it. *)
RecordFailure(t) ==
  /\ Advance(t, "err", "wipe")
  /\ MemoUpdate(t, "err")
  /\ UNCHANGED <<sub, toWatch, tasks, status, fut, waiters, exec, fromMemo,
                 hashed, failCost, ran, rechecks, pool, launcher, queue, file,
                 cleanup, wait, owed, mode>>

Wipe(t) ==
  /\ Advance(t, "wipe", "set")
  /\ WipeTask(t)
  /\ UNCHANGED <<sub, toWatch, status, fut, waiters, exec, fromMemo, hashed,
                 failCost, ran, rechecks, pool, launcher, memo, queue, file,
                 cleanup, wait, owed, mode>>

(* The publication boundary. *)
PublishFuture(t) ==
  /\ Advance(t, "set", "callbacks")
  /\ SetFuture(t)
  /\ UNCHANGED <<sub, toWatch, tasks, status, waiters, exec, fromMemo, hashed,
                 failCost, ran, rechecks, pool, launcher, memo, queue, file,
                 cleanup, wait, owed, mode>>

-----------------------------------------------------------------------------
(* checkpoint() of everything queued: the prefix leaves the queue only     *)
(* after it is in the file.                                                *)
(* Mutant: the queue is swapped for an empty one first, and the write may  *)
(* fail.                                                                   *)
SwapThenFlush == /\ \/ file' = file \o queue
                    \/ DiskFails /\ UNCHANGED file
                 /\ queue' = <<>>

FlushQueue == file' = file \o queue /\ queue' = <<>>

(* dfk.checkpoint() called by the workflow or by the periodic timer. *)
Checkpoint ==
  /\ "checkpoint" \in Calls
  /\ mode = "deferred"
  /\ queue # <<>>
  /\ FlushQueue
  /\ UNCHANGED <<sub, toWatch, tasks, status, fut, waiters, exec, fromMemo,
                 hashed, failCost, ran, pc, rechecks, pool, launcher, memo,
                 cleanup, wait, owed, mode>>

(* cleanup() flushes once, before it shuts the executors down. *)
CleanupFlush ==
  /\ cleanup = "flush"
  /\ cleanup' = "flushed"
  /\ IF mode = "none" THEN UNCHANGED <<queue, file>> ELSE FlushQueue
  /\ UNCHANGED <<sub, toWatch, tasks, status, fut, waiters, exec, fromMemo,
                 hashed, failCost, ran, pc, rechecks, pool, launcher, memo,
                 wait, owed, mode>>

(* A failing flush keeps the queue and propagates out of cleanup(), which  *)
(* cannot be called again.  (A failing Checkpoint changes nothing.)        *)
CleanupFlushFails ==
  /\ cleanup = "flush"
  /\ DiskFails /\ mode # "none" /\ queue # <<>>
  /\ cleanup' = "aborted"
  /\ UNCHANGED <<sub, toWatch, tasks, status, fut, waiters, exec, fromMemo,
                 hashed, failCost, ran, pc, rechecks, pool, launcher, memo,
                 queue, file, wait, owed, mode>>

-----------------------------------------------------------------------------
PublishSteps(t) == \/ RecordTaskExit(t)
                   \/ RecordFails(t)
                   \/ RecordDeferred(t)
                   \/ RecordNothing(t)
                   \/ InstallMemo(t)
                   \/ EnterFinalState(t)
                   \/ PublicationFailed(t)
                   \/ RecordFailure(t)
                   \/ Wipe(t)
                   \/ PublishFuture(t)

Next == \/ CoreNext
        \/ \E t \in Tasks : PublishSteps(t)
        \/ Checkpoint
        \/ CleanupFlush
        \/ CleanupFlushFails

(* Threads that have work go on with it; nobody is obliged to call submit, *)
(* checkpoint, wait_for_current_tasks or cleanup, but a call once made     *)
(* runs on.                                                                *)
Fairness ==
  \A t \in Tasks :
    /\ WF_core(Register(t) \/ SubmitLaunch(t) \/ \E d \in Tasks : WatchDependency(t, d))
    /\ WF_core(LaunchSteps(t))
    /\ WF_core(RunBody(t))
    /\ WF_core(HandlerSteps(t) \/ PublishSteps(t))

Spec == CoreInit /\ [][Next]_core
FairSpec == Spec /\ Fairness

-----------------------------------------------------------------------------
(* Only successes of cached apps are recorded: whoever is in the queue or  *)
(* the file has run or been reused, and will not turn into a failure.      *)
RecordedSucceeds ==
  \A t \in Recorded : /\ hashed[t]
                      /\ fut[t] # "exception"
                      /\ status[t] \notin {"failed", "dep_fail"}

(* Whatever fails, the checkpoint gets successes only, each of them once.   *)
RecordsSuccessesOnce == TypeOK /\ RecordedOnce /\ RecordedSucceeds

(* The kernel implements Publication. *)
Contract == INSTANCE Publication WITH
  Retaining <- ~GarbageCollect,
  Known <- Recovered,
  recording <- mode # "none",
  visible <- [t \in Tasks |-> IF Visible(t) THEN fut[t] ELSE "nothing"],
  recorded <- Recorded,
  reusable <- {k \in Keys : memo[k] # "none"},
  listed <- tasks

(* Every completion keeps the promise of Publication: record, memo entry   *)
(* and task table are settled before the future shows the outcome.         *)
KeepsContract == Contract!Spec

=============================================================================
