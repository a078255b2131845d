-------------------------- MODULE StarterDataFlow ---------------------------
(***************************************************************************)
(* The kernel as the repository ships it (parsl/dataflow/dflow.py and      *)
(* memoization.py): the AppFuture is set first, and handle_app_update, the *)
(* first of its done-callbacks, then updates the memo, records the task    *)
(* for checkpointing and wipes it, in the thread that set the future.      *)
(*   final state -> future -> memo -> checkpoint record -> wipe            *)
(***************************************************************************)
EXTENDS DataFlowCore

-----------------------------------------------------------------------------
(* _complete_task: the final state... *)
EnterFinalState(t) ==
  /\ Advance(t, "ok", "set")
  /\ status' = [status EXCEPT ![t] = DoneState(t)]
  /\ UNCHANGED <<sub, toWatch, tasks, fut, waiters, exec, fromMemo, hashed,
                 failCost, ran, rechecks, pool, launcher, memo, queue, file,
                 cleanup, wait, owed, mode>>

(* ... then the future, also after a terminal failure. *)
PublishFuture(t) ==
  /\ Advance(t, "set", "install") \/ Advance(t, "err", "install")
  /\ SetFuture(t)
  /\ UNCHANGED <<sub, toWatch, tasks, status, waiters, exec, fromMemo, hashed,
                 failCost, ran, rechecks, pool, launcher, memo, queue, file,
                 cleanup, wait, owed, mode>>

-----------------------------------------------------------------------------
(* handle_app_update. *)

(* Memoizer.update_memo stores the future itself, success or failure. *)
InstallMemo(t) ==
  /\ Advance(t, "install", "record")
  /\ memo' = IF hashed[t]
             THEN [memo EXCEPT ![Key[t]] = IF fut[t] = "result" THEN "ok" ELSE "err"]
             ELSE memo
  /\ UNCHANGED <<sub, toWatch, tasks, status, fut, waiters, exec, fromMemo,
                 hashed, failCost, ran, rechecks, pool, launcher, queue, file,
                 cleanup, wait, owed, mode>>

(* Mutant: any finished task that has a hash. *)
WritableIfDone(t) == Visible(t) /\ hashed[t]

(* checkpoint() writes only successes that have a hash. *)
Writable(t) == fut[t] = "result" /\ hashed[t]

(* task_exit: checkpoint(tasks=[task_record]). *)
RecordTaskExit(t) ==
  /\ mode = "task_exit"
  /\ Advance(t, "record", "wipe")
  /\ file' = IF Writable(t) THEN Append(file, t) ELSE file
  /\ UNCHANGED <<sub, toWatch, tasks, status, fut, waiters, exec, fromMemo,
                 hashed, failCost, ran, rechecks, pool, launcher, memo, queue,
                 cleanup, wait, owed, mode>>

(* The file cannot be opened (what a result that does not pickle does to   *)
(* the file is not modelled): the exception leaves handle_app_update, and  *)
(* concurrent.futures logs and ignores it, so the task is never wiped.     *)
RecordTaskExitFails(t) ==
  /\ mode = "task_exit" /\ DiskFails
  /\ Advance(t, "record", "callbacks")
  /\ UNCHANGED <<sub, toWatch, tasks, status, fut, waiters, exec, fromMemo,
                 hashed, failCost, ran, rechecks, pool, launcher, memo, queue,
                 file, cleanup, wait, owed, mode>>

(* Deferred modes queue every task, failed ones too. *)
RecordDeferred(t) ==
  /\ mode = "deferred"
  /\ Advance(t, "record", "wipe")
  /\ queue' = Append(queue, t)
  /\ UNCHANGED <<sub, toWatch, tasks, status, fut, waiters, exec, fromMemo,
                 hashed, failCost, ran, rechecks, pool, launcher, memo, file,
                 cleanup, wait, owed, mode>>

RecordNothing(t) ==
  /\ mode = "none"
  /\ Advance(t, "record", "wipe")
  /\ UNCHANGED <<sub, toWatch, tasks, status, fut, waiters, exec, fromMemo,
                 hashed, failCost, ran, rechecks, pool, launcher, memo, queue,
                 file, cleanup, wait, owed, mode>>

Wipe(t) ==
  /\ Advance(t, "wipe", "callbacks")
  /\ WipeTask(t)
  /\ UNCHANGED <<sub, toWatch, status, fut, waiters, exec, fromMemo, hashed,
                 failCost, ran, rechecks, pool, launcher, memo, queue, file,
                 cleanup, wait, owed, mode>>

-----------------------------------------------------------------------------
(* The loop of checkpoint() over the queued records: the file after the    *)
(* first i of them.                                                        *)
written[i \in 0..Len(queue)] ==
  IF i = 0 THEN file
  ELSE IF Writable(queue[i]) THEN Append(written[i - 1], queue[i])
  ELSE written[i - 1]

(* checkpoint(): the queue is swapped for an empty list before the file is *)
(* opened; checkpoint_lock is held to the end of the loop.                 *)
FlushQueue == file' = written[Len(queue)] /\ queue' = <<>>
FlushFails == UNCHANGED file /\ queue' = <<>>

Checkpoint ==
  /\ "checkpoint" \in Calls
  /\ mode = "deferred"
  /\ queue # <<>>
  /\ \/ FlushQueue
     \/ DiskFails /\ FlushFails
  /\ UNCHANGED <<sub, toWatch, tasks, status, fut, waiters, exec, fromMemo,
                 hashed, failCost, ran, pc, rechecks, pool, launcher, memo,
                 cleanup, wait, owed, mode>>

CleanupFlush ==
  /\ cleanup = "flush"
  /\ \/ mode = "none" /\ cleanup' = "flushed" /\ UNCHANGED <<queue, file>>
     \/ mode # "none" /\ cleanup' = "flushed" /\ FlushQueue
     \/ mode # "none" /\ DiskFails /\ cleanup' = "aborted" /\ FlushFails
  /\ UNCHANGED <<sub, toWatch, tasks, status, fut, waiters, exec, fromMemo,
                 hashed, failCost, ran, pc, rechecks, pool, launcher, memo,
                 wait, owed, mode>>

-----------------------------------------------------------------------------
PublishSteps(t) == \/ EnterFinalState(t)
                   \/ PublishFuture(t)
                   \/ InstallMemo(t)
                   \/ RecordTaskExit(t)
                   \/ RecordTaskExitFails(t)
                   \/ RecordDeferred(t)
                   \/ RecordNothing(t)
                   \/ Wipe(t)

Next == \/ CoreNext
        \/ \E t \in Tasks : PublishSteps(t)
        \/ Checkpoint
        \/ CleanupFlush

Spec == CoreInit /\ [][Next]_core

-----------------------------------------------------------------------------
(* Late but complete: when the dependents of t are notified, after          *)
(* handle_app_update, an equal call would find an outcome of its hash.      *)
SettledAtLast ==
  \A t \in Tasks :
    Visible(t) /\ hashed[t] /\ pc[t] \in {"callbacks", "idle"} => memo[Key[t]] # "none"

(* checkpoint() writes no failure, although failed tasks are queued and a   *)
(* flush may come at any time.                                              *)
FileHoldsSuccesses == \A t \in Range(file) : fut[t] = "result" /\ hashed[t]

(* What bookkeeping after the future still keeps: dependents find the memo *)
(* settled, and the file holds each success once and nothing else.         *)
LateButComplete == SettledAtLast /\ FileHoldsSuccesses /\ RecordedOnce

=============================================================================
