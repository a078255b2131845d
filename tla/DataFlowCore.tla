---------------------------- MODULE DataFlowCore ----------------------------
(***************************************************************************)
(* The part of Parsl's DataFlowKernel (parsl/dataflow/dflow.py) that is    *)
(* the same in the starter kernel and in the repaired one: submitting a    *)
(* task, watching its dependencies, the single dependency-launch thread,   *)
(* the executor, the completion handler with its retries, and the order in *)
(* which cleanup() closes the kernel.  How a finished task is published is *)
(* left to StarterDataFlow and RepairedDataFlow, which extend this module. *)
(*                                                                         *)
(* Threads.  Every Submit runs in a user thread of its own; the            *)
(* dependency-launch pool has one worker, the launcher; every task body    *)
(* runs in an executor thread, and that thread goes on to run              *)
(* handle_exec_update, the publication and the done-callbacks of the task, *)
(* unless the body had already finished when the launcher attached the     *)
(* callback, in which case the launcher runs them.  The program counter    *)
(* pc[t] is that of the thread handling t.                                 *)
(*                                                                         *)
(* Abstracted: arguments and results (a task's result is identified with   *)
(* the task), logging, monitoring messages, file staging, timestamps.      *)
(* Join apps are modelled in JoinApp.                                      *)
(***************************************************************************)
EXTENDS Naturals, Sequences, SequencesExt

CONSTANTS
  Tasks,        \* the app invocations the workflow may submit
  Keys,         \* memoization hashes
  NoKey,        \* the "hash" of an invocation whose app is not cached
  None,         \* no task
  Depends,      \* Depends[t]: the tasks whose futures are arguments of t
  Key,          \* Key[t]: the hash of t, or NoKey
  Retries,      \* Config.retries
  RetryCosts,   \* what Config.retry_handler may answer; {1} without one
  CheckpointModes, \* values of Config.checkpoint_mode, deferred for three of them
  GarbageCollect, \* Config.garbage_collect
  Recovered,    \* hashes loaded from checkpoint files when the kernel started
  Faults,       \* what may go wrong in the environment
  Calls         \* what the workflow calls besides its apps

Modes == {"none", "task_exit", "deferred"}
FaultKinds == {"body", "hash", "submit", "disk", "pickle", "retry_handler"}
CallKinds == {"checkpoint", "wait", "cleanup"}

ASSUME NoneAssumption == None \notin Tasks
ASSUME KeyAssumption == NoKey \notin Keys /\ Key \in [Tasks -> Keys \cup {NoKey}]
ASSUME DependsAssumption == Depends \in [Tasks -> SUBSET Tasks]
ASSUME RetryAssumption == Retries \in Nat /\ RetryCosts \subseteq Nat
ASSUME ConfigAssumption ==
  /\ CheckpointModes \subseteq Modes
  /\ GarbageCollect \in BOOLEAN
  /\ Recovered \subseteq Keys
  /\ Faults \subseteq FaultKinds
  /\ Calls \subseteq CallKinds

VARIABLES
  sub,       \* sub[t]: how far the submit() call of t has come
  toWatch,   \* toWatch[t]: dependencies submit() has yet to attach a callback to
  tasks,     \* the keys of DataFlowKernel.tasks
  status,    \* status[t]: task_record['status']
  fut,       \* fut[t]: the AppFuture of t
  waiters,   \* waiters[t]: tasks whose launch_if_ready is a callback of fut[t]
  exec,      \* exec[t]: the executor-level future of the current attempt
  fromMemo,  \* fromMemo[t]: task_record['from_memo']
  hashed,    \* hashed[t]: task_record['hashsum'] is a string
  failCost,  \* failCost[t]: task_record['fail_cost']
  ran,       \* ran[t]: the executor has been given the app body of t to run
  pc,        \* pc[t]: where the thread handling t's attempt is
  rechecks,  \* rechecks[t]: executor threads at the last lines of handle_exec_update
  pool,      \* the work queue of dependency_launch_pool
  launcher,  \* the task the launch thread is busy with, or None
  memo,      \* memo[k]: Memoizer.memo_lookup_table
  queue,     \* checkpointable_tasks
  file,      \* the records of <run_dir>/checkpoint/tasks.pkl, by task
  cleanup,   \* how far cleanup() has come
  wait,      \* wait_for_current_tasks: its state and the list it took
  owed,      \* history: tasks submitted when an equal call was visibly done
  mode       \* the checkpoint mode of this kernel

core == <<sub, toWatch, tasks, status, fut, waiters, exec, fromMemo, hashed,
          failCost, ran, pc, rechecks, pool, launcher, memo, queue, file,
          cleanup, wait, owed, mode>>

FinalStates == {"exec_done", "memo_done", "failed", "dep_fail"}
States == {"absent", "pending", "launched"} \cup FinalStates

Cached(t) == Key[t] # NoKey
Visible(t) == fut[t] \in {"result", "exception"}
CleanupCalled == cleanup # "open"
ExecutorsClosed == cleanup \in {"executors", "pool", "closed"}
PoolClosed == cleanup \in {"pool", "closed"}

CoreInit ==
  /\ sub = [t \in Tasks |-> "new"]
  /\ toWatch = [t \in Tasks |-> {}]
  /\ tasks = {}
  /\ status = [t \in Tasks |-> "absent"]
  /\ fut = [t \in Tasks |-> "none"]
  /\ waiters = [t \in Tasks |-> {}]
  /\ exec = [t \in Tasks |-> "none"]
  /\ fromMemo = [t \in Tasks |-> FALSE]
  /\ hashed = [t \in Tasks |-> FALSE]
  /\ failCost = [t \in Tasks |-> 0]
  /\ ran = [t \in Tasks |-> FALSE]
  /\ pc = [t \in Tasks |-> "idle"]
  /\ rechecks = [t \in Tasks |-> 0]
  /\ pool = <<>>
  /\ launcher = None
  /\ memo = [k \in Keys |-> IF k \in Recovered THEN "ok" ELSE "none"]
  /\ queue = <<>>
  /\ file = <<>>
  /\ cleanup = "open"
  /\ wait = [state |-> "off", list |-> {}, before |-> {}]
  /\ owed = {}
  /\ mode \in CheckpointModes

-----------------------------------------------------------------------------
(* launch_if_ready(u): one more item for the launch thread.  After the pool *)
(* has been shut down ThreadPoolExecutor.submit raises instead.             *)
LaunchIfReady(u) == pool' = IF PoolClosed THEN pool ELSE Append(pool, u)

(* The launch thread is done with t, if it was the one handling it. *)
HandlerReturns(t) == launcher' = IF launcher = t THEN None ELSE launcher

-----------------------------------------------------------------------------
(* submit(): a user thread per task.                                       *)

(* The cleanup_called check at the top of submit().  The caller holds the  *)
(* futures of all dependencies.                                            *)
Submit(t) ==
  /\ sub[t] = "new"
  /\ \A d \in Depends[t] : sub[d] = "submitted"
  /\ sub' = [sub EXCEPT ![t] = IF CleanupCalled THEN "rejected" ELSE "admitted"]
  /\ owed' = IF \E u \in Tasks : fut[u] = "result" /\ Cached(u) /\ Key[u] = Key[t]
             THEN owed \cup {t} ELSE owed
  /\ UNCHANGED <<toWatch, tasks, status, fut, waiters, exec, fromMemo, hashed,
                 failCost, ran, pc, rechecks, pool, launcher, memo, queue,
                 file, cleanup, wait, mode>>

(* The record enters the task table and becomes pending. *)
Register(t) ==
  /\ sub[t] = "admitted"
  /\ sub' = [sub EXCEPT ![t] = "watching"]
  /\ tasks' = tasks \cup {t}
  /\ status' = [status EXCEPT ![t] = "pending"]
  /\ fut' = [fut EXCEPT ![t] = "unset"]
  /\ toWatch' = [toWatch EXCEPT ![t] = Depends[t]]
  /\ UNCHANGED <<waiters, exec, fromMemo, hashed, failCost, ran, pc, rechecks,
                 pool, launcher, memo, queue, file, cleanup, wait, owed, mode>>

(* d.add_done_callback(callback_adapter): called at once if d is done. *)
WatchDependency(t, d) ==
  /\ sub[t] = "watching"
  /\ d \in toWatch[t]
  /\ toWatch' = [toWatch EXCEPT ![t] = @ \ {d}]
  /\ IF Visible(d)
     THEN LaunchIfReady(t) /\ UNCHANGED waiters
     ELSE waiters' = [waiters EXCEPT ![d] = @ \cup {t}] /\ UNCHANGED pool
  /\ UNCHANGED <<sub, tasks, status, fut, exec, fromMemo, hashed, failCost,
                 ran, pc, rechecks, launcher, memo, queue, file, cleanup,
                 wait, owed, mode>>

(* The explicit launch_if_ready at the end of submit(); if the pool is      *)
(* closed the error propagates and the caller never gets the future.        *)
SubmitLaunch(t) ==
  /\ sub[t] = "watching"
  /\ toWatch[t] = {}
  /\ sub' = [sub EXCEPT ![t] = IF PoolClosed THEN "rejected" ELSE "submitted"]
  /\ LaunchIfReady(t)
  /\ UNCHANGED <<toWatch, tasks, status, fut, waiters, exec, fromMemo, hashed,
                 failCost, ran, pc, rechecks, launcher, memo, queue, file,
                 cleanup, wait, owed, mode>>

-----------------------------------------------------------------------------
(* The dependency-launch thread: _launch_if_ready_async on the head of the *)
(* pool's queue.  Task_launch_lock is never contended: the pool has one    *)
(* worker.                                                                 *)

(* Mutant: a dependency counts as resolved once it has been launched. *)
NotYetLaunched(t) == {d \in Depends[t] : status[d] \in {"absent", "pending"}}

Outstanding(t) == {d \in Depends[t] : ~Visible(d)}
FailedDeps(t) == {d \in Depends[t] : fut[d] = "exception"}

(* The launch thread takes item t off the queue. *)
Dequeue(t) ==
  /\ launcher = None
  /\ pool # <<>>
  /\ t = Head(pool)
  /\ pool' = Tail(pool)

(* Mutant: the status is not looked at. *)
InspectAnyStatus(t) ==
  /\ Dequeue(t)
  /\ Outstanding(t) = {}
  /\ launcher' = t

(* ... and finds t pending with every dependency done. *)
Inspect(t) ==
  /\ Dequeue(t)
  /\ status[t] = "pending"
  /\ Outstanding(t) = {}
  /\ launcher' = t

SkipLaunch(t) ==
  /\ Dequeue(t)
  /\ status[t] # "pending" \/ Outstanding(t) # {}
  /\ UNCHANGED <<sub, toWatch, tasks, status, fut, waiters, exec, fromMemo,
                 hashed, failCost, ran, pc, rechecks, launcher, memo, queue,
                 file, cleanup, wait, owed, mode>>

(* A dependency failed: an already failed executor future, handled here. *)
LaunchDependencyFailure(t) ==
  /\ Inspect(t)
  /\ FailedDeps(t) # {}
  /\ status' = [status EXCEPT ![t] = "dep_fail"]
  /\ exec' = [exec EXCEPT ![t] = "error"]
  /\ pc' = [pc EXCEPT ![t] = "exec"]
  /\ UNCHANGED <<sub, toWatch, tasks, fut, waiters, fromMemo, hashed,
                 failCost, ran, rechecks, memo, queue, file, cleanup, wait,
                 owed, mode>>

(* launch_task finds the hash in the memo table: the status stays pending  *)
(* and the memo's future, already done, is handled in this thread.         *)
LaunchMemoHit(t) ==
  /\ Inspect(t)
  /\ FailedDeps(t) = {}
  /\ Cached(t) /\ memo[Key[t]] # "none"
  /\ hashed' = [hashed EXCEPT ![t] = TRUE]
  /\ fromMemo' = [fromMemo EXCEPT ![t] = TRUE]
  /\ exec' = [exec EXCEPT ![t] = IF memo[Key[t]] = "ok" THEN "ok" ELSE "error"]
  /\ pc' = [pc EXCEPT ![t] = "exec"]
  /\ UNCHANGED <<sub, toWatch, tasks, status, fut, waiters, failCost, ran,
                 rechecks, memo, queue, file, cleanup, wait, owed, mode>>

MemoMiss(t) ==
  /\ Inspect(t)
  /\ FailedDeps(t) = {}
  /\ Cached(t) => memo[Key[t]] = "none"
  /\ hashed' = [hashed EXCEPT ![t] = Cached(t)]
  /\ fromMemo' = [fromMemo EXCEPT ![t] = FALSE]

(* executor.submit accepts the task; from here its body may run. *)
LaunchSubmit(t) ==
  /\ MemoMiss(t)
  /\ ~ExecutorsClosed
  /\ exec' = [exec EXCEPT ![t] = "running"]
  /\ ran' = [ran EXCEPT ![t] = TRUE]
  /\ pc' = [pc EXCEPT ![t] = "attach"]
  /\ UNCHANGED <<sub, toWatch, tasks, status, fut, waiters, failCost,
                 rechecks, memo, queue, file, cleanup, wait, owed, mode>>

(* executor.submit raises: launching failed, which is not retried here but *)
(* handled as a failed attempt.                                            *)
LaunchRefused(t) ==
  /\ MemoMiss(t)
  /\ ExecutorsClosed \/ "submit" \in Faults
  /\ exec' = [exec EXCEPT ![t] = "error"]
  /\ pc' = [pc EXCEPT ![t] = "exec"]
  /\ UNCHANGED <<sub, toWatch, tasks, status, fut, waiters, failCost, ran,
                 rechecks, memo, queue, file, cleanup, wait, owed, mode>>

(* make_hash raises on an argument it cannot normalise. *)
LaunchUnhashable(t) ==
  /\ "hash" \in Faults
  /\ Inspect(t)
  /\ FailedDeps(t) = {}
  /\ Cached(t)
  /\ exec' = [exec EXCEPT ![t] = "error"]
  /\ pc' = [pc EXCEPT ![t] = "exec"]
  /\ UNCHANGED <<sub, toWatch, tasks, status, fut, waiters, fromMemo, hashed,
                 failCost, ran, rechecks, memo, queue, file, cleanup, wait,
                 owed, mode>>

(* The status becomes launched only after the executor has the task, and   *)
(* handle_exec_update is attached after that: by then the body may be done *)
(* and the handler runs in the launch thread.                              *)
Attach(t) ==
  /\ launcher = t
  /\ pc[t] = "attach"
  /\ status' = [status EXCEPT ![t] = "launched"]
  /\ IF exec[t] = "running"
     THEN pc' = [pc EXCEPT ![t] = "idle"] /\ launcher' = None
     ELSE pc' = [pc EXCEPT ![t] = "exec"] /\ UNCHANGED launcher
  /\ UNCHANGED <<sub, toWatch, tasks, fut, waiters, exec, fromMemo, hashed,
                 failCost, ran, rechecks, pool, memo, queue, file, cleanup,
                 wait, owed, mode>>

-----------------------------------------------------------------------------
(* The executor: the body of t returns or raises; if handle_exec_update is *)
(* attached, this thread goes on with it.                                  *)
RunBody(t) ==
  /\ exec[t] = "running"
  /\ \E r \in {"ok"} \cup (IF "body" \in Faults THEN {"error"} ELSE {}) :
       exec' = [exec EXCEPT ![t] = r]
  /\ pc' = IF pc[t] = "attach" THEN pc ELSE [pc EXCEPT ![t] = "exec"]
  /\ UNCHANGED <<sub, toWatch, tasks, status, fut, waiters, fromMemo, hashed,
                 failCost, ran, rechecks, pool, launcher, memo, queue, file,
                 cleanup, wait, owed, mode>>

-----------------------------------------------------------------------------
(* handle_exec_update.                                                     *)

HandleSuccess(t) ==
  /\ pc[t] = "exec"
  /\ exec[t] = "ok"
  /\ pc' = [pc EXCEPT ![t] = "ok"]
  /\ UNCHANGED <<sub, toWatch, tasks, status, fut, waiters, exec, fromMemo,
                 hashed, failCost, ran, rechecks, pool, launcher, memo, queue,
                 file, cleanup, wait, owed, mode>>

(* The new fail_cost: a retry handler that raises stops all retries. *)
NewFailCost(t) ==
  {failCost[t] + c : c \in RetryCosts}
    \cup (IF "retry_handler" \in Faults THEN {Retries + 1} ELSE {})

(* fail_retryable and back to pending.  The handler ends by looking at the *)
(* status once more and queueing a launch: in the launch thread nothing    *)
(* can come between, in an executor thread a stale queue item can.         *)
HandleRetry(t) ==
  /\ pc[t] = "exec"
  /\ exec[t] = "error"
  /\ status[t] # "dep_fail"
  /\ \E c \in NewFailCost(t) :
       c <= Retries /\ failCost' = [failCost EXCEPT ![t] = c]
  /\ status' = [status EXCEPT ![t] = "pending"]
  /\ exec' = [exec EXCEPT ![t] = "none"]
  /\ pc' = [pc EXCEPT ![t] = "idle"]
  /\ IF launcher = t
     THEN LaunchIfReady(t) /\ UNCHANGED rechecks
     ELSE rechecks' = [rechecks EXCEPT ![t] = @ + 1] /\ UNCHANGED pool
  /\ HandlerReturns(t)
  /\ UNCHANGED <<sub, toWatch, tasks, fut, waiters, fromMemo, hashed, ran,
                 memo, queue, file, cleanup, wait, owed, mode>>

(* Mutant: the handler ends without the second look at the status. *)
NoRecheck(t) ==
  /\ rechecks[t] > 0
  /\ rechecks' = [rechecks EXCEPT ![t] = @ - 1]
  /\ UNCHANGED <<sub, toWatch, tasks, status, fut, waiters, exec, fromMemo,
                 hashed, failCost, ran, pc, pool, launcher, memo, queue, file,
                 cleanup, wait, owed, mode>>

Recheck(t) ==
  /\ rechecks[t] > 0
  /\ rechecks' = [rechecks EXCEPT ![t] = @ - 1]
  /\ IF status[t] = "pending" THEN LaunchIfReady(t) ELSE UNCHANGED pool
  /\ UNCHANGED <<sub, toWatch, tasks, status, fut, waiters, exec, fromMemo,
                 hashed, failCost, ran, pc, launcher, memo, queue, file,
                 cleanup, wait, owed, mode>>

(* No retries left, or none allowed after a dependency failure. *)
HandleFailure(t) ==
  /\ pc[t] = "exec"
  /\ exec[t] = "error"
  /\ \E c \in NewFailCost(t) :
       /\ status[t] = "dep_fail" \/ c > Retries
       /\ failCost' = [failCost EXCEPT ![t] = c]
  /\ status' = [status EXCEPT ![t] = IF @ = "dep_fail" THEN @ ELSE "failed"]
  /\ pc' = [pc EXCEPT ![t] = "err"]
  /\ UNCHANGED <<sub, toWatch, tasks, fut, waiters, exec, fromMemo, hashed,
                 ran, rechecks, pool, launcher, memo, queue, file, cleanup,
                 wait, owed, mode>>

-----------------------------------------------------------------------------
(* Steps of a publication that both kernels take, at points of their own.  *)

Advance(t, from, to) ==
  /\ pc[t] = from
  /\ pc' = [pc EXCEPT ![t] = to]

DiskFails == "disk" \in Faults

(* memo_done or exec_done. *)
DoneState(t) == IF fromMemo[t] THEN "memo_done" ELSE "exec_done"

(* set_result or set_exception: the future is done and its waiters wake. *)
SetFuture(t) ==
  fut' = [fut EXCEPT ![t] =
            IF status[t] \in {"exec_done", "memo_done"} THEN "result" ELSE "exception"]

(* wipe_task *)
WipeTask(t) == tasks' = IF GarbageCollect THEN tasks \ {t} ELSE tasks

(* The done-callbacks of t's future: a launch_if_ready for each dependent. *)
NotifyDependent(t, u) ==
  /\ pc[t] = "callbacks"
  /\ u \in waiters[t]
  /\ waiters' = [waiters EXCEPT ![t] = @ \ {u}]
  /\ LaunchIfReady(u)
  /\ UNCHANGED <<sub, toWatch, tasks, status, fut, exec, fromMemo, hashed,
                 failCost, ran, pc, rechecks, launcher, memo, queue, file,
                 cleanup, wait, owed, mode>>

HandlerEnds(t) ==
  /\ pc[t] = "callbacks"
  /\ waiters[t] = {}
  /\ pc' = [pc EXCEPT ![t] = "idle"]
  /\ HandlerReturns(t)
  /\ UNCHANGED <<sub, toWatch, tasks, status, fut, waiters, exec, fromMemo,
                 hashed, failCost, ran, rechecks, pool, memo, queue, file,
                 cleanup, wait, owed, mode>>

-----------------------------------------------------------------------------
(* wait_for_current_tasks: a snapshot of the table, then each of its       *)
(* futures and states in turn.                                             *)
WaitBegin ==
  /\ "wait" \in Calls
  /\ wait.state = "off"
  /\ wait' = [state |-> "waiting", list |-> tasks,
              before |-> {t \in Tasks : sub[t] = "submitted"}]
  /\ UNCHANGED <<sub, toWatch, tasks, status, fut, waiters, exec, fromMemo,
                 hashed, failCost, ran, pc, rechecks, pool, launcher, memo,
                 queue, file, cleanup, owed, mode>>

(* Mutant: the state is waited for, the future is not. *)
WaitForStates ==
  /\ wait.state = "waiting"
  /\ \A t \in wait.list : status[t] \in FinalStates
  /\ wait' = [wait EXCEPT !.state = "returned"]
  /\ UNCHANGED <<sub, toWatch, tasks, status, fut, waiters, exec, fromMemo,
                 hashed, failCost, ran, pc, rechecks, pool, launcher, memo,
                 queue, file, cleanup, owed, mode>>

WaitEnd ==
  /\ wait.state = "waiting"
  /\ \A t \in wait.list : Visible(t) /\ status[t] \in FinalStates
  /\ wait' = [wait EXCEPT !.state = "returned"]
  /\ UNCHANGED <<sub, toWatch, tasks, status, fut, waiters, exec, fromMemo,
                 hashed, failCost, ran, pc, rechecks, pool, launcher, memo,
                 queue, file, cleanup, owed, mode>>

-----------------------------------------------------------------------------
(* cleanup(): the flush in between is the variants' own.                   *)

CleanupBegin ==
  /\ "cleanup" \in Calls
  /\ cleanup = "open"
  /\ cleanup' = "flush"
  /\ UNCHANGED <<sub, toWatch, tasks, status, fut, waiters, exec, fromMemo,
                 hashed, failCost, ran, pc, rechecks, pool, launcher, memo,
                 queue, file, wait, owed, mode>>

(* No executor thread is inside a body or a handler. *)
ExecutorsIdle ==
  \A t \in Tasks : /\ exec[t] # "running"
                   /\ pc[t] # "idle" => launcher = t
                   /\ rechecks[t] = 0

(* executor.shutdown(): refuse new work, wait for what is running; then    *)
(* dependency_launch_pool.shutdown() likewise.                             *)
CleanupStep ==
  /\ \/ cleanup = "flushed" /\ cleanup' = "executors"
     \/ cleanup = "executors" /\ ExecutorsIdle /\ cleanup' = "pool"
     \/ cleanup = "pool" /\ pool = <<>> /\ launcher = None /\ cleanup' = "closed"
  /\ UNCHANGED <<sub, toWatch, tasks, status, fut, waiters, exec, fromMemo,
                 hashed, failCost, ran, pc, rechecks, pool, launcher, memo,
                 queue, file, wait, owed, mode>>

-----------------------------------------------------------------------------
SubmitSteps == \E t \in Tasks : \/ Submit(t)
                                \/ Register(t)
                                \/ \E d \in Tasks : WatchDependency(t, d)
                                \/ SubmitLaunch(t)

LaunchSteps(t) == \/ SkipLaunch(t)
                  \/ LaunchDependencyFailure(t)
                  \/ LaunchMemoHit(t)
                  \/ LaunchSubmit(t)
                  \/ LaunchRefused(t)
                  \/ LaunchUnhashable(t)
                  \/ Attach(t)

HandlerSteps(t) == \/ HandleSuccess(t)
                   \/ HandleRetry(t)
                   \/ Recheck(t)
                   \/ HandleFailure(t)
                   \/ \E u \in Tasks : NotifyDependent(t, u)
                   \/ HandlerEnds(t)

CoreNext == \/ SubmitSteps
            \/ \E t \in Tasks : LaunchSteps(t) \/ RunBody(t) \/ HandlerSteps(t)
            \/ WaitBegin
            \/ WaitEnd
            \/ CleanupBegin
            \/ CleanupStep

-----------------------------------------------------------------------------
PCs == {"idle", "attach", "exec", "ok", "err", "install", "record", "final",
        "wipe", "set", "unpublished", "callbacks"}

(* Every variable holds a value of its kind. *)
TypeOK ==
  /\ sub \in [Tasks -> {"new", "admitted", "watching", "submitted", "rejected"}]
  /\ toWatch \in [Tasks -> SUBSET Tasks]
  /\ tasks \subseteq Tasks
  /\ status \in [Tasks -> States]
  /\ fut \in [Tasks -> {"none", "unset", "result", "exception"}]
  /\ waiters \in [Tasks -> SUBSET Tasks]
  /\ exec \in [Tasks -> {"none", "running", "ok", "error"}]
  /\ fromMemo \in [Tasks -> BOOLEAN]
  /\ hashed \in [Tasks -> BOOLEAN]
  /\ failCost \in [Tasks -> Nat]
  /\ ran \in [Tasks -> BOOLEAN]
  /\ pc \in [Tasks -> PCs]
  /\ rechecks \in [Tasks -> Nat]
  /\ pool \in Seq(Tasks)
  /\ launcher \in Tasks \cup {None}
  /\ memo \in [Keys -> {"none", "ok", "err"}]
  /\ queue \in Seq(Tasks)
  /\ file \in Seq(Tasks)
  /\ cleanup \in {"open", "flush", "aborted", "flushed", "executors", "pool", "closed"}
  /\ wait \in [state : {"off", "waiting", "returned"},
               list : SUBSET Tasks, before : SUBSET Tasks]
  /\ owed \subseteq Tasks
  /\ mode \in Modes

-----------------------------------------------------------------------------
(* What both kernels must keep about launching. *)

(* Whatever items are queued for it, a task is launched only when no        *)
(* earlier attempt is running or being handled and its future is not done   *)
(* (the status test under task_launch_lock).                               *)
SingleAttempt ==
  [][\A t \in Tasks : launcher # t /\ launcher' = t =>
       pc[t] = "idle" /\ exec[t] = "none" /\ ~Visible(t)]_core

(* An app body is handed to an executor only when every dependency's       *)
(* future holds a result (_count_deps and _unwrap_futures).                *)
DependenciesFirst ==
  \A t \in Tasks : ran[t] => \A d \in Depends[t] : fut[d] = "result"

(* When wait_for_current_tasks returns, every task whose submit() had      *)
(* returned before the call has a completed future.                        *)
WaitCoversSubmitted ==
  wait.state = "returned" => \A t \in wait.before : Visible(t)

(* Every submitted task completes its AppFuture, unless the kernel is      *)
(* cleaned up first.                                                       *)
EventuallyVisible ==
  \A t \in Tasks : sub[t] = "submitted" ~> Visible(t) \/ CleanupCalled

-----------------------------------------------------------------------------
(* What a kernel must keep about publication. *)

Recorded == Range(queue) \cup Range(file)

(* A cached success is recorded before its future is visible: in tasks.pkl *)
(* in task_exit mode, in the queue or in tasks.pkl in a deferred mode      *)
(* (_record_task_outcome before set_result in _complete_task).             *)
VisibleIsRecorded ==
  \A t \in Tasks :
    fut[t] = "result" /\ Cached(t) =>
      /\ mode = "task_exit" => t \in Range(file)
      /\ mode = "deferred" => t \in Recorded

(* When an AppFuture is visible its task is finalized: the record is in a  *)
(* final state that agrees with the future, and garbage collection has     *)
(* taken it out of the table (or left it there if switched off).           *)
VisibleIsFinalized ==
  \A t \in Tasks :
    Visible(t) => /\ status[t] \in FinalStates
                  /\ fut[t] = "result" <=> status[t] \in {"exec_done", "memo_done"}
                  /\ t \in tasks <=> ~GarbageCollect

(* A call submitted after an equal call's success was visible never runs   *)
(* the app body again (check_memo always finds an entry for the hash).     *)
EqualCallReuses == \A t \in owed : ~ran[t]

(* In task_exit mode the memo offers a success only if a task with that    *)
(* hash has its record in the file: a success whose record could not be    *)
(* written is never installed (order in _record_task_outcome).             *)
MemoIsDurable ==
  mode = "task_exit" =>
    \A k \in Keys : memo[k] = "ok" =>
      k \in Recovered \/ \E t \in Range(file) : Key[t] = k

(* Nobody who sees a result or an exception finds the books of its task    *)
(* open: neither the checkpoint nor the memo, the state or the task table. *)
VisibleIsSettled ==
  VisibleIsRecorded /\ VisibleIsFinalized /\ MemoIsDurable /\ EqualCallReuses

(* However completions, flushes and failed flushes interleave, a task is   *)
(* recorded at most once: queue and file together hold no duplicate.       *)
RecordedOnce == IsInjective(file \o queue)

(* Nothing that succeeded and was recorded is ever lost, by a flush that   *)
(* fails or by cleanup, and tasks.pkl is only appended to.                 *)
Outcomes == {t \in Recorded : hashed[t] /\ fut[t] # "exception"}
OutcomesKept == [][Outcomes \subseteq Outcomes' /\ IsPrefix(file, file')]_core

=============================================================================
