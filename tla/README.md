# Parsl in TLA+

This directory holds TLA+ models of Parsl (`src/environment/parsl`) and of the
repaired data flow kernel kept beside it (`src/solution`), TLC configurations that
model-check them, and TLAPS proofs about them.

Two versions of some files exist in the repository. *Starter* means
`src/environment/parsl/dataflow/*`, the code as shipped; *repaired* means
`src/solution/{dflow,memoization,completion,rundirs}.py`, which replaces those files.
`src/instruction.md` states what a finished task promises. Where the two versions
agree they share a module (`DataFlowCore`); where they differ each has its own.

## The system

A workflow calls decorated Python functions. Each call becomes a task of the
`DataFlowKernel` (DFK): its arguments may be futures of other tasks, it runs in an
executor once they are done, may be retried, may be answered from a memo table, and
its outcome may be written to a checkpoint file that later runs load into their memo.
Executors run tasks in blocks, which they ask a provider for; a strategy decides how
many. Monitoring records all of it in a database.

| component | state | operations | talks to |
|---|---|---|---|
| DFK: submit, launch, retry (`dflow.py`) | `tasks`, task records (status, fail cost, hash, from_memo), AppFutures, dependency-launch pool, `cleanup_called` | `submit`, `launch_if_ready`, `_launch_if_ready_async`, `launch_task`, `handle_exec_update`, `wait_for_current_tasks`, `cleanup` | executors (`submit`, futures with callbacks), memoizer, user threads |
| DFK: publication | task table, `checkpointable_tasks`, AppFuture | starter: `_complete_task`, `handle_app_update`; repaired: `_record_task_outcome`, `_complete_task`; both: `wipe_task`, `checkpoint` | memoizer, checkpoint file, done-callbacks of dependents |
| Memoizer (`memoization.py`) | `memo_lookup_table` | `check_memo`, `update_memo`, `_load_checkpoints` | DFK, checkpoint files |
| Checkpoint files | `<run_dir>/checkpoint/tasks.pkl` | append, fsync, truncate, unlink, discovery, load | the next runs |
| Run directories (`rundirs.py`) | numbered directories under `Config.run_dir` | `make_rundir` | other launcher processes, recovery (newest run wins) |
| Join apps | status `joining`, `joins`, `join_lock` | join branch of `handle_exec_update`, `handle_join_update` | inner futures' threads |
| Thread pool executor | worker threads | `submit`, `shutdown` | DFK |
| HTEX client (`high_throughput/executor.py`) | `tasks`, queues, bad state | `submit`, result thread, `hold_worker`, scale in | interchange |
| Interchange | managers, pending tasks | register, dispatch, results, heartbeat expiry, draining | client, managers |
| Manager and workers (`process_worker_pool.py`) | task and result queues, `tasks_in_progress` | pull, run, watchdog, drain | interchange |
| MPI scheduler (`mpi_resource_management.py`) | free nodes, counter, backlog, node map | `put_task`, `get_result`, backlog scheduling | manager |
| Block bookkeeping (`executors/status_handling.py`) | block status, job ids, bad state | `poll_facade`, `scale_in/out_facade`, `set_bad_state_and_fail_all` | strategy, providers |
| Strategy, poller, error handlers (`jobs/`) | idle times, poll times | `strategize`, `_handle_errors`, close | block bookkeeping |
| Providers (`providers/`) | `resources`: a status per job | `submit`, `status`, `cancel` | schedulers, clouds, processes |
| WorkQueue, TaskVine (`executors/workqueue`, `executors/taskvine`) | `tasks`, two queues to a submit process | `submit`, submit process, collector thread, `shutdown` | Work Queue, TaskVine |
| Monitoring (`monitoring/`) | queues, deferred messages, database | hub, radios, routers, database loop | every component |
| Data staging, launchers, serialization, usage tracking, other executors | transfers, command lines, picklers, other systems | | |

What is hard about it: the DFK has no lock around its records. User threads submit, one
thread launches, every executor thread runs completion handlers and callbacks, a
periodic thread checkpoints, and cleanup closes things in an order of its own. In the
HighThroughputExecutor (HTEX) the parts are processes that exchange messages: managers
and workers die at any point, a manager that is only late is taken for dead, and its
answers arrive after it has been given up. Scaling decides on a table that is old and
shared with what it has written itself. The other executors and monitoring put
processes behind `multiprocessing` queues, whose feeder threads and empty looks
deceive those who shut them down.
`PROJECT.json` lists the hazards at their lines, with the properties that cover them,
or a note that says why none does.

What makes each modelled component correct:

- *launching*: a task never has two attempts at once, never runs before its
  dependencies have results, and is never forgotten;
- *publication*: whatever must be true of a finished task (recorded, reusable,
  finalized) is true before its AppFuture shows the outcome;
- *checkpoints*: acknowledged records survive failed writes, failed rollbacks aside,
  and crashes; the newest acknowledged value wins at recovery;
- *run directories*: unique, new, and numbered in the order of time;
- *joins*: the outer future is set once, after all inner ones, and agrees with them;
- *HTEX*: every task has one owner from `submit` to its answer, is handed to at most
  one worker, and is answered once; managers with room are served, full ones are not,
  drained ones have nothing left;
- *MPI tasks*: no two tasks have a node in common, no node is lost, no thread waits in
  the counter's lock for one that needs it;
- *scaling*: no job whose id is known is forgotten, `max_blocks` is kept for the blocks
  that are counted, an executor is given up only when it is dead;
- *providers*: a job is said to be over only when it is, and is said to be so some time
  after; what was cancelled does not run on;
- *WorkQueue and TaskVine*: a sent task is in one place, and no future is left waiting
  when the submit process dies; shutdown returns unless a full pipe has lost its reader;
- *monitoring*: a message is recorded, deferred, or lost for a known reason; a workflow
  that begins gets an end; closing ends.

## Modules

| module | models | state and actions |
|---|---|---|
| `DataFlowCore` | what both kernels share | one action per handler step, listed below |
| `StarterDataFlow` | publication as shipped: final state, future, then memo, record, wipe in `handle_app_update` | extends the core with `pc` places `set, install, record, wipe` |
| `RepairedDataFlow` | publication as repaired: record, memo, final state, wipe, future; a failing record turns into a failure | extends the core with `pc` places `install, final, unpublished, wipe, set` |
| `Publication` | the abstract promise: a result is published only when recorded, reusable and delisted | refined by `RepairedDataFlow` (`KeepsContract`) |
| `CheckpointLog` | `checkpoint`, `_write_checkpoint_payloads` and recovery, file operation by file operation, over several runs | file contents are sequences of records and `Torn` |
| `RunDirs` | repaired `make_rundir`, several launchers | scan (which may or may not see concurrent creations), choose, mkdir, collide |
| `JoinApp` | one join app | attacher thread and the threads of the inner futures under `join_lock` |
| `HighThroughput` | HTEX: client, interchange, managers, workers | one action per message handler or worker step, described below |
| `MPIScheduler` | `MPITaskScheduler` in its two threads | nodes and tasks in the hands of each thread, the lock, the recursion over the backlog |
| `BlockScaling` | block bookkeeping, strategy, poller, error handlers, HTEX scale in | the poller thread's turn, cut where the scheduler, the interchange or a submitting thread comes in between |
| `Providers` | `submit`, `status`, `cancel` of all twelve ways to run a block | where a job is, what the provider says, what the scheduler still answers for |
| `QueueExecutors` | WorkQueueExecutor and TaskVineExecutor | submit, submit process, collector thread, shutdown, factory |
| `Monitoring` | hub, radios, routers, queue and database manager for the tries of one task | messages by kind on their way to the tables |
| `*Proofs` (8 modules) | theorems, see *Proofs*; `KernelProofs` holds those of `CheckpointLog`, `RunDirs`, `JoinApp` and `Monitoring`, whose names differ for that reason | |
| `MC*` | instances for TLC | small workflows and sets |

In `DataFlowCore` the variable `status[t]` is `task_record['status']`, `fut[t]` the
AppFuture, `exec[t]` the executor future of the current attempt, `memo` the
`memo_lookup_table`, `queue` is `checkpointable_tasks`, `file` the records of
`tasks.pkl`, `pool` the work queue of `dependency_launch_pool` and `waiters[d]` the
dependents that have a callback on `d`. `pc[t]` is where the thread that handles `t`
is; `launcher` says whether this thread is the launch thread. `submit` is split into
the check of `cleanup_called` (`Submit`), the registration of the record
(`Register`), one `add_done_callback` per dependency (`WatchDependency`) and the
final launch (`SubmitLaunch`). `launch_task` has a step between
`executor.submit` and `add_done_callback` (`LaunchSubmit`, `Attach`), because the
body may finish in between. A retry is split before its last lines (`HandleRetry`,
`Recheck`) when an executor thread runs it, because a stale item of the launch queue
may launch the task first. Every line between two points where another thread can
see or change the state is one action.

The three deferred checkpoint modes differ only in who calls `checkpoint()`; the model
has one mode "deferred" and lets `Checkpoint` happen at any time if the configuration
has the call. `mode` is chosen in the initial state, so a run covers several modes.

In `HighThroughput` `fut` and `receiving` are the client's table and its result thread
(`executor.py`), `toIx` and `answers` its two pipes; `queued`, `reg`, `assigned`,
`interesting`, `held` and `draining` are the interchange's `pending_task_queue` and its
table of managers; `pending`, `reports` and `drainReq` are a manager's task queue, the
answers under way from it and its drain request; `work`, `wtask`, `noted` and
`unflushed` are the worker processes, their entries in `tasks_in_progress` and the
results in a queue's feeder thread. The choices made in it:

- The interchange is one thread, so a handler is one action. `expire_drained_managers`
  runs after every handler and is part of those that can give it work (`Result`,
  `DrainRequest`). `process_tasks_to_send` is one action per manager it visits
  (`VisitManager`): nothing observable depends on a visit of all of them at once, and
  the order of the visits is random in the code.
- A pipe is a set or a count of messages. What depends on order is kept by guards: a
  drain request is not read before the registration.
- `reports[m][t]` counts the answers between a worker's pipe and the interchange's
  socket, which the manager only forwards; `pending[m]` does the same on the way down.
- Heartbeats are a choice: `Expire` may happen to a manager that is gone, and, with
  `"late"`, to one that works on. Its answers are then ignored by `Result`, and it goes
  when nobody answers its heartbeats. `Stop` stands for every way a manager ends.
- A worker's turn is split at every line another process can observe or a kill can
  separate: `Take`, `Note`, `Finish`, `Forget`, and the feeder thread's `Flush`. A
  worker that dies between `Take` and `Note`, or before `Flush` when its note is gone,
  takes the task with it; `lost` remembers these tasks for the liveness properties.

`CheckpointLog` and `RepairedDataFlow` meet at `checkpoint()`: the former shows how an
append becomes all or nothing, the latter takes it as one step under
`checkpoint_lock`. `MPIScheduler` stands where `HighThroughput` has a manager's
`pending`: it takes over between the interchange's message and the worker's `get`.
`BlockScaling` and `Providers` meet at the provider's interface: the former has a
provider that is true to its reports, or says UNKNOWN, and whose `submit` may fail after
the scheduler has taken the job; the latter shows how true each one is, and where such a
job comes from (`Unread`).

In `MPIScheduler` `_get_nodes` is split at the lock, at the counter (`Reserve`) and at
each node it takes; `_return_nodes` is split before the counter. The recursion of
`_schedule_backlog_tasks` does not change the state between its turns once a task did
not fit, so it is a loop that may be left by `RecursionFails` when it has put a task
back (`deep`): Python raises RecursionError after about a thousand turns, at either of
the two calls.

In `BlockScaling` block ids and task ids are numbers. `status` is the table that the
strategy reads (`_status`), `simulated` is `_simulated_status`, laid over the provider's
reports by `UpdateState`. The loop of `set_bad_state_and_fail_all` has a cursor and the
size of the dict when it began, because Python raises when a dict changes under a loop.
`pc = "stuck"` is a command to an interchange that has gone. A launch that fails
(`ScaleOut`) may leave its job behind: the block is on record as failed and has no job id.
HTEX's result thread tests the bad state only before it waits for a batch: `Receive` may
come after the bad state is set, and meet a future that was failed meanwhile, which ends
the thread; `ReceiverEnds` is the test. How much of a batch is left then is a choice.

In `Providers` each translate table is a record over the states a query can show; what
a table does not list is not in the answer. `Listed` and `gone` say whether a scheduler
still answers for a job. A query, submission or cancellation may fail or be cut off.
`infra` is EC2's network and state file over several runs. EC2 answers for all instances
in an order of its own, and `AWSProvider.status` gives the answers back by position: each
call takes any of `AwsOrders`, the same one every time if need be.

In `QueueExecutors` the states of `stage[t]` are the places inside `submit` where the
submit process may die. One definition serves both executors where the code is the
same; what only one has (TaskVine's manager start, factory, counter, and serverless
calls that go on after a refusal) is an action with `setup.vine` in its guard. The
collector takes a future out of the table (`Collect`), sets it, which runs its callbacks
(`SetFuture`), and only then takes it off TaskVine's counter (`CountDown`), as `submit` puts
the task on the queue (`Put`) before it counts it (`Count`).

The two queues are `multiprocessing` queues: a feeder thread of the writing process moves
messages into a pipe, here of `PipeRoom` messages. `ready` and `reports` are buffer and pipe
together. What does not fit in the pipe keeps the submit process from ending (`Leave`) and
the executor from closing its queue (`JoinQueues`) until somebody reads. A process that is
killed takes what its feeder has not written with it: reports in `Die`, tasks in
`ParentGoes`, and these tasks are still counted by `qsize`, which the submit process looks
at (`lost`).

In `Monitoring` a message is its kind and its try. `buffer` and `pipe` are the two ends
of the monitoring queue, `hand` is what the migration thread has taken from it,
`priority` and `resource` are the internal queues. `dbm` is where the manager's main
loop is, including the exit check, which looks at one queue after the other.

## Runs

Every run checks a different question, and all of them pass; every property has a
mutant in `PROJECT.json`, a plausible bug in the named definition that TLC must detect.
Some properties are conjunctions of named parts; the comments of the modules say what
each part is about.

| run | instance | shows |
|---|---|---|
| `repaired_launch` | t3 needs t1 and t2; one retry; bodies, submissions and retry handler may fail | `SingleAttempt`, `DependenciesFirst`, and under fairness `EventuallyVisible` |
| `repaired_publish` | three equal cached calls, no retry, all modes, failing body, hash, pickle and disk, user checkpoints, cleanup, garbage collection | `VisibleIsSettled`, `RecordsSuccessesOnce`, `OutcomesKept`, and that the kernel implements `Publication` (`KeepsContract`) |
| `starter` | two equal cached calls, one retry, all modes, failing body and disk, all calls | what the shipped order does keep: `WaitCoversSubmitted`, `LateButComplete` |
| `join` | zero to three inner futures, or no future at all | `OuterFollowsInner`, `OuterEventuallySet` |
| `rundirs` | three launchers; runs 1 and 2 (unpadded) and a file named 003 | `DirectoriesOwned` (distinct, new, in the order of time), `EveryLauncherStarts` |
| `log` | two hashes, three outcomes, three runs, all faults | `AckedSurvives`, `NewestWins` |
| `htex` | two tasks; m1 with capacity 2, one worker and every event; m2 with capacity 1, one worker and none | `TasksTracked`, `RunsOnce`, `DrainedIsIdle`, `ManagersServed`, and under fairness `EventuallyAnswered` |
| `mpi` | two nodes; three tasks in five mixes of sizes, one too large and one without a size among them; double answers or vanished tasks | `NodesOwned`, `CounterBehindQueue`, `NoneDropped`, `BacklogMoves` |
| `scaling` | one task, three block ids, at most two blocks; HTEX with its strategy and failing cancellations, another executor with `simple` and held, unknown and failing jobs and failing launches, HTEX without a strategy and failing launches or a version mismatch | `NoJobForgotten`, `WithinMaxBlocks`, `RecordedIsFinal`, `GivesUpOnlyDead`, `CloseEnds` |
| `providers` | two jobs, each of twelve kinds, all commands failing at will | `CancelledIsOver`, `OneVpc`, `EndsAreReal`, `EndIsSeen` |
| `queues` | two tasks, pipes of one message, both executors, five mixes of faults | `InOnePlace`, `NoneLeftWaiting`, `SentIsAnswered`, `ShutdownEnds` |
| `monitoring` | one try, a pipe of one message, each radio with its faults | `Accounted`, `EachIsRecorded`, `CloseReturns` |

### Divergences found

Where the code does something other than the repository says of it, the models follow
the code, and the properties claim what is left. The following came up; each is a
behaviour of the model.

- *Reuse in the starter* (`dataflow/dflow.py:595`). `_complete_task` sets the future;
  the memo is filled by `handle_app_update`, a callback of that future. A thread woken by
  the result submits an equal call, which misses the memo and runs the body again.
  `src/instruction.md:44-48`: "When a successful cached app Future becomes done, its
  result must already be available to memoization." The repaired kernel keeps it
  (`VisibleIsSettled`).
- *Cleanup* (`src/solution/dflow.py:1247-1248`, `1262-1267`). `cleanup()` flushes and then
  shuts the executors down; a task that succeeds in between is queued and never written.
  `src/instruction.md:81-83`: the checkpoint file "must contain all queued successes when
  cleanup returns".
- *Waiting* (`src/solution/dflow.py:634-636`, `1216`). The repaired `_complete_task` wipes
  the record before it sets the future, so `wait_for_current_tasks` may miss a task whose
  future is not done. Its docstring (`1206-1207`): "Waits for all tasks in the task list
  to be completed". The starter keeps `WaitCoversSubmitted`.
- *Overwritten memo* (`src/solution/memoization.py:326`). Of two equal calls in flight the
  second one fails after the first was published; its failure replaces the memo entry and
  a third call gets the exception. Same sentence of `src/instruction.md` as above.
- *Refused recovery* (`src/solution/dflow.py:1320`, `1344`). A first flush that fails
  removes the file, not the directory; the next run refuses to load it
  (`src/solution/memoization.py:361-365`). The comment at `1334-1336` says the rollback is
  there "so it cannot poison automatic recovery".
- *MPI backlog* (`mpi_resource_management.py:186-196`). A backlogged task that still does
  not fit is put back and the method calls itself, up to the recursion limit. `get_result`
  raises, the answer in its hand is dropped (`process_worker_pool.py:427-433` logs it), and
  sometimes the backlogged task with it. Three two-node tasks on two nodes suffice;
  `NoneDropped` claims the case of two tasks, which is fine. The comment in the code says
  "Keep attempting to schedule tasks till we are out of resources".
- *Node list of an MPI answer* (`mpi_resource_management.py:207`). Entries of the node map
  are never removed, so a second answer for a task gives its nodes back twice; `NodesOwned`
  excepts it. And a task that names no number of nodes loses its answer to an assertion
  (`:206`, the code's own TODO about issue 3427).
- *Refused WorkQueue or TaskVine task* (`workqueue/executor.py:906`, `968`;
  `taskvine/manager.py:238`, `292`). The report carries a number, the table has strings: the
  collector ends with a KeyError and fails every waiting task.
- *Wrong readings of job states* (`Misread` in `Providers`): lsf suspended jobs are
  cancelled and never asked for again (`lsf.py:19-21`), held condor jobs have failed, grid
  engine jobs in transfer have failed, a torque query that fails says that all jobs are
  completed (`torque.py:108`), `kube.py:263` compares with `is` and is never true, and one
  deleted cloud machine makes `status` raise for all.
- *Orphan jobs* (`executors/status_handling.py:193-222`). A `submit` that raises or returns
  no id counts as failed, also when the scheduler has taken the job and only its answer
  was cut off or not understood (`Unread` in `Providers`). Nothing has the job's id: it is
  never cancelled and runs to its walltime, and its managers may register.
  `NoJobForgotten` claims the rest, and that such a block is on record as failed.
- *More than max_blocks* (`jobs/strategy.py:211`). The strategies count pending and running
  blocks. When one is held, or a query fails and it is unknown, another is asked for, and
  when the first one runs again there are more than `max_blocks`, as there are with an
  orphan. `jobs/strategy.py:60` calls `max_blocks` the "Maximum number of blocks that can be
  active due to one workflow". `WithinMaxBlocks` claims that what is asked for fits with
  the blocks that are not overlooked in one of these ways (`Overlooked`).
- *EC2's answers by position* (`providers/aws/aws.py:619-627`). `status` returns the states in
  the order in which EC2 lists the reservations; `cluster_provider` and the executor take
  them for the jobs in the order asked. While one instance is not over, its state may
  always be taken for another's: `EndIsSeen` then claims nothing, and otherwise that all
  are seen to be over.
- *Full pipes at shutdown* (`workqueue/executor.py:710`, `717-718`; `taskvine/executor.py`
  the same). The collector stops reading as soon as it sees the stop flag. When the submit
  process has more reports than the pipe holds, it cannot end, and its join has no
  timeout; when tasks are left that do not fit in the other pipe, `join_thread` waits for a
  reader that is gone. `ShutdownEnds` excepts both (`ReportsStuck`, `TasksStuck`).
- *Submit process without a parent* (`workqueue/executor.py:866`, `taskvine/manager.py:215`).
  It looks at its parent only between rounds: it waits for ever when there is nothing to
  do, and also when the parent was killed with unwritten tasks, since `qsize` counts them.
- *Closing without an interchange* (`zmq_pipes.py:98-103`). After a version mismatch a
  command waits for ever, and with it the poller and its `close`; `CloseEnds` excepts it.
- *Starter*, visible in the source: in `task_exit` mode the future shows before the record
  is in the file and before it is wiped (`dflow.py:544-595`); a flush swaps the queue away
  before it opens the file (`1290-1302`); `make_rundir` takes the number and makes the
  directory without a retry (`rundirs.py:21-32`).
- *A rollback that fails* is only logged (`src/solution/dflow.py:1345-1346`);
  `AckedSurvives` exempts such runs.

### Bounds

- Three tasks are the least with a task that needs two others (fan-in, and two
  dependents' launches racing), and the least for two equal calls in flight plus a
  third one after them. The handlers are per task and interact only through the memo
  entry of a shared hash, the queue, the launch queue and their dependencies, all of
  which occur with three. One hash: entries of different hashes do not touch.
- One retry makes the stale launch item possible (an attempt fails while an earlier
  launch item of the same task is still queued); a second one repeats it.
- `repaired_publish` has no retries and no dependencies: they are the business of
  `repaired_launch`, and what is proved has neither bound.
- Fault kinds are sets of names: a fault may strike every time it can, or never.
- `Recovered` is empty in the runs; the proofs allow any set.
- `CheckpointLog` bounds outcomes (`MaxOutcomes`), processes (`MaxRuns`) and failed
  rollbacks (one per run). Three outcomes give an acknowledged record, a batch of two
  that can be cut in the middle, or a newer value for a hash; three runs give a
  recovery from two runs with different values.
- `RunDirs` needs no bound: numbers grow only with launchers.
- `htex`: m1 has one worker and room for two tasks, so a task waits behind another one
  (prefetch), and dies with it or is drained with it; m2 is a second place to go, of
  another capacity, that stays alive. Tasks interact only through room and order, for
  which two suffice. A manager registers once: an expired manager's identity is never
  used again, since every manager process draws a uid of its own.
- `mpi`: two nodes and three tasks are the least with a task running, one in the backlog
  and one that comes in between; a task answers at most twice.
- `scaling`: `NumBlocks` bounds the block ids of a behaviour. With three, two initial
  blocks can fail or be given back and one more be asked for; with one task the load is
  zero, full, or less than the slots. The proportion of tasks to slots is a CONSTANT.
  Five mixes of faults, not all, keep the run small; each fault that a strategy's count
  depends on (held, unknown, orphaned) comes with a strategy that counts.
- `providers`: jobs interact only where one query answers for all, one command cancels
  several, or EC2's answers come in another order: two suffice. `MaxNodes` is EC2's limit.
- `queues`: two tasks, so that one is in Work Queue while another is on the way or
  refused, and pipes of one message, so that two fill each of them; what is proved has no
  bound.
- `monitoring`: one try and a pipe of one message. The tries of a task share no state
  but the queues, and one try with two kernel messages, first, usage and last fills them
  in every order. `PipeRoom` is the capacity of the operating system's pipe.
- Deadlock is not checked in these runs: a workflow ends, and so do launchers, joins,
  the last process, an executor without tasks, a poller that is closed.

### Fairness

Liveness is checked under weak fairness of each thread's own steps:
`RepairedDataFlow!Fairness` obliges a submit call once it is registered, the launch
thread, running bodies and completion handlers, the last being one thread per task
(a body that never returns would block its future, which is no fault of the kernel).
Nobody is obliged to submit, checkpoint, wait or clean up. `JoinApp`'s fairness is the
same, with weak fairness of each thread's attempt to take `join_lock`: the lock is
free for good after finitely many callbacks, so a fair lock is not needed.
`RunDirs!DirsFairSpec` lets each launcher run on: a collision moves to the next number,
and there are finitely many launchers. `HighThroughput!Fairness` obliges the loops that
run as long as their process does: the client's result thread, the interchange's poll
loop for each message it can read, feeder threads, the watchdog, and workers, whose
bodies are taken to return. `Expire` is obliged only for a manager that is gone. Nobody
is obliged to submit, drain, hold, stop or die.

The other modules follow the same rule. `MPIScheduler` obliges both threads and the
workers, and the recursion limit strongly: a recursion that stands for ever is not
possible in Python. `BlockScaling` obliges the poller's timer. `Providers` obliges
`status`, which the poller calls again and again, and of which some call gets its answer;
schedulers owe nothing, and EC2 no order: there only a call that changes the table in
every order is obliged (`TellsSomething`). `QueueExecutors` obliges the submitting thread,
the submit process, the collector, the factory and a shutdown that has begun; Work
Queue's `wait` strongly, since it is called in a loop with other things in between.
`Monitoring` obliges every process that runs; the router strongly, since its socket is
polled in a loop.

## Proofs

`tlapm` checks the eight proof modules; nothing is taken on trust. All hold for every
value of the constants that the modules' named assumptions allow.

**`RepairedDataFlowProofs`** holds for every set of tasks and keys, every dependency
graph, key assignment, retry bound and cost, every combination of modes, faults and
calls. The assumptions are those of `DataFlowCore`: `None` is no task, `NoKey` is no
key, the functions have the obvious domains and ranges.

The properties are not inductive by themselves. The invariant is

    IInv == TypeOK /\ Control /\ DependenciesFirst /\ Listing /\ Hashing
              /\ Recording /\ Reuse /\ MemoIsDurable /\ RecordedOnce

`Control` ties the status of a record, the executor future and the AppFuture to the
place of the thread that handles the task. Its key conjunct is that a pending task
with a busy thread is handled by the launch thread: the launch thread handles one task
at a time, so a task it takes off the queue and finds pending is idle, which is why
stale queue items are harmless. `Listing`, `Hashing`, `Recording` and `Reuse` say what
has been done, at each place of the thread, to the task table, the hash, the
checkpoint and the memo. `Recording` says that exactly the tasks past the recording
step are in the queue or the file: a task about to be recorded is not there yet, which
gives `RecordedOnce`, and a task in the failure branch is not there, which gives
`RecordedSucceeds`. There is one lemma per action with a step per part it can disturb.

Theorems: `NoDoubleRun` (`SingleAttempt`), `DependencyOrder` (`DependenciesFirst`),
`Settlement` (`VisibleIsSettled`) from `Finalization`, `Durability`, `DurableMemo` and
`Reusing`, `CleanRecord` (`RecordsSuccessesOnce`) from `NoDuplicates` and `OnlySuccesses`,
`Keeping` (`OutcomesKept`), and `Implementation` (`KeepsContract`): the initial state maps
to an initial state of `Publication` and every step to a step or a stutter. `Keeping`
rests on the invariant: only a task that succeeded is in the queue or the file, so a
step that changes neither cannot lose an outcome, and a flush moves the whole queue.

**`StarterDataFlowProofs`** holds for the same range of workflows, faults and calls. The
invariant is

    IInv == TypeOK /\ Control /\ DependenciesFirst /\ Listing /\ Hashing
              /\ Settling /\ Recording /\ Waiting /\ RecordedOnce

As shipped the future is done first, so `Settling` and `Recording` say how far behind the
books may be: a done future without a memo entry or a record belongs to a task whose
thread is still in `handle_app_update`. `Waiting` is what `wait_for_current_tasks` rests
on: a task submitted before the call is in the list that the caller copied, or its future
was done. Since the record leaves the task table only after the future is done, that holds
when the list is copied, which is where the repaired kernel differs. The theorems are
`NoDoubleRun` (`SingleAttempt`), `DependencyOrder` (`DependenciesFirst`), `WaitIsComplete`
(`WaitCoversSubmitted`) and `LateBookkeeping` (`LateButComplete`). What `checkpoint`
writes is a loop over the queue, the recursive function `written`; what it contains and
that it names nobody twice is proved by `LoopInduction`, see below.

**`HighThroughputProofs`** holds for any managers and workers, every capacity, every
combination of events and faults. The one assumption beyond the obvious domains is
that the set of tasks is finite, which `Cardinality` needs. The invariant is

    IInv == TypeOK /\ Whereabouts /\ Attention /\ Sending /\ InPending /\ InWork
              /\ InFeeder /\ InNotes /\ WorkerStates /\ Keeping

`Whereabouts` is the interchange's side: a task that it tracks has one owner, and only
ready managers own any. `Attention` holds what the dispatcher relies on. The managers'
side says where a task really is: `Sending` that it has left the queue for good,
`InPending`, `InWork`, `InFeeder` and `InNotes` that its places exclude each other. The
one overlap is a worker that has put its answer and not yet popped its note: if it is
killed there, the watchdog answers once more, so there may be two answers and never
three. `Keeping` joins the sides: what a manager holds is its own in the
interchange's table, unless it was expired, which gives `DrainedIsIdle`. There is one
lemma per action. The theorems are `AllTracked` (`TasksTracked`), `AtMostOnce`
(`RunsOnce`), `Draining` (`DrainedIsIdle`) and `AllServed` (`ManagersServed`).

**`MPISchedulerProofs`** holds for any nodes, tasks, sizes and faults. The first invariant
is `TypeOK` with `Balance` (the queue holds what the counter says, plus what the thread in
the lock has reserved and not taken, plus what is put back and not counted), `Locking`,
`Waiting` and `Returning` (the nodes of the task that is being answered do not change
meanwhile, since a task that waits for nodes has none on record). It gives
`NeverStuckInLock` (`CounterBehindQueue`). `Stages` adds that a task is at one place on
its way and answered once when no fault answers twice, and `Sharing` that the nodes of the
owners are disjoint and complete; they give `NodesShared` (`NodesOwned`).
`TwoNeverDropped` is `NoneDropped`: with at most two tasks that ask for nodes, each of
which fits, no answer is lost and no task forgotten. It needs `Sizes` (what a hand, the
backlog and the nodes in use can amount to), `Ample` (every node that the two do not have
is counted, so the thread that has counted the nodes of one finds enough for the other)
and `Roomy` (therefore the recursion never takes a second turn, and nothing is lost in
it). The assumption is that the set of tasks is finite.

**`BlockScalingProofs`** holds for any number of blocks and tasks, any limits, every
strategy, error handler and fault. The invariant is

    IInv == TypeOK /\ Recorded /\ Closing /\ Starting

`Recorded` relates, block by block, the job in the scheduler to the job ids, the table and
the simulated statuses: a live job has a launched block whose status is open, whatever
order reports, failed launches and failed cancellations came in. `Closing` says that the
poller has been joined before `close` chooses whom to cancel. `JobsKept` is
`NoJobForgotten`; `Finality` (`RecordedIsFinal`) and `OnlyDead` (`GivesUpOnlyDead`) are
action properties that rest on the invariant. `Limited` is `WithinMaxBlocks`, an action
property too, under the assumption `InitBlocks <= MaxBlocks`, since the first blocks are
launched without a look at the limit. It holds for held, unknown and orphaned blocks: a
live job that is not overlooked is counted as running or pending (`SeenIsActive`), what a
strategy asks for fits with those (`AskingFits`), and no other step starts a job.

**`QueueExecutorsProofs`** holds for any number of tasks and any faults. The invariant is

    IInv == TypeOK /\ Handling /\ Once /\ Known /\ Entered /\ Present /\ Keyed
              /\ Ending /\ CounterFollows

`Once` says that a task is in at most one of queue, hand, Work Queue, reports and the
collector's hand, also when a process dies with a part of its queue. `Known` and `Entered`
say that its future is in the table before it gets there and until its report is read, so
that a report that is keyed as the table is finds its future; `Keyed`
that only refused tasks are reported otherwise. `Ending` keeps the collector's reasons:
when it has failed everybody because the process is dead, `submit` finds it dead too.
`CounterFollows` is about cardinalities of finite sets, and about the step between a
future and its count. `Whereabouts` is `InOnePlace`,
`Answering` is `NoneLeftWaiting`.

**`ProvidersProofs`** holds for every provider, any number of jobs and any commands that
fail. `Reading` goes through the tables once and shows that what a table calls an end is
one, but for `Misread`. The invariant is kept job by job:

    IInv == setup \in Setups /\ TypeOK /\ InfraOK
              /\ \A j \in Jobs : JobOK(j) /\ LookOK(j) /\ CancelOK(j)

`JobOK` says that a job the provider knows was submitted and one its scheduler forgot is
over, so that a missing answer means an end; `LookOK` that what local saw of a process
before it reads the exit code file still holds; `CancelOK` excludes running after an
answered cancel. `Takes` sums up every provider's cancel: jobs put on record as over, or
answered for, are among those taken out. `InfraOK` ties the number of networks to the
state file and the failed runs. They give `CancelledStaysOver` (`CancelledIsOver`),
`OneNetwork` (`OneVpc`) and, as an action property, `TrueEnds` (`EndsAreReal`).

**`KernelProofs`** has four parts, of models that share no variable.

*Checkpoint files*, for any number of runs, records and failures. `Writing` says what file
and `original` are at each file operation (the acknowledged records, then the batch),
`Cuttable` that a rollback cuts inside the file, `Future` that later runs have written
nothing. `Surviving` is `AckedSurvives`. `RecoveryIsNewest` is the action property
`NewestWins`. It rests on a second invariant: `Counted`, what waits to be written is newer
than all that was acknowledged; `Saved`, for each hash some file has a value that is not
older than the acknowledged one and no later file has an older one; `RollbackIsSafe`, the
same would hold of the files as a rollback would leave them, so that cutting takes nothing
that recovery needs, and leaving a partial batch behind adds only what is newer;
`BatchIsLast`, a batch that is about to be acknowledged is the end of its file. Recovery
itself concatenates files and lets the last record of a hash win. The lemmas
`LastOfConcat` and `LastOfFlatten` say what that yields for any number of files.

*Run directories*, for any number of launchers and any run root. `Ownership`
(`DirectoriesOwned`) follows from `Distinctness`, `Chronology` and `Freshness`. The
invariant adds that a scan met the directories of all launchers that were done when it
began and that the number chosen is above everything the scan met.

*Join apps*, for any set of inner futures. The invariant says that only the holder of
`join_lock` is between its look at the inner futures and the update, that a task which is
no longer joining has been, or is about to be, updated by that thread, and that inner
futures stay done. `Following` is `OuterFollowsInner`; `MutualExclusion` is stated beside
it.

*Monitoring*, for any number of tries, any room in the pipe and every setup. The invariant
is

    MonitorIInv == Typed /\ Sorted /\ Unique /\ Keyed /\ Placed /\ Explained

`Placed` and `Explained` are what is wanted: a message that was sent is on its way,
deferred, in the database or lost, and what is lost has a reason. The rest is needed
because the manager's inserts fail when a row is there already: `Unique` says that a
message of the kernel is at one station of its way, once, and at none when its row exists,
`Sorted` that the kernel's messages and the radios' keep to their queues, `Keyed` that a
first message which is written has its try in the table, with the running time.
`NothingVanishes` is `Accounted`.

### What the proofs do not reach

All invariants and action properties that the runs check are proved. Everything under
fairness stays with TLC, as TLAPS 1.4.5 proves no liveness and knows no ENABLED:
`EventuallyVisible`, `OuterEventuallySet`, `EveryLauncherStarts`, `EventuallyAnswered`,
`BacklogMoves`, `CloseEnds`, `EndIsSeen`, `SentIsAnswered`, `ShutdownEnds`,
`EachIsRecorded` and `CloseReturns`.

The library's induction theorems take an operator as a parameter, which the installed
provers cannot instantiate. Where a loop or a fold needs induction it is written as a
recursive function over an interval, and the fact about it is proved from the natural
numbers being well founded: a set of numbers that contains 0 and with each number the next
contains all (`LoopInduction`). This is how `written` in `StarterDataFlow`, `Among` in
`Monitoring` and the library's `FlattenSeq` in `CheckpointLog` are handled.

## Not modelled

- Arguments, results, logging and time stamps. A result is identified with its task.
- Staging: to the kernel a stage-in is one more dependency and a stage-out one more task.
- One workflow calls `checkpoint`, `wait_for_current_tasks` and `cleanup` at most once
  at a time, and one thread calls `cleanup`. `task_count`, which `submit` increments
  without a lock (`dflow.py:997`), and `cleanup_called`, which is tested and set without
  one (`dflow.py:1199`), are therefore not raced for.
- In `RepairedDataFlow` a write to `tasks.pkl` is one step. `CheckpointLog` models the
  inside of it.
- What an unpicklable result does to the starter's checkpoint file.
- A join on a list that names a future twice; joins inside a workflow with a memo.
- `dependency_resolver`: the set of dependencies is taken as given.
- In HTEX: priorities, heartbeat arithmetic, the read-only commands, starting the
  interchange, and a worker killed while it holds a lock of a `multiprocessing.Queue`.
- In `BlockScaling`: a block that gets a task between the query of the managers and its
  hold; several executors under one poller, of which an exception in one handler stops
  the strategy for all.
- In `Providers`: credentials, templates, Azure's network; jobs submitted by others.
- In `QueueExecutors`: files, packages, resource options, a start whose process cannot
  be made, and a process that is killed in the middle of a message or with a lock of a
  queue.
- In `Monitoring`: the TASK_INFO of a try that is pending (`dflow.py:392`, `1093`), which
  would only make the try known earlier; samples of resource usage during a try other than
  one, node, block and file messages, retried statements after an operational error, a UDP
  message that is cut or fails its check (it is lost), and what the database itself does.
- The components marked `not_modelled` in `PROJECT.json`, each with the reason: pure
  conversions (serialization, launchers, dependency resolvers), I/O (transfers, the web
  view, usage messages), adapters whose protocol is in a system outside the repository
  (Flux, Radical, Globus Compute), and configurations.
