--------------------------- MODULE HighThroughput --------------------------
(***************************************************************************)
(* The HighThroughputExecutor: the client in the workflow's process        *)
(* (executor.py), the interchange (interchange.py), and managers with      *)
(* their worker processes (process_worker_pool.py).                        *)
(*                                                                         *)
(* The interchange is one thread that waits only in poll, so each of its   *)
(* handlers is one step.  expire_drained_managers runs after every message *)
(* and is part of the steps that can give it something to do; a visit of   *)
(* process_tasks_to_send to one manager is a step of its own.              *)
(*                                                                         *)
(* Messages of different tasks do not depend on their order, so a channel  *)
(* is the set or the number of its messages.  reports[m][t] counts answers *)
(* for t anywhere between a worker's pipe and the interchange's socket,    *)
(* and pending[m] holds the tasks between the interchange and a worker.    *)
(* Contents, priorities, heartbeats and monitoring are abstracted.         *)
(***************************************************************************)
EXTENDS Naturals, FiniteSets

CONSTANTS
  Tasks, Managers, Workers,
  Home,      \* Home[w]: the manager of worker w
  Capacity,  \* Capacity[m]: max_capacity, workers and prefetch
  Faults,    \* of the client: "pack", "unpack"
  Events,    \* Events[m]: "die", "late", "hold", "drain", "worker dies"
  None

ASSUME HomeAssumption == Home \in [Workers -> Managers]
ASSUME CapacityAssumption == Capacity \in [Managers -> Nat \ {0}]
ASSUME NoneAssumption == None \notin Tasks
ASSUME TasksAssumption == IsFiniteSet(Tasks)

VARIABLES
  (* client *)
  fut,        \* fut[t]: "none", "pending", "unsent", "done", "abandoned"
  receiving,  \* _result_queue_worker runs
  toIx,       \* outgoing_q
  answers,    \* answers[t]: messages for t in incoming_q
  (* interchange *)
  queued,       \* pending_task_queue
  reg,          \* reg[m]: "new", "sent", "ready", "drained", "expired"
  assigned,     \* assigned[m]: m['tasks']
  interesting,  \* interesting_managers
  held,         \* managers with active = False by HOLD_WORKER
  draining,     \* managers with draining = True
  (* managers *)
  up, pending, reports,
  drainReq,   \* drainReq[m]: "no", "sent", "read"
  (* workers *)
  work,       \* work[w]: "idle", "taken", "running", "finished", "dead"
  wtask,      \* the task in the hands of w
  noted,      \* tasks_in_progress[w]
  unflushed,  \* results that the queue's feeder thread has yet to write
  (* history *)
  lost        \* tasks that died with a worker without a trace

clientVars == <<fut, receiving, toIx, answers>>
ixVars == <<queued, reg, assigned, interesting, held, draining>>
managerVars == <<up, pending, reports, drainReq>>
workerVars == <<work, wtask, noted, unflushed, lost>>
vars == <<clientVars, ixVars, managerVars, workerVars>>

(* The executor's table: a future, also of a task that could not be sent.  *)
Table == {t \in Tasks : fut[t] \in {"pending", "unsent"}}
Ready == {m \in Managers : reg[m] = "ready"}
Crew(m) == {w \in Workers : Home[w] = m}

InitClient ==
  /\ fut = [t \in Tasks |-> "none"]
  /\ receiving = TRUE
  /\ toIx = {}
  /\ answers = [t \in Tasks |-> 0]

InitInterchange ==
  /\ queued = {}
  /\ reg = [m \in Managers |-> "new"]
  /\ assigned = [m \in Managers |-> {}]
  /\ interesting = {} /\ held = {} /\ draining = {}

InitManagers ==
  /\ up = [m \in Managers |-> FALSE]
  /\ pending = [m \in Managers |-> {}]
  /\ reports = [m \in Managers |-> [t \in Tasks |-> 0]]
  /\ drainReq = [m \in Managers |-> "no"]

InitWorkers ==
  /\ work = [w \in Workers |-> "idle"]
  /\ wtask = [w \in Workers |-> None]
  /\ noted = [w \in Workers |-> None]
  /\ unflushed = [w \in Workers |-> {}]
  /\ lost = {}

Init == InitClient /\ InitInterchange /\ InitManagers /\ InitWorkers

(***************************************************************************)
(* The client.                                                             *)
(***************************************************************************)
Submit(t) ==
  /\ fut[t] = "none"
  /\ fut' = [fut EXCEPT ![t] = "pending"]
  /\ toIx' = toIx \cup {t}
  /\ UNCHANGED <<receiving, answers, ixVars, managerVars, workerVars>>

(* pack_apply_message raises when the future is already in the table.      *)
SubmitFails(t) ==
  /\ "pack" \in Faults
  /\ fut[t] = "none"
  /\ fut' = [fut EXCEPT ![t] = "unsent"]
  /\ UNCHANGED <<receiving, toIx, answers, ixVars, managerVars, workerVars>>

(* The result thread.  tasks.pop raises KeyError for a task that is not in *)
(* the table, and that ends the thread.                                    *)
Receive(t) ==
  /\ receiving
  /\ answers[t] > 0
  /\ answers' = [answers EXCEPT ![t] = @ - 1]
  /\ IF t \in Table
       THEN fut' = [fut EXCEPT ![t] = "done"] /\ UNCHANGED receiving
       ELSE receiving' = FALSE /\ UNCHANGED fut
  /\ UNCHANGED <<toIx, ixVars, managerVars, workerVars>>

(* deserialize(msg['result']) raises, after the pop and outside any try.   *)
ReceiveFails(t) ==
  /\ "unpack" \in Faults
  /\ receiving
  /\ answers[t] > 0
  /\ t \in Table
  /\ answers' = [answers EXCEPT ![t] = @ - 1]
  /\ fut' = [fut EXCEPT ![t] = "abandoned"]
  /\ receiving' = FALSE
  /\ UNCHANGED <<toIx, ixVars, managerVars, workerVars>>

(***************************************************************************)
(* The interchange.                                                        *)
(***************************************************************************)
TaskIncoming(t) ==
  /\ t \in toIx
  /\ toIx' = toIx \ {t}
  /\ queued' = queued \cup {t}
  /\ UNCHANGED <<fut, receiving, answers, reg, assigned, interesting, held,
                 draining, managerVars, workerVars>>

Registration(m) ==
  /\ reg[m] = "sent"
  /\ reg' = [reg EXCEPT ![m] = "ready"]
  /\ interesting' = interesting \cup {m}
  /\ UNCHANGED <<clientVars, queued, assigned, held, draining, managerVars, workerVars>>

(* Mutant: draining managers go whatever tasks they have.                  *)
ExpireDraining(A, D, I) ==
  LET gone == I \cap D IN
  /\ reg' = [m \in Managers |-> IF m \in gone THEN "drained" ELSE reg[m]]
  /\ interesting' = I \ gone

(* expire_drained_managers, given tasks A, draining managers D and         *)
(* interesting managers I.                                                 *)
ExpireDrained(A, D, I) ==
  LET gone == {m \in I \cap D : A[m] = {}} IN
  /\ reg' = [m \in Managers |-> IF m \in gone THEN "drained" ELSE reg[m]]
  /\ interesting' = I \ gone

(* Mutant: a manager that had no room does not become interesting again.   *)
ResultQuiet(m, t) ==
  /\ reports[m][t] > 0
  /\ reports' = [reports EXCEPT ![m][t] = @ - 1]
  /\ IF m \in Ready /\ t \in assigned[m]
       THEN /\ assigned' = [assigned EXCEPT ![m] = @ \ {t}]
            /\ answers' = [answers EXCEPT ![t] = @ + 1]
            /\ ExpireDrained(assigned', draining, interesting)
       ELSE UNCHANGED <<assigned, answers, reg, interesting>>
  /\ UNCHANGED <<fut, receiving, toIx, queued, held, draining, up, pending,
                 drainReq, workerVars>>

(* A result from a manager that is not in the table is ignored, and so is  *)
(* one for a task that the manager does not have (any more).               *)
Result(m, t) ==
  /\ reports[m][t] > 0
  /\ reports' = [reports EXCEPT ![m][t] = @ - 1]
  /\ IF m \in Ready /\ t \in assigned[m]
       THEN /\ assigned' = [assigned EXCEPT ![m] = @ \ {t}]
            /\ answers' = [answers EXCEPT ![t] = @ + 1]
            /\ ExpireDrained(assigned', draining, interesting \cup {m})
       ELSE UNCHANGED <<assigned, answers, reg, interesting>>
  /\ UNCHANGED <<fut, receiving, toIx, queued, held, draining, up, pending,
                 drainReq, workerVars>>

DrainRequest(m) ==
  /\ drainReq[m] = "sent"
  /\ reg[m] # "sent"
  /\ drainReq' = [drainReq EXCEPT ![m] = "read"]
  /\ IF m \in Ready
       THEN /\ draining' = draining \cup {m}
            /\ ExpireDrained(assigned, draining', interesting)
       ELSE UNCHANGED <<draining, reg, interesting>>
  /\ UNCHANGED <<clientVars, queued, assigned, held, up, pending, reports, workerVars>>

(* Mutant: the record of an expired manager stays.                         *)
ExpireKeeps(m) ==
  /\ m \in Ready
  /\ ~up[m] \/ "late" \in Events[m]
  /\ answers' = [t \in Tasks |-> IF t \in assigned[m] THEN answers[t] + 1 ELSE answers[t]]
  /\ interesting' = interesting \ {m}
  /\ UNCHANGED <<fut, receiving, toIx, queued, reg, assigned, held, draining,
                 managerVars, workerVars>>

(* Mutant: an expired manager's tasks go back to the queue.                *)
ExpireRequeues(m) ==
  /\ m \in Ready
  /\ ~up[m] \/ "late" \in Events[m]
  /\ queued' = queued \cup assigned[m]
  /\ reg' = [reg EXCEPT ![m] = "expired"]
  /\ assigned' = [assigned EXCEPT ![m] = {}]
  /\ interesting' = interesting \ {m}
  /\ UNCHANGED <<clientVars, held, draining, managerVars, workerVars>>

(* expire_bad_managers: heartbeats are missing because the manager is gone *)
(* or because they are delayed.                                            *)
Expire(m) ==
  /\ m \in Ready
  /\ ~up[m] \/ "late" \in Events[m]
  /\ answers' = [t \in Tasks |-> IF t \in assigned[m] THEN answers[t] + 1 ELSE answers[t]]
  /\ reg' = [reg EXCEPT ![m] = "expired"]
  /\ assigned' = [assigned EXCEPT ![m] = {}]
  /\ interesting' = interesting \ {m}
  /\ UNCHANGED <<fut, receiving, toIx, queued, held, draining, managerVars, workerVars>>

Room(m) == Capacity[m] - Cardinality(assigned[m])

(* get_tasks: n tasks, or all there are; which ones depends on priorities. *)
Batches(n) ==
  {batch \in SUBSET queued : Cardinality(batch) = n
                              \/ (Cardinality(batch) < n /\ batch = queued)}

(* One manager's turn in process_tasks_to_send.  What is sent to a manager *)
(* that is gone is dropped by the socket.                                  *)
VisitManager(m) ==
  /\ m \in interesting
  /\ queued # {}
  /\ IF Room(m) > 0 /\ m \notin held /\ m \notin draining
       THEN \E batch \in Batches(Room(m)) :
              /\ queued' = queued \ batch
              /\ assigned' = [assigned EXCEPT ![m] = @ \cup batch]
              /\ pending' = IF up[m] THEN [pending EXCEPT ![m] = @ \cup batch] ELSE pending
              /\ interesting' = IF Cardinality(batch) = Room(m)
                                  THEN interesting \ {m} ELSE interesting
       ELSE /\ interesting' = interesting \ {m}
            /\ UNCHANGED <<queued, assigned, pending>>
  /\ UNCHANGED <<clientVars, reg, held, draining, up, reports, drainReq, workerVars>>

Hold(m) ==
  /\ "hold" \in Events[m]
  /\ m \in Ready \ held
  /\ held' = held \cup {m}
  /\ UNCHANGED <<clientVars, queued, reg, assigned, interesting, draining,
                 managerVars, workerVars>>

(***************************************************************************)
(* A manager.                                                              *)
(***************************************************************************)
Start(m) ==
  /\ reg[m] = "new"
  /\ reg' = [reg EXCEPT ![m] = "sent"]
  /\ up' = [up EXCEPT ![m] = TRUE]
  /\ UNCHANGED <<clientVars, queued, assigned, interesting, held, draining,
                 pending, reports, drainReq, workerVars>>

(* drain_to_incoming, once.                                                *)
RequestDrain(m) ==
  /\ "drain" \in Events[m]
  /\ up[m]
  /\ drainReq[m] = "no"
  /\ drainReq' = [drainReq EXCEPT ![m] = "sent"]
  /\ UNCHANGED <<clientVars, ixVars, up, pending, reports, workerVars>>

(* The manager is killed, has read DRAINED_CODE, or gives up after being   *)
(* ignored for heartbeat_threshold.  What its workers still do reaches     *)
(* nobody, and messages that have not left yet (LINGER is 0) may be lost.  *)
Stop(m) ==
  /\ up[m]
  /\ "die" \in Events[m] \/ reg[m] \in {"drained", "expired"}
  /\ up' = [up EXCEPT ![m] = FALSE]
  /\ pending' = [pending EXCEPT ![m] = {}]
  /\ \E left \in [Tasks -> 0..2] :
       /\ \A t \in Tasks : left[t] <= reports[m][t]
       /\ reports' = [reports EXCEPT ![m] = left]
  /\ drainReq' \in {drainReq, [drainReq EXCEPT ![m] = "read"]}
  /\ work' = [w \in Workers |-> IF Home[w] = m THEN "dead" ELSE work[w]]
  /\ wtask' = [w \in Workers |-> IF Home[w] = m THEN None ELSE wtask[w]]
  /\ noted' = [w \in Workers |-> IF Home[w] = m THEN None ELSE noted[w]]
  /\ unflushed' = [w \in Workers |-> IF Home[w] = m THEN {} ELSE unflushed[w]]
  /\ UNCHANGED <<clientVars, ixVars, lost>>

(* Mutant: a dead worker is only restarted.                                *)
WatchdogRestarts(w) ==
  /\ up[Home[w]]
  /\ work[w] = "dead"
  /\ work' = [work EXCEPT ![w] = "idle"]
  /\ noted' = [noted EXCEPT ![w] = None]
  /\ UNCHANGED <<clientVars, ixVars, managerVars, wtask, unflushed, lost>>

(* worker_watchdog reports the task a dead worker had noted and starts a   *)
(* new process in its place.                                               *)
Watchdog(w) ==
  LET m == Home[w] IN
  /\ up[m]
  /\ work[w] = "dead"
  /\ work' = [work EXCEPT ![w] = "idle"]
  /\ noted' = [noted EXCEPT ![w] = None]
  /\ IF noted[w] = None THEN UNCHANGED reports
       ELSE reports' = [reports EXCEPT ![m][noted[w]] = @ + 1]
  /\ UNCHANGED <<clientVars, ixVars, up, pending, drainReq, wtask, unflushed, lost>>

(***************************************************************************)
(* A worker process.                                                       *)
(***************************************************************************)
(* task_queue.get returns.                                                 *)
Take(w, t) ==
  /\ work[w] = "idle"
  /\ up[Home[w]]
  /\ t \in pending[Home[w]]
  /\ pending' = [pending EXCEPT ![Home[w]] = @ \ {t}]
  /\ work' = [work EXCEPT ![w] = "taken"]
  /\ wtask' = [wtask EXCEPT ![w] = t]
  /\ UNCHANGED <<clientVars, ixVars, up, reports, drainReq, noted, unflushed, lost>>

(* tasks_in_progress[worker_id] = req, and the task runs.                  *)
Note(w) ==
  /\ work[w] = "taken"
  /\ noted' = [noted EXCEPT ![w] = wtask[w]]
  /\ work' = [work EXCEPT ![w] = "running"]
  /\ UNCHANGED <<clientVars, ixVars, managerVars, wtask, unflushed, lost>>

(* result_queue.put hands the answer to the queue's feeder thread.         *)
Finish(w) ==
  /\ work[w] = "running"
  /\ unflushed' = [unflushed EXCEPT ![w] = @ \cup {wtask[w]}]
  /\ work' = [work EXCEPT ![w] = "finished"]
  /\ UNCHANGED <<clientVars, ixVars, managerVars, wtask, noted, lost>>

(* tasks_in_progress.pop(worker_id).                                       *)
Forget(w) ==
  /\ work[w] = "finished"
  /\ noted' = [noted EXCEPT ![w] = None]
  /\ wtask' = [wtask EXCEPT ![w] = None]
  /\ work' = [work EXCEPT ![w] = "idle"]
  /\ UNCHANGED <<clientVars, ixVars, managerVars, unflushed, lost>>

(* The feeder thread writes an answer to the pipe.                         *)
Flush(w, t) ==
  /\ t \in unflushed[w]
  /\ unflushed' = [unflushed EXCEPT ![w] = @ \ {t}]
  /\ reports' = [reports EXCEPT ![Home[w]][t] = @ + 1]
  /\ UNCHANGED <<clientVars, ixVars, up, pending, drainReq, work, wtask, noted, lost>>

(* The process dies, by what it runs or by a signal: its unflushed answers *)
(* and a task it had not noted yet are gone.                               *)
Die(w) ==
  /\ "worker dies" \in Events[Home[w]]
  /\ work[w] # "dead"
  /\ work[w] # "idle" \/ unflushed[w] # {}
  /\ work' = [work EXCEPT ![w] = "dead"]
  /\ wtask' = [wtask EXCEPT ![w] = None]
  /\ unflushed' = [unflushed EXCEPT ![w] = {}]
  /\ lost' = lost \cup ((unflushed[w] \cup (IF work[w] = "taken" THEN {wtask[w]} ELSE {}))
                          \ {noted[w]})
  /\ UNCHANGED <<clientVars, ixVars, managerVars, noted>>

ClientNext == \E t \in Tasks : Submit(t) \/ SubmitFails(t) \/ Receive(t) \/ ReceiveFails(t)

InterchangeNext ==
  \/ \E t \in Tasks : TaskIncoming(t)
  \/ \E m \in Managers :
       \/ Registration(m) \/ DrainRequest(m) \/ Expire(m) \/ VisitManager(m) \/ Hold(m)
       \/ \E t \in Tasks : Result(m, t)

ManagerNext ==
  \/ \E m \in Managers : Start(m) \/ RequestDrain(m) \/ Stop(m)
  \/ \E w \in Workers : Watchdog(w)

WorkerNext ==
  \E w \in Workers :
    \/ Note(w) \/ Finish(w) \/ Forget(w) \/ Die(w)
    \/ \E t \in Tasks : Take(w, t) \/ Flush(w, t)

Next == ClientNext \/ InterchangeNext \/ ManagerNext \/ WorkerNext

Spec == Init /\ [][Next]_vars

(* Threads that run go on: the interchange's loop, the feeder threads, the *)
(* watchdog, workers, the client's result thread.  Nobody has to submit,   *)
(* drain, hold or die, but a manager whose end is due reaches it.          *)
Fairness ==
  /\ \A t \in Tasks : WF_vars(Receive(t)) /\ WF_vars(TaskIncoming(t))
  /\ \A m \in Managers :
       /\ WF_vars(Registration(m)) /\ WF_vars(DrainRequest(m))
       /\ WF_vars(VisitManager(m))
       /\ WF_vars(~up[m] /\ Expire(m))
       /\ \A t \in Tasks : WF_vars(Result(m, t))
  /\ \A w \in Workers :
       /\ WF_vars(Watchdog(w)) /\ WF_vars(Note(w)) /\ WF_vars(Finish(w)) /\ WF_vars(Forget(w))
       /\ WF_vars(\E t \in Tasks : Take(w, t))
       /\ \A t \in Tasks : WF_vars(Flush(w, t))

FairSpec == Spec /\ Fairness

(***************************************************************************)
(* Properties.                                                             *)
(***************************************************************************)
(* Every variable has its type: at most two answers for a task are under   *)
(* way from a manager (the worker's and the watchdog's).                   *)
TypeOK ==
  /\ fut \in [Tasks -> {"none", "pending", "unsent", "done", "abandoned"}]
  /\ receiving \in BOOLEAN
  /\ toIx \subseteq Tasks
  /\ answers \in [Tasks -> 0..1]
  /\ queued \subseteq Tasks
  /\ reg \in [Managers -> {"new", "sent", "ready", "drained", "expired"}]
  /\ assigned \in [Managers -> SUBSET Tasks]
  /\ interesting \subseteq Managers /\ held \subseteq Managers /\ draining \subseteq Managers
  /\ up \in [Managers -> BOOLEAN]
  /\ pending \in [Managers -> SUBSET Tasks]
  /\ reports \in [Managers -> [Tasks -> 0..2]]
  /\ drainReq \in [Managers -> {"no", "sent", "read"}]
  /\ work \in [Workers -> {"idle", "taken", "running", "finished", "dead"}]
  /\ wtask \in [Workers -> Tasks \cup {None}]
  /\ noted \in [Workers -> Tasks \cup {None}]
  /\ unflushed \in [Workers -> SUBSET Tasks]
  /\ lost \subseteq Tasks

(* Where the executor keeps track of t: on the way in, in the queue, with  *)
(* a ready manager, on the way out.                                        *)
Places(t) ==
  {<<"incoming", None>> : x \in {t} \cap toIx}
    \cup {<<"queued", None>> : x \in {t} \cap queued}
    \cup {<<"with", m>> : m \in {n \in Ready : t \in assigned[n]}}
    \cup {<<"answered", None>> : x \in {y \in {t} : answers[y] > 0}}

(* A task whose future waits is in exactly one place, any other in none:   *)
(* no task is forgotten, sent to two managers or answered twice, although  *)
(* managers and workers die and dead ones' answers arrive late.            *)
OnePlace ==
  \A t \in Tasks :
    IF fut[t] = "pending" THEN \E p \in Places(t) : Places(t) = {p} ELSE Places(t) = {}

(* The result thread ends only by an answer it cannot deserialize: late    *)
(* and duplicate answers of managers never reach its tasks.pop.            *)
ReceiverSurvives == ~receiving => \E t \in Tasks : fut[t] = "abandoned"

(* Every future that waits has its task tracked, and somebody who will set *)
(* it when the answer comes.                                               *)
TasksTracked == TypeOK /\ OnePlace /\ ReceiverSurvives

(* A task is in at most one hand that may run it: waiting for a manager,   *)
(* in a manager's queue, or with a worker.  Nothing hands out a task again *)
(* that a dead worker or manager had.                                      *)
RunsOnce ==
  /\ \A m \in Managers : pending[m] \cap (toIx \cup queued) = {}
  /\ \A m, n \in Managers : m # n => pending[m] \cap pending[n] = {}
  /\ \A w \in Workers : work[w] \in {"taken", "running"} =>
       /\ wtask[w] \notin toIx \cup queued \cup lost
       /\ \A m \in Managers : wtask[w] \notin pending[m]
       /\ \A v \in Workers \ {w} : work[v] \in {"taken", "running"} => wtask[v] # wtask[w]

(* When the interchange has let a manager go as drained, the manager and   *)
(* its workers hold no task and no answer that anybody waits for, so       *)
(* stopping it loses nothing.                                              *)
DrainedIsIdle ==
  \A m \in Managers : reg[m] = "drained" =>
    /\ pending[m] = {}
    /\ \A w \in Crew(m) :
         /\ work[w] \notin {"taken", "running"}
         /\ unflushed[w] = {}

(* A ready manager that could take a task is in interesting_managers, the  *)
(* only ones that process_tasks_to_send looks at; and so is one that waits *)
(* for its drained message, unless it is held.                             *)
NoForgottenManager ==
  \A m \in Ready \ held :
    (Room(m) > 0 /\ (m \in draining => assigned[m] = {})) => m \in interesting

(* A manager is never given more than its max_capacity, counting what has  *)
(* been sent and not answered.                                             *)
WithinCapacity == \A m \in Managers : Cardinality(assigned[m]) <= Capacity[m]

(* The scheduler neither forgets a manager with room nor overloads one.    *)
ManagersServed == NoForgottenManager /\ WithinCapacity

(* A task that was given to a manager is answered: by its worker, by the   *)
(* watchdog, or by the expiry of the manager; unless it died with a worker *)
(* that had not noted it or not flushed its answer, or the result thread   *)
(* has ended.  And a manager that asked to be drained is let go, unless it *)
(* is held or a task of it was lost.                                       *)
EventuallyAnswered ==
  /\ \A t \in Tasks :
       (\E m \in Ready : t \in assigned[m])
         ~> (fut[t] # "pending" \/ t \in lost \/ ~receiving)
  /\ \A m \in Managers :
       (m \in draining)
         ~> (m \notin Ready \/ m \in held \/ assigned[m] \cap lost # {})
=============================================================================
