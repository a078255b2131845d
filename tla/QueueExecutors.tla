--------------------------- MODULE QueueExecutors ---------------------------
(***************************************************************************)
(* WorkQueueExecutor and TaskVineExecutor.  submit enters a future in the  *)
(* table and puts the task on a queue to a submit process; the process     *)
(* gives tasks to Work Queue or TaskVine and puts reports on a second      *)
(* queue; a collector thread takes the reports and sets the futures.       *)
(*                                                                         *)
(* The submit process may die at any point, Work Queue may refuse a task,  *)
(* and the process of the executor may go away.  A queue is a pipe that a  *)
(* feeder thread of the writing process fills, so that a process cannot    *)
(* end, nor a queue be closed, while nobody reads from a full one.  Tasks  *)
(* are numbers in the order of executor_task_counter; one thread, the      *)
(* kernel's launch thread, submits.                                        *)
(***************************************************************************)
EXTENDS Integers, Sequences, FiniteSets

CONSTANTS
  NumTasks,
  PipeRoom,  \* messages that the pipe of a queue holds
  Setups  \* [vine: BOOLEAN, faults: a set of "refuse", "raise", "die", "parent", "stop", "factory"]

Tasks == 1..NumTasks

ASSUME SetupsAssumption ==
  /\ NumTasks \in Nat /\ PipeRoom \in Nat
  /\ Setups \subseteq 
       [vine: BOOLEAN, faults: SUBSET {"refuse", "raise", "die", "parent", "stop", "factory"}]

VARIABLES
  setup,
  parent,       \* the process of the executor is there
  (* submit *)
  stage,        \* stage[t]: "none", "entered", "written", "alive", "sent", "counted", "raised"
  tasks,        \* keys of self.tasks
  fut,          \* fut[t]: "none", "pending", "done", "failed"
  outstanding,  \* TaskVine: _outstanding_tasks
  (* submit process *)
  proc,         \* "starting", "top", "fill", "hand", "drain", "leaving", "exited", "dead"
  factory,      \* TaskVine: "none", "up", "ended"
  ready,        \* task_queue, _ready_task_queue
  lost,         \* its size counts tasks that a killed parent never wrote
  hand,         \* the task the process has taken, or 0
  inside,       \* tasks Work Queue or TaskVine has
  reports,      \* collector_queue, _finished_task_queue: [id, known]
  (* collector thread, shutdown *)
  collector,    \* "loop", "get", "set", "count", "failing", "ended"
  current,      \* the future it has taken out of the table, or 0
  stop,         \* should_stop
  shutdown      \* "no", "process", "collector", "factory", "queues", "done"

submitVars == <<stage, tasks, fut, outstanding>>
procVars == <<proc, factory, ready, lost, hand, inside>>
endVars == <<collector, current, stop, shutdown>>
vars == <<setup, parent, submitVars, procVars, reports, endVars>>

Fault(f) == f \in setup.faults
Sent == {"sent", "counted"}
ProcUp == proc \notin {"exited", "dead"}

InitSubmit ==
  /\ stage = [t \in Tasks |-> "none"]
  /\ tasks = {} /\ outstanding = 0
  /\ fut = [t \in Tasks |-> "none"]

(* start of the WorkQueueExecutor waits for the port of Work Queue, and so *)
(* finds the process at its loop; TaskVine's is only started.              *)
InitProc ==
  /\ proc = IF setup.vine THEN "starting" ELSE "top"
  /\ hand = 0 /\ inside = {}

InitFactory == factory = IF setup.vine /\ Fault("factory") THEN "up" ELSE "none"

InitEnds ==
  /\ ready = <<>> /\ lost = FALSE /\ reports = <<>>
  /\ collector = "loop" /\ current = 0 /\ stop = FALSE /\ shutdown = "no"

Init ==
  /\ setup \in Setups
  /\ parent = TRUE
  /\ InitSubmit /\ InitProc /\ InitFactory /\ InitEnds

(***************************************************************************)
(* submit: a resource specification that is not one is raised at once; the *)
(* future enters the table before the process is looked at.                *)
(***************************************************************************)
RejectSpec(t) ==
  /\ stage[t] = "none" /\ \A u \in Tasks : u < t => stage[u] \in {"counted", "raised"}
  /\ stage' = [stage EXCEPT ![t] = "raised"]
  /\ UNCHANGED <<setup, parent, tasks, fut, outstanding, procVars, reports, endVars>>

Enter(t) ==
  /\ stage[t] = "none" /\ \A u \in Tasks : u < t => stage[u] \in {"counted", "raised"}
  /\ stage' = [stage EXCEPT ![t] = "entered"]
  /\ tasks' = tasks \cup {t}
  /\ fut' = [fut EXCEPT ![t] = "pending"]
  /\ UNCHANGED <<setup, parent, outstanding, procVars, reports, endVars>>

(* The function, the package of its environment and the map of its files   *)
(* are written.  What raises here leaves the future in the table, but      *)
(* nobody is given it.                                                     *)
Written(t) ==
  /\ stage[t] = "entered"
  /\ \E to \in {"written", "raised"} : stage' = [stage EXCEPT ![t] = to]
  /\ UNCHANGED <<setup, parent, tasks, fut, outstanding, procVars, reports, endVars>>

WorkQueueWrites(t) == ~setup.vine /\ Written(t)

TaskVineWrites(t) == setup.vine /\ Written(t)

(* A process that has ended makes submit raise, and so does one that       *)
(* shutdown has closed.                                                    *)
CheckAlive(t) ==
  /\ stage[t] = "written"
  /\ stage' = [stage EXCEPT ![t] = IF ProcUp THEN "alive" ELSE "raised"]
  /\ UNCHANGED <<setup, parent, tasks, fut, outstanding, procVars, reports, endVars>>

(* A queue that shutdown has closed makes submit raise. *)
Closed == shutdown \in {"queues", "done"}

Put(t) ==
  /\ stage[t] = "alive"
  /\ IF Closed
       THEN stage' = [stage EXCEPT ![t] = "raised"] /\ UNCHANGED ready
       ELSE /\ stage' = [stage EXCEPT ![t] = IF setup.vine THEN "sent" ELSE "counted"]
            /\ ready' = Append(ready, t)
  /\ UNCHANGED <<setup, parent, tasks, fut, outstanding, proc, factory, lost, hand, inside,
                 reports, endVars>>

(* TaskVine counts a task when it is already on its way.                   *)
Count(t) ==
  /\ stage[t] = "sent"
  /\ stage' = [stage EXCEPT ![t] = "counted"]
  /\ outstanding' = outstanding + 1
  /\ UNCHANGED <<setup, parent, tasks, fut, procVars, reports, endVars>>

(* Mutant: looks at the process first, then enters the future.             *)
CheckThenEnter(t) ==
  /\ stage[t] = "none" /\ \A u \in Tasks : u < t => stage[u] \in {"counted", "raised"}
  /\ stage' = [stage EXCEPT ![t] = IF ProcUp THEN "alive" ELSE "raised"]
  /\ UNCHANGED <<setup, parent, tasks, fut, outstanding, procVars, reports, endVars>>

(* Mutant: what comes after that.                                          *)
PutAndEnter(t) ==
  /\ stage[t] = "alive" /\ ~Closed
  /\ stage' = [stage EXCEPT ![t] = IF setup.vine THEN "sent" ELSE "counted"]
  /\ ready' = Append(ready, t)
  /\ tasks' = tasks \cup {t}
  /\ fut' = [fut EXCEPT ![t] = "pending"]
  /\ UNCHANGED <<setup, parent, outstanding, proc, factory, lost, hand, inside, reports, endVars>>

(* Mutant: those in the place of submit.                                   *)
SubmitChecksFirst(t) == parent /\ (CheckThenEnter(t) \/ PutAndEnter(t) \/ Count(t))

Submit(t) == parent /\
  (RejectSpec(t) \/ Enter(t) \/ WorkQueueWrites(t) \/ TaskVineWrites(t) \/ CheckAlive(t)
    \/ Put(t) \/ Count(t))

(***************************************************************************)
(* The submit process.                                                     *)
(***************************************************************************)
(* TaskVine's manager is made, or cannot be, and the process ends.         *)
StartManager ==
  /\ proc = "starting"
  /\ proc' = "top" \/ (Fault("raise") /\ proc' = "leaving")
  /\ UNCHANGED <<setup, parent, submitVars, factory, ready, lost, hand, inside, reports, endVars>>

(* Mutant: only the parent is looked at.                                   *)
TopIgnoresStop ==
  /\ proc = "top"
  /\ proc' = IF ~parent THEN "leaving" ELSE "fill"
  /\ UNCHANGED <<setup, parent, submitVars, factory, ready, lost, hand, inside, reports, endVars>>

(* Head of the loop: the stop flag, and whether the parent is still there. *)
Top ==
  /\ proc = "top"
  /\ proc' = IF stop \/ ~parent THEN "leaving" ELSE "fill"
  /\ UNCHANGED <<setup, parent, submitVars, factory, ready, lost, hand, inside, reports, endVars>>

(* The process ends, also when it raises, only when the feeder of its      *)
(* reports has written them all.                                           *)
Leave ==
  /\ proc = "leaving" /\ Len(reports) <= PipeRoom
  /\ proc' = "exited"
  /\ UNCHANGED <<setup, parent, submitVars, factory, ready, lost, hand, inside, reports, endVars>>

(* It fills Work Queue as long as tasks are ready, and waits for one here  *)
(* while Work Queue is empty; the parent is not looked at meanwhile.       *)
Take ==
  /\ proc = "fill" /\ ready # <<>>
  /\ proc' = "hand" /\ hand' = Head(ready) /\ ready' = Tail(ready)
  /\ UNCHANGED <<setup, parent, submitVars, factory, lost, inside, reports, endVars>>

Filled ==
  /\ proc = "fill" /\ ready = <<>> /\ ~lost /\ (inside # {} \/ stop)
  /\ proc' = "drain"
  /\ UNCHANGED <<setup, parent, submitVars, factory, ready, lost, hand, inside, reports, endVars>>

(* The reports of Work Queue carry the tag of the task, a string, which is *)
(* how the table is keyed.                                                 *)
Report(t) == [id |-> t, known |-> TRUE]

(* Reports of tasks that were refused carry the number.                    *)
Refusal(t) == [id |-> t, known |-> FALSE]

Give ==
  /\ proc = "hand"
  /\ proc' = "fill" /\ hand' = 0 /\ inside' = inside \cup {hand}
  /\ UNCHANGED <<setup, parent, submitVars, factory, ready, lost, reports, endVars>>

WorkQueueSubmits == ~setup.vine /\ Give

TaskVineSubmits == setup.vine /\ Give

(* The task cannot be created or submitted.                                *)
Refuse ==
  /\ proc = "hand" /\ Fault("refuse")
  /\ proc' = "fill" /\ hand' = 0
  /\ reports' = Append(reports, Refusal(hand))
  /\ UNCHANGED <<setup, parent, submitVars, factory, ready, lost, inside, endVars>>

(* TaskVine: a serverless call that cannot be created is reported and gone *)
(* on with: there is no task object, or the one of an earlier task.        *)
RefuseAndGoOn ==
  /\ proc = "hand" /\ setup.vine /\ Fault("refuse")
  /\ hand' = 0
  /\ reports' = Append(reports, Refusal(hand))
  /\ \/ proc' = "leaving" /\ UNCHANGED inside
     \/ proc' = "fill" /\ inside' = inside \cup {hand}
  /\ UNCHANGED <<setup, parent, submitVars, factory, ready, lost, endVars>>

(* TaskVine: an unknown execution mode, an environment or a library that   *)
(* cannot be made end the process.                                         *)
PrepareRaises ==
  /\ proc = "hand" /\ setup.vine /\ Fault("raise")
  /\ proc' = "leaving" /\ hand' = 0
  /\ UNCHANGED <<setup, parent, submitVars, factory, ready, lost, inside, reports, endVars>>

(* Mutant: the task stays in the table of active tasks.                    *)
WaitKeeps(t) ==
  /\ proc = "drain" /\ ~stop /\ t \in inside
  /\ reports' = Append(reports, Report(t))
  /\ UNCHANGED <<setup, parent, submitVars, proc, factory, ready, lost, hand, inside, endVars>>

(* wait gives a task that is over, with or without a result file.          *)
WaitFinds(t) ==
  /\ proc = "drain" /\ ~stop /\ t \in inside
  /\ inside' = inside \ {t}
  /\ reports' = Append(reports, Report(t))
  /\ UNCHANGED <<setup, parent, submitVars, proc, factory, ready, lost, hand, endVars>>

(* wait gives nothing, there is nothing to wait for, or stop is set.       *)
WaitEnds ==
  /\ proc = "drain"
  /\ proc' = "top"
  /\ UNCHANGED <<setup, parent, submitVars, factory, ready, lost, hand, inside, reports, endVars>>

(* The process is killed, with the reports that are not in the pipe yet.   *)
Die ==
  /\ Fault("die") /\ ProcUp
  /\ proc' = "dead" /\ hand' = 0
  /\ \E n \in 0..Len(reports) : reports' = SubSeq(reports, 1, n)
  /\ UNCHANGED <<setup, parent, submitVars, factory, ready, lost, inside, endVars>>

ProcNext ==
  \/ StartManager \/ Top \/ Leave \/ Take \/ Filled \/ WorkQueueSubmits \/ TaskVineSubmits
  \/ Refuse \/ RefuseAndGoOn \/ PrepareRaises \/ (\E t \in Tasks : WaitFinds(t)) \/ WaitEnds

(***************************************************************************)
(* The collector thread.                                                   *)
(***************************************************************************)
(* Mutant: only the stop flag is looked at.                                *)
CollectorTrusts ==
  /\ parent /\ collector = "loop"
  /\ collector' = IF stop THEN "failing" ELSE "get"
  /\ UNCHANGED <<setup, parent, submitVars, procVars, reports, current, stop, shutdown>>

CollectorLooks ==
  /\ parent /\ collector = "loop"
  /\ collector' = IF stop \/ ~ProcUp THEN "failing" ELSE "get"
  /\ UNCHANGED <<setup, parent, submitVars, procVars, reports, current, stop, shutdown>>

CollectorTimesOut ==
  /\ parent /\ collector = "get" /\ reports = <<>>
  /\ collector' = "loop"
  /\ UNCHANGED <<setup, parent, submitVars, procVars, reports, current, stop, shutdown>>

(* The future is taken out of the table.  A report that is not keyed as    *)
(* the table is raises, and so does a second one for a task.               *)
Collect ==
  /\ parent /\ collector = "get" /\ reports # <<>>
  /\ reports' = Tail(reports)
  /\ LET r == Head(reports) IN
     IF r.known /\ r.id \in tasks
       THEN tasks' = tasks \ {r.id} /\ current' = r.id /\ collector' = "set"
       ELSE collector' = "failing" /\ UNCHANGED <<tasks, current>>
  /\ UNCHANGED <<setup, parent, stage, fut, outstanding, procVars, stop, shutdown>>

(* Then it is set, which runs its callbacks ... *)
SetFuture ==
  /\ parent /\ collector = "set"
  /\ collector' = IF setup.vine THEN "count" ELSE "loop"
  /\ current' = 0
  /\ \E end \in {"done", "failed"} : fut' = [fut EXCEPT ![current] = end]
  /\ UNCHANGED <<setup, parent, stage, tasks, outstanding, procVars, reports, stop, shutdown>>

(* ... and only then does TaskVine's count go down. *)
CountDown ==
  /\ parent /\ collector = "count"
  /\ collector' = "loop"
  /\ outstanding' = outstanding - 1
  /\ UNCHANGED <<setup, parent, stage, tasks, fut, procVars, reports, current, stop, shutdown>>

(* On its way out, with the lock held, it fails every future that is left. *)
FailAll ==
  /\ parent /\ collector = "failing"
  /\ collector' = "ended"
  /\ fut' = [t \in Tasks |-> IF t \in tasks /\ fut[t] = "pending" THEN "failed" ELSE fut[t]]
  /\ UNCHANGED <<setup, parent, stage, tasks, outstanding, procVars, reports, current, stop, shutdown>>

CollectorNext ==
  CollectorLooks \/ CollectorTimesOut \/ Collect \/ SetFuture \/ CountDown \/ FailAll

(***************************************************************************)
(* shutdown, and a parent that goes away.                                  *)
(***************************************************************************)
(* The kernel shuts an executor down from another thread than it submits.  *)
StopExecutor ==
  /\ shutdown = "no" /\ Fault("stop")
  /\ stop' = TRUE /\ shutdown' = "process"
  /\ UNCHANGED <<setup, parent, submitVars, procVars, reports, collector, current>>

JoinProcess ==
  /\ shutdown = "process" /\ ~ProcUp
  /\ shutdown' = "collector"
  /\ UNCHANGED <<setup, parent, submitVars, procVars, reports, collector, current, stop>>

JoinCollector ==
  /\ shutdown = "collector" /\ collector = "ended"
  /\ shutdown' = IF factory = "none" THEN "queues" ELSE "factory"
  /\ UNCHANGED <<setup, parent, submitVars, procVars, reports, collector, current, stop>>

JoinFactory ==
  /\ shutdown = "factory" /\ factory = "ended"
  /\ shutdown' = "queues"
  /\ UNCHANGED <<setup, parent, submitVars, procVars, reports, collector, current, stop>>

(* The queue of tasks is closed, and its feeder is joined: it writes what  *)
(* nobody will read.  The queue of reports has no feeder on this side.     *)
JoinQueues ==
  /\ shutdown = "queues" /\ Len(ready) <= PipeRoom
  /\ shutdown' = "done"
  /\ UNCHANGED <<setup, parent, submitVars, procVars, reports, collector, current, stop>>

Shutdown ==
  parent /\ (StopExecutor \/ JoinProcess \/ JoinCollector \/ JoinFactory \/ JoinQueues)

(* TaskVine's factory waits for the stop event, or cannot be made.         *)
Factory ==
  /\ factory = "up" /\ (stop \/ Fault("raise"))
  /\ factory' = "ended"
  /\ UNCHANGED <<setup, parent, submitVars, proc, ready, lost, hand, inside, reports, endVars>>

(* It is killed, with the tasks that its feeder has not written; the size  *)
(* of the queue, which the submit process goes by, still counts them.      *)
ParentGoes ==
  /\ Fault("parent") /\ parent
  /\ parent' = FALSE
  /\ \/ UNCHANGED <<ready, lost>>
     \/ \E n \in 0..(Len(ready) - 1) : ready' = SubSeq(ready, 1, n) /\ lost' = TRUE
  /\ UNCHANGED <<setup, submitVars, proc, factory, hand, inside, reports, endVars>>

Next ==
  \/ \E t \in Tasks : Submit(t)
  \/ ProcNext \/ Die
  \/ CollectorNext
  \/ Shutdown \/ Factory \/ ParentGoes

(* Threads and processes are not starved, Work Queue finishes what it has, *)
(* and wait finds it.                                                      *)
Spec ==
  /\ Init /\ [][Next]_vars
  /\ \A t \in Tasks : WF_vars(Submit(t)) /\ SF_vars(WaitFinds(t))
  /\ WF_vars(ProcNext)
  /\ WF_vars(CollectorNext) /\ WF_vars(Factory)
  /\ WF_vars(Shutdown /\ shutdown # "no")

-----------------------------------------------------------------------------
TypeOK ==
  /\ parent \in BOOLEAN /\ stop \in BOOLEAN /\ lost \in BOOLEAN
  /\ stage \in [Tasks -> {"none", "entered", "written", "alive", "sent", "counted", "raised"}]
  /\ tasks \subseteq Tasks /\ inside \subseteq Tasks
  /\ fut \in [Tasks -> {"none", "pending", "done", "failed"}]
  /\ outstanding \in Int
  /\ proc \in {"starting", "top", "fill", "hand", "drain", "leaving", "exited", "dead"}
  /\ factory \in {"none", "up", "ended"}
  /\ hand \in Tasks \cup {0} /\ current \in Tasks \cup {0} /\ ready \in Seq(Tasks)
  /\ reports \in Seq([id: Tasks, known: BOOLEAN])
  /\ collector \in {"loop", "get", "set", "count", "failing", "ended"}
  /\ shutdown \in {"no", "process", "collector", "factory", "queues", "done"}

Places(t) ==
  Cardinality({i \in 1..Len(ready) : ready[i] = t})
    + (IF hand = t THEN 1 ELSE 0) + (IF t \in inside THEN 1 ELSE 0)
    + Cardinality({i \in 1..Len(reports) : reports[i].id = t /\ reports[i].known})
    + (IF current = t THEN 1 ELSE 0)

(* TaskVine's counter is the number of tasks that are sent and not         *)
(* answered, less the one that is answered before it is counted, and with  *)
(* the one whose future is set, and its callbacks run, before the count    *)
(* goes down.                                                              *)
CounterFollows ==
  setup.vine /\ collector \notin {"failing", "ended"} =>
    outstanding = Cardinality({t \in Tasks : stage[t] = "counted" /\ fut[t] = "pending"})
                    - Cardinality({t \in Tasks : stage[t] = "sent" /\ fut[t] # "pending"})
                    + (IF collector = "count" THEN 1 ELSE 0)

(* A task on its way is in one place, so that no future is set twice; what *)
(* is not on its way and not answered has died with the process or was     *)
(* refused.  And the counter that scaling reads follows, but for the steps *)
(* between.                                                                *)
InOnePlace ==
  /\ TypeOK /\ CounterFollows
  /\ \A t \in Tasks :
       /\ Places(t) <= 1
       /\ Places(t) = 1 /\ collector # "ended" =>
            fut[t] = "pending" /\ (t \in tasks <=> current # t)
       /\ stage[t] \in Sent /\ fut[t] = "pending" /\ parent /\ ~Fault("refuse")
            /\ proc \notin {"leaving", "exited", "dead"} => Places(t) = 1

(* The collector gives up only when it was told to, the process has ended, *)
(* or a refused task was reported.  And whoever holds a future of a task   *)
(* that was sent when the process died is not left waiting: the future was *)
(* in the table before submit looked at the process, so that the collector *)
(* has failed it.                                                          *)
NoneLeftWaiting ==
  /\ collector \in {"failing", "ended"} => stop \/ ~ProcUp \/ Fault("refuse")
  /\ collector = "ended" /\ ~ProcUp /\ ~stop /\ ~Fault("refuse") =>
       \A t \in Tasks : stage[t] \in Sent => fut[t] # "pending"

(* A task that was sent is answered, unless the executor is shut down, its *)
(* process goes away, or a refused task has ended the collector.           *)
SentIsAnswered == \A t \in Tasks :
  (stage[t] \in Sent) ~> (fut[t] # "pending" \/ stop \/ ~parent \/ Fault("refuse"))

(* shutdown returns, and a submit process whose parent is gone ends: but   *)
(* neither when nobody reads a full pipe any more, of the reports, which   *)
(* keeps the process, or of the tasks, which keeps the close of the queue; *)
(* and without a parent only when Work Queue holds something and no task   *)
(* was lost with the parent, since the process does not look at its parent *)
(* while it waits for a first task, or for one that is counted.            *)
ReportsStuck == (collector = "ended" \/ ~parent) /\ Len(reports) > PipeRoom
TasksStuck == ~ProcUp /\ Len(ready) > PipeRoom
ShutdownEnds ==
  /\ (shutdown = "process") ~> (shutdown = "done" \/ ~parent \/ ReportsStuck \/ TasksStuck)
  /\ ~parent ~> (~ProcUp \/ ReportsStuck \/ lost \/ (inside = {} /\ ready = <<>>))
=============================================================================
