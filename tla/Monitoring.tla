----------------------------- MODULE Monitoring -----------------------------
(***************************************************************************)
(* Monitoring of one task that is tried NumTries times.  The kernel puts   *)
(* WORKFLOW_INFO and TASK_INFO on the monitoring queue; the wrapper around *)
(* each try sends RESOURCE_INFO through the radio of its executor to a     *)
(* router, which puts it on the same queue; the database manager reads the *)
(* queue with a thread into internal queues, and writes these in batches.  *)
(*                                                                         *)
(* The queue is a multiprocessing queue: what the kernel puts goes to a    *)
(* buffer first, and a feeder thread moves it to the pipe.  A batch is all *)
(* an internal queue holds at that moment; what comes while a batch is     *)
(* collected counts as before or after it.  Of the tables, status and      *)
(* resource are rows, try is tries, workflow is workflow; node and block   *)
(* messages, which depend on nothing, are left out.                        *)
(***************************************************************************)
EXTENDS Naturals, Sequences, SequencesExt, FiniteSets

CONSTANTS
  NumTries,
  PipeRoom,  \* messages the pipe holds
  Setups     \* [radio: "udp", "file", "htex" or "queue", usage: BOOLEAN,
             \*  faults: a set of "loss", "dup", "killed", "statement", "slow"]

Tries == 1..NumTries

Messages == {<<k, 0>> : k \in {"start", "end"}}
              \cup ({"launched", "over", "first", "usage", "last"} \X Tries)

ASSUME MonitoringAssumption ==
  /\ NumTries \in Nat \ {0} /\ PipeRoom \in Nat \ {0}
  /\ Setups \subseteq [radio: {"udp", "file", "htex", "queue"}, usage: BOOLEAN,
                       faults: SUBSET {"loss", "dup", "killed", "statement"}]

VARIABLES
  setup,
  (* kernel *)
  sent,      \* number of messages the kernel has put
  phase,     \* "starting", "failed", "run", "down", "closing", "joined", "closed"
  buffer,    \* of the kernel's end of the queue
  (* tries *)
  worker,    \* worker[t]: "none", "queued", "running", "ended", "over"
  (* radio *)
  air,       \* messages between a sender and the router
  kept,      \* files the router has sent and could not remove
  router,    \* "starting", "up", "draining", "gone"
  (* queue and database manager *)
  pipe,
  migrating, \* the migration thread is there
  hand,      \* what the migration thread holds, a sequence of length 0 or 1
  priority,  \* pending_priority_queue
  resource,  \* pending_resource_queue
  kill,      \* _kill_event
  dbm,       \* "pipe", "priority", "resource", "end", "ended", "killed"
  started,   \* workflow_start_message is set
  finished,  \* workflow_end
  inserted,  \* inserted_tries
  deferred,  \* keys of deferred_resource_messages
  again,     \* reprocessable_first_resource_messages
  (* database *)
  workflow,  \* "none", "began", "completed"
  tries,     \* rows of try
  ran,       \* those with a running time
  rows,      \* messages with a row in workflow, status or resource
  lost       \* messages that were dropped on the way

kernelVars == <<sent, phase, buffer>>
radioVars == <<air, kept, router>>
memVars == <<started, finished, inserted, deferred, again>>
dbVars == <<workflow, tries, ran, rows, lost>>
managerVars == <<priority, resource, kill, dbm, memVars, dbVars>>
vars == <<setup, kernelVars, worker, radioVars, pipe, migrating, hand, managerVars>>

Fault(f) == f \in setup.faults

Init ==
  /\ setup \in Setups
  /\ sent = 0 /\ phase = "starting" /\ buffer = <<>>
  /\ worker = [t \in Tries |-> "none"]
  /\ air = <<>> /\ kept = {} /\ router = "starting"
  /\ pipe = <<>> /\ migrating = TRUE /\ hand = <<>> /\ priority = <<>> /\ resource = <<>>
  /\ kill = FALSE /\ dbm = "priority"
  /\ started = FALSE /\ finished = FALSE
  /\ inserted = {} /\ deferred = {} /\ again = <<>>
  /\ workflow = "none" /\ tries = {} /\ ran = {} /\ rows = {} /\ lost = {}

(***************************************************************************)
(* The kernel.                                                             *)
(***************************************************************************)
KernelMessage(n) ==
  CASE n = 1 -> <<"start", 0>>
    [] n % 2 = 0 -> <<"launched", n \div 2>>
    [] OTHER -> <<"over", n \div 2>>

(* A try is launched, and only then TASK_INFO is sent about the launch;    *)
(* the outcome comes at the end.  The TASK_INFO that already names the try     *)
(* while it is pending is left out, so that a try may be heard of later    *)
(* here than in the code.                                                  *)
SendTaskLogInfo ==
  /\ phase = "run" /\ sent \in 1..(2 * NumTries)
  /\ LET m == KernelMessage(sent + 1) IN
     /\ m[1] = "launched" => worker[m[2]] # "none"
     /\ m[1] = "over" => worker[m[2]] = "over"
     /\ buffer' = Append(buffer, m)
  /\ sent' = sent + 1
  /\ UNCHANGED <<setup, phase, worker, radioVars, pipe, migrating, hand, managerVars>>

(* The workflow is announced before the executors are added ...            *)
SendWorkflowStart ==
  /\ phase = "starting" /\ sent = 0
  /\ sent' = 1 /\ buffer' = Append(buffer, KernelMessage(1))
  /\ UNCHANGED <<setup, phase, worker, radioVars, pipe, migrating, hand, managerVars>>

(* ... and these start a receiver, whose router reports its port or that it*)
(* could not bind one.  A router that says neither in time counts as such; *)
(* the kernel then is not made, and what was started stays.                *)
AddExecutor(ok) ==
  /\ phase = "starting" /\ sent = 1
  /\ phase' = IF ok THEN "run" ELSE "failed"
  /\ UNCHANGED <<setup, sent, buffer, worker, radioVars, pipe, migrating, hand, managerVars>>

StartUdpReceiver == setup.radio = "udp" /\ AddExecutor(router = "up")

StartZmqReceiver == setup.radio = "htex" /\ AddExecutor(router = "up")

StartOtherReceiver == setup.radio \in {"file", "queue"} /\ AddExecutor(TRUE)

StartReceiver == StartUdpReceiver \/ StartZmqReceiver \/ StartOtherReceiver

(* The feeder thread.                                                      *)
Flush ==
  /\ buffer # <<>> /\ Len(pipe) < PipeRoom
  /\ pipe' = Append(pipe, Head(buffer)) /\ buffer' = Tail(buffer)
  /\ UNCHANGED <<setup, sent, phase, worker, radioVars, migrating, hand, managerVars>>

(* cleanup: executors and receivers are shut down, with what still runs.   *)
ShutExecutorsDown ==
  /\ phase = "run" /\ sent > 0
  /\ phase' = "down"
  /\ worker' = [t \in Tries |-> IF worker[t] = "none" THEN "none" ELSE "over"]
  /\ router' = "draining"
  /\ UNCHANGED <<setup, sent, buffer, air, kept, pipe, migrating, hand, managerVars>>

(* The final message, and MonitoringHub.close.                             *)
CloseHub ==
  /\ phase = "down" /\ router = "gone"
  /\ phase' = "closing"
  /\ buffer' = Append(buffer, <<"end", 0>>)
  /\ UNCHANGED <<setup, sent, worker, radioVars, pipe, migrating, hand, managerVars>>

(* Mutant: the manager is waited for.                                      *)
JoinOnly ==
  /\ phase = "closing" /\ dbm = "ended"
  /\ phase' = "joined"
  /\ UNCHANGED <<setup, sent, buffer, worker, radioVars, pipe, migrating, hand, managerVars>>

(* A manager that has not ended within 30 seconds is terminated.           *)
JoinManager ==
  /\ phase = "closing"
  /\ dbm' = IF dbm = "ended" THEN "ended" ELSE "killed"
  /\ phase' = "joined"
  /\ UNCHANGED <<setup, sent, buffer, worker, radioVars, pipe, migrating, hand, priority,
                 resource, kill, memVars, dbVars>>

(* join_thread waits for the feeder.                                       *)
CloseQueue ==
  /\ phase = "joined" /\ buffer = <<>>
  /\ phase' = "closed"
  /\ UNCHANGED <<setup, sent, buffer, worker, radioVars, pipe, migrating, hand, managerVars>>

(***************************************************************************)
(* The wrapper around a try, and its monitoring process.                   *)
(***************************************************************************)
(* executor.submit of the next try, when the one before has failed.        *)
LaunchTry(t) ==
  /\ phase = "run" /\ worker[t] = "none" /\ sent = 2 * t - 1
  /\ worker' = [worker EXCEPT ![t] = "queued"]
  /\ UNCHANGED <<setup, kernelVars, radioVars, pipe, migrating, hand, managerVars>>

(* A thread of the kernel uses the kernel's end of the queue.              *)
RadioSend(m) ==
  IF setup.radio = "queue"
    THEN buffer' = Append(buffer, m) /\ UNCHANGED air
    ELSE air' = Append(air, m) /\ UNCHANGED buffer

WorkerStep(t, from, to) ==
  /\ phase = "run" /\ worker[t] = from
  /\ worker' = [worker EXCEPT ![t] = to]
  /\ UNCHANGED <<setup, sent, phase, kept, router, pipe, migrating, hand, managerVars>>

SendFirst(t) == WorkerStep(t, "queued", "running") /\ RadioSend(<<"first", t>>)

(* The app returns or raises, and the monitoring process is told to end.   *)
(* It sends a last usage message, unless it is too slow, cannot read the   *)
(* usage, or there is none.  Those it sends while the app runs go the same *)
(* way and are left out.                                                   *)
MonitorEnds(t) ==
  /\ WorkerStep(t, "running", "ended")
  /\ \/ setup.usage /\ RadioSend(<<"usage", t>>)
     \/ UNCHANGED <<air, buffer>>

SendLast(t) == WorkerStep(t, "ended", "over") /\ RadioSend(<<"last", t>>)

(* The worker is killed, and the executor fails the try.                   *)
WorkerKilled(t) ==
  /\ Fault("killed") /\ worker[t] \in {"queued", "running", "ended"}
  /\ WorkerStep(t, worker[t], "over") /\ UNCHANGED <<air, buffer>>

(***************************************************************************)
(* Radios.  Results queue, interchange and its socket keep the order of an *)
(* HTEX worker's messages; datagrams and files have none.                  *)
(***************************************************************************)
Arrives(i) == i \in 1..Len(air) /\ (setup.radio = "htex" => i = 1)

RouterReports(outcomes) ==
  /\ router = "starting"
  /\ router' \in outcomes
  /\ UNCHANGED <<setup, kernelVars, worker, air, kept, pipe, migrating, hand, managerVars>>

UdpRouterStarts == setup.radio = "udp" /\ RouterReports({"up", "gone"})

ZmqRouterStarts == setup.radio = "htex" /\ RouterReports({"up", "gone"})

FileRouterStarts == setup.radio \in {"file", "queue"} /\ RouterReports({"up"})

RouterStarts == UdpRouterStarts \/ ZmqRouterStarts \/ FileRouterStarts

(* A datagram that does not arrive, or arrives cut or damaged, so that its *)
(* code does not match; a manager that goes with what it has.              *)
Lose(i) ==
  /\ Fault("loss") /\ setup.radio \in {"udp", "htex"} /\ i \in 1..Len(air)
  /\ air' = RemoveAt(air, i) /\ lost' = lost \cup {air[i]}
  /\ UNCHANGED <<setup, kernelVars, worker, kept, router, pipe, migrating, hand, priority,
                 resource, kill, dbm, memVars, workflow, tries, ran, rows>>

RouterForwards(i) ==
  /\ router \in {"up", "draining"} /\ Arrives(i) /\ Len(pipe) < PipeRoom
  /\ air' = RemoveAt(air, i)
  /\ pipe' = Append(pipe, air[i])
  /\ UNCHANGED <<setup, kernelVars, worker, kept, router, migrating, hand, managerVars>>

(* The file of a message that was sent cannot be removed: it is sent again *)
(* a second later.  This happens once to one file.                         *)
RouterKeeps(i) ==
  /\ Fault("dup") /\ setup.radio = "file"
  /\ router \in {"up", "draining"} /\ Arrives(i) /\ Len(pipe) < PipeRoom /\ kept = {}
  /\ kept' = kept \cup {air[i]}
  /\ pipe' = Append(pipe, air[i])
  /\ UNCHANGED <<setup, kernelVars, worker, air, router, migrating, hand, managerVars>>

(* The router's loop ends; the UDP router waits until nothing has come for *)
(* a while, the others may leave something behind.                         *)
RouterEnds ==
  /\ router = "draining"
  /\ router' = "gone" /\ air' = <<>>
  /\ lost' = lost \cup ToSet(air)
  /\ UNCHANGED <<setup, kernelVars, worker, kept, pipe, migrating, hand, priority,
                 resource, kill, dbm, memVars, workflow, tries, ran, rows>>

(***************************************************************************)
(* The migration thread.                                                   *)
(***************************************************************************)
Up == dbm \notin {"ended", "killed"}

MigrateGet ==
  /\ Up /\ migrating /\ hand = <<>> /\ pipe # <<>>
  /\ hand' = <<Head(pipe)>> /\ pipe' = Tail(pipe)
  /\ UNCHANGED <<setup, kernelVars, worker, radioVars, migrating, managerVars>>

(* The thread ends when the queue is empty after the kill event: what comes*)
(* to the queue later keeps the main thread going, and nobody takes it.    *)
MigrateEnds ==
  /\ Up /\ migrating /\ hand = <<>> /\ pipe = <<>> /\ kill
  /\ migrating' = FALSE
  /\ UNCHANGED <<setup, kernelVars, worker, radioVars, pipe, hand, managerVars>>

KernelSends(m) == m[1] \in {"start", "end", "launched", "over"}

Dispatch ==
  /\ Up /\ hand # <<>>
  /\ IF KernelSends(hand[1])
       THEN priority' = priority \o hand /\ UNCHANGED resource
       ELSE resource' = resource \o hand /\ UNCHANGED priority
  /\ hand' = <<>>
  /\ UNCHANGED <<setup, kernelVars, worker, radioVars, pipe, migrating, kill, dbm, memVars,
                 dbVars>>

(***************************************************************************)
(* The main thread of the database manager.                                *)
(***************************************************************************)
(* _insert: an OperationalError is tried again for ever, any other error   *)
(* loses the statement, and two rows with one key are such an error.       *)
Insertable(batch) == IsInjective(batch) /\ ToSet(batch) \cap rows = {}

Written(batch, ok) == IF ok /\ Insertable(batch) THEN ToSet(batch) ELSE {}

MayFail == IF Fault("statement") THEN BOOLEAN ELSE {TRUE}

(* The condition of the loop looks at the internal queues, and then at the *)
(* queue, while the migration thread goes on.                              *)
CheckPipe ==
  /\ dbm = "pipe"
  /\ dbm' = IF pipe = <<>> THEN "ended" ELSE "priority"
  /\ UNCHANGED <<setup, kernelVars, worker, radioVars, pipe, migrating, hand, priority,
                 resource, kill, memVars, dbVars>>

(* The messages of a batch that are in a set, in their order.              *)
Among(batch, set) ==
  LET picked[i \in 0..Len(batch)] ==
        IF i = 0 THEN <<>>
        ELSE IF batch[i] \in set THEN Append(picked[i - 1], batch[i]) ELSE picked[i - 1]
  IN  picked[Len(batch)]

OfKind(batch, kinds) == Among(batch, kinds \X (0..NumTries))

TryOf(m) == m[2]

(* First messages that waited for their try.                               *)
NowKnown(new) == deferred \cap new

(* Priority messages.                                                      *)
WritePriority ==
  /\ dbm = "priority"
  /\ \E okTask, okTry, okFlow \in MayFail :
       LET batch == priority
           info == OfKind(batch, {"launched", "over"})
           flow == OfKind(batch, {"start", "end"})
           new == {TryOf(m) : m \in ToSet(info)} \ inserted
           taskRows == Written(info, okTask)
           flowRows == Written(flow, okFlow)
       IN /\ started' = (started \/ <<"start", 0>> \in ToSet(flow))
          /\ finished' = (finished \/ <<"end", 0>> \in ToSet(flow))
          /\ inserted' = inserted \cup new
          /\ deferred' = deferred \ NowKnown(new)
          /\ again' = SetToSeq({<<"first", t>> : t \in NowKnown(new)})
          /\ tries' = IF okTry THEN tries \cup new ELSE tries
          /\ workflow' = IF <<"end", 0>> \in flowRows THEN "completed"
                         ELSE IF <<"start", 0>> \in flowRows THEN "began" ELSE workflow
          /\ rows' = rows \cup taskRows \cup flowRows
          /\ lost' = lost \cup (ToSet(batch) \ rows')
  /\ priority' = <<>>
  /\ dbm' = "resource"
  /\ UNCHANGED <<setup, kernelVars, worker, radioVars, pipe, migrating, hand, resource,
                 kill, ran>>

(* Mutant: no first message waits.                                         *)
NoneUnknown(first) == {}

Unknown(first) == {TryOf(m) : m \in ToSet(first)} \ inserted

(* Resource messages: the first of a try waits until the try is in the     *)
(* table, a second one in the place of the first.                          *)
WriteResource ==
  /\ dbm = "resource"
  /\ \E okFirst, okRan, okLast, okUsage \in MayFail :
       LET batch == resource
           first == OfKind(batch, {"first"})
           known == again \o Among(first, {"first"} \X (Tries \ Unknown(first)))
           last == OfKind(batch, {"last"})
           usage == OfKind(batch, {"usage"})
           written == Written(known, okFirst) \cup Written(last, okLast) \cup Written(usage, okUsage)
       IN /\ deferred' = deferred \cup Unknown(first)
          /\ ran' = IF okRan THEN ran \cup ({TryOf(m) : m \in ToSet(known)} \cap tries) ELSE ran
          /\ rows' = rows \cup written
          /\ lost' = lost \cup (ToSet(known \o last \o usage) \ rows')
  /\ resource' = <<>> /\ again' = <<>>
  /\ dbm' = "end"
  /\ UNCHANGED <<setup, kernelVars, worker, radioVars, pipe, migrating, hand, priority,
                 kill, started, finished, inserted, workflow, tries>>

(* Mutant: close does its work once.                                       *)
CloseOnce ==
  /\ dbm = "end"
  /\ LET exit == phase \in {"closing", "joined"} IN
     /\ kill' = (kill \/ exit)
     /\ workflow' = IF exit /\ ~kill /\ started /\ ~finished THEN "completed" ELSE workflow
  /\ dbm' = IF kill' /\ priority = <<>> /\ resource = <<>> THEN "pipe" ELSE "priority"
  /\ UNCHANGED <<setup, kernelVars, worker, radioVars, pipe, migrating, hand, priority,
                 resource, memVars, tries, ran, rows, lost>>

(* After the exit event close is called at the end of every turn: it fills *)
(* in the end of a workflow that has begun and whose end was not received. *)
(* The loop goes on unless the kill event is set and nothing is pending.   *)
EndTurn ==
  /\ dbm = "end"
  /\ LET exit == phase \in {"closing", "joined"} IN
     /\ kill' = (kill \/ exit)
     /\ workflow' = IF exit /\ started /\ ~finished THEN "completed" ELSE workflow
  /\ dbm' = IF kill' /\ priority = <<>> /\ resource = <<>> THEN "pipe" ELSE "priority"
  /\ UNCHANGED <<setup, kernelVars, worker, radioVars, pipe, migrating, hand, priority,
                 resource, memVars, tries, ran, rows, lost>>

Manager == CheckPipe \/ WritePriority \/ WriteResource \/ EndTurn

Migrate == MigrateGet \/ Dispatch \/ MigrateEnds

Wrapper(t) == SendFirst(t) \/ MonitorEnds(t) \/ SendLast(t)

RouterNext == \E i \in 1..Len(air) : RouterForwards(i)

Next ==
  \/ SendWorkflowStart \/ StartReceiver \/ SendTaskLogInfo \/ Flush
  \/ ShutExecutorsDown \/ CloseHub \/ JoinManager \/ CloseQueue
  \/ \E t \in Tries : LaunchTry(t) \/ Wrapper(t) \/ WorkerKilled(t)
  \/ \E i \in 1..Len(air) : Lose(i) \/ RouterKeeps(i)
  \/ RouterStarts \/ RouterNext \/ RouterEnds
  \/ Migrate \/ Manager

(* Threads and processes are not starved, and OperationalErrors end; the   *)
(* kernel need not be cleaned up, and apps may run for ever.               *)
Spec ==
  /\ Init /\ [][Next]_vars
  /\ WF_vars(SendWorkflowStart) /\ WF_vars(StartReceiver) /\ WF_vars(RouterStarts)
  /\ WF_vars(SendTaskLogInfo) /\ WF_vars(Flush)
  /\ WF_vars(CloseHub) /\ WF_vars(JoinManager) /\ WF_vars(CloseQueue)
  /\ \A t \in Tries : WF_vars(LaunchTry(t))
  /\ WF_vars(RouterEnds) /\ SF_vars(RouterNext)
  /\ WF_vars(Migrate) /\ WF_vars(Manager)

-----------------------------------------------------------------------------
TypeOK ==
  /\ sent \in 0..(2 * NumTries + 1)
  /\ phase \in {"starting", "failed", "run", "down", "closing", "joined", "closed"}
  /\ worker \in [Tries -> {"none", "queued", "running", "ended", "over"}]
  /\ router \in {"starting", "up", "draining", "gone"}
  /\ ToSet(buffer \o air \o pipe \o hand \o priority \o resource \o again) \subseteq Messages
  /\ rows \cup lost \cup kept \subseteq Messages
  /\ dbm \in {"pipe", "priority", "resource", "end", "ended", "killed"}
  /\ {started, finished, kill, migrating} \subseteq BOOLEAN
  /\ inserted \cup deferred \cup tries \cup ran \subseteq Tries
  /\ workflow \in {"none", "began", "completed"}

Sent ==
  {KernelMessage(n) : n \in 1..sent}
    \cup (IF phase \in {"closing", "joined", "closed"} THEN {<<"end", 0>>} ELSE {})
    \cup {<<"first", t>> : t \in {u \in Tries : worker[u] \in {"running", "ended"}}}

Deferred == {<<"first", t>> : t \in deferred}

OnTheWay ==
  ToSet(buffer \o air \o pipe \o hand \o priority \o resource \o again)
    \cup Deferred

(* Every message that was sent is on its way, in the database, or was lost *)
(* in a way that has a name: a message of the kernel only with a statement *)
(* that failed.  A first message waits only as long as its try is not      *)
(* known, and when it is in the database its try has its running time.     *)
Accounted ==
  /\ TypeOK
  /\ Sent \subseteq OnTheWay \cup rows \cup lost
  /\ (\E m \in lost : KernelSends(m)) => Fault("statement")
  /\ inserted \cap deferred = {}
  /\ Fault("statement") \/ \A t \in Tries : <<"first", t>> \in rows => t \in ran

(* What is sent about a try while the run goes on is recorded, unless it   *)
(* is lost with its statement or on the air.  And a database manager that  *)
(* ends by itself leaves no workflow that has begun without an end, even   *)
(* when the end the kernel sent came too late.                             *)
EachIsRecorded ==
  /\ \A m \in {"launched", "last"} \X Tries :
       (m \in OnTheWay) ~> (m \in rows \cup lost \/ phase # "run" \/ m \in Deferred)
  /\ [](dbm = "ended" /\ started => workflow = "completed" \/ Fault("statement"))

(* MonitoringHub.close returns: the manager ends by itself or, when it is  *)
(* kept going by a message its thread no longer takes, is terminated; and  *)
(* the feeder can empty its buffer unless nobody reads a pipe that is full.*)
CloseReturns ==
  (phase = "closing") ~> (phase = "closed" \/ (~Up /\ Len(pipe) = PipeRoom))
=============================================================================
