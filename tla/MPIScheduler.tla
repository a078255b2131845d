---------------------------- MODULE MPIScheduler ----------------------------
(***************************************************************************)
(* MPITaskScheduler (mpi_resource_management.py), which a manager in MPI   *)
(* mode puts between the interchange and its workers.  The thread of       *)
(* interchange_communicator calls put_task; the thread of ferry_result     *)
(* calls get_result, which gives the nodes of a finished task back and     *)
(* calls put_task for tasks of the backlog.  The two share the queue of    *)
(* free nodes and the counter, whose lock is held while nodes are taken    *)
(* but not while they are put back.                                        *)
(***************************************************************************)
EXTENDS Naturals, Sequences, FiniteSets

CONSTANTS
  Tasks, Nodes,
  NodeOrder,  \* the nodes as get_nodes_in_batchjob lists them
  Setups,     \* [needs: num_nodes of each task, 0 if it names none,
              \*  faults: a set of "twice", "vanish"]
  None

ASSUME NodesAssumption ==
  /\ NodeOrder \in Seq(Nodes)
  /\ Setups \subseteq [needs: [Tasks -> Nat], faults: SUBSET {"twice", "vanish"}]
  /\ None \notin Tasks \cup {"communicator", "ferry"}

VARIABLES
  setup,
  pc,        \* pc[th]: where the thread is in put_task or get_result
  cur,       \* cur[th]: the task that put_task has in hand
  have,      \* have[th]: acquired_nodes
  rt,        \* the task whose answer get_result has in hand
  deep,      \* _schedule_backlog_tasks has put a task back that did not fit
  nodes_q, counter,
  lock,      \* the thread in the counter's lock, or None
  backlog,
  nodesOf,   \* _map_tasks_to_nodes, <<>> where there is no entry
  seen,      \* tasks that came from the interchange
  pending,   \* pending_task_q
  running,
  results,   \* results[t]: answers for t in pending_result_q
  sent,      \* sent[t]: answers for t on their way to the interchange
  dropped,   \* tasks of which an answer was lost in get_result
  forgotten, \* tasks lost on their way from the backlog
  vanished   \* tasks that died with a worker without an answer

threadVars == <<pc, cur, have, rt, deep>>
nodeVars == <<nodes_q, counter, lock, nodesOf>>
endVars == <<dropped, forgotten, vanished>>
vars == <<setup, threadVars, nodeVars, backlog, seen, pending, running, results, sent, endVars>>

Threads == {"communicator", "ferry"}
Needs(t) == setup.needs[t]
Fault(f) == f \in setup.faults
(* Where a thread goes on when put_task returns. *)
Return(th) == IF th = "ferry" THEN "backlog" ELSE "idle"

Init ==
  /\ setup \in Setups
  /\ pc = [th \in Threads |-> "idle"]
  /\ cur = [th \in Threads |-> None] /\ have = [th \in Threads |-> <<>>]
  /\ rt = None /\ deep = FALSE
  /\ nodes_q = NodeOrder /\ counter = Len(NodeOrder) /\ lock = None
  /\ nodesOf = [t \in Tasks |-> <<>>]
  /\ backlog = {} /\ seen = {} /\ pending = {} /\ running = {}
  /\ results = [t \in Tasks |-> 0] /\ sent = [t \in Tasks |-> 0]
  /\ dropped = {} /\ forgotten = {} /\ vanished = {}

(***************************************************************************)
(* put_task, by either thread.                                             *)
(***************************************************************************)
(* A task comes from the interchange.  One that names no number of nodes   *)
(* goes to the workers as it is.                                           *)
PutTask(t) ==
  /\ pc["communicator"] = "idle" /\ t \notin seen
  /\ seen' = seen \cup {t}
  /\ IF Needs(t) = 0
       THEN pending' = pending \cup {t} /\ UNCHANGED <<pc, cur>>
       ELSE /\ pc' = [pc EXCEPT !["communicator"] = "asking"]
            /\ cur' = [cur EXCEPT !["communicator"] = t]
            /\ UNCHANGED pending
  /\ UNCHANGED <<setup, have, rt, deep, nodeVars, backlog, running, results, sent, endVars>>

(* Mutant: off by one.                                                     *)
ReserveOneMore(th) ==
  /\ pc[th] = "asking" /\ lock = None
  /\ IF Needs(cur[th]) <= counter + 1
       THEN /\ counter' = IF Needs(cur[th]) > counter THEN 0 ELSE counter - Needs(cur[th])
            /\ lock' = th
            /\ pc' = [pc EXCEPT ![th] = "taking"]
       ELSE pc' = [pc EXCEPT ![th] = "full"] /\ UNCHANGED <<counter, lock>>
  /\ UNCHANGED <<setup, cur, have, rt, deep, nodes_q, nodesOf, backlog, seen, pending,
                 running, results, sent, endVars>>

(* _get_nodes, inside the lock.                                            *)
Reserve(th) ==
  /\ pc[th] = "asking" /\ lock = None
  /\ IF Needs(cur[th]) <= counter
       THEN /\ counter' = counter - Needs(cur[th]) /\ lock' = th
            /\ pc' = [pc EXCEPT ![th] = "taking"]
       ELSE pc' = [pc EXCEPT ![th] = "full"] /\ UNCHANGED <<counter, lock>>
  /\ UNCHANGED <<setup, cur, have, rt, deep, nodes_q, nodesOf, backlog, seen, pending,
                 running, results, sent, endVars>>

(* nodes_q.get would wait for a node that is not there, with the lock held.*)
TakeNodes(th) ==
  /\ pc[th] = "taking" /\ Len(nodes_q) >= Needs(cur[th])
  /\ have' = [have EXCEPT ![th] = SubSeq(nodes_q, 1, Needs(cur[th]))]
  /\ nodes_q' = SubSeq(nodes_q, Needs(cur[th]) + 1, Len(nodes_q))
  /\ lock' = None
  /\ pc' = [pc EXCEPT ![th] = "launching"]
  /\ UNCHANGED <<setup, cur, rt, deep, counter, nodesOf, backlog, seen, pending, running,
                 results, sent, endVars>>

Launch(th) ==
  /\ pc[th] = "launching"
  /\ nodesOf' = [nodesOf EXCEPT ![cur[th]] = have[th]]
  /\ pending' = pending \cup {cur[th]}
  /\ pc' = [pc EXCEPT ![th] = Return(th)]
  /\ cur' = [cur EXCEPT ![th] = None] /\ have' = [have EXCEPT ![th] = <<>>]
  /\ UNCHANGED <<setup, rt, deep, nodes_q, counter, lock, backlog, seen, running, results,
                 sent, endVars>>

(* The lock was released before: nodes may have come back meanwhile.       *)
PutBack(th) ==
  /\ pc[th] = "full"
  /\ backlog' = backlog \cup {cur[th]}
  /\ pc' = [pc EXCEPT ![th] = Return(th)]
  /\ cur' = [cur EXCEPT ![th] = None]
  /\ deep' = (deep \/ th = "ferry")
  /\ UNCHANGED <<setup, have, rt, nodeVars, seen, pending, running, results, sent, endVars>>

(***************************************************************************)
(* get_result.                                                             *)
(***************************************************************************)
(* The assertion fails for a task that was given no nodes; ferry_result    *)
(* logs that, and the answer is gone.                                      *)
GetResult(t) ==
  /\ pc["ferry"] = "idle" /\ results[t] > 0
  /\ results' = [results EXCEPT ![t] = @ - 1]
  /\ IF nodesOf[t] = <<>>
       THEN dropped' = dropped \cup {t} /\ UNCHANGED <<pc, rt, deep>>
       ELSE /\ pc' = [pc EXCEPT !["ferry"] = "returning"]
            /\ rt' = t /\ deep' = FALSE
            /\ UNCHANGED dropped
  /\ UNCHANGED <<setup, cur, have, nodeVars, backlog, seen, pending, running, sent,
                 forgotten, vanished>>

(* Mutant: the nodes are not counted.                                      *)
ReturnUncounted ==
  /\ pc["ferry"] = "returning"
  /\ nodes_q' = nodes_q \o nodesOf[rt]
  /\ pc' = [pc EXCEPT !["ferry"] = "backlog"]
  /\ UNCHANGED <<setup, cur, have, rt, deep, counter, lock, nodesOf, backlog, seen, pending,
                 running, results, sent, endVars>>

(* _return_nodes puts the nodes without the lock, then counts them in it.  *)
ReturnNodes ==
  /\ pc["ferry"] = "returning"
  /\ nodes_q' = nodes_q \o nodesOf[rt]
  /\ pc' = [pc EXCEPT !["ferry"] = "counting"]
  /\ UNCHANGED <<setup, cur, have, rt, deep, counter, lock, nodesOf, backlog, seen, pending,
                 running, results, sent, endVars>>

(* Mutant: the backlog is not looked at.                                   *)
CountAndSend ==
  /\ pc["ferry"] = "counting" /\ lock = None
  /\ counter' = counter + Len(nodesOf[rt])
  /\ pc' = [pc EXCEPT !["ferry"] = "idle"] /\ rt' = None
  /\ sent' = [sent EXCEPT ![rt] = @ + 1]
  /\ UNCHANGED <<setup, cur, have, deep, nodes_q, lock, nodesOf, backlog, seen, pending,
                 running, results, endVars>>

CountNodes ==
  /\ pc["ferry"] = "counting" /\ lock = None
  /\ counter' = counter + Len(nodesOf[rt])
  /\ pc' = [pc EXCEPT !["ferry"] = "backlog"]
  /\ UNCHANGED <<setup, cur, have, rt, deep, nodes_q, lock, nodesOf, backlog, seen, pending,
                 running, results, sent, endVars>>

(* The smallest tasks of the backlog.                                      *)
First == {t \in backlog : \A u \in backlog : Needs(t) <= Needs(u)}

(* _schedule_backlog_tasks calls itself until the backlog is empty.        *)
PopBacklog ==
  /\ pc["ferry"] = "backlog"
  /\ \E t \in First :
       /\ backlog' = backlog \ {t}
       /\ cur' = [cur EXCEPT !["ferry"] = t]
  /\ pc' = [pc EXCEPT !["ferry"] = "asking"]
  /\ UNCHANGED <<setup, have, rt, deep, nodeVars, seen, pending, running, results, sent,
                 endVars>>

(* Mutant: the answer is put back, to be handled again.                    *)
RecursionRequeues ==
  /\ pc["ferry"] = "backlog" /\ deep
  /\ results' = [results EXCEPT ![rt] = @ + 1]
  /\ pc' = [pc EXCEPT !["ferry"] = "idle"] /\ rt' = None
  /\ UNCHANGED <<setup, cur, have, deep, nodeVars, backlog, seen, pending, running, sent,
                 endVars>>

(* A task that did not fit is taken again and again, as only this thread   *)
(* gives nodes back, until Python's stack is full.  The exception passes   *)
(* get_result, whose answer is gone, and may come when a task is out of    *)
(* the backlog.  (That it may also come while nodes are taken is left out.)*)
RecursionFails ==
  /\ pc["ferry"] = "backlog" /\ deep
  /\ \E t \in First : \/ backlog' = backlog \ {t} /\ forgotten' = forgotten \cup {t}
                      \/ UNCHANGED <<backlog, forgotten>>
  /\ dropped' = dropped \cup {rt}
  /\ pc' = [pc EXCEPT !["ferry"] = "idle"] /\ rt' = None
  /\ UNCHANGED <<setup, cur, have, deep, nodeVars, seen, pending, running, results, sent,
                 vanished>>

(* The backlog is empty, and get_result returns.                           *)
SendResult ==
  /\ pc["ferry"] = "backlog" /\ backlog = {}
  /\ sent' = [sent EXCEPT ![rt] = @ + 1]
  /\ pc' = [pc EXCEPT !["ferry"] = "idle"] /\ rt' = None
  /\ UNCHANGED <<setup, cur, have, deep, nodeVars, backlog, seen, pending, running, results,
                 endVars>>

(***************************************************************************)
(* The workers.                                                            *)
(***************************************************************************)
Take(t) ==
  /\ t \in pending
  /\ pending' = pending \ {t} /\ running' = running \cup {t}
  /\ UNCHANGED <<setup, threadVars, nodeVars, backlog, seen, results, sent, endVars>>

(* The worker answers, or the watchdog does when the worker has died.  A   *)
(* worker that dies after its answer and before it has forgotten the task  *)
(* is answered for a second time.                                          *)
Finish(t) ==
  /\ t \in running
  /\ running' = running \ {t}
  /\ \E n \in {1} \cup (IF Fault("twice") THEN {2} ELSE {}) :
       results' = [results EXCEPT ![t] = @ + n]
  /\ UNCHANGED <<setup, threadVars, nodeVars, backlog, seen, pending, sent, endVars>>

(* A worker dies before it has noted its task.                             *)
Vanish(t) ==
  /\ Fault("vanish") /\ t \in running
  /\ running' = running \ {t} /\ vanished' = vanished \cup {t}
  /\ UNCHANGED <<setup, threadVars, nodeVars, backlog, seen, pending, results, sent,
                 dropped, forgotten>>

Place(th) == Reserve(th) \/ TakeNodes(th) \/ Launch(th) \/ PutBack(th)
Ferry ==
  \/ \E t \in Tasks : GetResult(t)
  \/ ReturnNodes \/ CountNodes \/ PopBacklog \/ SendResult
Work == \E t \in Tasks : Take(t) \/ Finish(t)

Next ==
  \/ \E t \in Tasks : PutTask(t)
  \/ \E th \in Threads : Place(th)
  \/ Ferry \/ RecursionFails
  \/ Work \/ \E t \in Tasks : Vanish(t)

(* The two threads and the workers go on, and a recursion ends.  Nobody    *)
(* has to send a task.                                                     *)
Spec ==
  /\ Init /\ [][Next]_vars
  /\ \A th \in Threads : WF_vars(Place(th))
  /\ WF_vars(Ferry) /\ SF_vars(RecursionFails)
  /\ \A t \in Tasks : WF_vars(Take(t)) /\ WF_vars(Finish(t))

-----------------------------------------------------------------------------
PutStates == {"asking", "taking", "full", "launching"}
TypeOK ==
  /\ setup \in Setups
  /\ pc \in [Threads -> PutStates \cup {"idle", "returning", "counting", "backlog"}]
  /\ pc["communicator"] \in PutStates \cup {"idle"}
  /\ cur \in [Threads -> Tasks \cup {None}] /\ have \in [Threads -> Seq(Nodes)]
  /\ \A th \in Threads : cur[th] = None <=> pc[th] \notin PutStates
  /\ rt \in Tasks \cup {None} /\ deep \in BOOLEAN
  /\ rt = None <=> pc["ferry"] = "idle"
  /\ nodes_q \in Seq(Nodes) /\ counter \in Nat
  /\ lock \in Threads \cup {None}
  /\ nodesOf \in [Tasks -> Seq(Nodes)]
  /\ backlog \subseteq Tasks /\ seen \subseteq Tasks
  /\ pending \subseteq Tasks /\ running \subseteq Tasks
  /\ results \in [Tasks -> Nat] /\ sent \in [Tasks -> Nat]
  /\ dropped \subseteq Tasks /\ forgotten \subseteq Tasks /\ vanished \subseteq Tasks

(* Tasks that have nodes and have not given them back.                     *)
Holding ==
  {t \in Tasks : nodesOf[t] # <<>> /\
     (t \in pending \cup running \cup vanished \/ results[t] > 0
        \/ (rt = t /\ pc["ferry"] = "returning"))}

NodesIn(s) == {s[i] : i \in 1..Len(s)}
Distinct(s) == \A i, j \in 1..Len(s) : s[i] = s[j] => i = j

(* Who may have a node, and the nodes it has.                              *)
Owners == {<<"queue", None>>} \cup ({"thread"} \X Threads) \cup ({"task"} \X Holding)
Owned(o) ==
  CASE o[1] = "queue" -> nodes_q
    [] o[1] = "thread" -> have[o[2]]
    [] o[1] = "task" -> nodesOf[o[2]]

(* A node is free or belongs to one task, in the hand of a thread or with  *)
(* a worker: two tasks never run on the same node and no node is lost, if  *)
(* the job's list names each node once and no task is answered twice, so   *)
(* that its nodes are given back twice.                                    *)
NodesOwned ==
  /\ TypeOK
  /\ Distinct(NodeOrder) /\ ~Fault("twice") =>
       /\ \A o \in Owners : Distinct(Owned(o))
       /\ \A o, p \in Owners : o # p => NodesIn(Owned(o)) \cap NodesIn(Owned(p)) = {}
       /\ UNION {NodesIn(Owned(o)) : o \in Owners} = NodesIn(NodeOrder)

(* The counter is never ahead of the queue: a thread in the lock finds the *)
(* nodes that the counter has promised, so that it never waits there for a *)
(* thread that waits for the lock.                                         *)
CounterBehindQueue ==
  /\ \A th \in Threads : pc[th] = "taking" =>
       lock = th /\ Len(nodes_q) >= Needs(cur[th])
  /\ counter <= Len(nodes_q)

(* Two tasks that each fit on the nodes never cost an answer, whatever the *)
(* order in which the threads take and give back.                          *)
NoneDropped ==
  /\ \A t \in Tasks : Needs(t) <= Len(NodeOrder)
  /\ Cardinality({t \in Tasks : Needs(t) > 0}) <= 2
  => /\ \A t \in dropped : Needs(t) = 0
     /\ forgotten = {}

(* A task waits in the backlog no longer than until the next task gives    *)
(* its nodes back, or the recursion fails, or that task has vanished.      *)
(* (With no task left on the nodes it may wait for ever: it can be put     *)
(* there after the last answer was looked at.)  And the answer of a task   *)
(* is sent, unless get_result fails.                                       *)
BacklogMoves ==
  \A t \in Tasks :
    /\ (t \in backlog /\ Holding # {})
         ~> (t \notin backlog \/ vanished # {} \/ \E u \in dropped : Needs(u) > 0)
    /\ (t \in pending) ~> (sent[t] > 0 \/ t \in dropped \cup vanished)
=============================================================================
