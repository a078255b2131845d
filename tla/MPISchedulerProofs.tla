------------------------- MODULE MPISchedulerProofs -------------------------
(***************************************************************************)
(* Proofs about MPIScheduler for any tasks, nodes and faults.              *)
(*                                                                         *)
(* The queue of free nodes is longer than the counter by what the thread   *)
(* in the lock has reserved and not taken yet, and by what ferry_result    *)
(* has put back and not counted yet.  For that the nodes on record for the *)
(* task that gives its nodes back must not change meanwhile: a task that   *)
(* still waits for nodes is never the one whose answer is handled.         *)
(***************************************************************************)
EXTENDS MPIScheduler, SequenceTheorems, FiniteSetTheorems, TLAPS

Reserved == IF lock = None THEN 0 ELSE Needs(cur[lock])
Uncounted == IF pc["ferry"] = "counting" THEN Len(nodesOf[rt]) ELSE 0

(* The nodes in the queue are those counted, reserved or about to be.      *)
Balance == Len(nodes_q) = counter + Reserved + Uncounted

(* One thread is in the counter's lock.                                    *)
Locking == \A th \in Threads : pc[th] = "taking" <=> lock = th

(* A task that waits for nodes is known, has none, and waits in one place. *)
Waiting ==
  /\ \A t \in Tasks : t \in backlog \/ (\E th \in Threads : cur[th] = t)
       => t \in seen /\ nodesOf[t] = <<>>
  /\ \A t \in Tasks : nodesOf[t] # <<>> => t \in seen
  /\ \A th \in Threads : cur[th] \notin backlog
  /\ cur["communicator"] = cur["ferry"] => cur["ferry"] = None

(* The task that gives its nodes back has some.                            *)
Returning == rt # None => nodesOf[rt] # <<>>

IInv == TypeOK /\ Balance /\ Locking /\ Waiting /\ Returning

-----------------------------------------------------------------------------
(* num_nodes of a task is a number. *)
LEMMA NeedsNat == ASSUME TypeOK, NEW t \in Tasks PROVE Needs(t) \in Nat
  BY NodesAssumption DEF TypeOK, Needs

(* What is reserved and what is uncounted are numbers. *)
LEMMA UncountedNat == ASSUME TypeOK PROVE Uncounted \in Nat
  BY LenProperties DEF TypeOK, Uncounted

LEMMA ReservedNat == ASSUME TypeOK, Locking PROVE Reserved \in Nat
<1>1. lock # None => cur[lock] \in Tasks
  BY DEF TypeOK, Locking, PutStates
<1>2. QED
  BY <1>1, NeedsNat DEF Reserved

(* At the start all nodes are counted. *)
LEMMA InitInv == Init => IInv
<1> SUFFICES ASSUME Init PROVE IInv
  OBVIOUS
<1> USE NodesAssumption DEF Init, IInv, Threads, PutStates
<1>1. Len(NodeOrder) \in Nat
  BY LenProperties
<1>2. TypeOK
  <2>1. <<>> \in Seq(Nodes)
    OBVIOUS
  <2>2. \A th \in Threads : cur[th] = None <=> pc[th] \notin PutStates
    OBVIOUS
  <2>3. have \in [Threads -> Seq(Nodes)] /\ nodesOf \in [Tasks -> Seq(Nodes)]
    BY <2>1
  <2>4. results \in [Tasks -> Nat] /\ sent \in [Tasks -> Nat]
    OBVIOUS
  <2>5. QED
    BY <1>1, <2>1, <2>2, <2>3, <2>4 DEF TypeOK
<1>3. Balance
  BY <1>1 DEF Balance, Reserved, Uncounted
<1>4. Locking /\ Waiting /\ Returning
  BY DEF Locking, Waiting, Returning
<1>5. QED
  BY <1>2, <1>3, <1>4

LEMMA PutTaskInv == ASSUME IInv, NEW t \in Tasks, PutTask(t) PROVE IInv'
<1> USE NodesAssumption DEF IInv, PutTask, Threads, PutStates, nodeVars, endVars
<1>1. TypeOK'
  <2>1. CASE Needs(t) = 0
    BY <2>1, SMTT(40) DEF TypeOK
  <2>2. CASE Needs(t) # 0
    BY <2>2, SMTT(40) DEF TypeOK
  <2>3. QED
    BY <2>1, <2>2
<1>2. Balance'
  BY DEF TypeOK, Balance, Reserved, Uncounted, Needs, Locking
<1>3. Locking' /\ Returning'
  BY SMTT(40) DEF TypeOK, Locking, Returning
<1>4. Waiting'
  BY SMTT(40) DEF TypeOK, Waiting
<1>5. QED
  BY <1>1, <1>2, <1>3, <1>4

LEMMA ReserveInv == ASSUME IInv, NEW th \in Threads, Reserve(th) PROVE IInv'
<1> USE NodesAssumption DEF IInv, Reserve, Threads, PutStates, endVars
<1>1. cur[th] \in Tasks /\ Needs(cur[th]) \in Nat
  BY NeedsNat DEF TypeOK
<1>2. TypeOK'
  <2>1. CASE Needs(cur[th]) <= counter
    <3>1. counter' \in Nat
      BY <1>1, <2>1 DEF TypeOK
    <3>2. QED
      BY <2>1, <3>1 DEF TypeOK
  <2>2. CASE ~(Needs(cur[th]) <= counter)
    BY <2>2 DEF TypeOK
  <2>3. QED
    BY <2>1, <2>2
<1>3. Balance'
  BY <1>1, SMTT(40) DEF TypeOK, Balance, Reserved, Uncounted, Needs, Locking
<1>4. Locking' /\ Waiting' /\ Returning'
  BY DEF TypeOK, Locking, Waiting, Returning
<1>5. QED
  BY <1>2, <1>3, <1>4

LEMMA TakeNodesInv == ASSUME IInv, NEW th \in Threads, TakeNodes(th) PROVE IInv'
<1> USE NodesAssumption DEF IInv, TakeNodes, Threads, PutStates, endVars
<1> DEFINE n == Needs(cur[th])
<1>1. cur[th] \in Tasks /\ n \in Nat /\ n <= Len(nodes_q) /\ Len(nodes_q) \in Nat
  BY NeedsNat, LenProperties DEF TypeOK
<1>2. \A i \in 1..Len(nodes_q) : nodes_q[i] \in Nodes
  BY LenProperties DEF TypeOK
<1>3. SubSeq(nodes_q, 1, n) \in Seq(Nodes)
  <2>1. \A i \in 1..n : nodes_q[i] \in Nodes
    BY <1>1, <1>2
  <2>2. QED
    BY <1>1, <2>1, SubSeqProperties
<1>4. SubSeq(nodes_q, n + 1, Len(nodes_q)) \in Seq(Nodes)
      /\ Len(SubSeq(nodes_q, n + 1, Len(nodes_q))) = Len(nodes_q) - n
  <2>1. \A i \in n + 1..Len(nodes_q) : nodes_q[i] \in Nodes
    BY <1>1, <1>2
  <2>2. QED
    BY <1>1, <2>1, SubSeqProperties
<1> HIDE DEF n
<1>5. nodes_q' \in Seq(Nodes) /\ Len(nodes_q') = Len(nodes_q) - n
  BY <1>4 DEF n
<1>6. have' \in [Threads -> Seq(Nodes)]
  BY <1>3 DEF n, TypeOK
<1>7. TypeOK'
  BY <1>5, <1>6 DEF TypeOK
<1>8. Balance'
  <2>1. lock = th /\ Reserved = n
    BY DEF Locking, Reserved, n, TypeOK
  <2>2. Reserved' = 0
    BY DEF Reserved
  <2>3. pc'["ferry"] = "counting" <=> pc["ferry"] = "counting"
    BY DEF TypeOK
  <2>4. Uncounted' = Uncounted
    BY <2>3 DEF Uncounted
  <2>5. counter \in Nat /\ counter' = counter /\ Uncounted \in Nat
    BY UncountedNat DEF TypeOK
  <2>6. Len(nodes_q) = counter + n + Uncounted
    BY <2>1 DEF Balance
  <2>7. Len(nodes_q') = counter' + Reserved' + Uncounted'
    BY ONLY <1>1, <1>5, <2>2, <2>4, <2>5, <2>6
  <2>8. QED
    BY <2>7 DEF Balance
<1>9. Locking' /\ Waiting' /\ Returning'
  BY DEF TypeOK, Locking, Waiting, Returning
<1>10. QED
  BY <1>7, <1>8, <1>9

LEMMA LaunchInv == ASSUME IInv, NEW th \in Threads, Launch(th) PROVE IInv'
<1> USE NodesAssumption DEF IInv, Launch, Return, Threads, PutStates, endVars
<1>1. cur[th] \in Tasks /\ nodesOf[cur[th]] = <<>> /\ cur[th] # rt
  BY DEF TypeOK, Waiting, Returning
<1>2. TypeOK'
  BY <1>1, SMTT(40) DEF TypeOK
<1>3. Balance'
  BY <1>1 DEF TypeOK, Balance, Reserved, Uncounted, Needs, Locking
<1>4. Locking' /\ Returning'
  BY <1>1 DEF TypeOK, Locking, Returning
<1>5. Waiting'
  BY <1>1 DEF TypeOK, Waiting
<1>6. QED
  BY <1>2, <1>3, <1>4, <1>5

LEMMA PutBackInv == ASSUME IInv, NEW th \in Threads, PutBack(th) PROVE IInv'
<1> USE NodesAssumption DEF IInv, PutBack, Return, Threads, PutStates, nodeVars, endVars
<1>1. cur[th] \in Tasks
  BY DEF TypeOK
<1>2. TypeOK'
  BY <1>1, SMTT(40) DEF TypeOK
<1>3. Balance'
  BY <1>1 DEF TypeOK, Balance, Reserved, Uncounted, Needs, Locking
<1>4. Locking' /\ Returning' /\ Waiting'
  BY <1>1 DEF TypeOK, Locking, Returning, Waiting
<1>5. QED
  BY <1>2, <1>3, <1>4


LEMMA GetResultInv == ASSUME IInv, NEW t \in Tasks, GetResult(t) PROVE IInv'
<1> USE NodesAssumption DEF IInv, GetResult, Threads, PutStates, nodeVars
<1>1. results' \in [Tasks -> Nat]
  BY DEF TypeOK
<1>2. TypeOK'
  <2>1. CASE nodesOf[t] = <<>>
    BY <1>1, <2>1 DEF TypeOK
  <2>2. CASE nodesOf[t] # <<>>
    <3>1. pc' \in [Threads -> PutStates \cup {"idle", "returning", "counting", "backlog"}]
      BY <2>2 DEF TypeOK
    <3>2. \A th \in Threads : cur'[th] = None <=> pc'[th] \notin PutStates
      BY <2>2 DEF TypeOK
    <3>3. rt' = t /\ pc'["ferry"] = "returning" /\ t # None
      BY <2>2 DEF TypeOK
    <3>4. QED
      BY <1>1, <2>2, <3>1, <3>2, <3>3 DEF TypeOK
  <2>3. QED
    BY <2>1, <2>2
<1>3. Balance'
  BY DEF TypeOK, Balance, Reserved, Uncounted, Needs, Locking
<1>4. Locking' /\ Returning' /\ Waiting'
  BY DEF TypeOK, Locking, Returning, Waiting
<1>5. QED
  BY <1>2, <1>3, <1>4

(* The nodes are in the queue, and not counted yet.                        *)
LEMMA ReturnNodesInv == ASSUME IInv, ReturnNodes PROVE IInv'
<1> USE NodesAssumption DEF IInv, ReturnNodes, Threads, PutStates, endVars
<1>1. rt \in Tasks /\ nodesOf[rt] \in Seq(Nodes)
  BY DEF TypeOK
<1>2. nodes_q' \in Seq(Nodes) /\ Len(nodes_q') = Len(nodes_q) + Len(nodesOf[rt])
  BY <1>1, ConcatProperties DEF TypeOK
<1>3. TypeOK'
  BY <1>2 DEF TypeOK
<1>4. Balance'
  <2>1. Reserved' = Reserved /\ Uncounted = 0 /\ Uncounted' = Len(nodesOf[rt])
    BY DEF TypeOK, Reserved, Uncounted, Needs
  <2>2. Len(nodesOf[rt]) \in Nat /\ Len(nodes_q) \in Nat
    BY <1>1, LenProperties DEF TypeOK
  <2>3. counter' = counter /\ counter \in Nat /\ setup' = setup
    BY DEF TypeOK
  <2>4. QED
    BY <1>2, <2>1, <2>2, <2>3, ReservedNat DEF Balance
<1>5. Locking' /\ Returning' /\ Waiting'
  BY DEF TypeOK, Locking, Returning, Waiting
<1>6. QED
  BY <1>3, <1>4, <1>5

LEMMA CountNodesInv == ASSUME IInv, CountNodes PROVE IInv'
<1> USE NodesAssumption DEF IInv, CountNodes, Threads, PutStates, endVars
<1>1. rt \in Tasks /\ Len(nodesOf[rt]) \in Nat
  BY LenProperties DEF TypeOK
<1>2. TypeOK'
  BY <1>1, SMTT(40) DEF TypeOK
<1>3. Balance'
  <2>1. Reserved = 0 /\ Reserved' = 0 /\ Uncounted' = 0 /\ Uncounted = Len(nodesOf[rt])
    BY DEF TypeOK, Reserved, Uncounted
  <2>2. QED
    BY <1>1, <2>1 DEF Balance, TypeOK
<1>4. Locking' /\ Returning' /\ Waiting'
  BY DEF TypeOK, Locking, Returning, Waiting
<1>5. QED
  BY <1>2, <1>3, <1>4

LEMMA PopBacklogInv == ASSUME IInv, PopBacklog PROVE IInv'
<1> USE NodesAssumption DEF IInv, PopBacklog, First, Threads, PutStates, nodeVars, endVars
<1>1. TypeOK'
  BY SMTT(40) DEF TypeOK
<1>2. Balance'
  BY DEF TypeOK, Balance, Reserved, Uncounted, Needs, Locking
<1>3. Locking' /\ Returning'
  BY DEF TypeOK, Locking, Returning
<1>4. Waiting'
  BY DEF TypeOK, Waiting
<1>5. QED
  BY <1>1, <1>2, <1>3, <1>4

(* The end of get_result, with an answer or without one.                   *)
LEMMA EndInv == ASSUME IInv, RecursionFails \/ SendResult PROVE IInv'
<1> USE NodesAssumption DEF IInv, First, Threads, PutStates, nodeVars
<1>1. rt \in Tasks /\ pc["ferry"] = "backlog"
  BY DEF RecursionFails, SendResult, TypeOK
<1>2. TypeOK'
  <2>1. CASE RecursionFails
    BY <1>1, <2>1 DEF RecursionFails, TypeOK
  <2>2. CASE SendResult
    <3>1. sent' \in [Tasks -> Nat]
      BY <1>1, <2>2 DEF SendResult, TypeOK
    <3>2. QED
      BY <1>1, <2>2, <3>1 DEF SendResult, TypeOK, endVars
  <2>3. QED
    BY <2>1, <2>2
<1>3. Balance'
  BY <1>1 DEF RecursionFails, SendResult, TypeOK, Balance, Reserved, Uncounted, Needs
<1>4. Locking' /\ Returning'
  BY <1>1 DEF RecursionFails, SendResult, TypeOK, Locking, Returning
<1>5. Waiting'
  BY <1>1 DEF RecursionFails, SendResult, TypeOK, Waiting
<1>6. QED
  BY <1>2, <1>3, <1>4, <1>5

(* Workers touch neither the nodes nor the threads.                        *)
LEMMA WorkInv ==
  ASSUME IInv, NEW t \in Tasks, Take(t) \/ Finish(t) \/ Vanish(t) \/ UNCHANGED vars
  PROVE  IInv'
<1>1. results \in [Tasks -> Nat]
  BY DEF IInv, TypeOK
<1>2. results' \in [Tasks -> Nat]
  <2>1. CASE Finish(t)
    <3>1. PICK n \in {1, 2} : results' = [results EXCEPT ![t] = @ + n]
      BY <2>1 DEF Finish
    <3>2. results[t] + n \in Nat
      BY <1>1
    <3>3. QED
      BY <1>1, <3>1, <3>2
  <2>2. CASE Take(t) \/ Vanish(t) \/ UNCHANGED vars
    BY <1>1, <2>2 DEF Take, Vanish, vars, endVars
  <2>3. QED
    BY <2>1, <2>2
<1> USE NodesAssumption DEF IInv, threadVars, nodeVars, endVars, vars
<1>0. UNCHANGED <<setup, threadVars, nodeVars, backlog, seen>>
  BY DEF Take, Finish, Vanish
<1>3. TypeOK'
  BY <1>0, <1>2 DEF Take, Finish, Vanish, TypeOK
<1>4. Balance' /\ Locking' /\ Waiting' /\ Returning'
  BY <1>0 DEF Balance, Reserved, Uncounted, Needs, Locking, Waiting, Returning
<1>5. QED
  BY <1>3, <1>4

(* Every step keeps the invariant. *)
LEMMA NextInv == IInv /\ [Next]_vars => IInv'
<1> SUFFICES ASSUME IInv, [Next]_vars PROVE IInv'
  OBVIOUS
<1>1. ASSUME NEW th \in Threads, Place(th) PROVE IInv'
  BY <1>1, ReserveInv, TakeNodesInv, LaunchInv, PutBackInv DEF Place
<1>2. ASSUME Ferry PROVE IInv'
  BY <1>2, GetResultInv, ReturnNodesInv, CountNodesInv, PopBacklogInv, EndInv DEF Ferry
<1>3. CASE UNCHANGED vars
  BY <1>3 DEF vars, threadVars, nodeVars, endVars, IInv, TypeOK, Balance, Reserved, Uncounted,
              Needs, Locking, Waiting, Returning
<1>4. QED
  BY <1>1, <1>2, <1>3, PutTaskInv, EndInv, WorkInv DEF Next, Work

(* The invariant holds in every state, whatever the tasks need.            *)
THEOREM Inductive == Spec => []IInv
  BY InitInv, NextInv, PTL DEF Spec

(* A thread in the counter's lock never waits there for a node, so the     *)
(* lock is always given back (_get_nodes and _return_nodes).               *)
THEOREM NeverStuckInLock == Spec => []CounterBehindQueue
<1>1. IInv => CounterBehindQueue
  <2> SUFFICES ASSUME IInv PROVE CounterBehindQueue
    OBVIOUS
  <2>1. Uncounted \in Nat /\ Reserved \in Nat
    BY UncountedNat, ReservedNat DEF IInv
  <2>2. counter <= Len(nodes_q)
    BY <2>1 DEF IInv, TypeOK, Balance
  <2>3. ASSUME NEW th \in Threads, pc[th] = "taking"
        PROVE  lock = th /\ Len(nodes_q) >= Needs(cur[th])
    <3>1. lock = th /\ lock # None
      BY <2>3, NodesAssumption DEF IInv, Locking, Threads
    <3>2. Reserved = Needs(cur[th])
      BY <3>1 DEF Reserved
    <3>3. QED
      BY <3>1, <3>2, <2>1 DEF IInv, TypeOK, Balance
  <2>4. QED
    BY <2>2, <2>3 DEF CounterBehindQueue
<1>2. QED
  BY <1>1, Inductive, PTL

-----------------------------------------------------------------------------
(* Who has which nodes, when no task is answered twice.                    *)

(* A thread has nodes in hand between taking them and noting them.         *)
Hands == \A th \in Threads : pc[th] # "launching" => have[th] = <<>>

(* A task is in one stage of its life: it waits for nodes, or it is with   *)
(* the workers, or its answer waits or is handled.                         *)
Once ==
  \A t \in Tasks :
    /\ t \in pending \cup running \cup vanished \/ results[t] > 0 \/ rt = t =>
         t \in seen \ backlog /\ \A th \in Threads : cur[th] # t
    /\ results[t] <= 1
    /\ results[t] > 0 \/ rt = t => t \notin pending \cup running \cup vanished
    /\ results[t] > 0 => rt # t
    /\ t \in pending => t \notin running \cup vanished
    /\ t \in running => t \notin vanished

Stages == Hands /\ (~Fault("twice") => Once)

LEMMA InitStages == Init => Stages
  BY NodesAssumption DEF Init, Stages, Hands, Once, Threads

(* Steps of put_task move a task from the backlog to a hand and on.        *)
LEMMA PlaceStages ==
  ASSUME IInv, Stages, NEW th \in Threads, Place(th)
  PROVE  Stages'
<1> USE NodesAssumption DEF IInv, Stages, Threads, PutStates, Fault
<1>1. CASE Reserve(th)
  BY <1>1 DEF Reserve, TypeOK, Hands, Once, endVars
<1>2. CASE TakeNodes(th)
  BY <1>2 DEF TakeNodes, TypeOK, Hands, Once, endVars
<1>3. CASE Launch(th)
  <2>1. cur[th] \in Tasks /\ cur[th] \in seen /\ cur[th] \notin backlog
        /\ \A other \in Threads : cur'[other] # cur[th]
    BY <1>3 DEF Launch, TypeOK, Waiting
  <2>2. Hands'
    BY <1>3 DEF Launch, TypeOK, Hands
  <2>3. ~Fault("twice") => Once'
    BY <1>3, <2>1 DEF Launch, Once, TypeOK, endVars
  <2>4. QED
    BY <1>3, <2>2, <2>3 DEF Launch
<1>4. CASE PutBack(th)
  BY <1>4 DEF PutBack, TypeOK, Hands, Once, endVars, nodeVars
<1>5. QED
  BY <1>1, <1>2, <1>3, <1>4 DEF Place

(* So do the steps of get_result.                                          *)
LEMMA FerryStages ==
  ASSUME IInv, Stages, Ferry \/ RecursionFails
  PROVE  Stages'
<1> USE NodesAssumption DEF IInv, Stages, Threads, PutStates, Fault, endVars, nodeVars
<1>1. ASSUME NEW t \in Tasks, GetResult(t) PROVE Stages'
  <2>1. \A u \in Tasks : results'[u] = IF u = t THEN results[t] - 1 ELSE results[u]
    BY <1>1 DEF GetResult, TypeOK
  <2>2. Hands'
    BY <1>1 DEF GetResult, TypeOK, Hands
  <2>3. rt = None
    BY <1>1 DEF GetResult, TypeOK
  <2>4. ~Fault("twice") => Once'
    BY <1>1, <2>1, <2>3 DEF GetResult, Once, TypeOK
  <2>5. QED
    BY <1>1, <2>2, <2>4 DEF GetResult
<1>2. CASE ReturnNodes \/ CountNodes
  BY <1>2 DEF ReturnNodes, CountNodes, TypeOK, Hands, Once
<1>3. CASE PopBacklog
  BY <1>3 DEF PopBacklog, First, TypeOK, Hands, Once
<1>4. CASE SendResult
  BY <1>4 DEF SendResult, TypeOK, Hands, Once
<1>5. CASE RecursionFails
  BY <1>5 DEF RecursionFails, First, TypeOK, Hands, Once
<1>6. QED
  BY <1>1, <1>2, <1>3, <1>4, <1>5 DEF Ferry

(* And tasks come from the interchange and go through the workers.         *)
LEMMA WorkStages ==
  ASSUME IInv, Stages, NEW t \in Tasks, PutTask(t) \/ Take(t) \/ Finish(t) \/ Vanish(t)
  PROVE  Stages'
<1> USE NodesAssumption DEF IInv, Stages, Threads, PutStates, Fault, endVars, nodeVars,
        threadVars
<1>1. CASE PutTask(t)
  BY <1>1, SMTT(40) DEF PutTask, TypeOK, Hands, Once, Waiting
<1>2. CASE Take(t)
  BY <1>2 DEF Take, TypeOK, Hands, Once
<1>3. CASE Finish(t)
  <2>1. PICK n \in {1, 2} :
          results' = [results EXCEPT ![t] = @ + n] /\ (~Fault("twice") => n = 1)
    BY <1>3 DEF Finish
  <2>2. \A u \in Tasks : results'[u] = IF u = t THEN results[t] + n ELSE results[u]
    BY <2>1 DEF TypeOK
  <2>3. ~Fault("twice") => Once'
    BY <1>3, <2>1, <2>2 DEF Finish, Once, TypeOK
  <2>4. QED
    BY <1>3, <2>3 DEF Finish, Hands
<1>4. CASE Vanish(t)
  BY <1>4 DEF Vanish, TypeOK, Hands, Once
<1>5. QED
  BY <1>1, <1>2, <1>3, <1>4

THEOREM StagesHold == Spec => []Stages
<1>1. IInv /\ Stages /\ [Next]_vars => Stages'
  <2> SUFFICES ASSUME IInv, Stages, [Next]_vars PROVE Stages'
    OBVIOUS
  <2>1. CASE UNCHANGED vars
    BY <2>1 DEF vars, threadVars, nodeVars, endVars, Stages, Hands, Once, Fault
  <2>2. QED
    BY <2>1, PlaceStages, FerryStages, WorkStages DEF Next, Work
<1>2. QED
  BY <1>1, InitStages, Inductive, PTL DEF Spec

-----------------------------------------------------------------------------
(* Sequences of nodes that are cut and joined. *)

FrontOf(s, n) == SubSeq(s, 1, n)
RestOf(s, n) == SubSeq(s, n + 1, Len(s))

(* The empty sequence has no nodes. *)
LEMMA NodesInEmpty == NodesIn(<<>>) = {} /\ Distinct(<<>>)
  BY DEF NodesIn, Distinct

(* A sequence that is cut in two shares its nodes between the two. *)
LEMMA Cut ==
  ASSUME NEW s \in Seq(Nodes), NEW n \in 0..Len(s), Distinct(s)
  PROVE  /\ Distinct(FrontOf(s, n)) /\ Distinct(RestOf(s, n))
         /\ NodesIn(FrontOf(s, n)) \cap NodesIn(RestOf(s, n)) = {}
         /\ NodesIn(FrontOf(s, n)) \cup NodesIn(RestOf(s, n)) = NodesIn(s)
<1> DEFINE a == FrontOf(s, n)
           b == RestOf(s, n)
<1> USE DEF FrontOf, RestOf
<1>1. Len(s) \in Nat /\ \A i \in 1..Len(s) : s[i] \in Nodes
  BY LenProperties
<1>2. /\ a \in Seq(Nodes) /\ Len(a) = n
      /\ \A i \in 1..n : a[i] = s[i]
  <2>1. \A i \in 1..n : s[i] \in Nodes
    BY <1>1
  <2>2. QED
    BY <1>1, <2>1, SubSeqProperties
<1>3. /\ b \in Seq(Nodes) /\ Len(b) = Len(s) - n
      /\ \A i \in 1..(Len(s) - n) : b[i] = s[i + n] /\ i + n \in 1..Len(s)
  <2>1. \A i \in n + 1..Len(s) : s[i] \in Nodes
    BY <1>1
  <2>2. /\ b \in Seq(Nodes)
        /\ Len(b) = IF n + 1 <= Len(s) THEN Len(s) - (n + 1) + 1 ELSE 0
        /\ \A i \in 1..(Len(s) - (n + 1) + 1) : b[i] = s[(n + 1) + i - 1]
    BY <1>1, <2>1, SubSeqProperties
  <2>3. QED
    BY <1>1, <2>2
<1>4. Distinct(a) /\ Distinct(b)
  BY <1>1, <1>2, <1>3 DEF Distinct
<1>5. NodesIn(a) \cap NodesIn(b) = {}
  <2>1. ASSUME NEW i \in 1..n, NEW j \in 1..(Len(s) - n), a[i] = b[j] PROVE FALSE
    <3>1. i \in 1..Len(s) /\ j + n \in 1..Len(s)
      BY <1>1
    <3>2. s[i] = s[j + n]
      BY <1>2, <1>3, <2>1
    <3>3. i = j + n
      BY <3>1, <3>2 DEF Distinct
    <3>4. QED
      BY <1>1, <3>3
  <2>2. QED
    BY <2>1, <1>2, <1>3 DEF NodesIn
<1>6. NodesIn(a) \cup NodesIn(b) = NodesIn(s)
  <2>1. NodesIn(a) \cup NodesIn(b) \subseteq NodesIn(s)
    BY <1>1, <1>2, <1>3 DEF NodesIn
  <2>2. ASSUME NEW i \in 1..Len(s) PROVE s[i] \in NodesIn(a) \cup NodesIn(b)
    <3>1. CASE i <= n
      BY <1>1, <1>2, <3>1 DEF NodesIn
    <3>2. CASE i > n
      <4>1. i - n \in 1..Len(b) /\ b[i - n] = s[i]
        BY <1>1, <1>3, <3>2
      <4>2. QED
        BY <4>1 DEF NodesIn
    <3>3. QED
      BY <1>1, <3>1, <3>2
  <2>3. QED
    BY <2>1, <2>2 DEF NodesIn
<1>7. QED
  BY <1>2, <1>3, <1>4, <1>5, <1>6

(* Two that share no node are joined to one. *)
LEMMA Join ==
  ASSUME NEW a \in Seq(Nodes), NEW b \in Seq(Nodes), Distinct(a), Distinct(b),
         NodesIn(a) \cap NodesIn(b) = {}
  PROVE  Distinct(a \o b) /\ NodesIn(a \o b) = NodesIn(a) \cup NodesIn(b)
<1> DEFINE c == a \o b
<1>1. Len(a) \in Nat /\ Len(b) \in Nat
  BY LenProperties
<1>2. /\ Len(c) = Len(a) + Len(b)
      /\ \A i \in 1..Len(a) + Len(b) : c[i] = IF i <= Len(a) THEN a[i] ELSE b[i - Len(a)]
  BY ConcatProperties, Zenon
<1> HIDE DEF c
<1>3. \A i \in 1..Len(a) : c[i] = a[i]
  BY <1>1, <1>2
<1>4. ASSUME NEW i \in 1..Len(b) PROVE c[i + Len(a)] = b[i]
  <2>1. i + Len(a) \in 1..Len(a) + Len(b) /\ ~(i + Len(a) <= Len(a))
        /\ (i + Len(a)) - Len(a) = i
    BY <1>1
  <2>2. QED
    BY <1>2, <2>1
<1>5. NodesIn(c) = NodesIn(a) \cup NodesIn(b)
  <2>1. NodesIn(c) \subseteq NodesIn(a) \cup NodesIn(b)
    <3> SUFFICES ASSUME NEW i \in 1..Len(c) PROVE c[i] \in NodesIn(a) \cup NodesIn(b)
      BY DEF NodesIn
    <3>1. CASE i <= Len(a)
      BY <1>1, <1>2, <3>1 DEF NodesIn
    <3>2. CASE i > Len(a)
      <4>1. i - Len(a) \in 1..Len(b) /\ c[i] = b[i - Len(a)]
        BY <1>1, <1>2, <3>2
      <4>2. QED
        BY <4>1 DEF NodesIn
    <3>3. QED
      BY <1>1, <1>2, <3>1, <3>2
  <2>2. NodesIn(a) \subseteq NodesIn(c)
    BY <1>1, <1>2, <1>3 DEF NodesIn
  <2>3. NodesIn(b) \subseteq NodesIn(c)
    <3> SUFFICES ASSUME NEW i \in 1..Len(b) PROVE b[i] \in NodesIn(c)
      BY DEF NodesIn
    <3>1. i + Len(a) \in 1..Len(c) /\ c[i + Len(a)] = b[i]
      BY <1>1, <1>2, <1>4
    <3>2. QED
      BY <3>1 DEF NodesIn
  <2>4. QED
    BY <2>1, <2>2, <2>3
<1>6. Distinct(c)
  <2> SUFFICES ASSUME NEW i \in 1..Len(c), NEW j \in 1..Len(c), c[i] = c[j] PROVE i = j
    BY DEF Distinct
  <2>1. CASE i <= Len(a) /\ j <= Len(a)
    BY <1>1, <1>2, <2>1 DEF Distinct
  <2>2. CASE i > Len(a) /\ j > Len(a)
    <3>1. i - Len(a) \in 1..Len(b) /\ j - Len(a) \in 1..Len(b)
          /\ b[i - Len(a)] = b[j - Len(a)]
      BY <1>1, <1>2, <2>2
    <3>2. i - Len(a) = j - Len(a)
      BY <3>1 DEF Distinct
    <3>3. QED
      BY <1>1, <1>2, <3>2
  <2>3. CASE i <= Len(a) /\ j > Len(a)
    <3>1. c[i] \in NodesIn(a)
      BY <1>1, <1>2, <2>3 DEF NodesIn
    <3>2. j - Len(a) \in 1..Len(b) /\ c[j] = b[j - Len(a)]
      BY <1>1, <1>2, <2>3
    <3>3. c[j] \in NodesIn(b)
      BY <3>2 DEF NodesIn
    <3>4. QED
      BY <3>1, <3>3
  <2>4. CASE i > Len(a) /\ j <= Len(a)
    <3>1. c[j] \in NodesIn(a)
      BY <1>1, <1>2, <2>4 DEF NodesIn
    <3>2. i - Len(a) \in 1..Len(b) /\ c[i] = b[i - Len(a)]
      BY <1>1, <1>2, <2>4
    <3>3. c[i] \in NodesIn(b)
      BY <3>2 DEF NodesIn
    <3>4. QED
      BY <3>1, <3>3
  <2>5. QED
    BY <1>1, <1>2, <2>1, <2>2, <2>3, <2>4
<1>7. QED
  BY <1>5, <1>6 DEF c

-----------------------------------------------------------------------------
(* The nodes are shared out: nobody has a node twice, no two have the same *)
(* one, and together they have them all.                                   *)
Sharing ==
  /\ \A o \in Owners : Distinct(Owned(o))
  /\ \A o, p \in Owners : o # p => NodesIn(Owned(o)) \cap NodesIn(Owned(p)) = {}
  /\ UNION {NodesIn(Owned(o)) : o \in Owners} = NodesIn(NodeOrder)

Queue == <<"queue", None>>
Hand(th) == <<"thread", th>>
With(t) == <<"task", t>>

(* What each owner owns. *)
LEMMA OwnedIs ==
  /\ Owned(Queue) = nodes_q
  /\ \A th \in Threads : Owned(Hand(th)) = have[th]
  /\ \A t \in Tasks : Owned(With(t)) = nodesOf[t]
  BY DEF Owned, Queue, Hand, With

(* There are no other owners, and they differ. *)
LEMMA OwnersAre ==
  /\ \A o : o \in Owners <=> \/ o = Queue
                             \/ \E th \in Threads : o = Hand(th)
                             \/ \E t \in Holding : o = With(t)
  /\ \A th \in Threads, t \in Tasks : Queue # Hand(th) /\ Queue # With(t) /\ Hand(th) # With(t)
  /\ \A th, other : Hand(th) = Hand(other) => th = other
  /\ \A t, u : With(t) = With(u) => t = u
  BY DEF Owners, Queue, Hand, With

(* The same when it is the owners that are quantified. *)
LEMMA Covered ==
  UNION {NodesIn(Owned(o)) : o \in Owners} = NodesIn(NodeOrder)
  <=> \A n : n \in NodesIn(NodeOrder) <=> \E o \in Owners : n \in NodesIn(Owned(o))
  OBVIOUS

(* At the start all nodes are in the queue. *)
LEMMA InitSharing == Init /\ Distinct(NodeOrder) => Sharing
<1> SUFFICES ASSUME Init, Distinct(NodeOrder) PROVE Sharing
  OBVIOUS
<1>1. Holding = {}
  BY DEF Init, Holding
<1>2. Owned(Queue) = NodeOrder /\ \A th \in Threads : Owned(Hand(th)) = <<>>
  BY OwnedIs DEF Init
<1>3. \A o \in Owners : o # Queue => Owned(o) = <<>>
  BY <1>1, <1>2, OwnersAre
<1>4. Queue \in Owners
  BY OwnersAre
<1>5. QED
  BY <1>2, <1>3, <1>4, NodesInEmpty, Covered DEF Sharing

(* A step that moves no node. *)
LEMMA Unmoved ==
  ASSUME Sharing, UNCHANGED <<nodes_q, have, nodesOf>>, Holding' = Holding
  PROVE  Sharing'
  BY DEF Sharing, Owners, Owned

(* Nodes go from the queue to the hand of a thread, which was empty.       *)
LEMMA TakeNodesSharing ==
  ASSUME IInv, Stages, Sharing, NEW th \in Threads, TakeNodes(th)
  PROVE  Sharing'
<1> DEFINE n == Needs(cur[th])
<1>1. nodes_q \in Seq(Nodes) /\ n \in 0..Len(nodes_q)
  <2>1. cur[th] \in Tasks
    <3>1. pc[th] \in PutStates
      BY DEF TakeNodes, PutStates
    <3>2. QED
      BY <3>1 DEF IInv, TypeOK
  <2>2. QED
    BY <2>1, NeedsNat, LenProperties DEF IInv, TypeOK, TakeNodes
<1>2. Holding' = Holding
  BY DEF TakeNodes, Holding, IInv, TypeOK, Threads, endVars
<1>3. Queue \in Owners /\ Hand(th) \in Owners /\ Queue # Hand(th) /\ Owners' = Owners
  BY <1>2, OwnersAre, SMT DEF Owners, Queue, Hand
<1>4. Owned(Hand(th)) = <<>> /\ Owned(Queue) = nodes_q
  BY OwnedIs DEF Stages, Hands, TakeNodes
<1>5. /\ Owned(Queue)' = SubSeq(nodes_q, n + 1, Len(nodes_q))
      /\ Owned(Hand(th))' = SubSeq(nodes_q, 1, n)
      /\ \A o \in Owners \ {Queue, Hand(th)} : Owned(o)' = Owned(o)
  <2>1. /\ \A other \in Threads : have'[other] = IF other = th THEN SubSeq(nodes_q, 1, n)
                                                                  ELSE have[other]
        /\ nodes_q' = SubSeq(nodes_q, n + 1, Len(nodes_q)) /\ nodesOf' = nodesOf
    BY DEF TakeNodes, IInv, TypeOK
  <2> HIDE DEF n
  <2>2. Owned(Queue)' = nodes_q' /\ Owned(Hand(th))' = have'[th]
    BY DEF Owned, Queue, Hand
  <2>3. ASSUME NEW o \in Owners \ {Queue, Hand(th)} PROVE Owned(o)' = Owned(o)
    <3>1. CASE \E other \in Threads : o = Hand(other)
      <4>1. PICK other \in Threads : o = Hand(other)
        BY <3>1
      <4>2. other # th
        BY <2>3, <4>1
      <4>3. QED
        BY <2>1, <4>1, <4>2 DEF Owned, Hand
    <3>2. CASE \E u \in Holding : o = With(u)
      BY <2>1, <3>2 DEF Owned, With
    <3>3. QED
      BY <2>3, <3>1, <3>2, OwnersAre
  <2>4. QED
    BY <2>1, <2>2, <2>3
<1> DEFINE a == FrontOf(nodes_q, n)
           b == RestOf(nodes_q, n)
<1>6. /\ Distinct(a) /\ Distinct(b) /\ NodesIn(a) \cap NodesIn(b) = {}
      /\ NodesIn(a) \cup NodesIn(b) = NodesIn(nodes_q)
  <2>1. Distinct(nodes_q)
    BY <1>3, <1>4 DEF Sharing
  <2> HIDE DEF n
  <2>2. QED
    BY <1>1, <2>1, Cut
<1> HIDE DEF a, b, n
<1>7. \A o \in Owners : Distinct(Owned(o)')
  <2>1. Distinct(Owned(Queue)') /\ Distinct(Owned(Hand(th))')
    BY <1>5, <1>6 DEF a, b, FrontOf, RestOf
  <2>2. \A o \in Owners \ {Queue, Hand(th)} : Distinct(Owned(o)')
    BY <1>5 DEF Sharing
  <2>3. QED
    BY <2>1, <2>2
<1>8. \A o, p \in Owners : o # p => NodesIn(Owned(o)') \cap NodesIn(Owned(p)') = {}
  BY <1>3, <1>4, <1>5, <1>6 DEF Sharing, a, b, FrontOf, RestOf
<1>9. UNION {NodesIn(Owned(o)') : o \in Owners} = NodesIn(NodeOrder)
  <2>1. ASSUME NEW o \in Owners PROVE NodesIn(Owned(o)') \subseteq NodesIn(NodeOrder)
    BY <1>3, <1>4, <1>5, <1>6 DEF Sharing, a, b, FrontOf, RestOf
  <2>2. ASSUME NEW node \in NodesIn(NodeOrder)
        PROVE  \E o \in Owners : node \in NodesIn(Owned(o)')
    <3>1. PICK o \in Owners : node \in NodesIn(Owned(o))
      BY DEF Sharing
    <3>2. o # Hand(th)
      BY <1>4, <3>1, NodesInEmpty
    <3>3. CASE o = Queue
      BY <1>3, <1>4, <1>5, <1>6, <3>1, <3>3 DEF a, b, FrontOf, RestOf
    <3>4. CASE o # Queue
      BY <1>5, <3>1, <3>2, <3>4
    <3>5. QED
      BY <3>3, <3>4
  <2>3. QED
    BY <2>1, <2>2
<1>10. QED
  BY <1>3, <1>7, <1>8, <1>9 DEF Sharing, NodesIn, Distinct

(* They go from the hand of a thread to its task, which had none.          *)
LEMMA LaunchSharing ==
  ASSUME IInv, Stages, ~Fault("twice"), Sharing, NEW th \in Threads, Launch(th)
  PROVE  Sharing'
<1>0. PICK t \in Tasks : t = cur[th]
  BY DEF Launch, IInv, TypeOK, PutStates
<1>1. nodesOf[t] = <<>>
  BY <1>0 DEF Launch, IInv, Waiting
<1>2. t \notin Holding
  BY <1>1 DEF Holding
<1>3. Holding' = IF have[th] = <<>> THEN Holding ELSE Holding \cup {t}
  <2>1. \A u \in Tasks : nodesOf'[u] = IF u = t THEN have[th] ELSE nodesOf[u]
    BY <1>0 DEF Launch, IInv, TypeOK
  <2>2. pc'["ferry"] = "returning" <=> pc["ferry"] = "returning"
    BY DEF Launch, Return, IInv, TypeOK, Threads
  <2>3. pending' = pending \cup {t} /\ UNCHANGED <<running, vanished, results, rt>>
    BY <1>0 DEF Launch, endVars
  <2>4. QED
    BY <1>1, <2>1, <2>2, <2>3 DEF Holding
<1>4. Hand(th) \in Owners /\ With(t) \notin Owners /\ With(t) # Hand(th)
  BY <1>1, <1>2, OwnersAre
<1>5. Owners' = IF have[th] = <<>> THEN Owners ELSE Owners \cup {With(t)}
  BY <1>3 DEF Owners, With
<1>6. /\ \A u \in Tasks : nodesOf'[u] = IF u = t THEN have[th] ELSE nodesOf[u]
      /\ \A other \in Threads : have'[other] = IF other = th THEN <<>> ELSE have[other]
      /\ nodes_q' = nodes_q
  BY <1>0 DEF Launch, IInv, TypeOK
<1>7. /\ Owned(Hand(th)) = have[th]
      /\ Owned(Hand(th))' = <<>> /\ Owned(With(t))' = have[th]
  BY <1>1, <1>6 DEF Owned, Hand, With
<1>8. ASSUME NEW o \in Owners \ {Hand(th)} PROVE Owned(o)' = Owned(o)
  <2>1. CASE o = Queue
    BY <1>6, <2>1 DEF Owned, Queue
  <2>2. CASE \E other \in Threads : o = Hand(other)
    <3>1. PICK other \in Threads : o = Hand(other)
      BY <2>2
    <3>2. other # th
      BY <1>8, <3>1
    <3>3. QED
      BY <1>6, <3>1, <3>2 DEF Owned, Hand
  <2>3. CASE \E u \in Holding : o = With(u)
    <3>1. PICK u \in Holding : o = With(u)
      BY <2>3
    <3>2. u \in Tasks /\ u # t
      BY <1>2 DEF Holding
    <3>3. QED
      BY <1>6, <3>1, <3>2 DEF Owned, With
  <2>4. QED
    BY <1>8, <2>1, <2>2, <2>3, OwnersAre
<1>9. \A o \in Owners' : Distinct(Owned(o)')
  BY <1>4, <1>5, <1>7, <1>8, NodesInEmpty DEF Sharing
<1>10. ASSUME NEW o \in Owners', NEW p \in Owners', o # p
       PROVE  NodesIn(Owned(o)') \cap NodesIn(Owned(p)') = {}
  <2> DEFINE From(q) == IF q = With(t) THEN Hand(th) ELSE q
  <2>1. ASSUME NEW q \in Owners', q # Hand(th)
        PROVE  From(q) \in Owners /\ Owned(q)' = Owned(From(q))
    BY <1>4, <1>5, <1>7, <1>8, <2>1
  <2>2. CASE o = Hand(th) \/ p = Hand(th)
    BY <1>7, <2>2, NodesInEmpty
  <2>3. CASE o # Hand(th) /\ p # Hand(th)
    BY <1>10, <2>1, <2>3 DEF Sharing
  <2>4. QED
    BY <2>2, <2>3
<1>11. UNION {NodesIn(Owned(o)') : o \in Owners'} = NodesIn(NodeOrder)
  <2>1. ASSUME NEW o \in Owners' PROVE NodesIn(Owned(o)') \subseteq NodesIn(NodeOrder)
    <3>1. CASE o = Hand(th)
      BY <1>7, <3>1, NodesInEmpty
    <3>2. CASE o = With(t)
      BY <1>4, <1>7, <3>2 DEF Sharing
    <3>3. CASE o # Hand(th) /\ o # With(t)
      BY <1>5, <1>8, <3>3 DEF Sharing
    <3>4. QED
      BY <3>1, <3>2, <3>3
  <2>2. ASSUME NEW node \in NodesIn(NodeOrder)
        PROVE  \E o \in Owners' : node \in NodesIn(Owned(o)')
    <3>1. PICK o \in Owners : node \in NodesIn(Owned(o))
      BY DEF Sharing
    <3>2. CASE o = Hand(th)
      <4>1. have[th] # <<>> /\ With(t) \in Owners'
        BY <1>5, <1>7, <3>1, <3>2, NodesInEmpty
      <4>2. QED
        BY <1>7, <3>1, <3>2, <4>1
    <3>3. CASE o # Hand(th)
      BY <1>5, <1>8, <3>1, <3>3
    <3>4. QED
      BY <3>2, <3>3
  <2>3. QED
    BY <2>1, <2>2
<1>12. QED
  BY <1>9, <1>10, <1>11 DEF Sharing, NodesIn, Distinct

(* They go back to the queue from the task whose answer is handled.        *)
LEMMA ReturnNodesSharing ==
  ASSUME IInv, Stages, ~Fault("twice"), Sharing, ReturnNodes
  PROVE  Sharing'
<1>1. rt \in Tasks /\ rt \in Holding /\ nodesOf[rt] \in Seq(Nodes) /\ nodes_q \in Seq(Nodes)
  BY DEF ReturnNodes, IInv, TypeOK, Returning, Holding
<1>2. Holding' = Holding \ {rt}
  BY <1>1 DEF ReturnNodes, Holding, IInv, TypeOK, Stages, Once, Threads, endVars
<1>3. Queue \in Owners /\ With(rt) \in Owners /\ Queue # With(rt)
  BY <1>1, OwnersAre DEF Queue, With
<1>4. Owners' = Owners \ {With(rt)}
  BY <1>2 DEF Owners, With
<1>5. /\ Owned(Queue) = nodes_q /\ Owned(With(rt)) = nodesOf[rt]
      /\ Owned(Queue)' = nodes_q \o nodesOf[rt]
      /\ \A o \in Owners \ {Queue} : Owned(o)' = Owned(o)
  BY DEF ReturnNodes, Owned, Owners, Queue, With
<1>6. /\ Distinct(Owned(Queue)')
      /\ NodesIn(Owned(Queue)') = NodesIn(Owned(Queue)) \cup NodesIn(Owned(With(rt)))
  BY <1>1, <1>3, <1>5, Join DEF Sharing
<1>7. \A o \in Owners' : Distinct(Owned(o)')
  BY <1>4, <1>5, <1>6 DEF Sharing
<1>8. \A o, p \in Owners' : o # p => NodesIn(Owned(o)') \cap NodesIn(Owned(p)') = {}
  <2>1. \A o \in Owners' \ {Queue} : NodesIn(Owned(Queue)') \cap NodesIn(Owned(o)') = {}
    BY <1>3, <1>4, <1>5, <1>6 DEF Sharing
  <2>2. \A o, p \in Owners' \ {Queue} :
           o # p => NodesIn(Owned(o)') \cap NodesIn(Owned(p)') = {}
    BY <1>4, <1>5 DEF Sharing
  <2>3. QED
    BY <2>1, <2>2
<1>9. UNION {NodesIn(Owned(o)') : o \in Owners'} = NodesIn(NodeOrder)
  <2>1. UNION {NodesIn(Owned(o)') : o \in Owners'} = UNION {NodesIn(Owned(o)) : o \in Owners}
    BY <1>3, <1>4, <1>5, <1>6
  <2>2. QED
    BY <2>1 DEF Sharing
<1>10. QED
  BY <1>7, <1>8, <1>9 DEF Sharing, NodesIn, Distinct

(* No other step moves a node.                                             *)
LEMMA OtherSharing ==
  ASSUME IInv, Stages, ~Fault("twice"), Sharing, [Next]_vars,
         ~ReturnNodes, \A th \in Threads : ~TakeNodes(th) /\ ~Launch(th)
  PROVE  Sharing'
<1> USE DEF IInv, Threads, PutStates, endVars, nodeVars, threadVars
<1>1. ASSUME NEW t \in Tasks, PutTask(t) PROVE Sharing'
  <2>1. nodesOf[t] = <<>> /\ Holding' = Holding
    BY <1>1 DEF PutTask, Holding, TypeOK, Waiting
  <2>2. QED
    BY <1>1, <2>1, Unmoved DEF PutTask
<1>2. ASSUME NEW th \in Threads, Reserve(th) \/ PutBack(th) PROVE Sharing'
  <2>1. Holding' = Holding
    BY <1>2 DEF Reserve, PutBack, Return, Holding, TypeOK
  <2>2. QED
    BY <1>2, <2>1, Unmoved DEF Reserve, PutBack
<1>3. ASSUME NEW t \in Tasks, GetResult(t) PROVE Sharing'
  <2>1. \A u \in Tasks : results'[u] = IF u = t THEN results[t] - 1 ELSE results[u]
    BY <1>3 DEF GetResult, TypeOK
  <2>2. results[t] = 1
    BY <1>3 DEF GetResult, Stages, Once, TypeOK
  <2>3. rt = None
    BY <1>3 DEF GetResult, TypeOK
  <2>4. Holding' = Holding
    BY <1>3, <2>1, <2>2, <2>3 DEF GetResult, Holding, TypeOK
  <2>5. QED
    BY <1>3, <2>4, Unmoved DEF GetResult
<1>4. CASE CountNodes \/ PopBacklog \/ SendResult \/ RecursionFails
  <2>1. Holding' = Holding
    BY <1>4 DEF CountNodes, PopBacklog, SendResult, RecursionFails, Holding, TypeOK
  <2>2. QED
    BY <1>4, <2>1, Unmoved DEF CountNodes, PopBacklog, SendResult, RecursionFails
<1>5. ASSUME NEW t \in Tasks, Take(t) \/ Finish(t) \/ Vanish(t) PROVE Sharing'
  <2>1. UNCHANGED <<nodes_q, have, nodesOf, pc, rt>>
    BY <1>5 DEF Take, Finish, Vanish
  <2>2. \A u \in Tasks : results'[u] = IF Finish(t) /\ u = t THEN results'[t] ELSE results[u]
    BY <1>5 DEF Take, Finish, Vanish, TypeOK
  <2>3. Finish(t) => results'[t] > 0
    BY DEF Finish, TypeOK
  <2>4. Holding' = Holding
    <3>1. CASE Finish(t)
      BY <2>1, <2>2, <2>3, <3>1 DEF Finish, Holding, TypeOK
    <3>2. CASE ~Finish(t)
      BY <1>5, <2>1, <2>2, <3>2 DEF Take, Vanish, Holding
    <3>3. QED
      BY <3>1, <3>2
  <2>5. QED
    BY <2>1, <2>4, Unmoved
<1>6. CASE UNCHANGED vars
  BY <1>6, Unmoved DEF vars, Holding
<1>7. QED
  BY <1>1, <1>2, <1>3, <1>4, <1>5, <1>6 DEF Next, Place, Ferry, Work

(* Two tasks never run on the same node and no node is lost, if no task is *)
(* answered twice and the job names each node once.                        *)
THEOREM NodesShared == Spec => []NodesOwned
<1> DEFINE Good == Distinct(NodeOrder) /\ ~Fault("twice") => Sharing
<1>1. Init => Good
  BY InitSharing
<1>2. IInv /\ Stages /\ Good /\ [Next]_vars => Good'
  <2> SUFFICES ASSUME IInv, Stages, Good, [Next]_vars, Distinct(NodeOrder),
                      ~Fault("twice")'
               PROVE  Sharing'
    OBVIOUS
  <2>1. ~Fault("twice")
    BY DEF Fault, Next, vars, PutTask, Place, Reserve, TakeNodes, Launch, PutBack, Ferry,
           GetResult, ReturnNodes, CountNodes, PopBacklog, SendResult, RecursionFails, Work,
           Take, Finish, Vanish
  <2>2. QED
    BY <2>1, TakeNodesSharing, LaunchSharing, ReturnNodesSharing, OtherSharing
<1>3. IInv /\ Good => NodesOwned
  BY DEF IInv, Sharing, NodesOwned
<1> HIDE DEF Good
<1>4. QED
  BY <1>1, <1>2, <1>3, Inductive, StagesHold, PTL DEF Spec

-----------------------------------------------------------------------------
(* Two tasks.  The nodes of two tasks are counted or in use, so the thread *)
(* that has counted the nodes of one finds enough for the other.           *)

(* What waits for nodes asks for some, a task has as many as it asked for, *)
(* and with the workers or after them it has been given its nodes.         *)
Sizes ==
  /\ \A t \in backlog : Needs(t) > 0
  /\ \A th \in Threads : pc[th] \in PutStates => Needs(cur[th]) > 0
  /\ \A th \in Threads : pc[th] = "launching" => Len(have[th]) = Needs(cur[th])
  /\ \A t \in Tasks : nodesOf[t] # <<>> => Len(nodesOf[t]) = Needs(t)
  /\ \A t \in Tasks : Needs(t) > 0
       /\ (t \in pending \cup running \/ results[t] > 0 \/ sent[t] > 0) => nodesOf[t] # <<>>

(* The nodes of t have left the counter and have never come back to it.    *)
Back(t) ==
  sent[t] > 0 \/ (rt = t /\ pc["ferry"] \in PutStates \cup {"backlog"})
Used(t) ==
  \/ nodesOf[t] # <<>> /\ ~Back(t)
  \/ \E th \in Threads : cur[th] = t /\ pc[th] \in {"taking", "launching"}

Cost(t) == IF t \in Tasks /\ Used(t) THEN Needs(t) ELSE 0
Outstanding(a, b) == Cost(a) + IF a = b THEN 0 ELSE Cost(b)

(* Only a and b ask for nodes. *)
Pair(a, b) == \A t \in Tasks : Needs(t) > 0 => t \in {a, b}
TwoThatFit ==
  /\ \A t \in Tasks : Needs(t) <= Len(NodeOrder)
  /\ \E a, b \in Tasks \cup {None} : Pair(a, b)

(* Every node that two tasks do not have is counted.                       *)
Ample ==
  \A a, b \in Tasks \cup {None} : Pair(a, b) => counter + Outstanding(a, b) >= Len(NodeOrder)

(* So neither has to wait for the other in ferry_result, and none is lost. *)
Roomy ==
  TwoThatFit =>
    /\ pc["ferry"] # "full" /\ ~deep
    /\ \A t \in dropped : Needs(t) = 0
    /\ forgotten = {}

LEMMA InitSizes == Init => Sizes /\ Roomy
  BY DEF Init, Sizes, Roomy, Threads, PutStates

(* put_task notes as many nodes as the task has asked for.                 *)
LEMMA PlaceSizes ==
  ASSUME IInv, Sizes, NEW th \in Threads, Place(th)
  PROVE  Sizes'
<1> USE NodesAssumption DEF IInv, Threads, PutStates, Needs, endVars, nodeVars
<1>1. CASE Reserve(th)
  BY <1>1, SMTT(40) DEF Reserve, TypeOK, Sizes
<1>2. CASE TakeNodes(th)
  <2>1. Needs(cur[th]) \in Nat /\ Len(nodes_q) \in Nat /\ Needs(cur[th]) <= Len(nodes_q)
    BY <1>2, NeedsNat, LenProperties DEF TakeNodes, TypeOK
  <2>2. have'[th] = SubSeq(nodes_q, 1, Needs(cur[th]))
    BY <1>2 DEF TakeNodes, TypeOK
  <2>3. \A i \in 1..Needs(cur[th]) : nodes_q[i] \in Nodes
    BY <2>1, LenProperties DEF TypeOK
  <2>4. Len(have'[th]) = Needs(cur[th])
    BY <2>1, <2>2, <2>3, SubSeqProperties
  <2>5. \A other \in Threads \ {th} : have'[other] = have[other] /\ pc'[other] = pc[other]
    BY <1>2 DEF TakeNodes, TypeOK
  <2>6. UNCHANGED <<setup, cur, backlog, nodesOf, pending, running, results, sent>>
    BY <1>2 DEF TakeNodes
  <2>7. pc'[th] = "launching" /\ pc[th] = "taking"
    BY <1>2 DEF TakeNodes, TypeOK
  <2>8. QED
    BY <2>4, <2>5, <2>6, <2>7 DEF Sizes
<1>3. CASE Launch(th)
  <2>1. cur[th] \in Tasks /\ nodesOf'[cur[th]] = have[th] /\ Len(have[th]) = Needs(cur[th])
        /\ Needs(cur[th]) > 0
    BY <1>3 DEF Launch, TypeOK, Sizes
  <2>2. have[th] # <<>>
    BY <2>1
  <2>3. \A t \in Tasks : nodesOf'[t] = IF t = cur[th] THEN have[th] ELSE nodesOf[t]
    BY <1>3, <2>1 DEF Launch, TypeOK
  <2>4. QED
    BY <1>3, <2>1, <2>2, <2>3 DEF Launch, Return, Sizes, TypeOK
<1>4. CASE PutBack(th)
  BY <1>4 DEF PutBack, Return, TypeOK, Sizes
<1>5. QED
  BY <1>1, <1>2, <1>3, <1>4 DEF Place

(* get_result looks at answers of tasks that have been launched.           *)
LEMMA FerrySizes ==
  ASSUME IInv, Sizes, Ferry \/ RecursionFails
  PROVE  Sizes'
<1> USE NodesAssumption DEF IInv, Threads, PutStates, Needs, endVars, nodeVars
<1>1. ASSUME NEW t \in Tasks, GetResult(t) PROVE Sizes'
  <2>1. \A u \in Tasks : results'[u] > 0 => results[u] > 0
    BY <1>1 DEF GetResult, TypeOK
  <2>2. QED
    BY <1>1, <2>1 DEF GetResult, Sizes, TypeOK
<1>2. CASE ReturnNodes \/ CountNodes
  BY <1>2, SMTT(40) DEF ReturnNodes, CountNodes, TypeOK, Sizes
<1>3. CASE PopBacklog
  BY <1>3 DEF PopBacklog, First, TypeOK, Sizes
<1>4. CASE SendResult
  <2>1. \A u \in Tasks : sent'[u] > 0 => sent[u] > 0 \/ u = rt
    BY <1>4 DEF SendResult, TypeOK
  <2>2. nodesOf[rt] # <<>>
    BY <1>4 DEF SendResult, TypeOK, Returning
  <2>3. QED
    BY <1>4, <2>1, <2>2 DEF SendResult, Sizes, TypeOK
<1>5. CASE RecursionFails
  BY <1>5 DEF RecursionFails, First, TypeOK, Sizes
<1>6. QED
  BY <1>1, <1>2, <1>3, <1>4, <1>5 DEF Ferry

(* A worker answers a task that it was given.                              *)
LEMMA WorkSizes ==
  ASSUME IInv, Sizes, NEW t \in Tasks, PutTask(t) \/ Take(t) \/ Finish(t) \/ Vanish(t)
  PROVE  Sizes'
<1> USE NodesAssumption DEF IInv, Threads, PutStates, Needs, endVars, nodeVars, threadVars
<1>1. CASE PutTask(t)
  <2>1. CASE Needs(t) = 0
    <3>1. UNCHANGED <<setup, pc, cur, have, nodesOf, backlog, running, results, sent>>
          /\ pending' = pending \cup {t}
      BY <1>1, <2>1 DEF PutTask
    <3>2. QED
      BY <2>1, <3>1 DEF Sizes
  <2>2. CASE Needs(t) # 0
    <3>1. setup' = setup /\ backlog' = backlog /\ nodesOf' = nodesOf /\ have' = have
          /\ UNCHANGED <<pending, running, results, sent>>
      BY <1>1, <2>2 DEF PutTask
    <3>2. \A th \in Threads :
            \/ pc'[th] = pc[th] /\ cur'[th] = cur[th]
            \/ pc'[th] = "asking" /\ cur'[th] = t
      BY <1>1, <2>2 DEF PutTask, TypeOK
    <3>3. Needs(t) > 0
      BY <2>2, NeedsNat
    <3>4. QED
      BY <3>1, <3>2, <3>3 DEF Sizes
  <2>3. QED
    BY <2>1, <2>2
<1>2. CASE Take(t) \/ Vanish(t)
  BY <1>2 DEF Take, Vanish, TypeOK, Sizes
<1>3. CASE Finish(t)
  <2>1. \A u \in Tasks : results'[u] > 0 => results[u] > 0 \/ u \in running
    BY <1>3 DEF Finish, TypeOK
  <2>2. QED
    BY <1>3, <2>1 DEF Finish, Sizes
<1>4. QED
  BY <1>1, <1>2, <1>3

-----------------------------------------------------------------------------
LEMMA CostNat == ASSUME TypeOK, NEW t \in Tasks \cup {None} PROVE Cost(t) \in Nat
  BY NeedsNat DEF Cost

LEMMA InitAmple == Init => Ample
<1> SUFFICES ASSUME Init, NEW a \in Tasks \cup {None}, NEW b \in Tasks \cup {None}
             PROVE  counter + Outstanding(a, b) >= Len(NodeOrder)
  BY DEF Ample
<1>1. Cost(a) \in Nat /\ Cost(b) \in Nat /\ Len(NodeOrder) \in Nat
  BY InitInv, CostNat, LenProperties, NodesAssumption DEF IInv
<1>2. QED
  BY <1>1 DEF Outstanding, Init

(* Nodes that are counted less are in use, and none comes back uncounted:  *)
(* a step that changes the use of one task, and the counter with it.       *)
LEMMA OneTask ==
  ASSUME IInv, Ample, TypeOK', setup' = setup, NEW t \in Tasks, Needs(t) > 0,
         \A u \in Tasks \ {t} : Used(u) => Used(u)',
         counter' + Cost(t)' >= counter + Cost(t)
  PROVE  Ample'
<1> SUFFICES ASSUME NEW a \in Tasks \cup {None}, NEW b \in Tasks \cup {None}, Pair(a, b)'
             PROVE  counter' + Outstanding(a, b)' >= Len(NodeOrder)
  BY DEF Ample
<1>1. Pair(a, b)
  BY DEF Pair, Needs
<1>2. t \in {a, b}
  BY <1>1 DEF Pair
<1>3. counter + Outstanding(a, b) >= Len(NodeOrder)
  BY <1>1 DEF Ample
<1>4. \A u \in Tasks \cup {None} : Cost(u) \in Nat
  BY CostNat DEF IInv
<1>5. \A u \in Tasks \cup {None} : Cost(u)' \in Nat
  BY CostNat, NodesAssumption, NeedsNat DEF Cost, TypeOK, Needs
<1>6. \A u \in (Tasks \cup {None}) \ {t} : Cost(u)' >= Cost(u)
  BY <1>4, <1>5 DEF Cost, Needs
<1>7. counter \in Nat /\ counter' \in Nat /\ Len(NodeOrder) \in Nat
  BY LenProperties, NodesAssumption DEF IInv, TypeOK
<1> HIDE DEF Cost
<1>8. QED
  BY <1>2, <1>3, <1>4, <1>5, <1>6, <1>7 DEF Outstanding

(* A step that frees nothing.                                              *)
LEMMA NoTask ==
  ASSUME IInv, Ample, TypeOK', setup' = setup, counter' = counter,
         \A u \in Tasks : Used(u) => Used(u)'
  PROVE  Ample'
<1> SUFFICES ASSUME NEW a \in Tasks \cup {None}, NEW b \in Tasks \cup {None}, Pair(a, b)'
             PROVE  counter' + Outstanding(a, b)' >= Len(NodeOrder)
  BY DEF Ample
<1>3. counter + Outstanding(a, b) >= Len(NodeOrder)
  BY DEF Ample, Pair, Needs
<1>4. \A u \in Tasks \cup {None} : Cost(u) \in Nat
  BY CostNat DEF IInv
<1>5. \A u \in Tasks \cup {None} : Cost(u)' \in Nat
  BY CostNat, NodesAssumption, NeedsNat DEF Cost, TypeOK, Needs
<1>6. \A u \in Tasks \cup {None} : Cost(u)' >= Cost(u)
  BY <1>4, <1>5 DEF Cost, Needs
<1>7. counter \in Nat /\ Len(NodeOrder) \in Nat
  BY LenProperties, NodesAssumption DEF IInv, TypeOK
<1>8. QED
  BY <1>3, <1>4, <1>5, <1>6, <1>7 DEF Outstanding

LEMMA NextAmple == ASSUME IInv, Sizes, Ample, [Next]_vars PROVE Ample'
<1> USE NodesAssumption DEF Threads, PutStates, Needs, endVars, nodeVars
<1>1. TypeOK'
  BY NextInv DEF IInv
<1>2. ASSUME NEW th \in Threads, Reserve(th) PROVE Ample'
  <2>1. CASE Needs(cur[th]) <= counter
    <3>0. PICK t \in Tasks : t = cur[th]
      BY <1>2 DEF Reserve, IInv, TypeOK
    <3>1. nodesOf[t] = <<>> /\ Needs(t) > 0
      BY <1>2, <3>0 DEF Reserve, IInv, TypeOK, Waiting, Sizes
    <3>2. ~Used(t) /\ Used(t)'
      BY <1>2, <2>1, <3>0, <3>1 DEF Reserve, Used, IInv, TypeOK, Waiting
    <3>3. \A u \in Tasks \ {t} : Used(u) => Used(u)'
      BY <1>2, <2>1, <3>0 DEF Reserve, Used, Back, IInv, TypeOK
    <3>4. counter' + Needs(t) = counter /\ Cost(t) = 0
          /\ Cost(t)' = Needs(t)
      BY <1>2, <2>1, <3>0, <3>1, <3>2, NeedsNat DEF Reserve, Cost, IInv, TypeOK
    <3>5. setup' = setup /\ counter' \in Nat /\ counter \in Nat /\ Cost(t)' \in Nat
      BY <1>1, <1>2, <3>0, <3>1, <3>4, NeedsNat DEF Reserve, IInv, TypeOK
    <3>6. counter' + Cost(t)' >= counter + Cost(t)
      BY <3>4, <3>5
    <3>7. QED
      BY <1>1, <3>1, <3>3, <3>5, <3>6, OneTask
  <2>2. CASE ~(Needs(cur[th]) <= counter)
    <3>1. \A u \in Tasks : Used(u) => Used(u)'
      BY <1>2, <2>2 DEF Reserve, Used, Back, IInv, TypeOK
    <3>2. QED
      BY <1>1, <1>2, <2>2, <3>1, NoTask DEF Reserve
  <2>3. QED
    BY <2>1, <2>2
<1>3. ASSUME NEW th \in Threads, TakeNodes(th) \/ PutBack(th) PROVE Ample'
  <2>1. \A u \in Tasks : Used(u) => Used(u)'
    BY <1>3 DEF TakeNodes, PutBack, Return, Used, Back, IInv, TypeOK
  <2>2. QED
    BY <1>1, <1>3, <2>1, NoTask DEF TakeNodes, PutBack
<1>4. ASSUME NEW th \in Threads, Launch(th) PROVE Ample'
  <2>0. PICK t \in Tasks : t = cur[th]
    BY <1>4 DEF Launch, IInv, TypeOK
  <2>1. nodesOf[t] = <<>> /\ Needs(t) > 0 /\ t # rt
    BY <1>4, <2>0 DEF Launch, IInv, TypeOK, Waiting, Returning, Sizes
  <2>2. have[th] # <<>> /\ nodesOf'[t] = have[th]
    BY <1>4, <2>0, <2>1 DEF Launch, IInv, TypeOK, Sizes
  <2>3. ~(sent[t] > 0)
    BY <2>1 DEF Sizes
  <2>4. Used(t)'
    BY <1>4, <2>1, <2>2, <2>3 DEF Launch, Used, Back
  <2>5. \A u \in Tasks \ {t} : Used(u) => Used(u)'
    BY <1>4, <2>0 DEF Launch, Return, Used, Back, IInv, TypeOK
  <2>6. QED
    BY <1>1, <1>4, <2>4, <2>5, NoTask DEF Launch
<1>5. ASSUME NEW t \in Tasks, GetResult(t) PROVE Ample'
  <2>1. \A u \in Tasks : Used(u) => Used(u)'
    BY <1>5 DEF GetResult, Used, Back, IInv, TypeOK
  <2>2. QED
    BY <1>1, <1>5, <2>1, NoTask DEF GetResult
<1>6. CASE ReturnNodes \/ PopBacklog \/ SendResult \/ RecursionFails
  <2>1. \A u \in Tasks : Used(u) => Used(u)'
    BY <1>6 DEF ReturnNodes, PopBacklog, First, SendResult, RecursionFails, Used, Back, IInv,
                TypeOK
  <2>2. QED
    BY <1>1, <1>6, <2>1, NoTask DEF ReturnNodes, PopBacklog, SendResult, RecursionFails
<1>7. CASE CountNodes
  <2>0. PICK t \in Tasks : t = rt
    BY <1>7 DEF CountNodes, IInv, TypeOK
  <2>1. nodesOf[t] \in Seq(Nodes) /\ nodesOf[t] # <<>> /\ Len(nodesOf[t]) = Needs(t)
    BY <1>7, <2>0 DEF CountNodes, IInv, TypeOK, Returning, Sizes
  <2>2. Needs(t) \in Nat /\ Needs(t) > 0
    <3>1. Len(nodesOf[t]) \in Nat \ {0}
      BY <2>1, EmptySeq
    <3>2. QED
      BY <2>1, <3>1
  <2>3. \A u \in Tasks \ {t} : Used(u) => Used(u)'
    BY <1>7, <2>0 DEF CountNodes, Used, Back, IInv, TypeOK
  <2>4. counter' = counter + Needs(t) /\ setup' = setup /\ counter \in Nat
    BY <1>7, <2>0, <2>1 DEF CountNodes, IInv, TypeOK
  <2>5. Cost(t) \in 0..Needs(t) /\ Cost(t)' \in Nat
    BY <2>2, <2>4 DEF Cost
  <2>6. counter' + Cost(t)' >= counter + Cost(t)
    BY <2>2, <2>4, <2>5
  <2>7. QED
    BY <1>1, <2>2, <2>3, <2>4, <2>6, OneTask
<1>8. ASSUME NEW t \in Tasks, PutTask(t) PROVE Ample'
  <2>1. \A u \in Tasks : Used(u) => Used(u)'
    BY <1>8 DEF PutTask, Used, Back, IInv, TypeOK
  <2>2. QED
    BY <1>1, <1>8, <2>1, NoTask DEF PutTask
<1>9. ASSUME NEW t \in Tasks, Take(t) \/ Finish(t) \/ Vanish(t) PROVE Ample'
  <2>1. UNCHANGED <<setup, counter, nodesOf, pc, cur, rt, sent>>
    BY <1>9 DEF Take, Finish, Vanish, threadVars
  <2>2. QED
    BY <1>1, <2>1, NoTask DEF Used, Back
<1>10. CASE UNCHANGED vars
  BY <1>1, <1>10, NoTask DEF vars, threadVars, Used, Back
<1>11. QED
  BY <1>2, <1>3, <1>4, <1>5, <1>6, <1>7, <1>8, <1>9, <1>10 DEF Next, Place, Ferry, Work

(* When the answer of one of two tasks is handled and the other waits in   *)
(* the same thread, all nodes are counted.                                 *)
LEMMA FerryFits ==
  ASSUME IInv, Sizes, Ample, TwoThatFit, pc["ferry"] = "asking"
  PROVE  Needs(cur["ferry"]) <= counter
<1>1. PICK a \in Tasks \cup {None}, b \in Tasks \cup {None} : Pair(a, b)
  BY DEF TwoThatFit
<1>2. PICK t \in Tasks, u \in Tasks : t = cur["ferry"] /\ u = rt
  BY DEF IInv, TypeOK, Threads, PutStates
<1>3. nodesOf[t] = <<>> /\ nodesOf[u] # <<>> /\ t # u
  BY <1>2, NodesAssumption DEF IInv, Waiting, Returning, Threads
<1>4. Needs(t) > 0 /\ Needs(u) > 0
  <2>1. Needs(t) > 0
    BY <1>2 DEF Sizes, Threads, PutStates
  <2>2. nodesOf[u] \in Seq(Nodes) /\ Len(nodesOf[u]) = Needs(u)
    BY <1>3 DEF IInv, TypeOK, Sizes
  <2>3. Len(nodesOf[u]) \in Nat \ {0}
    BY <1>3, <2>2, EmptySeq
  <2>4. QED
    BY <2>1, <2>2, <2>3
<1>5. {a, b} = {t, u}
  BY <1>1, <1>3, <1>4 DEF Pair
<1>6. ~Used(t) /\ ~Used(u)
  <2>1. ~Used(t)
    BY <1>2, <1>3 DEF Used, IInv, Waiting, Threads, TypeOK
  <2>2. ~Used(u)
    BY <1>2, <1>3 DEF Used, Back, IInv, Waiting, Threads, PutStates
  <2>3. QED
    BY <2>1, <2>2
<1>7. Outstanding(a, b) = 0
  BY <1>5, <1>6 DEF Outstanding, Cost
<1>8. counter + 0 >= Len(NodeOrder)
  BY <1>1, <1>7 DEF Ample
<1>9. Needs(t) <= Len(NodeOrder) /\ Needs(t) \in Nat /\ counter \in Nat
      /\ Len(NodeOrder) \in Nat
  BY NeedsNat, LenProperties, NodesAssumption DEF TwoThatFit, IInv, TypeOK
<1>10. QED
  BY <1>2, <1>8, <1>9

LEMMA NextRoomy == ASSUME IInv, Sizes, Ample, Roomy, [Next]_vars PROVE Roomy'
<1> USE NodesAssumption DEF Threads, PutStates, endVars, nodeVars, threadVars
<1>0. setup' = setup
  BY DEF Next, vars, PutTask, Place, Reserve, TakeNodes, Launch, PutBack, Ferry, GetResult,
         ReturnNodes, CountNodes, PopBacklog, SendResult, RecursionFails, Work, Take, Finish,
         Vanish
<1>1. TwoThatFit' => TwoThatFit
  BY <1>0 DEF TwoThatFit, Pair, Needs
<1> SUFFICES ASSUME TwoThatFit
             PROVE  /\ pc'["ferry"] # "full" /\ ~deep'
                    /\ \A t \in dropped' : Needs(t)' = 0
                    /\ forgotten' = {}
  BY <1>1 DEF Roomy
<1>2. pc["ferry"] # "full" /\ ~deep /\ (\A t \in dropped : Needs(t) = 0) /\ forgotten = {}
  BY DEF Roomy
<1>3. \A t \in Tasks : Needs(t)' = Needs(t)
  BY <1>0 DEF Needs
<1>4. dropped \subseteq Tasks
  BY DEF IInv, TypeOK
<1>5. ASSUME NEW th \in Threads, Reserve(th) PROVE pc'["ferry"] # "full"
  BY <1>2, <1>5, FerryFits DEF Reserve, IInv, TypeOK
<1>6. ASSUME NEW t \in Tasks, GetResult(t) PROVE \A u \in dropped' : Needs(u) = 0
  <2>1. nodesOf[t] = <<>> => Needs(t) = 0
    BY <1>6, NeedsNat DEF GetResult, Sizes, IInv
  <2>2. QED
    BY <1>2, <1>6, <2>1 DEF GetResult
<1>7. ~RecursionFails
  BY <1>2 DEF RecursionFails
<1>8. pc'["ferry"] # "full"
  BY <1>2, <1>5, <1>7 DEF Next, vars, PutTask, Place, TakeNodes, Launch, PutBack, Return,
       Ferry, GetResult, ReturnNodes, CountNodes, PopBacklog, SendResult, Work, Take, Finish,
       Vanish, IInv, TypeOK
<1>9. ~deep'
  BY <1>2, <1>7 DEF Next, vars, PutTask, Place, Reserve, TakeNodes, Launch, PutBack, Ferry,
       GetResult, ReturnNodes, CountNodes, PopBacklog, SendResult, Work, Take, Finish, Vanish
<1>10. forgotten' = {} /\ \A t \in dropped' : Needs(t) = 0
  BY <1>2, <1>6, <1>7 DEF Next, vars, PutTask, Place, Reserve, TakeNodes, Launch, PutBack,
       Ferry, GetResult, ReturnNodes, CountNodes, PopBacklog, SendResult, Work, Take, Finish,
       Vanish
<1>11. dropped' \subseteq Tasks
  BY NextInv DEF IInv, TypeOK
<1>12. QED
  BY <1>3, <1>8, <1>9, <1>10, <1>11

(* A new member. *)
LEMMA AddOne ==
  ASSUME NEW S, IsFiniteSet(S), NEW x, x \notin S
  PROVE  IsFiniteSet(S \cup {x}) /\ Cardinality(S \cup {x}) = Cardinality(S) + 1
  BY FS_AddElement

(* Of a finite set with at most two members, two are enough.               *)
LEMMA TwoAtMost ==
  ASSUME NEW S, IsFiniteSet(S), Cardinality(S) <= 2, NEW none
  PROVE  \E a, b \in S \cup {none} : S \subseteq {a, b}
<1>1. CASE S = {}
  BY <1>1
<1>2. CASE S # {}
  <2>1. PICK a \in S : TRUE
    BY <1>2
  <2>2. CASE S \subseteq {a}
    BY <2>1, <2>2
  <2>3. CASE ~(S \subseteq {a})
    <3>1. PICK b \in S \ {a} : TRUE
      BY <2>3
    <3>2. ASSUME NEW c \in S \ {a, b} PROVE FALSE
      <4>1. {a, b, c} \subseteq S /\ IsFiniteSet({a, b, c})
        BY <2>1, <3>1, <3>2, FS_Subset
      <4>2. Cardinality({a, b, c}) = 3
        <5>1. IsFiniteSet({a, b}) /\ Cardinality({a, b}) = 2
          <6>1. {a, b} = {a} \cup {b} /\ b \notin {a}
            BY <3>1
          <6>2. IsFiniteSet({a}) /\ Cardinality({a}) = 1
            BY FS_Singleton, Zenon
          <6>3. IsFiniteSet({a} \cup {b})
                /\ Cardinality({a} \cup {b}) = Cardinality({a}) + 1
            BY <6>1, <6>2, AddOne, Zenon
          <6>4. QED
            BY <6>1, <6>2, <6>3
        <5>2. {a, b, c} = {a, b} \cup {c} /\ c \notin {a, b}
          BY <3>2
        <5>3. Cardinality({a, b} \cup {c}) = Cardinality({a, b}) + 1
          BY <5>1, <5>2, AddOne, Zenon
        <5>4. QED
          BY <5>1, <5>2, <5>3
      <4>3. Cardinality({a, b, c}) <= Cardinality(S) /\ Cardinality(S) \in Nat
        BY <4>1, FS_Subset, FS_CardinalityType
      <4>4. QED
        BY <4>2, <4>3
    <3>3. QED
      BY <2>1, <3>1, <3>2
  <2>4. QED
    BY <2>2, <2>3
<1>3. QED
  BY <1>1, <1>2

(* Two tasks that each fit on the nodes never cost an answer, of them or   *)
(* of others, whatever the order of the two threads, with answers that     *)
(* come twice and workers that vanish (_schedule_backlog_tasks).           *)
THEOREM TwoNeverDropped ==
  ASSUME IsFiniteSet(Tasks)
  PROVE  Spec => []NoneDropped
<1>1. Init => Sizes /\ Ample /\ Roomy
  BY InitSizes, InitAmple
<1>2. IInv /\ Sizes /\ [Next]_vars => Sizes'
  <2> SUFFICES ASSUME IInv, Sizes, [Next]_vars PROVE Sizes'
    OBVIOUS
  <2>1. CASE UNCHANGED vars
    BY <2>1 DEF vars, threadVars, nodeVars, endVars, Sizes, Needs
  <2>2. QED
    BY <2>1, PlaceSizes, FerrySizes, WorkSizes DEF Next, Work
<1>3. IInv /\ Sizes /\ Ample /\ Roomy /\ [Next]_vars => (Ample /\ Roomy)'
  BY NextAmple, NextRoomy
<1>4. IInv /\ Roomy => NoneDropped
  <2> SUFFICES ASSUME IInv, Roomy,
                      \A t \in Tasks : Needs(t) <= Len(NodeOrder),
                      Cardinality({t \in Tasks : Needs(t) > 0}) <= 2
               PROVE  (\A t \in dropped : Needs(t) = 0) /\ forgotten = {}
    BY DEF NoneDropped
  <2> DEFINE S == {t \in Tasks : Needs(t) > 0}
  <2>1. IsFiniteSet(S) /\ Cardinality(S) <= 2
    BY FS_Subset
  <2>2. PICK a \in S \cup {None}, b \in S \cup {None} : S \subseteq {a, b}
    <3> HIDE DEF S
    <3>1. \E a, b \in S \cup {None} : S \subseteq {a, b}
      BY <2>1, TwoAtMost, Zenon
    <3>2. QED
      BY <3>1
  <2>3. Pair(a, b)
    BY <2>2 DEF Pair
  <2>4. TwoThatFit
    BY <2>2, <2>3 DEF TwoThatFit
  <2>5. QED
    BY <2>4 DEF Roomy
<1>5. QED
  BY <1>1, <1>2, <1>3, <1>4, Inductive, PTL DEF Spec
=============================================================================
