------------------------ MODULE HighThroughputProofs -----------------------
(***************************************************************************)
(* Theorems about HighThroughput, for every set of tasks, managers and     *)
(* workers, every capacity and every fault.                                *)
(*                                                                         *)
(* The two parts of the invariant meet where a task changes hands.  The    *)
(* interchange's part (Whereabouts, Attention) says where a task is        *)
(* accounted for.  The managers' part (Sending and the In... conjuncts)    *)
(* says where it is: the places exclude each other but for a worker's note *)
(* of a task it has answered, which is why there may be two answers.       *)
(***************************************************************************)
EXTENDS HighThroughput, FiniteSetTheorems, TLAPS

(* A task that the executor tracks is in one place, and managers that have *)
(* tasks are ready.                                                        *)
Whereabouts ==
  /\ interesting \subseteq Ready
  /\ \A t \in Tasks :
       /\ t \in toIx => fut[t] = "pending" /\ t \notin queued /\ answers[t] = 0
       /\ t \in queued => fut[t] = "pending" /\ answers[t] = 0
       /\ answers[t] # 0 => fut[t] = "pending"
       /\ fut[t] = "pending" => \/ t \in toIx \cup queued
                                \/ answers[t] # 0
                                \/ \E m \in Managers : t \in assigned[m]
  /\ \A m \in Managers : \A t \in assigned[m] :
       /\ m \in Ready
       /\ fut[t] = "pending" /\ t \notin toIx \cup queued /\ answers[t] = 0
       /\ \A n \in Managers \ {m} : t \notin assigned[n]

(* What the dispatching handlers know of a manager.                        *)
Attention ==
  /\ WithinCapacity
  /\ NoForgottenManager
  /\ \A m \in draining : reg[m] \notin {"new", "sent"}
  /\ \A m \in interesting \cap draining : assigned[m] # {}

Busy(w) == work[w] \in {"taken", "running"}

(* t has left the interchange's queue. *)
Sent(t) == fut[t] \in {"pending", "done", "abandoned"} /\ t \notin toIx \cup queued

Sending ==
  /\ \A m \in Managers : \A t \in pending[m] : Sent(t)
  /\ \A w \in Workers : Busy(w) => Sent(wtask[w])
  /\ \A w \in Workers : \A t \in unflushed[w] : Sent(t)
  /\ \A w \in Workers : noted[w] # None => Sent(noted[w])
  /\ \A m \in Managers : \A t \in Tasks : reports[m][t] # 0 => Sent(t)
  /\ \A t \in lost : Sent(t)

InPending ==
  \A m \in Managers : \A t \in pending[m] :
    /\ t \notin lost
    /\ \A n \in Managers : reports[n][t] = 0 /\ (n # m => t \notin pending[n])
    /\ \A w \in Workers : (Busy(w) => wtask[w] # t) /\ t \notin unflushed[w] /\ noted[w] # t

InWork ==
  \A w \in Workers : Busy(w) =>
    /\ wtask[w] \in Tasks \ lost
    /\ \A n \in Managers : reports[n][wtask[w]] = 0
    /\ \A v \in Workers :
         /\ wtask[w] \notin unflushed[v]
         /\ v # w => noted[v] # wtask[w] /\ (Busy(v) => wtask[v] # wtask[w])

InFeeder ==
  \A w \in Workers : \A t \in unflushed[w] :
    /\ t \notin lost
    /\ \A n \in Managers : reports[n][t] = 0
    /\ \A v \in Workers \ {w} : t \notin unflushed[v] /\ noted[v] # t

InNotes ==
  \A w \in Workers : noted[w] # None =>
    /\ \A n \in Managers : reports[n][noted[w]] <= 1
    /\ \A v \in Workers \ {w} : noted[v] # noted[w]

WorkerStates ==
  \A w \in Workers :
    /\ work[w] \in {"idle", "taken"} => noted[w] = None
    /\ work[w] \in {"running", "finished"} => wtask[w] \in Tasks /\ noted[w] = wtask[w]
    /\ work[w] = "dead" => unflushed[w] = {}

(* m still counts t as its own, unless it has been given up. *)
Keeps(m, t) == t \in assigned[m] \/ reg[m] = "expired"

Keeping ==
  /\ \A m \in Managers : \A t \in pending[m] : Keeps(m, t)
  /\ \A w \in Workers : Busy(w) => Keeps(Home[w], wtask[w])
  /\ \A w \in Workers : \A t \in unflushed[w] : Keeps(Home[w], t)

(* The inductive invariant. *)
IInv == /\ TypeOK
        /\ Whereabouts
        /\ Attention
        /\ Sending
        /\ InPending
        /\ InWork
        /\ InFeeder
        /\ InNotes
        /\ WorkerStates
        /\ Keeping

-----------------------------------------------------------------------------
(* Sets of tasks are finite.                                               *)
LEMMA FiniteAssigned ==
  ASSUME TypeOK, NEW m \in Managers
  PROVE  IsFiniteSet(assigned[m]) /\ Cardinality(assigned[m]) \in Nat
<1>1. assigned[m] \in SUBSET Tasks
  BY DEF TypeOK
<1>2. IsFiniteSet(assigned[m])
  BY <1>1, TasksAssumption, FS_Subset
<1> QED
  BY <1>2, FS_CardinalityType

(* The sizes of disjoint sets add up.                                      *)
LEMMA DisjointUnion ==
  ASSUME NEW A, NEW B, IsFiniteSet(A), IsFiniteSet(B), A \cap B = {}
  PROVE  Cardinality(A \cup B) = Cardinality(A) + Cardinality(B)
<1>1. Cardinality(A \cup B) = Cardinality(A) + Cardinality(B) - Cardinality(A \cap B)
  BY FS_Union
<1>2. Cardinality(A \cap B) = 0
  BY FS_EmptySet
<1>3. Cardinality(A) \in Nat /\ Cardinality(B) \in Nat
  BY FS_CardinalityType
<1> QED
  BY <1>1, <1>2, <1>3

(* Where managers and workers only lose tasks, notes and answers, the      *)
(* managers' part of the invariant stays.                                  *)
LEMMA Shrinking ==
  ASSUME IInv, TypeOK', UNCHANGED <<fut, toIx, queued, lost>>,
         \A n \in Managers : pending'[n] \subseteq pending[n],
         \A n \in Managers, t \in Tasks : reports'[n][t] <= reports[n][t],
         \A w \in Workers : /\ Busy(w)' => Busy(w) /\ wtask'[w] = wtask[w]
                            /\ noted'[w] \in {noted[w], None}
                            /\ unflushed'[w] \subseteq unflushed[w]
  PROVE  Sending' /\ InPending' /\ InWork' /\ InFeeder' /\ InNotes'
<1> USE NoneAssumption DEF IInv
<1>1. \A n \in Managers, t \in Tasks :
        /\ reports[n][t] \in 0..2 /\ reports'[n][t] \in 0..2
        /\ reports[n][t] = 0 => reports'[n][t] = 0
        /\ reports[n][t] <= 1 => reports'[n][t] <= 1
  <2> SUFFICES ASSUME NEW n \in Managers, NEW t \in Tasks
               PROVE /\ reports[n][t] \in 0..2 /\ reports'[n][t] \in 0..2
                     /\ reports[n][t] = 0 => reports'[n][t] = 0
                     /\ reports[n][t] <= 1 => reports'[n][t] <= 1
    OBVIOUS
  <2>1. reports[n][t] \in 0..2 /\ reports'[n][t] \in 0..2
    BY DEF TypeOK
  <2> QED
    BY <2>1
<1>2. \A n \in Managers : pending[n] \subseteq Tasks
  BY DEF TypeOK
<1>3. \A w \in Workers : unflushed[w] \subseteq Tasks /\ noted[w] \in Tasks \cup {None}
  BY DEF TypeOK
<1>4. Sending'
  BY <1>1 DEF Sending, Sent
<1>5. InPending'
  BY <1>1, <1>2 DEF InPending
<1>6. InWork'
  BY <1>1 DEF InWork
<1>7. InFeeder'
  BY <1>1, <1>3 DEF InFeeder
<1>8. InNotes'
  BY <1>1, <1>3 DEF InNotes
<1> QED
  BY <1>4, <1>5, <1>6, <1>7, <1>8

-----------------------------------------------------------------------------
(* In the beginning there is nothing anywhere.                             *)
LEMMA InitInv == Init => IInv
<1> SUFFICES ASSUME Init PROVE IInv
  OBVIOUS
<1> USE NoneAssumption DEF Init, InitClient, InitInterchange, InitManagers, InitWorkers
<1>1. TypeOK /\ Whereabouts
  BY DEF TypeOK, Whereabouts, Ready
<1>2. Attention
  BY CapacityAssumption, FS_EmptySet
     DEF Attention, WithinCapacity, NoForgottenManager, Ready, Room
<1>3. Sending /\ InPending /\ InWork /\ InFeeder /\ InNotes /\ WorkerStates
  BY DEF Sending, Busy, InPending, InWork, InFeeder, InNotes, WorkerStates
<1>4. Keeping
  BY DEF Keeping, Busy
<1> QED
  BY <1>1, <1>2, <1>3, <1>4 DEF IInv

(* A new task is nowhere, so it is in one place now.                       *)
LEMMA SubmitInv ==
  ASSUME IInv, NEW t \in Tasks, Submit(t)
  PROVE  IInv'
<1> USE NoneAssumption DEF IInv, Submit, clientVars, ixVars, managerVars, workerVars
<1>1. TypeOK'
  BY DEF TypeOK
<1>2. Whereabouts'
  BY DEF Whereabouts, Ready, TypeOK
<1>3. Sending'
  BY DEF Sending, Sent, Busy, TypeOK
<1>4. Attention' /\ InPending' /\ InWork' /\ InFeeder' /\ InNotes'
      /\ WorkerStates' /\ Keeping'
  BY DEF Attention, WithinCapacity, NoForgottenManager, Ready, Room,
         InPending, Busy, InWork, InFeeder, InNotes, WorkerStates, Keeping,
         Keeps
<1> QED
  BY <1>1, <1>2, <1>3, <1>4 DEF IInv

(* A task that is not sent is nowhere and stays there.                     *)
LEMMA SubmitFailsInv ==
  ASSUME IInv, NEW t \in Tasks, SubmitFails(t)
  PROVE  IInv'
<1> USE NoneAssumption DEF IInv, SubmitFails, clientVars, ixVars, managerVars, workerVars
<1>1. TypeOK'
  BY DEF TypeOK
<1>2. Whereabouts'
  BY DEF Whereabouts, Ready, TypeOK
<1>3. Sending'
  BY DEF Sending, Sent, Busy, TypeOK
<1>4. Attention' /\ InPending' /\ InWork' /\ InFeeder' /\ InNotes'
      /\ WorkerStates' /\ Keeping'
  BY DEF Attention, WithinCapacity, NoForgottenManager, Ready, Room,
         InPending, Busy, InWork, InFeeder, InNotes, WorkerStates, Keeping,
         Keeps
<1> QED
  BY <1>1, <1>2, <1>3, <1>4 DEF IInv

(* An answer is for a pending task, so tasks.pop finds it.                 *)
LEMMA ReceiveInv ==
  ASSUME IInv, NEW t \in Tasks, Receive(t)
  PROVE  IInv'
<1> USE NoneAssumption DEF IInv, Receive, clientVars, ixVars, managerVars, workerVars
<1>a. answers[t] = 1 /\ fut[t] = "pending" /\ t \in Table
  <2>1. answers[t] \in 0..1 /\ answers[t] > 0
    BY DEF TypeOK
  <2>2. answers[t] = 1
    BY <2>1
  <2> QED
    BY <2>2 DEF Whereabouts, Table
<1>b. /\ fut' = [fut EXCEPT ![t] = "done"] /\ receiving' = receiving
      /\ answers' = [answers EXCEPT ![t] = 0]
  BY <1>a
<1>c. t \notin toIx \cup queued /\ \A m \in Managers : t \notin assigned[m]
  BY <1>a DEF Whereabouts
<1>1. TypeOK'
  BY <1>b DEF TypeOK
<1>2. Whereabouts'
  BY <1>a, <1>b, <1>c DEF Whereabouts, Ready, TypeOK
<1>3. Sending'
  BY <1>b DEF Sending, Sent, Busy, TypeOK
<1>4. Attention' /\ InPending' /\ InWork' /\ InFeeder' /\ InNotes'
      /\ WorkerStates' /\ Keeping'
  BY DEF Attention, WithinCapacity, NoForgottenManager, Ready, Room,
         InPending, Busy, InWork, InFeeder, InNotes, WorkerStates, Keeping,
         Keeps
<1> QED
  BY <1>1, <1>2, <1>3, <1>4 DEF IInv

(* So does the one that then fails to deserialize it.                      *)
LEMMA ReceiveFailsInv ==
  ASSUME IInv, NEW t \in Tasks, ReceiveFails(t)
  PROVE  IInv'
<1> USE NoneAssumption DEF IInv, ReceiveFails, clientVars, ixVars, managerVars, workerVars
<1>1. TypeOK'
  <2>1. answers[t] \in 0..1 /\ answers[t] > 0
    BY DEF TypeOK
  <2>2. answers[t] - 1 \in 0..1
    BY <2>1
  <2> QED
    BY <2>2 DEF TypeOK
<1>2. Whereabouts'
  BY DEF Whereabouts, Ready, TypeOK
<1>3. Sending'
  BY DEF Sending, Sent, Busy, TypeOK
<1>4. Attention' /\ InPending' /\ InWork' /\ InFeeder' /\ InNotes'
      /\ WorkerStates' /\ Keeping'
  BY DEF Attention, WithinCapacity, NoForgottenManager, Ready, Room,
         InPending, Busy, InWork, InFeeder, InNotes, WorkerStates, Keeping,
         Keeps
<1> QED
  BY <1>1, <1>2, <1>3, <1>4 DEF IInv

(* From the wire to the queue.                                             *)
LEMMA TaskIncomingInv ==
  ASSUME IInv, NEW t \in Tasks, TaskIncoming(t)
  PROVE  IInv'
<1> USE NoneAssumption DEF IInv, TaskIncoming, clientVars, ixVars, managerVars, workerVars
<1>1. TypeOK'
  BY DEF TypeOK
<1>2. Whereabouts'
  BY DEF Whereabouts, Ready, TypeOK
<1>3. Sending'
  BY DEF Sending, Sent, Busy, TypeOK
<1>4. Attention' /\ InPending' /\ InWork' /\ InFeeder' /\ InNotes'
      /\ WorkerStates' /\ Keeping'
  BY DEF Attention, WithinCapacity, NoForgottenManager, Ready, Room,
         InPending, Busy, InWork, InFeeder, InNotes, WorkerStates, Keeping,
         Keeps
<1> QED
  BY <1>1, <1>2, <1>3, <1>4 DEF IInv

(* A manager that registers has no tasks yet and is interesting.           *)
LEMMA RegistrationInv ==
  ASSUME IInv, NEW m \in Managers, Registration(m)
  PROVE  IInv'
<1> USE NoneAssumption DEF IInv, Registration, clientVars, ixVars, managerVars, workerVars
<1>1. TypeOK'
  BY DEF TypeOK
<1>2. Whereabouts'
  BY DEF Whereabouts, Ready, TypeOK
<1>3. Attention'
  BY DEF Attention, WithinCapacity, NoForgottenManager, Ready, Room, TypeOK
<1>4. Keeping'
  BY DEF Keeping, Keeps, Busy, TypeOK
<1>5. Sending' /\ InPending' /\ InWork' /\ InFeeder' /\ InNotes'
      /\ WorkerStates'
  BY DEF Sending, Sent, Busy, InPending, InWork, InFeeder, InNotes,
         WorkerStates
<1> QED
  BY <1>1, <1>2, <1>3, <1>4, <1>5 DEF IInv

(* A result is forwarded once: the task leaves the manager's list.         *)
LEMMA ResultInv ==
  ASSUME IInv, NEW m \in Managers, NEW t \in Tasks, Result(m, t)
  PROVE  IInv'
<1> USE NoneAssumption DEF IInv, Result, ExpireDrained, clientVars, ixVars, managerVars, workerVars
<1>a. reports[m][t] \in 1..2 /\ reports[m][t] - 1 \in 0..1 /\ reports' \in [Managers -> [Tasks -> 0..2]]
  <2>1. reports[m][t] \in 0..2 /\ reports[m][t] > 0
    BY DEF TypeOK
  <2> QED BY <2>1 DEF TypeOK
<1>c. \A n \in Managers, u \in Tasks : reports'[n][u] <= reports[n][u]
  <2> SUFFICES ASSUME NEW n \in Managers, NEW u \in Tasks PROVE reports'[n][u] <= reports[n][u]
    OBVIOUS
  <2>1. reports[n][u] \in 0..2
    BY DEF TypeOK
  <2> QED BY <2>1, <1>a DEF TypeOK
<1>d. \A n \in Managers, u \in Tasks :
        /\ reports[n][u] = 0 => reports'[n][u] = 0
        /\ reports'[n][u] # 0 => reports[n][u] # 0
  <2> SUFFICES ASSUME NEW n \in Managers, NEW u \in Tasks
               PROVE /\ reports[n][u] = 0 => reports'[n][u] = 0
                     /\ reports'[n][u] # 0 => reports[n][u] # 0
    OBVIOUS
  <2>1. reports[n][u] \in 0..2 /\ reports'[n][u] \in 0..2
    BY <1>a DEF TypeOK
  <2> QED
    BY <2>1, <1>c
<1>1. Sending' /\ InPending' /\ InWork' /\ InFeeder' /\ WorkerStates'
  <2>1. Sending'
    BY <1>d DEF Sending, Sent, Busy
  <2>2. InPending'
    BY <1>d DEF InPending, Busy, TypeOK
  <2>3. InWork'
    BY <1>d DEF InWork, Busy
  <2>4. InFeeder'
    BY <1>d DEF InFeeder, TypeOK
  <2> QED
    BY <2>1, <2>2, <2>3, <2>4 DEF WorkerStates
<1>2. InNotes'
  <2> SUFFICES ASSUME NEW w \in Workers, noted[w] # None
               PROVE \A n \in Managers : reports'[n][noted[w]] <= 1
    BY DEF InNotes
  <2>1. noted[w] \in Tasks
    BY DEF TypeOK
  <2>2. \A n \in Managers : reports[n][noted[w]] <= 1 /\ reports[n][noted[w]] \in 0..2 /\ reports'[n][noted[w]] \in 0..2
    BY <2>1, <1>a DEF InNotes, TypeOK
  <2> QED BY <2>1, <2>2, <1>c
<1>3. CASE ~(m \in Ready /\ t \in assigned[m])
  <2>1. TypeOK' /\ Whereabouts'
    BY <1>3, <1>a DEF TypeOK, Whereabouts, Ready
  <2>2. Attention' /\ Keeping'
    BY <1>3, <1>a DEF Attention, WithinCapacity, NoForgottenManager, Ready, Room, Keeping, Keeps, Busy
  <2> QED
    BY <1>1, <1>2, <2>1, <2>2
<1>4. CASE m \in Ready /\ t \in assigned[m]
  <2> DEFINE I == interesting \cup {m}
             gone == {n \in I \cap draining : assigned'[n] = {}}
  <2>0. /\ assigned' = [assigned EXCEPT ![m] = @ \ {t}]
        /\ answers' = [answers EXCEPT ![t] = 1]
        /\ reg' = [n \in Managers |-> IF n \in gone THEN "drained" ELSE reg[n]]
        /\ interesting' = I \ gone
        /\ answers[t] = 0 /\ fut[t] = "pending"
    BY <1>4 DEF Whereabouts, TypeOK
  <2>1. TypeOK'
    BY <2>0, <1>a, <1>4 DEF TypeOK
  <2>2. \A n \in gone : assigned'[n] = {}
    BY <2>0
  <2>3. Ready' = Ready \ gone
    BY <2>0 DEF Ready, Whereabouts
  <2>4. Whereabouts'
    BY <2>0, <1>a, <1>4, <2>3 DEF TypeOK, Whereabouts
  <2>5. Cardinality(assigned'[m]) = Cardinality(assigned[m]) - 1
        /\ Cardinality(assigned[m]) \in Nat
    <3>1. IsFiniteSet(assigned[m]) /\ Cardinality(assigned[m]) \in Nat
      BY FiniteAssigned
    <3>2. Cardinality(assigned[m] \ {t}) = Cardinality(assigned[m]) - 1
      BY <1>4, <3>1, FS_RemoveElement
    <3> QED
      BY <2>0, <3>1, <3>2 DEF TypeOK
  <2>6. Attention'
    <3>1. WithinCapacity'
      <4> SUFFICES ASSUME NEW n \in Managers
                   PROVE Cardinality(assigned'[n]) <= Capacity[n]
        BY DEF WithinCapacity
      <4>1. Cardinality(assigned[n]) <= Capacity[n] /\ Capacity[n] \in Nat
        BY CapacityAssumption DEF Attention, WithinCapacity
      <4>2. CASE n = m
        BY <2>5, <4>1, <4>2
      <4>3. CASE n # m
        <5>1. assigned'[n] = assigned[n]
          BY <2>0, <4>3 DEF TypeOK
        <5> QED BY <5>1, <4>1
      <4> QED BY <4>2, <4>3
    <3>2. NoForgottenManager'
      BY <2>0, <2>3 DEF NoForgottenManager, Attention, TypeOK, Room
    <3>3. \A n \in draining' : reg'[n] \notin {"new", "sent"}
      BY <2>0 DEF Attention, TypeOK
    <3>4. \A n \in interesting' \cap draining' : assigned'[n] # {}
      BY <2>0
    <3> QED BY <3>1, <3>2, <3>3, <3>4 DEF Attention
  <2>7. Keeping'
    <3>1. \A n \in Managers, u \in Tasks : Keeps(n, u) /\ u # t => Keeps(n, u)'
      <4> SUFFICES ASSUME NEW n \in Managers, NEW u \in Tasks, Keeps(n, u), u # t
                   PROVE  u \in assigned'[n] \/ reg'[n] = "expired"
        BY DEF Keeps
      <4>1. CASE u \in assigned[n]
        BY <2>0, <4>1 DEF TypeOK
      <4>2. CASE reg[n] = "expired"
        <5>1. n \notin gone
          BY <2>0, <1>4, <4>2 DEF Ready, Whereabouts
        <5> QED
          BY <2>0, <4>2, <5>1
      <4> QED BY <4>1, <4>2 DEF Keeps
    <3>2. \A n \in Managers : \A u \in pending[n] : u \in Tasks /\ u # t
      BY <1>a DEF InPending, TypeOK
    <3>3. \A w \in Workers : Busy(w) => wtask[w] \in Tasks /\ wtask[w] # t
      BY <1>a DEF InWork
    <3>4. \A w \in Workers : \A u \in unflushed[w] : u \in Tasks /\ u # t
      BY <1>a DEF InFeeder, TypeOK
    <3> QED
      BY <3>1, <3>2, <3>3, <3>4, HomeAssumption DEF Keeping, Busy
  <2> QED
    BY <1>1, <1>2, <2>1, <2>4, <2>6, <2>7
<1> QED
  BY <1>3, <1>4

(* A manager that wants to drain and has no tasks is interesting, and goes.*)
LEMMA DrainRequestInv ==
  ASSUME IInv, NEW m \in Managers, DrainRequest(m)
  PROVE  IInv'
<1> USE NoneAssumption DEF IInv, DrainRequest, ExpireDrained, clientVars, ixVars, managerVars, workerVars
<1>1. TypeOK'
  <2>1. drainReq' \in [Managers -> {"no", "sent", "read"}]
    BY DEF TypeOK
  <2>2. draining' \subseteq Managers /\ interesting' \subseteq Managers
    BY DEF TypeOK
  <2>3. reg' \in [Managers -> {"new", "sent", "ready", "drained", "expired"}]
    BY DEF TypeOK
  <2> QED
    BY <2>1, <2>2, <2>3 DEF TypeOK
<1>2. Whereabouts'
  BY DEF Whereabouts, Ready, TypeOK
<1>3. Sending' /\ InPending' /\ InWork' /\ InFeeder' /\ InNotes'
      /\ WorkerStates'
  BY DEF Sending, Sent, Busy, InPending, InWork, InFeeder, InNotes,
         WorkerStates
<1>4. CASE m \notin Ready
  <2>1. Attention' /\ Keeping'
    BY <1>4 DEF Attention, WithinCapacity, NoForgottenManager, Ready, Room, Keeping, Keeps, Busy
  <2> QED
    BY <1>1, <1>2, <1>3, <2>1
<1>5. CASE m \in Ready
  <2> DEFINE gone == {n \in interesting \cap draining' : assigned[n] = {}}
  <2>0. /\ assigned' = assigned /\ draining' = draining \cup {m} /\ held' = held
        /\ reg' = [n \in Managers |-> IF n \in gone THEN "drained" ELSE reg[n]]
        /\ interesting' = interesting \ gone
    BY <1>5
  <2>1. Ready' = Ready \ gone /\ gone \subseteq Ready
    BY <2>0 DEF Ready, Whereabouts
  <2>2. Attention'
    <3>1. WithinCapacity'
      BY <2>0 DEF WithinCapacity, Attention
    <3>2. NoForgottenManager'
      <4> SUFFICES ASSUME NEW n \in Ready \ held, n \notin gone,
                          Room(n) > 0, n \in draining' => assigned[n] = {}
                   PROVE n \in interesting
        BY <2>0, <2>1 DEF NoForgottenManager, Room
      <4> QED
        BY <2>0 DEF NoForgottenManager, Attention
    <3>3. \A n \in draining' : reg'[n] \notin {"new", "sent"}
      BY <2>0, <1>5 DEF Attention, TypeOK, Ready
    <3>4. \A n \in interesting' \cap draining' : assigned'[n] # {}
      BY <2>0
    <3> QED BY <3>1, <3>2, <3>3, <3>4 DEF Attention
  <2>3. Keeping'
    <3>1. \A n \in Managers, u \in Tasks : Keeps(n, u) => Keeps(n, u)'
      BY <2>0, <2>1 DEF Keeps, Ready
    <3>2. /\ \A n \in Managers : pending[n] \subseteq Tasks
          /\ \A w \in Workers : unflushed[w] \subseteq Tasks
          /\ \A w \in Workers : Busy(w) => wtask[w] \in Tasks
      BY DEF TypeOK, InWork
    <3> QED
      BY <3>1, <3>2, HomeAssumption DEF Keeping, Busy
  <2> QED
    BY <1>1, <1>2, <1>3, <2>2, <2>3
<1> QED
  BY <1>4, <1>5

(* The tasks of an expired manager are answered and nobody's any more.     *)
LEMMA ExpireInv ==
  ASSUME IInv, NEW m \in Managers, Expire(m)
  PROVE  IInv'
<1> USE NoneAssumption DEF IInv, Expire, clientVars, ixVars, managerVars, workerVars
<1>1. TypeOK'
  <2>1. \A t \in assigned[m] : answers[t] = 0
    BY DEF Whereabouts, TypeOK
  <2>2. answers' \in [Tasks -> 0..1]
    BY <2>1 DEF TypeOK
  <2> QED BY <2>2 DEF TypeOK
<1>2. Attention'
  <2>0. Ready' = Ready \ {m} /\ assigned' = [assigned EXCEPT ![m] = {}]
    BY DEF Ready, TypeOK
  <2>1. WithinCapacity'
    <3>1. Cardinality({}) = 0 /\ \A n \in Managers : 0 <= Capacity[n]
      BY CapacityAssumption, FS_EmptySet
    <3> QED
      BY <2>0, <3>1 DEF WithinCapacity, Attention, TypeOK
  <2>2. NoForgottenManager'
    BY <2>0 DEF NoForgottenManager, Attention, TypeOK, Room
  <2>3. (\A n \in draining : reg[n] \notin {"new", "sent"})'
    BY DEF Attention, TypeOK
  <2>4. (\A n \in interesting \cap draining : assigned[n] # {})'
    BY <2>0 DEF Attention, TypeOK
  <2> QED BY <2>1, <2>2, <2>3, <2>4 DEF Attention
<1>3. Whereabouts'
  BY DEF Whereabouts, Ready, TypeOK
<1>4. Keeping'
  BY DEF Keeping, Keeps, Busy, TypeOK
<1>5. Sending' /\ InPending' /\ InWork' /\ InFeeder' /\ InNotes'
      /\ WorkerStates'
  BY DEF Sending, Sent, Busy, InPending, InWork, InFeeder, InNotes,
         WorkerStates
<1> QED
  BY <1>1, <1>2, <1>3, <1>4, <1>5 DEF IInv

(* A batch is nobody's task but the queue's before, and the manager's after;*)
(* a manager that is still interesting has room left.                      *)
LEMMA VisitManagerInv ==
  ASSUME IInv, NEW m \in Managers, VisitManager(m)
  PROVE  IInv'
<1> USE HomeAssumption, CapacityAssumption, NoneAssumption DEF IInv, clientVars, ixVars, managerVars, workerVars
<1>0. /\ m \in interesting /\ m \in Ready
      /\ UNCHANGED <<clientVars, reg, held, draining, up, reports, drainReq, workerVars>>
  BY DEF VisitManager, Whereabouts
<1>1. CASE Room(m) > 0 /\ m \notin held /\ m \notin draining
  <2>1. PICK batch \in Batches(Room(m)) :
          /\ queued' = queued \ batch
          /\ assigned' = [assigned EXCEPT ![m] = @ \cup batch]
          /\ pending' = IF up[m] THEN [pending EXCEPT ![m] = @ \cup batch] ELSE pending
          /\ interesting' = IF Cardinality(batch) = Room(m)
                              THEN interesting \ {m} ELSE interesting
    BY <1>1 DEF VisitManager
  <2>2. /\ batch \subseteq queued /\ queued \subseteq Tasks
        /\ Cardinality(batch) = Room(m) \/ Cardinality(batch) < Room(m)
    BY <2>1 DEF Batches, TypeOK
  <2>3. /\ \A t \in batch : /\ t \in Tasks /\ fut[t] = "pending" /\ t \notin toIx /\ answers[t] = 0
                            /\ \A n \in Managers : t \notin assigned[n]
        /\ \A t \in batch : ~Sent(t)
    BY <2>2 DEF Whereabouts, Sent
  <2>4. Cardinality(assigned'[m]) = Cardinality(assigned[m]) + Cardinality(batch)
        /\ Cardinality(batch) \in Nat /\ Cardinality(assigned[m]) \in Nat
    <3>1. IsFiniteSet(batch) /\ IsFiniteSet(assigned[m])
      BY <2>2, TasksAssumption, FS_Subset, FiniteAssigned
    <3>2. assigned[m] \cap batch = {} /\ assigned'[m] = assigned[m] \cup batch
      BY <2>1, <2>3 DEF TypeOK
    <3>3. Cardinality(assigned[m] \cup batch) = Cardinality(assigned[m]) + Cardinality(batch)
      BY <3>1, <3>2, DisjointUnion
    <3> QED
      BY <3>1, <3>2, <3>3, FS_CardinalityType
  <2>5. TypeOK'
    BY <1>0, <2>1, <2>2 DEF TypeOK
  <2>6. Whereabouts'
    <3>1. (interesting \subseteq Ready)'
      BY <1>0, <2>1 DEF Whereabouts, Ready
    <3>2. \A t \in Tasks : \A n \in Managers : t \in assigned'[n] <=> t \in assigned[n] \/ (n = m /\ t \in batch)
      BY <2>1 DEF TypeOK
    <3> QED
    BY <1>0, <2>1, <2>2, <2>3, <3>1, <3>2 DEF Whereabouts, TypeOK, Ready
  <2>7. Attention'
    <3>1. WithinCapacity'
      <4>1. Cardinality(assigned'[m]) <= Capacity[m]
        BY <2>2, <2>4 DEF Room
      <4> QED
      BY <4>1, <1>0, <2>1 DEF WithinCapacity, Attention, TypeOK
    <3>2. NoForgottenManager'
      <4>1. Cardinality(batch) = Room(m) => Room(m)' = 0
        BY <2>4 DEF Room
      <4>2. \A n \in Managers \ {m} : assigned'[n] = assigned[n]
        BY <2>1 DEF TypeOK
      <4>3. Ready' = Ready /\ held' = held /\ draining' = draining
        BY <1>0 DEF Ready
      <4>5. \A n \in Managers \ {m} : Room(n)' = Room(n)
        BY <4>2 DEF Room
      <4> SUFFICES ASSUME NEW n \in Ready \ held, (Room(n) > 0 /\ (n \in draining => assigned[n] = {}))'
                   PROVE n \in interesting'
        BY <4>3 DEF NoForgottenManager
      <4>6. CASE n = m
        BY <4>6, <4>1, <2>1, <1>0
      <4>7. CASE n # m
        BY <4>7, <4>2, <4>3, <4>5, <2>1 DEF NoForgottenManager, Attention, Ready
      <4> QED BY <4>6, <4>7
    <3>3. (\A n \in draining : reg[n] \notin {"new", "sent"})'
      BY <1>0 DEF Attention
    <3>4. (\A n \in interesting \cap draining : assigned[n] # {})'
      BY <1>0, <1>1, <2>1 DEF Attention, TypeOK
    <3> QED BY <3>1, <3>2, <3>3, <3>4 DEF Attention
  <2>8. \A n \in Managers : pending'[n] = pending[n] \/ (n = m /\ pending'[n] = pending[n] \cup batch)
    BY <2>1 DEF TypeOK
  <2>9. Sending'
    BY <1>0, <2>1, <2>2, <2>3, <2>8 DEF Sending, Sent, Busy, TypeOK
  <2>10. InPending'
    <3>1. \A t \in batch :
            /\ t \notin lost
            /\ \A n \in Managers : reports[n][t] = 0 /\ t \notin pending[n]
            /\ \A w \in Workers : (Busy(w) => wtask[w] # t) /\ t \notin unflushed[w] /\ noted[w] # t
      BY <2>3 DEF Sending, TypeOK
    <3> QED
      BY <1>0, <3>1, <2>8 DEF InPending, Busy
  <2>11. Keeping'
    <3>1. \A n \in Managers, u \in Tasks : Keeps(n, u) => Keeps(n, u)'
      BY <1>0, <2>1 DEF Keeps, TypeOK
    <3>2. up[m] => \A t \in batch : Keeps(m, t)'
      BY <2>1 DEF Keeps, TypeOK
    <3>3. \A n \in Managers : \A t \in pending'[n] : Keeps(n, t)'
      BY <3>1, <2>8, <2>3, <2>1 DEF Keeping, Keeps, TypeOK
    <3> QED
      BY <3>1, <3>3, <1>0 DEF Keeping, Busy, TypeOK, InWork
  <2>12. InWork' /\ InFeeder' /\ InNotes' /\ WorkerStates'
    BY <1>0 DEF InWork, Busy, InFeeder, InNotes, WorkerStates
  <2> QED BY <2>5, <2>6, <2>7, <2>9, <2>10, <2>11, <2>12
<1>2. CASE ~(Room(m) > 0 /\ m \notin held /\ m \notin draining)
  <2>1. interesting' = interesting \ {m} /\ UNCHANGED <<queued, assigned, pending>>
    BY <1>2 DEF VisitManager
  <2>2. TypeOK' /\ Whereabouts'
    BY <1>0, <2>1 DEF TypeOK, Whereabouts, Ready
  <2>3. Attention'
    BY <1>0, <1>2, <2>1 DEF Attention, WithinCapacity, NoForgottenManager, Ready, Room
  <2>4. Sending' /\ InPending' /\ InWork' /\ InFeeder' /\ InNotes' /\ WorkerStates' /\ Keeping'
    BY <1>0, <2>1 DEF Sending, Sent, Busy, InPending, InWork, InFeeder, InNotes, WorkerStates, Keeping, Keeps
  <2> QED BY <2>2, <2>3, <2>4
<1> QED
  BY <1>1, <1>2

(* Holding a manager only asks less of the dispatcher.                     *)
LEMMA HoldInv ==
  ASSUME IInv, NEW m \in Managers, Hold(m)
  PROVE  IInv'
<1> USE NoneAssumption DEF IInv, Hold, clientVars, ixVars, managerVars, workerVars
<1>1. TypeOK'
  BY DEF TypeOK, Ready
<1>2. Attention'
  BY DEF Attention, WithinCapacity, NoForgottenManager, Ready, Room, TypeOK
<1>3. Whereabouts' /\ Sending' /\ InPending' /\ InWork' /\ InFeeder'
      /\ InNotes' /\ WorkerStates' /\ Keeping'
  BY DEF Whereabouts, Ready, Sending, Sent, Busy, InPending, InWork,
         InFeeder, InNotes, WorkerStates, Keeping, Keeps
<1> QED
  BY <1>1, <1>2, <1>3 DEF IInv

(* A manager starts without tasks.                                         *)
LEMMA StartInv ==
  ASSUME IInv, NEW m \in Managers, Start(m)
  PROVE  IInv'
<1> USE NoneAssumption DEF IInv, Start, clientVars, ixVars, managerVars, workerVars
<1>1. TypeOK'
  BY DEF TypeOK
<1>2. Whereabouts'
  BY DEF Whereabouts, Ready, TypeOK
<1>3. Attention'
  BY DEF Attention, WithinCapacity, NoForgottenManager, Ready, Room, TypeOK
<1>4. Keeping'
  BY DEF Keeping, Keeps, Busy, TypeOK
<1>5. Sending' /\ InPending' /\ InWork' /\ InFeeder' /\ InNotes'
      /\ WorkerStates'
  BY DEF Sending, Sent, Busy, InPending, InWork, InFeeder, InNotes,
         WorkerStates
<1> QED
  BY <1>1, <1>2, <1>3, <1>4, <1>5 DEF IInv

(* A drain message is only sent.                                           *)
LEMMA RequestDrainInv ==
  ASSUME IInv, NEW m \in Managers, RequestDrain(m)
  PROVE  IInv'
<1> USE NoneAssumption DEF IInv, RequestDrain, clientVars, ixVars, managerVars, workerVars
<1>1. TypeOK'
  BY DEF TypeOK
<1>2. Whereabouts' /\ Attention' /\ Sending' /\ InPending' /\ InWork'
      /\ InFeeder' /\ InNotes' /\ WorkerStates' /\ Keeping'
  BY DEF Whereabouts, Ready, Attention, WithinCapacity, NoForgottenManager,
         Room, Sending, Sent, Busy, InPending, InWork, InFeeder, InNotes,
         WorkerStates, Keeping, Keeps
<1> QED
  BY <1>1, <1>2 DEF IInv

(* A manager that stops loses what it has; the interchange does not notice.*)
LEMMA StopInv ==
  ASSUME IInv, NEW m \in Managers, Stop(m)
  PROVE  IInv'
<1> USE HomeAssumption, NoneAssumption DEF IInv, Stop, clientVars, ixVars
<1>1. TypeOK'
  BY DEF TypeOK
<1>2. Sending' /\ InPending' /\ InWork' /\ InFeeder' /\ InNotes'
  <2>1. \A n \in Managers : pending'[n] \subseteq pending[n]
    BY DEF TypeOK
  <2>2. \A n \in Managers, t \in Tasks : reports'[n][t] <= reports[n][t]
    <3> SUFFICES ASSUME NEW n \in Managers, NEW t \in Tasks PROVE reports'[n][t] <= reports[n][t]
      OBVIOUS
    <3>1. reports[n][t] \in 0..2
      BY DEF TypeOK
    <3> QED
      BY <3>1 DEF TypeOK
  <2>3. \A w \in Workers : /\ Busy(w)' => Busy(w) /\ wtask'[w] = wtask[w]
                           /\ noted'[w] \in {noted[w], None}
                           /\ unflushed'[w] \subseteq unflushed[w]
    BY DEF TypeOK, Busy
  <2> QED
    BY <1>1, <2>1, <2>2, <2>3, Shrinking
<1>3. WorkerStates'
  BY DEF WorkerStates, TypeOK
<1>4. Keeping'
  BY DEF Keeping, Keeps, Busy, TypeOK
<1>5. Whereabouts' /\ Attention'
  BY DEF Whereabouts, Ready, Attention, WithinCapacity, NoForgottenManager,
         Room
<1> QED
  BY <1>1, <1>2, <1>3, <1>4, <1>5 DEF IInv

(* The watchdog's answer is the second one at most, and the note is gone.  *)
LEMMA WatchdogInv ==
  ASSUME IInv, NEW w \in Workers, Watchdog(w)
  PROVE  IInv'
<1> USE HomeAssumption, NoneAssumption DEF IInv, Watchdog, clientVars, ixVars
<1>a. \A v \in Workers : Busy(v)' <=> Busy(v)
  BY DEF Busy, TypeOK
<1>1. WorkerStates'
  BY DEF WorkerStates, TypeOK
<1>2. Keeping'
  BY <1>a DEF Keeping, Keeps
<1>3. Whereabouts' /\ Attention'
  BY DEF Whereabouts, Ready, Attention, WithinCapacity, NoForgottenManager,
         Room
<1>4. CASE noted[w] = None
  <2>1. noted' = noted /\ reports' = reports
    BY <1>4 DEF TypeOK
  <2>2. TypeOK'
    BY <2>1 DEF TypeOK
  <2>3. Sending' /\ InPending' /\ InFeeder' /\ InNotes'
    BY <2>1, <1>a DEF Sending, Sent, InPending, InFeeder, InNotes
  <2>4. InWork'
    BY <2>1, <1>a DEF InWork
  <2> QED
    BY <1>1, <1>2, <1>3, <2>2, <2>3, <2>4
<1>5. CASE noted[w] # None
  <2> DEFINE m == Home[w]
             u == noted[w]
  <2>1. u \in Tasks /\ m \in Managers
    BY <1>5 DEF TypeOK
  <2>2. reports[m][u] \in 0..1
    <3>1. reports[m][u] \in 0..2 /\ reports[m][u] <= 1
      BY <1>5, <2>1 DEF TypeOK, InNotes
    <3> QED BY <3>1
  <2>3. reports' = [reports EXCEPT ![m][u] = @ + 1] /\ reports[m][u] + 1 \in 0..2
    BY <1>5, <2>2
  <2>4. TypeOK'
    BY <2>1, <2>3 DEF TypeOK
  <2>5. \A n \in Managers, t \in Tasks : t # u => reports'[n][t] = reports[n][t]
    BY <2>1, <2>3 DEF TypeOK
  <2>6. \A v \in Workers : noted'[v] = IF v = w THEN None ELSE noted[v]
    BY DEF TypeOK
  <2>7. unflushed[w] = {}
    BY DEF WorkerStates
  <2>8. Sending'
    <3>1. Sent(u)
      BY <1>5 DEF Sending
    <3>2. \A n \in Managers, t \in Tasks : reports'[n][t] # 0 => Sent(t)
      BY <2>5, <3>1 DEF Sending
    <3> QED BY <3>2, <2>6, <1>a DEF Sending, Sent
  <2>9. InPending'
    <3>1. \A n \in Managers : \A t \in pending[n] : t \in Tasks /\ t # u
      BY DEF InPending, TypeOK
    <3> QED BY <3>1, <2>5, <2>6, <1>a DEF InPending
  <2>10. InFeeder'
    <3>1. \A v \in Workers : \A t \in unflushed[v] : t \in Tasks /\ t # u
      BY <2>7 DEF InFeeder, TypeOK
    <3> QED BY <3>1, <2>5, <2>6 DEF InFeeder
  <2>11. InNotes'
    BY <2>5, <2>6 DEF InNotes, TypeOK
  <2>12. InWork'
    <3>1. \A v \in Workers : Busy(v) => v # w /\ wtask[v] # u /\ wtask[v] \in Tasks
      BY <1>5 DEF InWork, Busy
    <3> QED
      BY <3>1, <2>5, <2>6, <1>a DEF InWork
  <2> QED
    BY <1>1, <1>2, <1>3, <2>4, <2>8, <2>9, <2>10, <2>11, <2>12
<1> QED
  BY <1>4, <1>5

(* A task moves from the queue of a manager into the hands of a worker.    *)
LEMMA TakeInv ==
  ASSUME IInv, NEW w \in Workers, NEW t \in Tasks, Take(w, t)
  PROVE  IInv'
<1> USE HomeAssumption, NoneAssumption DEF IInv, Take, clientVars, ixVars
<1>a. /\ \A n \in Managers : pending'[n] = IF n = Home[w] THEN pending[n] \ {t} ELSE pending[n]
      /\ \A v \in Workers : v # w => work'[v] = work[v] /\ wtask'[v] = wtask[v]
      /\ wtask'[w] = t /\ Busy(w)' /\ ~Busy(w)
      /\ \A v \in Workers : v # w => (Busy(v)' <=> Busy(v))
  BY DEF TypeOK, Busy
<1>b. /\ t \notin lost /\ Sent(t)
      /\ \A n \in Managers : reports[n][t] = 0 /\ (n # Home[w] => t \notin pending[n])
      /\ \A v \in Workers : (Busy(v) => wtask[v] # t) /\ t \notin unflushed[v] /\ noted[v] # t
  BY DEF InPending, Sending
<1>1. Sending'
  BY <1>a, <1>b DEF Sending, Sent
<1>2. InPending'
  <2>1. \A n \in Managers : \A u \in pending'[n] : u \in pending[n] /\ u # t
    <3> SUFFICES ASSUME NEW n \in Managers, NEW u \in pending'[n]
                 PROVE u \in pending[n] /\ u # t
      OBVIOUS
    <3>1. CASE n = Home[w]
      BY <3>1, <1>a
    <3>2. CASE n # Home[w]
      BY <3>2, <1>a, <1>b
    <3> QED
      BY <3>1, <3>2
  <2>2. \A n \in Managers : pending'[n] \subseteq pending[n]
    BY <1>a
  <2>3. lost' = lost /\ reports' = reports /\ unflushed' = unflushed /\ noted' = noted
    OBVIOUS
  <2> QED
    BY <2>1, <2>2, <2>3, <1>a DEF InPending
<1>3. InWork'
  BY <1>a, <1>b DEF InWork
<1>4. Keeping'
  BY <1>a, <1>b DEF Keeping, Keeps
<1>5. TypeOK'
  BY DEF TypeOK
<1>6. WorkerStates'
  BY DEF WorkerStates, TypeOK
<1>7. Whereabouts' /\ Attention' /\ InFeeder' /\ InNotes'
  BY DEF Whereabouts, Ready, Attention, WithinCapacity, NoForgottenManager,
         Room, InFeeder, InNotes
<1> QED
  BY <1>1, <1>2, <1>3, <1>4, <1>5, <1>6, <1>7 DEF IInv

(* A task is noted by the worker that has it, and by no other.             *)
LEMMA NoteInv ==
  ASSUME IInv, NEW w \in Workers, Note(w)
  PROVE  IInv'
<1> USE HomeAssumption, NoneAssumption DEF IInv, Note, clientVars, ixVars, managerVars
<1> DEFINE t == wtask[w]
<1>a. /\ Busy(w) /\ t \in Tasks
      /\ \A v \in Workers : noted'[v] = IF v = w THEN t ELSE noted[v]
      /\ \A v \in Workers : work'[v] = IF v = w THEN "running" ELSE work[v]
      /\ \A v \in Workers : Busy(v)' <=> Busy(v)
  BY DEF TypeOK, Busy, InWork
<1>b. /\ \A n \in Managers : reports[n][t] = 0
      /\ \A v \in Workers : t \notin unflushed[v] /\ (v # w => noted[v] # t)
  BY <1>a DEF InWork
<1>1. InFeeder'
  BY <1>a, <1>b DEF InFeeder
<1>2. InNotes'
  BY <1>a, <1>b DEF InNotes
<1>3. WorkerStates'
  BY <1>a DEF WorkerStates
<1>4. TypeOK'
  BY DEF TypeOK
<1>5. Sending'
  BY DEF Sending, Sent, Busy, TypeOK
<1>6. InPending'
  BY DEF InPending, Busy, TypeOK
<1>7. InWork'
  BY DEF InWork, Busy, TypeOK
<1>8. Keeping'
  BY DEF Keeping, Keeps, Busy, TypeOK
<1>9. Whereabouts' /\ Attention'
  BY DEF Whereabouts, Ready, Attention, WithinCapacity, NoForgottenManager,
         Room
<1> QED
  BY <1>1, <1>2, <1>3, <1>4, <1>5, <1>6, <1>7, <1>8, <1>9 DEF IInv

(* A finished task is in the feeder's hands and still noted.               *)
LEMMA FinishInv ==
  ASSUME IInv, NEW w \in Workers, Finish(w)
  PROVE  IInv'
<1> USE HomeAssumption, NoneAssumption DEF IInv, Finish, clientVars, ixVars, managerVars
<1> DEFINE t == wtask[w]
<1>a. /\ Busy(w) /\ ~Busy(w)' /\ t \in Tasks /\ noted[w] = t
      /\ \A v \in Workers : unflushed'[v] = IF v = w THEN unflushed[v] \cup {t} ELSE unflushed[v]
      /\ \A v \in Workers : work'[v] = IF v = w THEN "finished" ELSE work[v]
      /\ \A v \in Workers : v # w => (Busy(v)' <=> Busy(v))
  BY DEF TypeOK, Busy, WorkerStates
<1>b. /\ t \notin lost
      /\ \A n \in Managers : reports[n][t] = 0
      /\ \A v \in Workers : t \notin unflushed[v] /\ (v # w => noted[v] # t)
  BY <1>a DEF InWork
<1>1. TypeOK'
  BY <1>a DEF TypeOK
<1>2. InFeeder'
  BY <1>a, <1>b DEF InFeeder
<1>3. Sending'
  BY DEF Sending, Sent, Busy, TypeOK
<1>4. InPending'
  BY DEF InPending, Busy, TypeOK
<1>5. InWork'
  BY DEF InWork, Busy, TypeOK
<1>6. WorkerStates'
  BY DEF WorkerStates, TypeOK
<1>7. Keeping'
  BY DEF Keeping, Keeps, Busy, TypeOK
<1>8. Whereabouts' /\ Attention' /\ InNotes'
  BY DEF Whereabouts, Ready, Attention, WithinCapacity, NoForgottenManager,
         Room, InNotes
<1> QED
  BY <1>1, <1>2, <1>3, <1>4, <1>5, <1>6, <1>7, <1>8 DEF IInv

(* A worker forgets what it has finished.                                  *)
LEMMA ForgetInv ==
  ASSUME IInv, NEW w \in Workers, Forget(w)
  PROVE  IInv'
<1> USE HomeAssumption, NoneAssumption DEF IInv, Forget, clientVars, ixVars, managerVars
<1>1. TypeOK'
  BY DEF TypeOK
<1>2. Sending' /\ InPending' /\ InWork' /\ InFeeder' /\ InNotes'
  <2>1. \A n \in Managers, t \in Tasks : reports'[n][t] <= reports[n][t]
    <3> SUFFICES ASSUME NEW n \in Managers, NEW t \in Tasks
                 PROVE reports'[n][t] <= reports[n][t]
      OBVIOUS
    <3>1. reports[n][t] \in 0..2
      BY DEF TypeOK
    <3> QED
      BY <3>1
  <2>2. \A v \in Workers : /\ Busy(v)' => Busy(v) /\ wtask'[v] = wtask[v]
                           /\ noted'[v] \in {noted[v], None}
                           /\ unflushed'[v] \subseteq unflushed[v]
    BY DEF TypeOK, Busy
  <2> QED
    BY <1>1, <2>1, <2>2, Shrinking
<1>3. WorkerStates'
  BY DEF WorkerStates, TypeOK
<1>4. Keeping'
  BY DEF Keeping, Keeps, Busy, TypeOK
<1>5. Whereabouts' /\ Attention'
  BY DEF Whereabouts, Ready, Attention, WithinCapacity, NoForgottenManager,
         Room
<1> QED
  BY <1>1, <1>2, <1>3, <1>4, <1>5 DEF IInv

(* An answer that leaves the feeder is the first one for its task.         *)
LEMMA FlushInv ==
  ASSUME IInv, NEW w \in Workers, NEW t \in Tasks, Flush(w, t)
  PROVE  IInv'
<1> USE HomeAssumption, NoneAssumption DEF IInv, Flush, clientVars, ixVars
<1>a. /\ reports[Home[w]][t] = 0 /\ Home[w] \in Managers
      /\ reports' = [reports EXCEPT ![Home[w]][t] = 1]
  <2>1. Home[w] \in Managers /\ t \in unflushed[w]
    OBVIOUS
  <2>2. reports[Home[w]][t] = 0
    BY <2>1 DEF InFeeder
  <2> QED
    BY <2>1, <2>2
<1>b. /\ \A n \in Managers, u \in Tasks :
           reports'[n][u] = IF n = Home[w] /\ u = t THEN 1 ELSE reports[n][u]
      /\ \A v \in Workers : unflushed'[v] = IF v = w THEN unflushed[v] \ {t} ELSE unflushed[v]
  <2>1. \A v \in Workers : unflushed'[v] = IF v = w THEN unflushed[v] \ {t} ELSE unflushed[v]
    BY DEF TypeOK
  <2>2. reports \in [Managers -> [Tasks -> 0..2]]
    BY DEF TypeOK
  <2>3. \A n \in Managers, u \in Tasks :
           reports'[n][u] = IF n = Home[w] /\ u = t THEN 1 ELSE reports[n][u]
    <3> HIDE DEF IInv, Flush
    <3> QED BY <1>a, <2>2
  <2> QED BY <2>1, <2>3
<1>1. TypeOK'
  <2>1. reports' \in [Managers -> [Tasks -> 0..2]]
    <3>1. reports \in [Managers -> [Tasks -> 0..2]] /\ 1 \in 0..2
      BY DEF TypeOK
    <3>2. [reports EXCEPT ![Home[w]][t] = 1] \in [Managers -> [Tasks -> 0..2]]
      BY <3>1
    <3> QED
      BY <3>2, <1>a
  <2> QED
    BY <2>1 DEF TypeOK
<1>2. InNotes'
  BY <1>b DEF InNotes, TypeOK
<1>3. Sending'
  BY DEF Sending, Sent, Busy, TypeOK
<1>4. InPending'
  BY DEF InPending, Busy, TypeOK
<1>5. InWork'
  BY DEF InWork, Busy, TypeOK
<1>6. InFeeder'
  BY DEF InFeeder, TypeOK
<1>7. WorkerStates'
  BY DEF WorkerStates, TypeOK
<1>8. Keeping'
  BY DEF Keeping, Keeps, Busy, TypeOK
<1>9. Whereabouts' /\ Attention'
  BY DEF Whereabouts, Ready, Attention, WithinCapacity, NoForgottenManager,
         Room
<1> QED
  BY <1>1, <1>2, <1>3, <1>4, <1>5, <1>6, <1>7, <1>8, <1>9 DEF IInv

(* What dies with a worker is nobody else's.                               *)
LEMMA DieInv ==
  ASSUME IInv, NEW w \in Workers, Die(w)
  PROVE  IInv'
<1> USE HomeAssumption, NoneAssumption DEF IInv, clientVars, ixVars, managerVars
<1>a. /\ \A v \in Workers : v # w => unflushed'[v] = unflushed[v] /\ (Busy(v)' <=> Busy(v)) /\ wtask'[v] = wtask[v]
      /\ unflushed'[w] = {} /\ ~Busy(w)' /\ wtask'[w] = None /\ noted' = noted
      /\ UNCHANGED <<clientVars, ixVars, managerVars>>
      /\ work' \in [Workers -> {"idle", "taken", "running", "finished", "dead"}]
      /\ wtask' \in [Workers -> Tasks \cup {None}]
      /\ unflushed' \in [Workers -> SUBSET Tasks]
  BY DEF Die, TypeOK, Busy
<1>b. PICK gone \in SUBSET Tasks :
        /\ lost' = lost \cup gone
        /\ \A t \in gone : t \in unflushed[w] \/ (Busy(w) /\ t = wtask[w])
  <2> DEFINE gone == (unflushed[w] \cup (IF work[w] = "taken" THEN {wtask[w]} ELSE {})) \ {noted[w]}
  <2>1. lost' = lost \cup gone
    BY DEF Die
  <2>2. \A t \in gone : t \in unflushed[w] \/ (Busy(w) /\ t = wtask[w])
    BY DEF Busy
  <2>3. gone \in SUBSET Tasks
    <3>1. unflushed[w] \in SUBSET Tasks
      BY DEF TypeOK
    <3>2. Busy(w) => wtask[w] \in Tasks
      BY DEF InWork
    <3> HIDE DEF gone
    <3> QED BY <2>2, <3>1, <3>2
  <2> HIDE DEF gone
  <2> QED BY <2>1, <2>2, <2>3
<1>c. \A t \in gone : Sent(t)
  BY <1>b DEF Sending
<1>1. TypeOK'
  BY <1>a, <1>b DEF TypeOK
<1>2. Sending'
  BY <1>a, <1>b, <1>c DEF Sending, Sent
<1>3. InPending'
  <2>1. \A n \in Managers : \A t \in pending[n] : t \notin gone
    BY <1>b DEF InPending
  <2> QED
    BY <2>1, <1>a, <1>b DEF InPending
<1>4. InFeeder'
  <2>1. \A v \in Workers \ {w} : \A t \in unflushed[v] : t \notin gone
    BY <1>b DEF InFeeder, InWork
  <2> QED
    BY <2>1, <1>a, <1>b DEF InFeeder
<1>5. Keeping'
  BY <1>a DEF Keeping, Keeps
<1>6. InWork'
  <2>1. \A v \in Workers \ {w} : Busy(v) => wtask[v] \notin gone
    BY <1>b DEF InWork
  <2> QED
    BY <2>1, <1>a, <1>b DEF InWork
<1>7. InNotes'
  BY <1>a DEF InNotes
<1>8. WorkerStates'
  BY DEF Die, WorkerStates, TypeOK
<1>9. Whereabouts' /\ Attention'
  BY <1>a DEF Whereabouts, Attention, WithinCapacity, NoForgottenManager, Ready, Room
<1> QED
  BY <1>1, <1>2, <1>3, <1>4, <1>5, <1>6, <1>7, <1>8, <1>9 DEF IInv

-----------------------------------------------------------------------------
(* Nor does a stuttering step change anything.                             *)
LEMMA StutterInv == ASSUME IInv, UNCHANGED vars PROVE IInv'
<1> USE DEF IInv, vars, clientVars, ixVars, managerVars, workerVars
<1>1. TypeOK' /\ Whereabouts' /\ Attention' /\ WorkerStates' /\ Keeping'
  BY DEF TypeOK, Whereabouts, Attention, WithinCapacity, NoForgottenManager,
         Ready, Room, WorkerStates, Keeping, Keeps, Busy
<1>2. Sending' /\ InPending' /\ InWork' /\ InFeeder' /\ InNotes'
  BY DEF Sending, Sent, Busy, InPending, InWork, InFeeder, InNotes
<1> QED
  BY <1>1, <1>2

(* The invariant holds in every state of every behaviour, for any number   *)
(* of tasks, managers and workers.                                         *)
THEOREM Inductive == Spec => []IInv
<1>1. IInv /\ [Next]_vars => IInv'
  <2> SUFFICES ASSUME IInv, [Next]_vars PROVE IInv'
    OBVIOUS
  <2>1. CASE UNCHANGED vars
    BY <2>1, StutterInv
  <2>2. CASE ClientNext
    BY <2>2, SubmitInv, SubmitFailsInv, ReceiveInv, ReceiveFailsInv DEF ClientNext
  <2>3. CASE InterchangeNext
    BY <2>3, TaskIncomingInv, RegistrationInv, DrainRequestInv, ExpireInv,
       VisitManagerInv, HoldInv, ResultInv DEF InterchangeNext
  <2>4. CASE ManagerNext
    BY <2>4, StartInv, RequestDrainInv, StopInv, WatchdogInv DEF ManagerNext
  <2>5. CASE WorkerNext
    BY <2>5, NoteInv, FinishInv, ForgetInv, DieInv, TakeInv, FlushInv DEF WorkerNext
  <2> QED
    BY <2>1, <2>2, <2>3, <2>4, <2>5 DEF Next
<1> QED
  BY <1>1, InitInv, PTL DEF Spec

(* Every variable has its type; in particular at most one answer for a     *)
(* task is on its way to the client, and at most two come from a manager.  *)
THEOREM Typing == Spec => []TypeOK
<1>1. IInv => TypeOK
  BY DEF IInv
<1> QED
  BY <1>1, Inductive, PTL

(* The executor tracks a pending task in exactly one place and any other   *)
(* in none.                                                                *)
THEOREM Tracking == Spec => []OnePlace
<1>1. IInv => OnePlace
  <2> SUFFICES ASSUME IInv, NEW t \in Tasks
               PROVE IF fut[t] = "pending" THEN \E p \in Places(t) : Places(t) = {p}
                                           ELSE Places(t) = {}
    BY DEF OnePlace
  <2>1. answers[t] \in 0..1 /\ (answers[t] > 0 <=> answers[t] # 0)
    BY DEF IInv, TypeOK
  <2>2. CASE fut[t] # "pending"
    <3>1. t \notin toIx \cup queued /\ answers[t] = 0 /\ \A m \in Managers : t \notin assigned[m]
      BY <2>2 DEF IInv, Whereabouts
    <3> QED
      BY <2>2, <3>1 DEF Places, Ready
  <2>3. CASE fut[t] = "pending" /\ t \in toIx
    <3>1. t \notin queued /\ answers[t] = 0 /\ \A m \in Managers : t \notin assigned[m]
      BY <2>3 DEF IInv, Whereabouts
    <3>2. Places(t) = {<<"incoming", None>>}
      BY <2>3, <3>1 DEF Places, Ready
    <3> QED
      BY <2>3, <3>2
  <2>4. CASE fut[t] = "pending" /\ t \in queued
    <3>1. t \notin toIx /\ answers[t] = 0 /\ \A m \in Managers : t \notin assigned[m]
      BY <2>4 DEF IInv, Whereabouts
    <3>2. Places(t) = {<<"queued", None>>}
      BY <2>4, <3>1 DEF Places, Ready
    <3> QED
      BY <2>4, <3>2
  <2>5. CASE fut[t] = "pending" /\ answers[t] # 0
    <3>1. t \notin toIx \cup queued /\ \A m \in Managers : t \notin assigned[m]
      BY <2>5 DEF IInv, Whereabouts
    <3>2. Places(t) = {<<"answered", None>>}
      BY <2>1, <2>5, <3>1 DEF Places, Ready
    <3> QED
      BY <2>5, <3>2
  <2>6. ASSUME fut[t] = "pending", NEW m \in Managers, t \in assigned[m]
        PROVE  \E p \in Places(t) : Places(t) = {p}
    <3>1. /\ t \notin toIx \cup queued /\ answers[t] = 0 /\ m \in Ready
          /\ \A n \in Managers \ {m} : t \notin assigned[n]
      BY <2>6 DEF IInv, Whereabouts
    <3>2. Places(t) = {<<"with", m>>}
      BY <2>6, <3>1 DEF Places, Ready
    <3> QED
      BY <3>2
  <2> QED
    BY <2>2, <2>3, <2>4, <2>5, <2>6 DEF IInv, Whereabouts
<1> QED
  BY <1>1, Inductive, PTL

(* Managers never get a task twice, nor two of them the same one.          *)
THEOREM AtMostOnce == Spec => []RunsOnce
<1>1. IInv => RunsOnce
  BY DEF IInv, RunsOnce, Sending, Sent, InPending, InWork, Busy, TypeOK
<1> QED
  BY <1>1, Inductive, PTL

(* A manager that is told that it is drained has nothing to lose.          *)
THEOREM Draining == Spec => []DrainedIsIdle
<1>1. IInv => DrainedIsIdle
  <2> SUFFICES ASSUME IInv, NEW m \in Managers, reg[m] = "drained"
               PROVE /\ pending[m] = {}
                     /\ \A w \in Crew(m) : ~Busy(w) /\ unflushed[w] = {}
    BY DEF DrainedIsIdle, Busy
  <2>1. \A t \in Tasks : ~Keeps(m, t)
    BY DEF IInv, Whereabouts, Ready, Keeps
  <2> QED
    BY <2>1 DEF IInv, Keeping, InWork, Crew, TypeOK
<1> QED
  BY <1>1, Inductive, PTL

(* The dispatcher forgets no manager that could take a task.               *)
THEOREM NobodyForgotten == Spec => []NoForgottenManager
<1>1. IInv => NoForgottenManager
  BY DEF IInv, Attention
<1> QED
  BY <1>1, Inductive, PTL

(* No manager is given more than its capacity.                             *)
THEOREM CapacityKept == Spec => []WithinCapacity
<1>1. IInv => WithinCapacity
  BY DEF IInv, Attention
<1> QED
  BY <1>1, Inductive, PTL

(* Only an answer that cannot be deserialized ends the result thread: each *)
(* answer it reads is for a task that is in its table.                     *)
THEOREM Surviving == Spec => []ReceiverSurvives
<1>1. Init => ReceiverSurvives
  BY DEF Init, InitClient, ReceiverSurvives
<1>2. IInv /\ ReceiverSurvives /\ [Next]_vars => ReceiverSurvives'
  <2> SUFFICES ASSUME IInv, ReceiverSurvives, [Next]_vars PROVE ReceiverSurvives'
    OBVIOUS
  <2> USE DEF ReceiverSurvives
  <2>1. ASSUME NEW t \in Tasks, Receive(t) PROVE ReceiverSurvives'
    <3>1. answers[t] \in 0..1 /\ answers[t] > 0
      BY <2>1 DEF IInv, TypeOK, Receive
    <3>2. t \in Table
      BY <3>1 DEF IInv, Whereabouts, Table
    <3> QED
      BY <2>1, <3>2 DEF Receive, Table, IInv, TypeOK
  <2>2. ASSUME NEW t \in Tasks, Submit(t) \/ SubmitFails(t) \/ ReceiveFails(t)
        PROVE  ReceiverSurvives'
    BY <2>2 DEF Submit, SubmitFails, ReceiveFails, IInv, TypeOK
  <2>3. CASE InterchangeNext \/ ManagerNext \/ WorkerNext \/ UNCHANGED vars
    <3>1. UNCHANGED <<receiving, fut>>
      BY <2>3 DEF InterchangeNext, TaskIncoming, Registration, DrainRequest, Expire,
                  VisitManager, Hold, Result, ManagerNext, Start, RequestDrain, Stop,
                  Watchdog, WorkerNext, Note, Finish, Forget, Die, Take, Flush, vars, clientVars
    <3> QED
      BY <3>1
  <2> QED
    BY <2>1, <2>2, <2>3 DEF Next, ClientNext
<1> QED
  BY <1>1, <1>2, Inductive, PTL DEF Spec

(* Every waiting future has its task tracked in one place, and the result  *)
(* thread that would set it.                                               *)
THEOREM AllTracked == Spec => []TasksTracked
  BY Typing, Tracking, Surviving, PTL DEF TasksTracked

(* No manager is forgotten by the dispatcher, none is overloaded.          *)
THEOREM AllServed == Spec => []ManagersServed
  BY NobodyForgotten, CapacityKept, PTL DEF ManagersServed

=============================================================================
