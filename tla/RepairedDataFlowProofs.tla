----------------------- MODULE RepairedDataFlowProofs -----------------------
(***************************************************************************)
(* Proofs about RepairedDataFlow for every workflow, every configuration   *)
(* and every combination of faults and calls.                              *)
(*                                                                         *)
(* The inductive invariant IInv has one part per promise.  Control ties    *)
(* the status of a record, the executor future and the AppFuture to the    *)
(* place of the thread that handles the task (only the launch thread can   *)
(* handle a pending task); Listing, Hashing, Recording and Reuse say what  *)
(* that thread has already done to the task table, the hash, the           *)
(* checkpoint and the memo at each place.  There is one lemma per action,  *)
(* with a step for each part the action can disturb.  At the end the same  *)
(* invariant shows that the kernel implements Publication.                 *)
(***************************************************************************)
EXTENDS RepairedDataFlow, SequenceTheorems, TLAPS

(* The record is in the final state of a success. *)
Succeeded(t) == status[t] \in {"exec_done", "memo_done"}

(* Where the thread of t is says what its record, its executor future and  *)
(* its AppFuture are.                                                      *)
Control ==
  \A t \in Tasks :
    /\ sub[t] \in {"new", "admitted"} => status[t] = "absent"
    /\ status[t] = "absent" => pc[t] = "idle" /\ ~ran[t]
    /\ fut[t] = "none" <=> status[t] = "absent"
    /\ Visible(t) <=> status[t] \in FinalStates /\ pc[t] \in {"idle", "callbacks"}
    /\ Visible(t) => (fut[t] = "result" <=> Succeeded(t))
    /\ pc[t] = "idle" /\ status[t] \in {"absent", "pending"} => exec[t] = "none"
    /\ pc[t] = "idle" /\ status[t] = "launched" => exec[t] = "running"
    /\ pc[t] = "attach" => status[t] = "pending" /\ exec[t] # "none"
    /\ pc[t] = "exec" => /\ status[t] \in {"pending", "launched", "dep_fail"}
                         /\ exec[t] \in {"ok", "error"}
                         /\ status[t] = "dep_fail" => exec[t] = "error"
    /\ pc[t] \in {"ok", "install", "final", "unpublished"} =>
         status[t] \in {"pending", "launched"} /\ exec[t] = "ok"
    /\ pc[t] = "err" => status[t] \in {"failed", "dep_fail"} /\ exec[t] = "error"
    /\ pc[t] \in {"wipe", "set", "callbacks"} =>
         status[t] \in FinalStates /\ exec[t] \in {"ok", "error"}
    /\ pc[t] # "record"
    /\ status[t] = "pending" /\ pc[t] # "idle" => launcher = t
    /\ status[t] \in FinalStates => exec[t] \in {"ok", "error"}
    /\ Succeeded(t) => exec[t] = "ok"

(* A record is in the task table until its wipe. *)
Listing ==
  \A t \in Tasks :
    /\ status[t] # "absent" /\ ~Visible(t) /\ pc[t] # "set" => t \in tasks
    /\ Visible(t) \/ pc[t] = "set" => (t \in tasks <=> ~GarbageCollect)

(* A cached task whose body is running or has succeeded has a hash. *)
Hashing ==
  \A t \in Tasks :
    /\ hashed[t] => Cached(t)
    /\ exec[t] \in {"running", "ok"} /\ Cached(t) => hashed[t]

(* The recording step of t is behind its thread. *)
Settled(t) == Succeeded(t) \/ pc[t] \in {"install", "final"}

(* Exactly the successes past the recording step are recorded. *)
Recording ==
  \A t \in Tasks :
    /\ t \in Recorded => Settled(t) /\ hashed[t]
    /\ Settled(t) /\ hashed[t] => /\ mode = "task_exit" => t \in Range(file)
                                  /\ mode = "deferred" => t \in Recorded

(* A success past the memo step has its entry. *)
Reuse ==
  /\ \A t \in Tasks : (Succeeded(t) \/ pc[t] = "final") /\ Cached(t) => memo[Key[t]] # "none"
  /\ \A t \in owed : Cached(t) /\ memo[Key[t]] # "none" /\ ~ran[t]

(* The inductive invariant. *)
IInv == /\ TypeOK
        /\ Control
        /\ DependenciesFirst
        /\ Listing
        /\ Hashing
        /\ Recording
        /\ Reuse
        /\ MemoIsDurable
        /\ RecordedOnce

-----------------------------------------------------------------------------
(* What Append does to the set of elements. *)
LEMMA RangeAppend ==
  ASSUME NEW S, NEW s \in Seq(S), NEW e \in S
  PROVE  Range(Append(s, e)) = Range(s) \cup {e}
<1>1. Append(s, e) = s \o <<e>> /\ <<e>> \in Seq(S)
  BY AppendIsConcat
<1>2. Range(<<e>>) = {e}
  BY DEF Range
<1>3. Range(s \o <<e>>) = Range(s) \cup Range(<<e>>)
  BY <1>1, RangeConcatenation
<1>4. QED
  BY <1>1, <1>2, <1>3

-----------------------------------------------------------------------------
(* The kernel starts in a state that satisfies it. *)
LEMMA InitInv == CoreInit => IInv
<1> SUFFICES ASSUME CoreInit PROVE IInv
  OBVIOUS
<1> USE DEF CoreInit
<1>1. TypeOK
  BY ConfigAssumption DEF TypeOK, States, FinalStates, PCs
<1>2. Control /\ DependenciesFirst
  BY DEF Control, Visible, FinalStates, Succeeded, DependenciesFirst
<1>3. Listing /\ Hashing
  BY DEF Listing, Visible, Hashing, Cached
<1>4. Recording /\ RecordedOnce
  BY DEF Recording, Recorded, Range, Settled, Succeeded, RecordedOnce,
     IsInjective
<1>5. Reuse /\ MemoIsDurable
  BY DEF Reuse, Succeeded, MemoIsDurable
<1>6. QED
  BY <1>1, <1>2, <1>3, <1>4, <1>5 DEF IInv

(* A launched task is pending and nobody handles it. *)
LEMMA Inspected ==
  ASSUME IInv, NEW t \in Tasks, Inspect(t)
  PROVE  /\ status[t] = "pending" /\ pc[t] = "idle" /\ exec[t] = "none"
         /\ fut[t] = "unset"
         /\ \A u \in Tasks : status[u] = "pending" => pc[u] = "idle"
<1>1. status[t] = "pending" /\ launcher = None
  BY DEF Inspect, Dequeue
<1>2. \A u \in Tasks : status[u] = "pending" => pc[u] = "idle"
  BY <1>1, NoneAssumption DEF IInv, Control
<1>3. exec[t] = "none" /\ fut[t] \notin {"none", "result", "exception"}
  BY <1>1, <1>2 DEF IInv, Control, Visible, FinalStates
<1>4. QED
  BY <1>1, <1>2, <1>3 DEF IInv, TypeOK

(* Recording a task that is not recorded, in the file or in the queue,     *)
(* keeps the records distinct.                                             *)
LEMMA InsertOnce ==
  ASSUME NEW s \in Seq(Tasks), NEW u \in Seq(Tasks), NEW t \in Tasks,
         IsInjective(s \o u), t \notin Range(s) \cup Range(u)
  PROVE  IsInjective(Append(s, t) \o u) /\ IsInjective(s \o Append(u, t))
<1> DEFINE w == s \o u
           x == Append(s, t) \o u
           y == s \o Append(u, t)
<1>1. t \notin Range(w)
  BY RangeConcatenation
<1>2. \A i \in DOMAIN w : w[i] # t
  BY <1>1 DEF Range
<1>3. \A i, j \in DOMAIN w : w[i] = w[j] => i = j
  BY DEF IsInjective
<1>4. /\ DOMAIN w = 1..(Len(s) + Len(u))
      /\ DOMAIN x = 1..(Len(s) + 1 + Len(u))
      /\ DOMAIN y = 1..(Len(s) + 1 + Len(u))
      /\ Len(s) \in Nat /\ Len(u) \in Nat
  OBVIOUS
<1>5. \A i \in DOMAIN x :
        x[i] = IF i <= Len(s) THEN w[i] ELSE IF i = Len(s) + 1 THEN t ELSE w[i - 1]
  OBVIOUS
<1>6. \A i \in DOMAIN y :
        y[i] = IF i <= Len(s) + Len(u) THEN w[i] ELSE t
  OBVIOUS
<1> HIDE DEF w, x, y
<1>7. ASSUME NEW i \in DOMAIN x, NEW j \in DOMAIN x, x[i] = x[j] PROVE i = j
  <2>1. i \in Int /\ j \in Int
    BY <1>4
  <2>2. CASE i = Len(s) + 1
    BY <1>2, <1>4, <1>5, <1>7, <2>1, <2>2
  <2>3. CASE j = Len(s) + 1
    BY <1>2, <1>4, <1>5, <1>7, <2>1, <2>3
  <2>4. CASE i # Len(s) + 1 /\ j # Len(s) + 1
    <3> DEFINE old(k) == IF k <= Len(s) THEN k ELSE k - 1
    <3>1. old(i) \in DOMAIN w /\ old(j) \in DOMAIN w
      BY <1>4, <2>1, <2>4
    <3>2. x[i] = w[old(i)] /\ x[j] = w[old(j)]
      BY <1>5, <2>4
    <3>3. old(i) = old(j)
      BY <1>3, <1>7, <3>1, <3>2
    <3>4. QED
      BY <1>4, <2>1, <2>4, <3>3
  <2>5. QED
    BY <2>2, <2>3, <2>4
<1>8. \A i, j \in DOMAIN y : y[i] = y[j] => i = j
  BY <1>2, <1>3, <1>4, <1>6
<1>9. IsInjective(x) /\ IsInjective(y)
  BY <1>7, <1>8 DEF IsInjective
<1>10. QED
  BY <1>9 DEF x, y

(* A flush moves records from the queue to the file. *)
LEMMA FlushKeepsRecords ==
  ASSUME TypeOK, FlushQueue
  PROVE  /\ file' \in Seq(Tasks) /\ queue' \in Seq(Tasks)
         /\ Recorded' = Recorded
         /\ Range(file) \subseteq Range(file')
         /\ file' \o queue' = file \o queue
<1> USE DEF TypeOK, FlushQueue
<1>1. file \in Seq(Tasks) /\ queue \in Seq(Tasks)
  OBVIOUS
<1>2. Range(file') = Range(file) \cup Range(queue)
  BY <1>1, RangeConcatenation
<1>3. Range(queue') = {}
  BY DEF Range
<1>4. file' \o queue' = file \o queue
  BY <1>1, ConcatEmptySeq, ConcatProperties
<1>5. QED
  BY <1>1, <1>2, <1>3, <1>4, ConcatProperties DEF Recorded

(* One more item keeps the launch queue a queue of tasks. *)
LEMMA LaunchQueued ==
  ASSUME TypeOK, NEW t \in Tasks, LaunchIfReady(t) \/ UNCHANGED pool
  PROVE  pool' \in Seq(Tasks)
<1>1. pool \in Seq(Tasks) /\ Append(pool, t) \in Seq(Tasks)
  BY DEF TypeOK
<1>2. pool' \in {pool, Append(pool, t)}
  BY DEF LaunchIfReady
<1>3. QED
  BY <1>1, <1>2

(* submit() is called. *)
LEMMA SubmitInv == ASSUME IInv, NEW t \in Tasks, Submit(t) PROVE IInv'
<1> USE DEF IInv, Submit
<1>1. TypeOK'
  BY DEF TypeOK, Cached
<1>2. Control'
  BY DEF TypeOK, Control, Visible, FinalStates, Succeeded
<1>3. Reuse'
  <2>1. ASSUME NEW u \in Tasks, fut[u] = "result", Cached(u), Key[u] = Key[t]
        PROVE  Cached(t) /\ memo[Key[t]] # "none"
    BY <2>1 DEF Control, Reuse, Visible, Cached
  <2>2. ~ran[t]
    BY DEF Control
  <2>3. owed' \subseteq Tasks
    BY DEF TypeOK
  <2>4. QED
    BY <2>1, <2>2, <2>3 DEF Reuse, Succeeded, Cached
<1>4. DependenciesFirst' /\ Listing' /\ Hashing' /\ Recording' /\
        MemoIsDurable' /\ RecordedOnce'
  BY DEF DependenciesFirst, Listing, Hashing, Recording, MemoIsDurable,
     RecordedOnce, Visible, Cached, Recorded, Settled, Succeeded
<1>5. QED
  BY <1>1, <1>2, <1>3, <1>4

(* The task record is made. *)
LEMMA RegisterInv == ASSUME IInv, NEW t \in Tasks, Register(t) PROVE IInv'
<1> USE DEF IInv, Register
<1>1. TypeOK'
  BY DependsAssumption DEF TypeOK, States, FinalStates
<1>2. Control'
  BY DEF TypeOK, Control, Visible, FinalStates, Succeeded
<1>3. DependenciesFirst'
  BY DependsAssumption DEF TypeOK, Control, DependenciesFirst, Visible,
     FinalStates
<1>4. Listing'
  BY DEF TypeOK, Control, Listing, Visible, FinalStates, Succeeded
<1>5. Recording'
  BY DEF TypeOK, Control, Recording, Recorded, Settled, Succeeded, FinalStates
<1>6. Reuse'
  BY DEF TypeOK, Control, Hashing, Reuse, Visible, FinalStates, Cached,
     Succeeded
<1>7. Hashing' /\ MemoIsDurable' /\ RecordedOnce'
  BY DEF Hashing, MemoIsDurable, RecordedOnce, Cached
<1>8. QED
  BY <1>1, <1>2, <1>3, <1>4, <1>5, <1>6, <1>7

(* submit() attaches a callback to a dependency. *)
LEMMA WatchDependencyInv ==
  ASSUME IInv, NEW t \in Tasks, NEW d \in Tasks, WatchDependency(t, d)
  PROVE  IInv'
<1> USE DEF IInv, WatchDependency
<1>1. TypeOK'
  <2>1. pool' \in Seq(Tasks)
    BY LaunchQueued
  <2>2. \/ waiters' = waiters
        \/ waiters' = [waiters EXCEPT ![d] = waiters[d] \cup {t}]
    OBVIOUS
  <2>3. waiters \in [Tasks -> SUBSET Tasks] /\ waiters[d] \cup {t} \in SUBSET Tasks
    BY DEF TypeOK
  <2>4. waiters' \in [Tasks -> SUBSET Tasks]
    BY <2>2, <2>3, Zenon
  <2>5. toWatch' \in [Tasks -> SUBSET Tasks]
    BY DEF TypeOK
  <2>6. QED
    BY <2>1, <2>4, <2>5 DEF TypeOK
<1>2. Control' /\ DependenciesFirst' /\ Listing' /\ Hashing' /\ Recording' /\
        Reuse' /\ MemoIsDurable' /\ RecordedOnce'
  BY DEF Control, DependenciesFirst, Listing, Hashing, Recording, Reuse,
     MemoIsDurable, RecordedOnce, Visible, FinalStates, Succeeded, Cached,
     Recorded, Settled
<1>3. QED
  BY <1>1, <1>2

(* submit() returns. *)
LEMMA SubmitLaunchInv ==
  ASSUME IInv, NEW t \in Tasks, SubmitLaunch(t)
  PROVE  IInv'
<1> USE DEF IInv, SubmitLaunch
<1>1. TypeOK'
  BY LaunchQueued DEF TypeOK
<1>2. Control'
  BY DEF TypeOK, Control, Visible, FinalStates, Succeeded
<1>3. DependenciesFirst' /\ Listing' /\ Hashing' /\ Recording' /\ Reuse' /\
        MemoIsDurable' /\ RecordedOnce'
  BY DEF DependenciesFirst, Listing, Hashing, Recording, Reuse, MemoIsDurable,
     RecordedOnce, Visible, Cached, Recorded, Settled, Succeeded
<1>4. QED
  BY <1>1, <1>2, <1>3

(* The launch thread drops an item. *)
LEMMA SkipLaunchInv == ASSUME IInv, NEW t \in Tasks, SkipLaunch(t) PROVE IInv'
<1> USE DEF IInv, SkipLaunch, Dequeue, Outstanding
<1>1. TypeOK'
  BY DEF TypeOK, Visible
<1>2. Control' /\ DependenciesFirst' /\ Listing' /\ Hashing' /\ Recording' /\
        Reuse' /\ MemoIsDurable' /\ RecordedOnce'
  BY DEF Control, DependenciesFirst, Listing, Hashing, Recording, Reuse,
     MemoIsDurable, RecordedOnce, Visible, FinalStates, Succeeded, Cached,
     Recorded, Settled
<1>3. QED
  BY <1>1, <1>2

(* A dependency failed. *)
LEMMA LaunchDependencyFailureInv ==
  ASSUME IInv, NEW t \in Tasks, LaunchDependencyFailure(t)
  PROVE  IInv'
<1>1. /\ status[t] = "pending" /\ pc[t] = "idle" /\ exec[t] = "none"
      /\ fut[t] = "unset"
      /\ \A u \in Tasks : status[u] = "pending" => pc[u] = "idle"
  BY Inspected DEF LaunchDependencyFailure
<1> USE DEF IInv, LaunchDependencyFailure, Inspect, Dequeue, Outstanding,
   FailedDeps
<1>2. TypeOK'
  BY SMTT(30) DEF TypeOK, States, FinalStates, PCs, Visible
<1>3. Control'
  BY <1>1 DEF TypeOK, Control, Visible, FinalStates, Succeeded
<1>4. Listing'
  BY <1>1 DEF TypeOK, Control, Listing, Visible, FinalStates, Succeeded
<1>5. Hashing'
  BY <1>1 DEF TypeOK, Control, Hashing, Cached
<1>6. Recording'
  BY <1>1 DEF TypeOK, Control, Recording, Recorded, Settled, Succeeded,
     FinalStates
<1>7. Reuse'
  BY <1>1 DEF TypeOK, Control, Hashing, Reuse, Visible, FinalStates, Cached,
     Succeeded
<1>8. DependenciesFirst' /\ MemoIsDurable' /\ RecordedOnce'
  BY DEF DependenciesFirst, MemoIsDurable, RecordedOnce
<1>9. QED
  BY <1>1, <1>2, <1>3, <1>4, <1>5, <1>6, <1>7, <1>8

(* The memo answers. *)
LEMMA LaunchMemoHitInv ==
  ASSUME IInv, NEW t \in Tasks, LaunchMemoHit(t)
  PROVE  IInv'
<1>1. /\ status[t] = "pending" /\ pc[t] = "idle" /\ exec[t] = "none"
      /\ fut[t] = "unset"
      /\ \A u \in Tasks : status[u] = "pending" => pc[u] = "idle"
  BY Inspected DEF LaunchMemoHit
<1> USE DEF IInv, LaunchMemoHit, Inspect, Dequeue, Outstanding, FailedDeps
<1>2. TypeOK'
  BY KeyAssumption DEF TypeOK, PCs, Visible, Cached
<1>3. Control'
  BY <1>1 DEF TypeOK, Control, Visible, FinalStates, Succeeded
<1>4. Listing'
  BY <1>1 DEF TypeOK, Control, Listing, Visible, FinalStates, Succeeded
<1>5. Hashing'
  BY <1>1 DEF TypeOK, Control, Hashing, Cached
<1>6. Recording'
  BY <1>1 DEF TypeOK, Control, Recording, Recorded, Settled, Succeeded,
     FinalStates
<1>7. Reuse'
  BY <1>1 DEF TypeOK, Control, Hashing, Reuse, Visible, FinalStates, Cached,
     Succeeded
<1>8. DependenciesFirst' /\ MemoIsDurable' /\ RecordedOnce'
  BY DEF DependenciesFirst, MemoIsDurable, RecordedOnce
<1>9. QED
  BY <1>1, <1>2, <1>3, <1>4, <1>5, <1>6, <1>7, <1>8

(* The executor takes the task. *)
LEMMA LaunchSubmitInv ==
  ASSUME IInv, NEW t \in Tasks, LaunchSubmit(t)
  PROVE  IInv'
<1>1. /\ status[t] = "pending" /\ pc[t] = "idle" /\ exec[t] = "none"
      /\ fut[t] = "unset"
      /\ \A u \in Tasks : status[u] = "pending" => pc[u] = "idle"
  BY Inspected DEF LaunchSubmit, MemoMiss
<1> USE DEF IInv, LaunchSubmit, MemoMiss, Inspect, Dequeue, Outstanding,
   FailedDeps, ExecutorsClosed
<1>2. TypeOK'
  <2>1. pool' \in Seq(Tasks) /\ launcher' = t
    BY DEF TypeOK
  <2>2. hashed' \in [Tasks -> BOOLEAN] /\ fromMemo' \in [Tasks -> BOOLEAN]
    BY DEF TypeOK, Cached
  <2>3. /\ exec' \in [Tasks -> {"none", "running", "ok", "error"}]
        /\ ran' \in [Tasks -> BOOLEAN]
        /\ pc' \in [Tasks -> PCs]
    BY DEF TypeOK, PCs
  <2>4. QED
    BY <2>1, <2>2, <2>3 DEF TypeOK
<1>3. Control'
  BY <1>1 DEF TypeOK, Control, Visible, FinalStates, Succeeded
<1>4. DependenciesFirst'
  BY <1>1, DependsAssumption DEF TypeOK, Control, DependenciesFirst, Visible,
     FinalStates
<1>5. Listing'
  BY <1>1 DEF TypeOK, Control, Listing, Visible, FinalStates, Succeeded
<1>6. Hashing'
  <2>1. hashed'[t] = Cached(t)
    BY DEF TypeOK
  <2>2. \A u \in Tasks \ {t} : hashed'[u] = hashed[u] /\ exec'[u] = exec[u]
    BY DEF TypeOK
  <2>3. QED
    BY <2>1, <2>2 DEF Hashing
<1>7. Recording'
  BY <1>1 DEF TypeOK, Control, Recording, Recorded, Settled, Succeeded,
     FinalStates
<1>8. Reuse'
  BY <1>1, KeyAssumption DEF TypeOK, Control, Hashing, Reuse, Visible,
     FinalStates, Cached, Succeeded
<1>9. MemoIsDurable' /\ RecordedOnce'
  BY DEF MemoIsDurable, RecordedOnce
<1>10. QED
  BY <1>1, <1>2, <1>3, <1>4, <1>5, <1>6, <1>7, <1>8, <1>9

(* The executor refuses the task. *)
LEMMA LaunchRefusedInv ==
  ASSUME IInv, NEW t \in Tasks, LaunchRefused(t)
  PROVE  IInv'
<1>1. /\ status[t] = "pending" /\ pc[t] = "idle" /\ exec[t] = "none"
      /\ fut[t] = "unset"
      /\ \A u \in Tasks : status[u] = "pending" => pc[u] = "idle"
  BY Inspected DEF LaunchRefused, MemoMiss
<1> USE DEF IInv, LaunchRefused, MemoMiss, Inspect, Dequeue, Outstanding,
   FailedDeps, ExecutorsClosed
<1>2. TypeOK'
  BY DEF TypeOK, PCs, Visible, Cached
<1>3. Control'
  BY <1>1 DEF TypeOK, Control, Visible, FinalStates, Succeeded
<1>4. Listing'
  BY <1>1 DEF TypeOK, Control, Listing, Visible, FinalStates, Succeeded
<1>5. Hashing'
  BY <1>1 DEF TypeOK, Control, Hashing, Cached
<1>6. Recording'
  BY <1>1 DEF TypeOK, Control, Recording, Recorded, Settled, Succeeded,
     FinalStates
<1>7. Reuse'
  BY <1>1 DEF TypeOK, Control, Hashing, Reuse, Visible, FinalStates, Cached,
     Succeeded
<1>8. DependenciesFirst' /\ MemoIsDurable' /\ RecordedOnce'
  BY DEF DependenciesFirst, MemoIsDurable, RecordedOnce
<1>9. QED
  BY <1>1, <1>2, <1>3, <1>4, <1>5, <1>6, <1>7, <1>8

(* The arguments have no hash. *)
LEMMA LaunchUnhashableInv ==
  ASSUME IInv, NEW t \in Tasks, LaunchUnhashable(t)
  PROVE  IInv'
<1>1. /\ status[t] = "pending" /\ pc[t] = "idle" /\ exec[t] = "none"
      /\ fut[t] = "unset"
      /\ \A u \in Tasks : status[u] = "pending" => pc[u] = "idle"
  BY Inspected DEF LaunchUnhashable
<1> USE DEF IInv, LaunchUnhashable, Inspect, Dequeue, Outstanding, FailedDeps
<1>2. TypeOK'
  BY DEF TypeOK, PCs, Visible, Cached
<1>3. Control'
  BY <1>1 DEF TypeOK, Control, Visible, FinalStates, Succeeded
<1>4. Listing'
  BY <1>1 DEF TypeOK, Control, Listing, Visible, FinalStates, Succeeded
<1>5. Hashing'
  BY <1>1 DEF TypeOK, Control, Hashing, Cached
<1>6. Recording'
  BY <1>1 DEF TypeOK, Control, Recording, Recorded, Settled, Succeeded,
     FinalStates
<1>7. Reuse'
  BY <1>1 DEF TypeOK, Control, Hashing, Reuse, Visible, FinalStates, Cached,
     Succeeded
<1>8. DependenciesFirst' /\ MemoIsDurable' /\ RecordedOnce'
  BY DEF DependenciesFirst, MemoIsDurable, RecordedOnce
<1>9. QED
  BY <1>1, <1>2, <1>3, <1>4, <1>5, <1>6, <1>7, <1>8

(* handle_exec_update is attached. *)
LEMMA AttachInv == ASSUME IInv, NEW t \in Tasks, Attach(t) PROVE IInv'
<1> USE DEF IInv, Attach
<1>1. TypeOK'
  <2>1. status' \in [Tasks -> States]
    BY DEF TypeOK, States, FinalStates
  <2>2. pc' \in [Tasks -> PCs]
    <3>1. pc' \in {[pc EXCEPT ![t] = "idle"], [pc EXCEPT ![t] = "exec"]}
      OBVIOUS
    <3>2. pc \in [Tasks -> PCs] /\ "idle" \in PCs /\ "exec" \in PCs
      BY DEF TypeOK, PCs
    <3>3. QED
      BY <3>1, <3>2
  <2>3. launcher' \in Tasks \cup {None}
    BY DEF TypeOK
  <2>4. QED
    BY <2>1, <2>2, <2>3 DEF TypeOK
<1>2. Control'
  <2>1. CASE exec[t] = "running"
    BY <2>1 DEF TypeOK, Control, Visible, FinalStates, Succeeded
  <2>2. CASE exec[t] # "running"
    BY <2>2 DEF TypeOK, Control, Visible, FinalStates, Succeeded
  <2>3. QED
    BY <2>1, <2>2
<1>3. Listing'
  BY DEF TypeOK, Control, Listing, Visible, FinalStates, Succeeded
<1>4. Recording'
  BY DEF TypeOK, Control, Recording, Recorded, Settled, Succeeded, FinalStates
<1>5. Reuse'
  BY DEF TypeOK, Control, Hashing, Reuse, Visible, FinalStates, Cached,
     Succeeded
<1>6. DependenciesFirst' /\ Hashing' /\ MemoIsDurable' /\ RecordedOnce'
  BY DEF DependenciesFirst, Hashing, MemoIsDurable, RecordedOnce, Cached
<1>7. QED
  BY <1>1, <1>2, <1>3, <1>4, <1>5, <1>6

(* The body ends. *)
LEMMA RunBodyInv == ASSUME IInv, NEW t \in Tasks, RunBody(t) PROVE IInv'
<1> USE DEF IInv, RunBody
<1>1. TypeOK'
  BY DEF TypeOK, PCs
<1>2. Control'
  <2>1. PICK r \in {"ok", "error"} : exec' = [exec EXCEPT ![t] = r]
    OBVIOUS
  <2>2. status[t] \in {"pending", "launched"} /\ pc[t] \in {"attach", "idle"}
    BY DEF TypeOK, Control, States, FinalStates, PCs
  <2>3. QED
    BY <2>1, <2>2 DEF TypeOK, Control, Visible, FinalStates, Succeeded
<1>3. Listing'
  <2>1. status[t] \in {"pending", "launched"} /\ pc[t] # "set"
    BY DEF TypeOK, Control, States, FinalStates, PCs
  <2>2. \A u \in Tasks : u # t => pc'[u] = pc[u]
    OBVIOUS
  <2>3. pc'[t] # "set"
    BY <2>1 DEF TypeOK
  <2>4. QED
    BY <2>1, <2>2, <2>3 DEF Control, Listing, Visible, FinalStates
<1>4. Hashing'
  BY DEF TypeOK, Control, Hashing, Cached
<1>5. Recording'
  BY DEF TypeOK, Control, Recording, Recorded, Settled, Succeeded, FinalStates
<1>6. Reuse'
  BY DEF TypeOK, Control, Hashing, Reuse, Visible, FinalStates, Cached,
     Succeeded
<1>7. DependenciesFirst' /\ MemoIsDurable' /\ RecordedOnce'
  BY DEF DependenciesFirst, MemoIsDurable, RecordedOnce
<1>8. QED
  BY <1>1, <1>2, <1>3, <1>4, <1>5, <1>6, <1>7

(* The attempt succeeded. *)
LEMMA HandleSuccessInv ==
  ASSUME IInv, NEW t \in Tasks, HandleSuccess(t)
  PROVE  IInv'
<1> USE DEF IInv, HandleSuccess
<1>1. TypeOK'
  BY DEF TypeOK, PCs
<1>2. Control'
  BY DEF TypeOK, Control, Visible, FinalStates, Succeeded
<1>3. Listing'
  BY DEF TypeOK, Control, Listing, Visible, FinalStates, Succeeded
<1>4. Recording'
  BY DEF TypeOK, Control, Recording, Recorded, Settled, Succeeded, FinalStates
<1>5. Reuse'
  BY DEF TypeOK, Control, Hashing, Reuse, Visible, FinalStates, Cached,
     Succeeded
<1>6. DependenciesFirst' /\ Hashing' /\ MemoIsDurable' /\ RecordedOnce'
  BY DEF DependenciesFirst, Hashing, MemoIsDurable, RecordedOnce, Cached
<1>7. QED
  BY <1>1, <1>2, <1>3, <1>4, <1>5, <1>6

(* The attempt failed and is retried. *)
LEMMA HandleRetryInv ==
  ASSUME IInv, NEW t \in Tasks, HandleRetry(t)
  PROVE  IInv'
<1> USE DEF IInv, HandleRetry, NewFailCost, HandlerReturns
<1>1. TypeOK'
  <2>1. pool' \in Seq(Tasks)
    BY LaunchQueued
  <2>2. rechecks' \in [Tasks -> Nat]
    BY DEF TypeOK
  <2>3. failCost' \in [Tasks -> Nat]
    BY RetryAssumption DEF TypeOK
  <2>4. QED
    BY <2>1, <2>2, <2>3 DEF TypeOK, States, FinalStates, PCs
<1>2. Control'
  BY DEF TypeOK, Control, Visible, FinalStates, Succeeded
<1>3. Listing'
  BY DEF TypeOK, Control, Listing, Visible, FinalStates, Succeeded
<1>4. Hashing'
  BY DEF TypeOK, Control, Hashing, Cached
<1>5. Recording'
  BY DEF TypeOK, Control, Recording, Recorded, Settled, Succeeded, FinalStates
<1>6. Reuse'
  BY DEF TypeOK, Control, Hashing, Reuse, Visible, FinalStates, Cached,
     Succeeded
<1>7. DependenciesFirst' /\ MemoIsDurable' /\ RecordedOnce'
  BY DEF DependenciesFirst, MemoIsDurable, RecordedOnce
<1>8. QED
  BY <1>1, <1>2, <1>3, <1>4, <1>5, <1>6, <1>7

(* The handler of a retried attempt ends. *)
LEMMA RecheckInv == ASSUME IInv, NEW t \in Tasks, Recheck(t) PROVE IInv'
<1> USE DEF IInv, Recheck
<1>1. TypeOK'
  <2>1. pool' \in Seq(Tasks)
    BY LaunchQueued
  <2>2. rechecks' \in [Tasks -> Nat]
    BY DEF TypeOK
  <2>3. QED
    BY <2>1, <2>2 DEF TypeOK
<1>2. Control' /\ DependenciesFirst' /\ Listing' /\ Hashing' /\ Recording' /\
        Reuse' /\ MemoIsDurable' /\ RecordedOnce'
  BY DEF Control, DependenciesFirst, Listing, Hashing, Recording, Reuse,
     MemoIsDurable, RecordedOnce, Visible, FinalStates, Succeeded, Cached,
     Recorded, Settled
<1>3. QED
  BY <1>1, <1>2

(* The attempt failed for good. *)
LEMMA HandleFailureInv ==
  ASSUME IInv, NEW t \in Tasks, HandleFailure(t)
  PROVE  IInv'
<1> USE DEF IInv, HandleFailure, NewFailCost
<1>1. TypeOK'
  <2>1. failCost' \in [Tasks -> Nat]
    BY RetryAssumption DEF TypeOK
  <2>2. QED
    BY <2>1 DEF TypeOK, States, FinalStates, PCs
<1>2. Control'
  BY DEF TypeOK, Control, Visible, FinalStates, Succeeded
<1>3. Listing'
  BY DEF TypeOK, Control, Listing, Visible, FinalStates, Succeeded
<1>4. Recording'
  BY DEF TypeOK, Control, Recording, Recorded, Settled, Succeeded, FinalStates
<1>5. Reuse'
  BY DEF TypeOK, Control, Hashing, Reuse, Visible, FinalStates, Cached,
     Succeeded
<1>6. DependenciesFirst' /\ Hashing' /\ MemoIsDurable' /\ RecordedOnce'
  BY DEF DependenciesFirst, Hashing, MemoIsDurable, RecordedOnce, Cached
<1>7. QED
  BY <1>1, <1>2, <1>3, <1>4, <1>5, <1>6

(* A done-callback runs. *)
LEMMA NotifyDependentInv ==
  ASSUME IInv, NEW t \in Tasks, NEW u \in Tasks, NotifyDependent(t, u)
  PROVE  IInv'
<1> USE DEF IInv, NotifyDependent
<1>1. TypeOK'
  BY LaunchQueued DEF TypeOK
<1>2. Control' /\ DependenciesFirst' /\ Listing' /\ Hashing' /\ Recording' /\
        Reuse' /\ MemoIsDurable' /\ RecordedOnce'
  BY DEF Control, DependenciesFirst, Listing, Hashing, Recording, Reuse,
     MemoIsDurable, RecordedOnce, Visible, FinalStates, Succeeded, Cached,
     Recorded, Settled
<1>3. QED
  BY <1>1, <1>2

(* The handler of a finished task ends. *)
LEMMA HandlerEndsInv ==
  ASSUME IInv, NEW t \in Tasks, HandlerEnds(t)
  PROVE  IInv'
<1> USE DEF IInv, HandlerEnds, HandlerReturns
<1>1. TypeOK'
  BY DEF TypeOK, PCs
<1>2. Control'
  BY DEF TypeOK, Control, Visible, FinalStates, Succeeded
<1>3. Listing'
  BY DEF TypeOK, Control, Listing, Visible, FinalStates, Succeeded
<1>4. Recording'
  BY DEF TypeOK, Control, Recording, Recorded, Settled, Succeeded, FinalStates
<1>5. Reuse'
  BY DEF TypeOK, Control, Hashing, Reuse, Visible, FinalStates, Cached,
     Succeeded
<1>6. DependenciesFirst' /\ Hashing' /\ MemoIsDurable' /\ RecordedOnce'
  BY DEF DependenciesFirst, Hashing, MemoIsDurable, RecordedOnce, Cached
<1>7. QED
  BY <1>1, <1>2, <1>3, <1>4, <1>5, <1>6

(* The success is on disk. *)
LEMMA RecordTaskExitInv ==
  ASSUME IInv, NEW t \in Tasks, RecordTaskExit(t)
  PROVE  IInv'
<1> USE DEF IInv, RecordTaskExit, Advance
<1>1. TypeOK'
  BY DEF TypeOK, PCs
<1>2. Control'
  BY DEF TypeOK, Control, Visible, FinalStates, Succeeded
<1>3. Listing'
  BY DEF TypeOK, Control, Listing, Visible, FinalStates, Succeeded
<1>4. Recording'
  BY RangeAppend DEF TypeOK, Control, Recording, Recorded, Settled, Succeeded,
     FinalStates
<1>5. Reuse'
  BY DEF TypeOK, Control, Hashing, Reuse, Visible, FinalStates, Cached,
     Succeeded
<1>6. MemoIsDurable'
  BY RangeAppend DEF TypeOK, Recording, Settled, MemoIsDurable, Succeeded
<1>7. RecordedOnce'
  <2>1. t \notin Recorded
    BY DEF TypeOK, Control, Recording, Settled, Succeeded
  <2>2. file \in Seq(Tasks) /\ queue \in Seq(Tasks)
    BY DEF TypeOK
  <2>3. QED
    BY <2>1, <2>2, InsertOnce DEF RecordedOnce, Recorded
<1>8. DependenciesFirst' /\ Hashing'
  BY DEF DependenciesFirst, Hashing, Cached
<1>9. QED
  BY <1>1, <1>2, <1>3, <1>4, <1>5, <1>6, <1>7, <1>8

(* The success could not be written. *)
LEMMA RecordFailsInv ==
  ASSUME IInv, NEW t \in Tasks, RecordFails(t)
  PROVE  IInv'
<1> USE DEF IInv, RecordFails, DiskFails, Advance
<1>1. TypeOK'
  BY DEF TypeOK, PCs
<1>2. Control'
  BY DEF TypeOK, Control, Visible, FinalStates, Succeeded
<1>3. Listing'
  BY DEF TypeOK, Control, Listing, Visible, FinalStates, Succeeded
<1>4. Recording'
  BY DEF TypeOK, Control, Recording, Recorded, Settled, Succeeded, FinalStates
<1>5. Reuse'
  BY DEF TypeOK, Control, Hashing, Reuse, Visible, FinalStates, Cached,
     Succeeded
<1>6. DependenciesFirst' /\ Hashing' /\ MemoIsDurable' /\ RecordedOnce'
  BY DEF DependenciesFirst, Hashing, MemoIsDurable, RecordedOnce, Cached
<1>7. QED
  BY <1>1, <1>2, <1>3, <1>4, <1>5, <1>6

(* The success is queued. *)
LEMMA RecordDeferredInv ==
  ASSUME IInv, NEW t \in Tasks, RecordDeferred(t)
  PROVE  IInv'
<1> USE DEF IInv, RecordDeferred, Advance
<1>1. TypeOK'
  BY DEF TypeOK, PCs
<1>2. Control'
  BY DEF TypeOK, Control, Visible, FinalStates, Succeeded
<1>3. Listing'
  BY DEF TypeOK, Control, Listing, Visible, FinalStates, Succeeded
<1>4. Recording'
  BY RangeAppend DEF TypeOK, Control, Recording, Recorded, Settled, Succeeded,
     FinalStates
<1>5. Reuse'
  BY DEF TypeOK, Control, Hashing, Reuse, Visible, FinalStates, Cached,
     Succeeded
<1>6. RecordedOnce'
  <2>1. t \notin Recorded
    BY DEF TypeOK, Control, Recording, Settled, Succeeded
  <2>2. file \in Seq(Tasks) /\ queue \in Seq(Tasks)
    BY DEF TypeOK
  <2>3. QED
    BY <2>1, <2>2, InsertOnce DEF RecordedOnce, Recorded
<1>7. DependenciesFirst' /\ Hashing' /\ MemoIsDurable'
  BY DEF DependenciesFirst, Hashing, MemoIsDurable, Cached
<1>8. QED
  BY <1>1, <1>2, <1>3, <1>4, <1>5, <1>6, <1>7

(* The success needs no record. *)
LEMMA RecordNothingInv ==
  ASSUME IInv, NEW t \in Tasks, RecordNothing(t)
  PROVE  IInv'
<1> USE DEF IInv, RecordNothing, Advance
<1>1. TypeOK'
  BY DEF TypeOK, PCs
<1>2. Control'
  BY DEF TypeOK, Control, Visible, FinalStates, Succeeded
<1>3. Listing'
  BY DEF TypeOK, Control, Listing, Visible, FinalStates, Succeeded
<1>4. Recording'
  BY DEF TypeOK, Control, Recording, Recorded, Settled, Succeeded, FinalStates
<1>5. Reuse'
  BY DEF TypeOK, Control, Hashing, Reuse, Visible, FinalStates, Cached,
     Succeeded
<1>6. DependenciesFirst' /\ Hashing' /\ MemoIsDurable' /\ RecordedOnce'
  BY DEF DependenciesFirst, Hashing, MemoIsDurable, RecordedOnce, Cached
<1>7. QED
  BY <1>1, <1>2, <1>3, <1>4, <1>5, <1>6

(* The success is reusable. *)
LEMMA InstallMemoInv ==
  ASSUME IInv, NEW t \in Tasks, InstallMemo(t)
  PROVE  IInv'
<1> USE DEF IInv, InstallMemo, Advance, MemoUpdate
<1>1. TypeOK'
  BY DEF TypeOK, PCs
<1>2. Control'
  BY DEF TypeOK, Control, Visible, FinalStates, Succeeded
<1>3. Listing'
  BY DEF TypeOK, Control, Listing, Visible, FinalStates, Succeeded
<1>4. Recording'
  BY DEF TypeOK, Control, Recording, Recorded, Settled, Succeeded, FinalStates
<1>5. Reuse'
  <2>1. \A k \in Keys : memo[k] # "none" => memo'[k] # "none"
    BY KeyAssumption DEF TypeOK
  <2>2. ASSUME hashed[t] PROVE memo'[Key[t]] # "none"
    <3>1. Key[t] \in Keys
      BY <2>2, KeyAssumption DEF Hashing, Cached
    <3>2. QED
      BY <2>2, <3>1 DEF TypeOK
  <2>3. Cached(t) => hashed[t]
    BY DEF TypeOK, Control, Hashing
  <2>4. \A u \in Tasks : Cached(u) => Key[u] \in Keys
    BY KeyAssumption DEF Cached
  <2>5. QED
    BY <2>1, <2>2, <2>3, <2>4 DEF TypeOK, Reuse, Succeeded, Cached
<1>6. MemoIsDurable'
  BY KeyAssumption DEF TypeOK, Recording, Settled, MemoIsDurable, Succeeded
<1>7. DependenciesFirst' /\ Hashing' /\ RecordedOnce'
  BY DEF DependenciesFirst, Hashing, RecordedOnce, Cached
<1>8. QED
  BY <1>1, <1>2, <1>3, <1>4, <1>5, <1>6, <1>7

(* The record becomes final. *)
LEMMA EnterFinalStateInv ==
  ASSUME IInv, NEW t \in Tasks, EnterFinalState(t)
  PROVE  IInv'
<1> USE DEF IInv, EnterFinalState, Advance, DoneState
<1>1. TypeOK'
  BY DEF TypeOK, States, FinalStates, PCs
<1>2. Control'
  BY DEF TypeOK, Control, Visible, FinalStates, Succeeded
<1>3. Listing'
  BY DEF TypeOK, Control, Listing, Visible, FinalStates, Succeeded
<1>4. Recording'
  BY DEF TypeOK, Control, Recording, Recorded, Settled, Succeeded, FinalStates
<1>5. Reuse'
  BY DEF TypeOK, Control, Hashing, Reuse, Visible, FinalStates, Cached,
     Succeeded
<1>6. DependenciesFirst' /\ Hashing' /\ MemoIsDurable' /\ RecordedOnce'
  BY DEF DependenciesFirst, Hashing, MemoIsDurable, RecordedOnce, Cached
<1>7. QED
  BY <1>1, <1>2, <1>3, <1>4, <1>5, <1>6

(* The unwritten success becomes a failure. *)
LEMMA PublicationFailedInv ==
  ASSUME IInv, NEW t \in Tasks, PublicationFailed(t)
  PROVE  IInv'
<1> USE DEF IInv, PublicationFailed, Advance
<1>1. TypeOK'
  BY DEF TypeOK, States, FinalStates, PCs
<1>2. Control'
  BY DEF TypeOK, Control, Visible, FinalStates, Succeeded
<1>3. Listing'
  BY DEF TypeOK, Control, Listing, Visible, FinalStates, Succeeded
<1>4. Recording'
  <2>1. ~Settled(t)
    BY DEF Control, Settled, Succeeded
  <2>2. ~Settled(t)'
    BY DEF TypeOK, Settled, Succeeded
  <2>3. \A u \in Tasks \ {t} : Settled(u)' = Settled(u)
    BY DEF TypeOK, Settled, Succeeded
  <2>4. QED
    BY <2>1, <2>2, <2>3 DEF Recording, Recorded
<1>5. Reuse'
  BY DEF TypeOK, Control, Hashing, Reuse, Visible, FinalStates, Cached,
     Succeeded
<1>6. DependenciesFirst' /\ Hashing' /\ MemoIsDurable' /\ RecordedOnce'
  BY DEF DependenciesFirst, Hashing, MemoIsDurable, RecordedOnce, Cached
<1>7. QED
  BY <1>1, <1>2, <1>3, <1>4, <1>5, <1>6

(* The memo learns of a failure. *)
LEMMA RecordFailureInv ==
  ASSUME IInv, NEW t \in Tasks, RecordFailure(t)
  PROVE  IInv'
<1> USE DEF IInv, RecordFailure, Advance, MemoUpdate
<1>1. TypeOK'
  BY DEF TypeOK, PCs
<1>2. Control'
  BY DEF TypeOK, Control, Visible, FinalStates, Succeeded
<1>3. Listing'
  BY DEF TypeOK, Control, Listing, Visible, FinalStates, Succeeded
<1>4. Recording'
  BY DEF TypeOK, Control, Recording, Recorded, Settled, Succeeded, FinalStates
<1>5. Reuse'
  BY KeyAssumption DEF TypeOK, Control, Hashing, Reuse, Visible, FinalStates,
     Cached, Succeeded
<1>6. MemoIsDurable'
  BY KeyAssumption DEF TypeOK, Recording, Settled, MemoIsDurable, Succeeded
<1>7. DependenciesFirst' /\ Hashing' /\ RecordedOnce'
  BY DEF DependenciesFirst, Hashing, RecordedOnce, Cached
<1>8. QED
  BY <1>1, <1>2, <1>3, <1>4, <1>5, <1>6, <1>7

(* The record leaves the table. *)
LEMMA WipeInv == ASSUME IInv, NEW t \in Tasks, Wipe(t) PROVE IInv'
<1> USE DEF IInv, Wipe, Advance, WipeTask
<1>1. TypeOK'
  BY DEF TypeOK, PCs
<1>2. Control'
  BY DEF TypeOK, Control, Visible, FinalStates, Succeeded
<1>3. Listing'
  BY DEF TypeOK, Control, Listing, Visible, FinalStates, Succeeded
<1>4. Recording'
  BY DEF TypeOK, Control, Recording, Recorded, Settled, Succeeded, FinalStates
<1>5. Reuse'
  BY DEF TypeOK, Control, Hashing, Reuse, Visible, FinalStates, Cached,
     Succeeded
<1>6. DependenciesFirst' /\ Hashing' /\ MemoIsDurable' /\ RecordedOnce'
  BY DEF DependenciesFirst, Hashing, MemoIsDurable, RecordedOnce, Cached
<1>7. QED
  BY <1>1, <1>2, <1>3, <1>4, <1>5, <1>6

(* The future is set. *)
LEMMA PublishFutureInv ==
  ASSUME IInv, NEW t \in Tasks, PublishFuture(t)
  PROVE  IInv'
<1> USE DEF IInv, PublishFuture, Advance, SetFuture
<1>1. TypeOK'
  BY DEF TypeOK, PCs
<1>2. Control'
  BY DEF TypeOK, Control, Visible, FinalStates, Succeeded
<1>3. DependenciesFirst'
  BY DependsAssumption DEF TypeOK, Control, DependenciesFirst, Visible,
     FinalStates
<1>4. Listing'
  BY DEF TypeOK, Control, Listing, Visible, FinalStates, Succeeded
<1>5. Recording'
  BY DEF TypeOK, Control, Recording, Recorded, Settled, Succeeded, FinalStates
<1>6. Reuse'
  BY DEF TypeOK, Control, Hashing, Reuse, Visible, FinalStates, Cached,
     Succeeded
<1>7. Hashing' /\ MemoIsDurable' /\ RecordedOnce'
  BY DEF Hashing, MemoIsDurable, RecordedOnce, Cached
<1>8. QED
  BY <1>1, <1>2, <1>3, <1>4, <1>5, <1>6, <1>7

(* wait_for_current_tasks is called. *)
LEMMA WaitBeginInv == ASSUME IInv, WaitBegin PROVE IInv'
<1> USE DEF IInv, WaitBegin
<1>1. TypeOK'
  BY DEF TypeOK
<1>2. Control' /\ DependenciesFirst' /\ Listing' /\ Hashing' /\ Recording' /\
        Reuse' /\ MemoIsDurable' /\ RecordedOnce'
  BY DEF Control, DependenciesFirst, Listing, Hashing, Recording, Reuse,
     MemoIsDurable, RecordedOnce, Visible, FinalStates, Succeeded, Cached,
     Recorded, Settled
<1>3. QED
  BY <1>1, <1>2

(* It returns. *)
LEMMA WaitEndInv == ASSUME IInv, WaitEnd PROVE IInv'
<1> USE DEF IInv, WaitEnd
<1>1. TypeOK'
  BY DEF TypeOK, Visible
<1>2. Control' /\ DependenciesFirst' /\ Listing' /\ Hashing' /\ Recording' /\
        Reuse' /\ MemoIsDurable' /\ RecordedOnce'
  BY DEF Control, DependenciesFirst, Listing, Hashing, Recording, Reuse,
     MemoIsDurable, RecordedOnce, Visible, FinalStates, Succeeded, Cached,
     Recorded, Settled
<1>3. QED
  BY <1>1, <1>2

(* cleanup() is called. *)
LEMMA CleanupBeginInv == ASSUME IInv, CleanupBegin PROVE IInv'
<1> USE DEF IInv, CleanupBegin
<1>1. TypeOK'
  BY DEF TypeOK
<1>2. Control' /\ DependenciesFirst' /\ Listing' /\ Hashing' /\ Recording' /\
        Reuse' /\ MemoIsDurable' /\ RecordedOnce'
  BY DEF Control, DependenciesFirst, Listing, Hashing, Recording, Reuse,
     MemoIsDurable, RecordedOnce, Visible, FinalStates, Succeeded, Cached,
     Recorded, Settled
<1>3. QED
  BY <1>1, <1>2

(* cleanup() goes on. *)
LEMMA CleanupStepInv == ASSUME IInv, CleanupStep PROVE IInv'
<1> USE DEF IInv, CleanupStep, ExecutorsIdle
<1>1. TypeOK'
  BY DEF TypeOK
<1>2. Control' /\ DependenciesFirst' /\ Listing' /\ Hashing' /\ Recording' /\
        Reuse' /\ MemoIsDurable' /\ RecordedOnce'
  BY DEF Control, DependenciesFirst, Listing, Hashing, Recording, Reuse,
     MemoIsDurable, RecordedOnce, Visible, FinalStates, Succeeded, Cached,
     Recorded, Settled
<1>3. QED
  BY <1>1, <1>2

(* The workflow or the timer flushes the queue. *)
LEMMA CheckpointInv == ASSUME IInv, Checkpoint PROVE IInv'
<1>1. /\ file' \in Seq(Tasks) /\ queue' \in Seq(Tasks)
      /\ Recorded' = Recorded
      /\ Range(file) \subseteq Range(file')
      /\ file' \o queue' = file \o queue
  BY FlushKeepsRecords DEF IInv, Checkpoint
<1> USE DEF IInv, Checkpoint
<1>2. TypeOK'
  BY <1>1 DEF TypeOK
<1>3. Recording'
  BY <1>1 DEF Recording, Settled, Succeeded
<1>4. MemoIsDurable' /\ RecordedOnce'
  BY <1>1 DEF MemoIsDurable, RecordedOnce
<1>5. Control' /\ DependenciesFirst' /\ Listing' /\ Hashing' /\ Reuse'
  BY DEF Control, Visible, FinalStates, Succeeded, DependenciesFirst, Listing,
     Hashing, Cached, Reuse
<1>6. QED
  BY <1>2, <1>3, <1>4, <1>5

(* cleanup() flushes the queue, if there is a checkpoint mode. *)
LEMMA CleanupFlushInv == ASSUME IInv, CleanupFlush PROVE IInv'
<1>1. CASE mode = "none"
  BY <1>1 DEF CleanupFlush, IInv, TypeOK, Control, Visible, FinalStates,
     Succeeded, DependenciesFirst, Listing, Hashing, Cached, Recording,
     Recorded, Settled, Reuse, MemoIsDurable, RecordedOnce
<1>2. CASE mode # "none"
  <2>1. /\ file' \in Seq(Tasks) /\ queue' \in Seq(Tasks)
        /\ Recorded' = Recorded
        /\ Range(file) \subseteq Range(file')
        /\ file' \o queue' = file \o queue
    BY <1>2, FlushKeepsRecords DEF IInv, CleanupFlush
  <2> USE DEF IInv, CleanupFlush
  <2>2. TypeOK'
    BY <1>2, <2>1 DEF TypeOK
  <2>3. Recording'
    BY <1>2, <2>1 DEF Recording, Settled, Succeeded
  <2>4. MemoIsDurable' /\ RecordedOnce'
    BY <1>2, <2>1 DEF MemoIsDurable, RecordedOnce
  <2>5. Control' /\ DependenciesFirst' /\ Listing' /\ Hashing' /\ Reuse'
    BY <1>2 DEF Control, Visible, FinalStates, Succeeded, DependenciesFirst,
       Listing, Hashing, Cached, Reuse
  <2>6. QED
    BY <2>2, <2>3, <2>4, <2>5
<1>3. QED
  BY <1>1, <1>2

(* The flush of cleanup() fails. *)
LEMMA CleanupFlushFailsInv == ASSUME IInv, CleanupFlushFails PROVE IInv'
<1> USE DEF IInv, CleanupFlushFails, DiskFails
<1>1. TypeOK'
  BY DEF TypeOK
<1>2. Control' /\ DependenciesFirst' /\ Listing' /\ Hashing' /\ Recording' /\
        Reuse' /\ MemoIsDurable' /\ RecordedOnce'
  BY DEF Control, DependenciesFirst, Listing, Hashing, Recording, Reuse,
     MemoIsDurable, RecordedOnce, Visible, FinalStates, Succeeded, Cached,
     Recorded, Settled
<1>3. QED
  BY <1>1, <1>2

-----------------------------------------------------------------------------
(* A stuttering step. *)
LEMMA StutterInv == ASSUME IInv, UNCHANGED core PROVE IInv'
<1> USE DEF core, IInv
<1>1. TypeOK'
  BY DEF TypeOK
<1>2. Control' /\ DependenciesFirst' /\ Listing' /\ Hashing'
  BY DEF Control, Visible, FinalStates, Succeeded, DependenciesFirst, Listing,
     Hashing, Cached
<1>3. Recording' /\ Reuse' /\ MemoIsDurable' /\ RecordedOnce'
  BY DEF Recording, Recorded, Settled, Succeeded, Reuse, Cached,
     MemoIsDurable, RecordedOnce
<1>4. QED
  BY <1>1, <1>2, <1>3

(* IInv is inductive: whatever thread takes a step, it keeps IInv. *)
LEMMA NextInv == IInv /\ [Next]_core => IInv'
<1> SUFFICES ASSUME IInv, [Next]_core PROVE IInv'
  OBVIOUS
<1>1. ASSUME SubmitSteps PROVE IInv'
  BY <1>1, SubmitInv, RegisterInv, WatchDependencyInv, SubmitLaunchInv
     DEF SubmitSteps
<1>2. ASSUME NEW t \in Tasks, LaunchSteps(t) PROVE IInv'
  BY <1>2, SkipLaunchInv, LaunchDependencyFailureInv, LaunchMemoHitInv,
     LaunchSubmitInv, LaunchRefusedInv, LaunchUnhashableInv, AttachInv
     DEF LaunchSteps
<1>3. ASSUME NEW t \in Tasks, HandlerSteps(t) PROVE IInv'
  BY <1>3, HandleSuccessInv, HandleRetryInv, RecheckInv, HandleFailureInv,
     NotifyDependentInv, HandlerEndsInv
     DEF HandlerSteps
<1>4. ASSUME NEW t \in Tasks, PublishSteps(t) PROVE IInv'
  BY <1>4, RecordTaskExitInv, RecordFailsInv, RecordDeferredInv,
     RecordNothingInv, InstallMemoInv, EnterFinalStateInv,
     PublicationFailedInv, RecordFailureInv, WipeInv, PublishFutureInv
     DEF PublishSteps
<1>5. ASSUME CoreNext PROVE IInv'
  BY <1>1, <1>2, <1>3, <1>5, RunBodyInv, WaitBeginInv, WaitEndInv,
     CleanupBeginInv, CleanupStepInv
     DEF CoreNext
<1>6. CASE UNCHANGED core
  BY <1>6, StutterInv
<1>7. QED
  BY <1>4, <1>5, <1>6, CheckpointInv, CleanupFlushInv, CleanupFlushFailsInv
     DEF Next

(* IInv holds in every reachable state of the kernel. *)
THEOREM Inductive == Spec => []IInv
  BY InitInv, NextInv, PTL DEF Spec

-----------------------------------------------------------------------------
(* What follows at every moment of every run. *)

(* Every variable of the kernel keeps its type. *)
THEOREM Typing == Spec => []TypeOK
  BY Inductive, PTL DEF IInv

(* Only the launch of a task makes the launch thread busy with it. *)
LEMMA LaunchesInspect ==
  ASSUME TypeOK, [Next]_core, NEW t \in Tasks, launcher # t, launcher' = t
  PROVE  Inspect(t)
<1>1. ASSUME NEW u \in Tasks, HandlerReturns(u) PROVE FALSE
  BY <1>1, NoneAssumption DEF HandlerReturns
<1>2. ASSUME NEW u \in Tasks, LaunchSteps(u) PROVE Inspect(t)
  <2>1. Inspect(u)
    BY <1>2, NoneAssumption DEF LaunchSteps, SkipLaunch, LaunchDependencyFailure,
       LaunchMemoHit, LaunchSubmit, LaunchRefused, LaunchUnhashable, MemoMiss,
       Attach
  <2>2. launcher' = u
    BY <2>1 DEF Inspect
  <2>3. QED
    BY <2>1, <2>2
<1>3. ~SubmitSteps
  BY DEF SubmitSteps, Submit, Register, WatchDependency, SubmitLaunch
<1>4. ASSUME NEW u \in Tasks, RunBody(u) \/ HandlerSteps(u) PROVE FALSE
  BY <1>1, <1>4 DEF RunBody, HandlerSteps, HandleSuccess, HandleRetry, Recheck,
     HandleFailure, NotifyDependent, HandlerEnds
<1>5. ASSUME NEW u \in Tasks, PublishSteps(u) PROVE FALSE
  BY <1>5 DEF PublishSteps, RecordTaskExit, RecordFails, RecordDeferred,
     RecordNothing, InstallMemo, EnterFinalState, PublicationFailed,
     RecordFailure, Wipe, PublishFuture
<1>6. ~(Checkpoint \/ CleanupFlush \/ CleanupFlushFails \/ UNCHANGED core)
  BY DEF Checkpoint, CleanupFlush, CleanupFlushFails, core
<1>7. ~(WaitBegin \/ WaitEnd \/ CleanupBegin \/ CleanupStep)
  BY DEF WaitBegin, WaitEnd, CleanupBegin, CleanupStep
<1>8. QED
  BY <1>2, <1>3, <1>4, <1>5, <1>6, <1>7 DEF Next, CoreNext

(* handle_exec_update of one attempt is over before the next attempt is    *)
(* launched, and a finished task is never launched: a task runs at most    *)
(* once at any time.                                                       *)
THEOREM NoDoubleRun == Spec => SingleAttempt
<1>1. ASSUME IInv, [Next]_core, NEW t \in Tasks, launcher # t, launcher' = t
      PROVE  pc[t] = "idle" /\ exec[t] = "none" /\ ~Visible(t)
  <2>1. Inspect(t)
    BY <1>1, LaunchesInspect DEF IInv
  <2>2. QED
    BY <1>1, <2>1, Inspected DEF Visible
<1>2. IInv /\ [Next]_core =>
        [\A t \in Tasks : launcher # t /\ launcher' = t =>
           pc[t] = "idle" /\ exec[t] = "none" /\ ~Visible(t)]_core
  BY <1>1
<1>3. QED
  BY <1>2, Inductive, PTL DEF Spec, SingleAttempt

(* No app body is given to an executor before all its dependencies have    *)
(* succeeded.                                                              *)
THEOREM DependencyOrder == Spec => []DependenciesFirst
  BY Inductive, PTL DEF IInv

(* Whoever sees an AppFuture done finds its task in the matching final     *)
(* state and, with garbage collection, gone from the task table.           *)
THEOREM Finalization == Spec => []VisibleIsFinalized
<1>1. IInv => VisibleIsFinalized
  BY DEF IInv, TypeOK, Control, Listing, Succeeded, VisibleIsFinalized,
     Visible, FinalStates
<1>2. QED
  BY <1>1, Inductive, PTL

(* Whoever sees the result of a cached task finds it recorded: on disk in  *)
(* task_exit mode, at least queued in a deferred mode.                     *)
THEOREM Durability == Spec => []VisibleIsRecorded
<1>1. IInv => VisibleIsRecorded
  BY DEF IInv, TypeOK, Control, Hashing, Recording, Settled, Succeeded,
     VisibleIsRecorded, Visible, Cached
<1>2. QED
  BY <1>1, Inductive, PTL

(* A success that could not be written is never offered to later calls.    *)
THEOREM DurableMemo == Spec => []MemoIsDurable
  BY Inductive, PTL DEF IInv

(* A call made after an equal call's success was seen does not run again.  *)
THEOREM Reusing == Spec => []EqualCallReuses
<1>1. IInv => EqualCallReuses
  BY DEF IInv, Reuse, EqualCallReuses
<1>2. QED
  BY <1>1, Inductive, PTL

(* No interleaving of completions and flushes records a task twice.        *)
THEOREM NoDuplicates == Spec => []RecordedOnce
  BY Inductive, PTL DEF IInv

(* A recorded task is a success of a cached app. *)
LEMMA SuccessesInRecord == IInv => RecordedSucceeds
<1> SUFFICES ASSUME IInv, NEW t \in Recorded
             PROVE  /\ hashed[t] /\ fut[t] # "exception"
                    /\ status[t] \notin {"failed", "dep_fail"}
  BY DEF RecordedSucceeds
<1>1. t \in Tasks
  BY RangeOfSeq DEF IInv, TypeOK, Recorded
<1>2. QED
  BY <1>1 DEF IInv, TypeOK, Control, Recording, Settled, Succeeded, Visible,
     FinalStates

(* Whatever is in the queue or in the file is a success, and stays one.    *)
THEOREM OnlySuccesses == Spec => []RecordedSucceeds
  BY SuccessesInRecord, Inductive, PTL

(* Record, memo, state and task table are settled before a future is       *)
(* visible (the order of _record_task_outcome and _complete_task).         *)
THEOREM Settlement == Spec => []VisibleIsSettled
  BY Durability, Finalization, DurableMemo, Reusing, PTL DEF VisibleIsSettled

(* The checkpoint gets successes only, each of them once.                  *)
THEOREM CleanRecord == Spec => []RecordsSuccessesOnce
  BY Typing, NoDuplicates, OnlySuccesses, PTL DEF RecordsSuccessesOnce

-----------------------------------------------------------------------------
(* What no step may do to the record. *)

(* A sequence is a prefix of what is made by appending to it. *)
LEMMA PrefixOfConcat ==
  ASSUME NEW S, NEW s \in Seq(S), NEW t \in Seq(S)
  PROVE  IsPrefix(s, s \o t)
<1> DEFINE u == s \o t
<1>1. Len(s) \in Nat /\ Len(t) \in Nat
  BY LenProperties
<1>2. /\ u \in Seq(S) /\ Len(u) = Len(s) + Len(t)
      /\ \A i \in 1..Len(s) : u[i] = s[i] /\ u[i] \in S
  BY <1>1, ConcatProperties, LenProperties
<1> HIDE DEF u
<1>3. /\ SubSeq(s, 1, Len(s)) \in Seq(S) /\ Len(SubSeq(s, 1, Len(s))) = Len(s)
      /\ \A i \in 1..Len(s) : SubSeq(s, 1, Len(s))[i] = s[i]
  BY <1>1, LenProperties, SubSeqProperties
<1>4. /\ SubSeq(u, 1, Len(s)) \in Seq(S) /\ Len(SubSeq(u, 1, Len(s))) = Len(s)
      /\ \A i \in 1..Len(s) : SubSeq(u, 1, Len(s))[i] = u[i]
  BY <1>1, <1>2, SubSeqProperties
<1>5. SubSeq(s, 1, Len(s)) = SubSeq(u, 1, Len(s))
  BY <1>2, <1>3, <1>4, SeqEqual
<1>6. QED
  BY <1>1, <1>2, <1>5 DEF IsPrefix, u

(* A flush moves the queue behind the file. *)
LEMMA FlushKeeps ==
  ASSUME TypeOK, FlushQueue
  PROVE  Recorded' = Recorded /\ IsPrefix(file, file')
<1>1. file \in Seq(Tasks) /\ queue \in Seq(Tasks)
  BY DEF TypeOK
<1>2. Range(file \o queue) = Range(file) \cup Range(queue)
  BY <1>1, RangeConcatenation
<1>3. Range(<<>>) = {}
  BY DEF Range
<1>4. QED
  BY <1>1, <1>2, <1>3, PrefixOfConcat DEF FlushQueue, Recorded

(* The steps that change queue or file. *)
LEMMA OnlyRecorders ==
  ASSUME TypeOK, [Next]_core
  PROVE  \/ UNCHANGED <<queue, file>>
         \/ FlushQueue
         \/ \E t \in Tasks : file' = Append(file, t) /\ queue' = queue
         \/ \E t \in Tasks : queue' = Append(queue, t) /\ file' = file
<1>1. ASSUME SubmitSteps PROVE UNCHANGED <<queue, file>>
  BY <1>1 DEF SubmitSteps, Submit, Register, WatchDependency, SubmitLaunch
<1>2. ASSUME NEW t \in Tasks, LaunchSteps(t) PROVE UNCHANGED <<queue, file>>
  BY <1>2 DEF LaunchSteps, SkipLaunch, LaunchDependencyFailure, LaunchMemoHit,
     LaunchSubmit, LaunchRefused, LaunchUnhashable, Attach
<1>3. ASSUME NEW t \in Tasks, RunBody(t) \/ HandlerSteps(t) PROVE UNCHANGED <<queue, file>>
  BY <1>3 DEF RunBody, HandlerSteps, HandleSuccess, HandleRetry, Recheck, HandleFailure,
     NotifyDependent, HandlerEnds
<1>4. ASSUME WaitBegin \/ WaitEnd \/ CleanupBegin \/ CleanupStep \/ CleanupFlushFails
             \/ UNCHANGED core
      PROVE  UNCHANGED <<queue, file>>
  BY <1>4 DEF WaitBegin, WaitEnd, CleanupBegin, CleanupStep, CleanupFlushFails, core
<1>5. ASSUME NEW t \in Tasks, PublishSteps(t), ~RecordTaskExit(t), ~RecordDeferred(t)
      PROVE  UNCHANGED <<queue, file>>
  BY <1>5 DEF PublishSteps, RecordFails, RecordNothing, InstallMemo, EnterFinalState,
     PublicationFailed, RecordFailure, Wipe, PublishFuture
<1>6. ASSUME Checkpoint \/ CleanupFlush PROVE FlushQueue \/ UNCHANGED <<queue, file>>
  BY <1>6 DEF Checkpoint, CleanupFlush
<1>7. QED
  BY <1>1, <1>2, <1>3, <1>4, <1>5, <1>6
     DEF Next, CoreNext, RecordTaskExit, RecordDeferred

(* No success that was recorded is ever lost, and the file only grows.     *)
THEOREM Keeping == Spec => OutcomesKept
<1>1. IInv => Outcomes = Recorded
  <2>1. IInv => \A t \in Recorded : hashed[t] /\ fut[t] # "exception"
    BY SuccessesInRecord DEF RecordedSucceeds
  <2>2. QED
    BY <2>1 DEF Outcomes
<1>2. ASSUME IInv, [Next]_core PROVE Recorded \subseteq Recorded' /\ IsPrefix(file, file')
  <2>1. file \in Seq(Tasks) /\ queue \in Seq(Tasks) /\ TypeOK
    BY <1>2 DEF IInv, TypeOK
  <2>2. CASE UNCHANGED <<queue, file>>
    BY <2>1, <2>2, LenProperties DEF Recorded, IsPrefix
  <2>3. CASE FlushQueue
    BY <2>1, <2>3, FlushKeeps
  <2>4. ASSUME NEW t \in Tasks, file' = Append(file, t), queue' = queue
        PROVE  Recorded \subseteq Recorded' /\ IsPrefix(file, file')
    <3>1. Append(file, t) = file \o <<t>> /\ <<t>> \in Seq(Tasks)
      BY <2>1, AppendIsConcat
    <3>2. Range(file') = Range(file) \cup {t}
      BY <2>1, <2>4, RangeAppend
    <3>3. QED
      BY <2>1, <2>4, <3>1, <3>2, PrefixOfConcat DEF Recorded
  <2>5. ASSUME NEW t \in Tasks, queue' = Append(queue, t), file' = file
        PROVE  Recorded \subseteq Recorded' /\ IsPrefix(file, file')
    <3>1. Range(queue') = Range(queue) \cup {t}
      BY <2>1, <2>5, RangeAppend
    <3>2. QED
      BY <2>1, <2>5, <3>1, LenProperties DEF Recorded, IsPrefix
  <2>6. QED
    BY <1>2, <2>1, <2>2, <2>3, <2>4, <2>5, OnlyRecorders
<1>3. IInv /\ [Next]_core /\ Outcomes = Recorded /\ (Outcomes = Recorded)' =>
        [Outcomes \subseteq Outcomes' /\ IsPrefix(file, file')]_core
  BY <1>2
<1>4. QED
  BY <1>1, <1>3, Inductive, PTL DEF Spec, OutcomesKept

-----------------------------------------------------------------------------
(* The refinement: the kernel's steps, seen through the futures, what is   *)
(* recorded, the hashes the memo knows and the task table.                 *)

(* Steps that touch none of these are invisible to the contract. *)
LEMMA Invisible ==
  ASSUME UNCHANGED <<fut, queue, file, memo, tasks, mode>>
  PROVE  UNCHANGED Contract!pubVars
  BY DEF Contract!pubVars, Visible, Recorded

(* The kernel starts as the contract does. *)
LEMMA InitContract == CoreInit => Contract!Init
  BY KeyAssumption, ConfigAssumption
     DEF CoreInit, Contract!Init, Visible, Recorded, Range

(* A new task is listed. *)
LEMMA RegisterContract ==
  ASSUME IInv, NEW t \in Tasks, Register(t) PROVE Contract!Enlist(t)
  BY DEF IInv, TypeOK, Control, Register, Contract!Enlist, Visible, Recorded,
     FinalStates

(* Recording a success, on disk or in the queue. *)
LEMMA RecordContract ==
  ASSUME IInv, NEW t \in Tasks, RecordTaskExit(t) \/ RecordDeferred(t)
  PROVE  Contract!Record(t)
<1>1. Recorded' = Recorded \cup {t}
  <2>1. CASE RecordTaskExit(t)
    BY <2>1, RangeAppend DEF IInv, TypeOK, RecordTaskExit, Recorded
  <2>2. CASE RecordDeferred(t)
    BY <2>2, RangeAppend DEF IInv, TypeOK, RecordDeferred, Recorded
  <2>3. QED
    BY <2>1, <2>2
<1>2. ~Visible(t) /\ mode # "none"
  BY DEF IInv, Control, RecordTaskExit, RecordDeferred, Advance, FinalStates
<1>3. UNCHANGED <<fut, memo, tasks, mode>>
  BY DEF RecordTaskExit, RecordDeferred
<1>4. QED
  BY <1>1, <1>2, <1>3 DEF Contract!Record, Visible

(* The memo learns an outcome, or nothing if the task has no hash. *)
LEMMA MemoContract ==
  ASSUME IInv, NEW t \in Tasks, InstallMemo(t) \/ RecordFailure(t)
  PROVE  (\E k \in Keys : Contract!Learn(k)) \/ UNCHANGED Contract!pubVars
<1>1. UNCHANGED <<fut, queue, file, tasks, mode>>
  BY DEF InstallMemo, RecordFailure
<1>2. CASE hashed[t]
  <2>1. Key[t] \in Keys
    BY <1>2, KeyAssumption DEF IInv, Hashing, Cached
  <2>2. \A k \in Keys : memo'[k] # "none" <=> memo[k] # "none" \/ k = Key[t]
    BY <1>2, <2>1
       DEF IInv, TypeOK, InstallMemo, RecordFailure, MemoUpdate
  <2>3. Contract!Learn(Key[t])
    BY <1>1, <2>1, <2>2 DEF Contract!Learn, Visible, Recorded
  <2>4. QED
    BY <2>1, <2>3
<1>3. CASE ~hashed[t]
  <2>1. UNCHANGED memo
    BY <1>3 DEF InstallMemo, RecordFailure, MemoUpdate
  <2>2. QED
    BY <1>1, <2>1, Invisible
<1>4. QED
  BY <1>2, <1>3

(* The wipe comes before the future is set. *)
LEMMA WipeContract ==
  ASSUME IInv, NEW t \in Tasks, Wipe(t)
  PROVE  Contract!Delist(t) \/ UNCHANGED Contract!pubVars
<1>1. UNCHANGED <<fut, queue, file, memo, mode>>
  BY DEF Wipe
<1>2. CASE GarbageCollect
  <2>1. ~Visible(t) /\ tasks' = tasks \ {t}
    BY <1>2 DEF IInv, Control, Wipe, Advance, WipeTask
  <2>2. QED
    BY <1>1, <1>2, <2>1 DEF Contract!Delist, Visible, Recorded
<1>3. CASE ~GarbageCollect
  BY <1>1, <1>3, Invisible DEF Wipe, WipeTask
<1>4. QED
  BY <1>2, <1>3

(* The future is set when everything the contract asks for is done. *)
LEMMA PublishContract ==
  ASSUME IInv, NEW t \in Tasks, PublishFuture(t)
  PROVE  Contract!PublishResult(t) \/ Contract!PublishException(t)
<1>1. /\ pc[t] = "set" /\ ~Visible(t)
      /\ status[t] \in FinalStates
      /\ UNCHANGED <<queue, file, memo, tasks, mode>>
  BY DEF IInv, Control, PublishFuture, Advance
<1>2. t \in tasks <=> ~GarbageCollect
  BY <1>1 DEF IInv, Listing
<1>3. CASE Succeeded(t)
  <2>1. fut' = [fut EXCEPT ![t] = "result"]
    BY <1>3 DEF PublishFuture, SetFuture, Succeeded
  <2>2. Cached(t) => Key[t] \in Keys /\ memo[Key[t]] # "none"
    BY <1>3, KeyAssumption DEF IInv, Reuse, Cached
  <2>3. Cached(t) /\ mode # "none" => t \in Recorded
    BY <1>3
       DEF IInv, TypeOK, Control, Hashing, Recording, Settled, Recorded, Modes
  <2>4. QED
    BY <1>1, <1>2, <2>1, <2>2, <2>3
       DEF Contract!PublishResult, IInv, TypeOK, Visible, Recorded, Cached
<1>4. CASE ~Succeeded(t)
  <2>1. fut' = [fut EXCEPT ![t] = "exception"]
    BY <1>4 DEF PublishFuture, SetFuture, Succeeded
  <2>2. t \notin Recorded
    BY <1>1, <1>4 DEF IInv, Recording, Settled
  <2>3. QED
    BY <1>1, <1>2, <2>1, <2>2
       DEF Contract!PublishException, IInv, TypeOK, Visible, Recorded
<1>5. QED
  BY <1>3, <1>4

(* A flush is invisible: what was queued is on disk instead. *)
LEMMA FlushContract ==
  ASSUME IInv, Checkpoint \/ CleanupFlush
  PROVE  UNCHANGED Contract!pubVars
<1>1. UNCHANGED <<fut, memo, tasks, mode>>
  BY DEF Checkpoint, CleanupFlush
<1>2. Recorded' = Recorded
  BY FlushKeepsRecords DEF IInv, Checkpoint, CleanupFlush, Recorded
<1>3. QED
  BY <1>1, <1>2 DEF Contract!pubVars, Visible

(* Every step of the kernel is a step of the contract or invisible to it. *)
LEMMA NextContract == IInv /\ [Next]_core => [Contract!Next]_(Contract!pubVars)
<1> SUFFICES ASSUME IInv, [Next]_core
             PROVE  Contract!Next \/ UNCHANGED Contract!pubVars
  OBVIOUS
<1>1. ASSUME SubmitSteps PROVE Contract!Next \/ UNCHANGED Contract!pubVars
  <2>1. ASSUME NEW t \in Tasks, Register(t) PROVE Contract!Next
    BY <2>1, RegisterContract DEF Contract!Next
  <2>2. ASSUME NEW t \in Tasks,
               Submit(t) \/ SubmitLaunch(t) \/ \E d \in Tasks : WatchDependency(t, d)
        PROVE  UNCHANGED Contract!pubVars
    BY <2>2, Invisible DEF Submit, SubmitLaunch, WatchDependency
  <2>3. QED
    BY <1>1, <2>1, <2>2 DEF SubmitSteps
<1>2. ASSUME NEW t \in Tasks, LaunchSteps(t) \/ RunBody(t) \/ HandlerSteps(t)
      PROVE  UNCHANGED Contract!pubVars
  <2>1. ASSUME LaunchSteps(t) PROVE UNCHANGED <<fut, queue, file, memo, tasks, mode>>
    BY <2>1 DEF LaunchSteps, SkipLaunch, LaunchDependencyFailure,
       LaunchMemoHit, LaunchSubmit, LaunchRefused, LaunchUnhashable, Attach
  <2>2. ASSUME RunBody(t) \/ HandlerSteps(t)
        PROVE  UNCHANGED <<fut, queue, file, memo, tasks, mode>>
    BY <2>2 DEF RunBody, HandlerSteps, HandleSuccess, HandleRetry, Recheck,
       HandleFailure, NotifyDependent, HandlerEnds
  <2>3. QED
    BY <1>2, <2>1, <2>2, Invisible
<1>3. ASSUME NEW t \in Tasks, PublishSteps(t)
      PROVE  Contract!Next \/ UNCHANGED Contract!pubVars
  <2>1. ASSUME \/ RecordFails(t) \/ RecordNothing(t)
               \/ EnterFinalState(t) \/ PublicationFailed(t)
        PROVE  UNCHANGED Contract!pubVars
    BY <2>1, Invisible DEF RecordFails, RecordNothing,
       EnterFinalState, PublicationFailed
  <2>2. QED
    BY <1>3, <2>1, RecordContract, MemoContract, WipeContract, PublishContract
       DEF PublishSteps, Contract!Next
<1>4. ASSUME \/ WaitBegin \/ WaitEnd \/ CleanupBegin \/ CleanupStep
             \/ CleanupFlushFails \/ UNCHANGED core
      PROVE  UNCHANGED Contract!pubVars
  BY <1>4, Invisible DEF WaitBegin, WaitEnd, CleanupBegin, CleanupStep,
     CleanupFlushFails, core
<1>5. QED
  BY <1>1, <1>2, <1>3, <1>4, FlushContract DEF Next, CoreNext

(* The kernel implements its contract: whatever Publication promises about *)
(* the moment a future becomes done holds for any workflow, configuration  *)
(* and interleaving.                                                       *)
THEOREM Implementation == Spec => KeepsContract
  BY InitContract, NextContract, Inductive, PTL
     DEF Spec, KeepsContract, Contract!Spec

=============================================================================
