------------------------ MODULE StarterDataFlowProofs -----------------------
(***************************************************************************)
(* Proofs about StarterDataFlow for every workflow, every configuration    *)
(* and every combination of faults and calls.                              *)
(*                                                                         *)
(* The inductive invariant IInv says what the late bookkeeping has already *)
(* done at each place of the thread that handles a task.  Control ties the *)
(* record, the executor future and the AppFuture to that place; Listing    *)
(* and Hashing are about the task table and the hash; Settling and         *)
(* Recording say that a done future is ahead of the memo and of the        *)
(* checkpoint only while handle_app_update runs; Waiting follows the list  *)
(* of wait_for_current_tasks.  There is one lemma per action, with a step  *)
(* for each part the action can disturb.  What checkpoint() writes is a    *)
(* recursive function over the queue, and the facts about it are proved by *)
(* minimal counterexample: LoopInduction.                                  *)
(***************************************************************************)
EXTENDS StarterDataFlow, SequenceTheorems, WellFoundedInduction, TLAPS

(* The record is in the final state of a success. *)
Succeeded(t) == status[t] \in {"exec_done", "memo_done"}

(* The places of the thread of t after it has set the future. *)
Published == {"install", "record", "wipe", "callbacks", "idle"}

(* Where the thread of t is says what its record, its executor future and  *)
(* its AppFuture are.                                                      *)
Control ==
  \A t \in Tasks :
    /\ sub[t] \in {"new", "admitted"} => status[t] = "absent"
    /\ sub[t] \in {"watching", "submitted"} => status[t] # "absent"
    /\ status[t] = "absent" => pc[t] = "idle" /\ ~ran[t]
    /\ fut[t] = "none" <=> status[t] = "absent"
    /\ Visible(t) <=> status[t] \in FinalStates /\ pc[t] \in Published
    /\ Visible(t) => (fut[t] = "result" <=> Succeeded(t))
    /\ pc[t] = "idle" /\ status[t] \in {"absent", "pending"} => exec[t] = "none"
    /\ pc[t] = "idle" /\ status[t] = "launched" => exec[t] = "running"
    /\ pc[t] = "attach" => status[t] = "pending" /\ exec[t] # "none"
    /\ pc[t] = "exec" => /\ status[t] \in {"pending", "launched", "dep_fail"}
                         /\ exec[t] \in {"ok", "error"}
                         /\ status[t] = "dep_fail" => exec[t] = "error"
    /\ pc[t] = "ok" => status[t] \in {"pending", "launched"} /\ exec[t] = "ok"
    /\ pc[t] = "err" => status[t] \in {"failed", "dep_fail"} /\ exec[t] = "error"
    /\ pc[t] = "set" => Succeeded(t)
    /\ pc[t] \in Published \ {"idle"} => status[t] \in FinalStates
    /\ pc[t] \notin {"final", "unpublished"}
    /\ status[t] = "pending" /\ pc[t] # "idle" => launcher = t
    /\ status[t] \in FinalStates => exec[t] \in {"ok", "error"}

(* A record is in the task table at least until its future is done. *)
Listing == \A t \in Tasks : status[t] # "absent" /\ ~Visible(t) => t \in tasks

(* Only a cached task has a hash. *)
Hashing == \A t \in Tasks : hashed[t] => Cached(t)

(* A done future past the memo step has an entry for its hash. *)
Settling ==
  \A t \in Tasks :
    Visible(t) /\ hashed[t] /\ pc[t] # "install" => memo[Key[t]] # "none"

(* Only tasks past the recording step are recorded, and only successes in  *)
(* the file.                                                               *)
Recording ==
  /\ \A t \in Recorded : Visible(t) /\ pc[t] \in {"wipe", "callbacks", "idle"}
  /\ FileHoldsSuccesses

(* wait_for_current_tasks has in its list every task submitted before it   *)
(* whose future it has yet to see.                                         *)
Waiting ==
  /\ wait.state = "waiting" => \A t \in wait.before : t \in wait.list \/ Visible(t)
  /\ WaitCoversSubmitted

(* The inductive invariant. *)
IInv == /\ TypeOK
        /\ Control
        /\ DependenciesFirst
        /\ Listing
        /\ Hashing
        /\ Settling
        /\ Recording
        /\ Waiting
        /\ RecordedOnce

-----------------------------------------------------------------------------
(* What Append does to the set of elements. *)
LEMMA RangeAppend ==
  ASSUME NEW S, NEW s \in Seq(S), NEW e \in S
  PROVE  Range(Append(s, e)) = Range(s) \cup {e}
<1>1. Append(s, e) = s \o <<e>> /\ <<e>> \in Seq(S)
  BY AppendIsConcat
<1>2. Range(<<e>>) = {e}
  BY DEF Range
<1>3. Range(s \o <<e>>) = Range(s) \cup Range(<<e>>)
  BY <1>1, RangeConcatenation
<1>4. QED
  BY <1>1, <1>2, <1>3

-----------------------------------------------------------------------------
(* The kernel starts in a state that satisfies it. *)
LEMMA InitInv == CoreInit => IInv
<1> SUFFICES ASSUME CoreInit PROVE IInv
  OBVIOUS
<1> USE DEF CoreInit
<1>1. TypeOK
  BY ConfigAssumption DEF TypeOK, States, FinalStates, PCs
<1>2. Control /\ DependenciesFirst
  BY DEF Control, Published, Visible, FinalStates, Succeeded,
     DependenciesFirst
<1>3. Listing /\ Hashing
  BY DEF Listing, Visible, Hashing, Cached
<1>4. Recording /\ RecordedOnce
  BY DEF Recording, FileHoldsSuccesses, Visible, Published, Recorded, Range,
     Succeeded, RecordedOnce, IsInjective
<1>5. Settling /\ Waiting
  BY DEF Settling, Visible, Published, Succeeded, Waiting, WaitCoversSubmitted
<1>6. QED
  BY <1>1, <1>2, <1>3, <1>4, <1>5 DEF IInv

(* A launched task is pending and nobody handles it. *)
LEMMA Inspected ==
  ASSUME IInv, NEW t \in Tasks, Inspect(t)
  PROVE  /\ status[t] = "pending" /\ pc[t] = "idle" /\ exec[t] = "none"
         /\ fut[t] = "unset"
         /\ \A u \in Tasks : status[u] = "pending" => pc[u] = "idle"
<1>1. status[t] = "pending" /\ launcher = None
  BY DEF Inspect, Dequeue
<1>2. \A u \in Tasks : status[u] = "pending" => pc[u] = "idle"
  BY <1>1, NoneAssumption DEF IInv, Control, Published
<1>3. exec[t] = "none" /\ fut[t] \notin {"none", "result", "exception"}
  BY <1>1, <1>2 DEF IInv, Control, Published, Visible, FinalStates
<1>4. QED
  BY <1>1, <1>2, <1>3 DEF IInv, TypeOK

(* Recording a task that is not recorded, in the file or in the queue,     *)
(* keeps the records distinct.                                             *)
LEMMA InsertOnce ==
  ASSUME NEW s \in Seq(Tasks), NEW u \in Seq(Tasks), NEW t \in Tasks,
         IsInjective(s \o u), t \notin Range(s) \cup Range(u)
  PROVE  IsInjective(Append(s, t) \o u) /\ IsInjective(s \o Append(u, t))
<1> DEFINE w == s \o u
           x == Append(s, t) \o u
           y == s \o Append(u, t)
<1>1. t \notin Range(w)
  BY RangeConcatenation
<1>2. \A i \in DOMAIN w : w[i] # t
  BY <1>1 DEF Range
<1>3. \A i, j \in DOMAIN w : w[i] = w[j] => i = j
  BY DEF IsInjective
<1>4. /\ DOMAIN w = 1..(Len(s) + Len(u))
      /\ DOMAIN x = 1..(Len(s) + 1 + Len(u))
      /\ DOMAIN y = 1..(Len(s) + 1 + Len(u))
      /\ Len(s) \in Nat /\ Len(u) \in Nat
  OBVIOUS
<1>5. \A i \in DOMAIN x :
        x[i] = IF i <= Len(s) THEN w[i] ELSE IF i = Len(s) + 1 THEN t ELSE w[i - 1]
  OBVIOUS
<1>6. \A i \in DOMAIN y :
        y[i] = IF i <= Len(s) + Len(u) THEN w[i] ELSE t
  OBVIOUS
<1> HIDE DEF w, x, y
<1>7. ASSUME NEW i \in DOMAIN x, NEW j \in DOMAIN x, x[i] = x[j] PROVE i = j
  <2>1. i \in Int /\ j \in Int
    BY <1>4
  <2>2. CASE i = Len(s) + 1
    BY <1>2, <1>4, <1>5, <1>7, <2>1, <2>2
  <2>3. CASE j = Len(s) + 1
    BY <1>2, <1>4, <1>5, <1>7, <2>1, <2>3
  <2>4. CASE i # Len(s) + 1 /\ j # Len(s) + 1
    <3> DEFINE old(k) == IF k <= Len(s) THEN k ELSE k - 1
    <3>1. old(i) \in DOMAIN w /\ old(j) \in DOMAIN w
      BY <1>4, <2>1, <2>4
    <3>2. x[i] = w[old(i)] /\ x[j] = w[old(j)]
      BY <1>5, <2>4
    <3>3. old(i) = old(j)
      BY <1>3, <1>7, <3>1, <3>2
    <3>4. QED
      BY <1>4, <2>1, <2>4, <3>3
  <2>5. QED
    BY <2>2, <2>3, <2>4
<1>8. \A i, j \in DOMAIN y : y[i] = y[j] => i = j
  BY <1>2, <1>3, <1>4, <1>6
<1>9. IsInjective(x) /\ IsInjective(y)
  BY <1>7, <1>8 DEF IsInjective
<1>10. QED
  BY <1>9 DEF x, y

-----------------------------------------------------------------------------
(* The loop of checkpoint(). *)

(* Induction over the natural numbers, for a set of them: a smallest       *)
(* number outside it cannot exist.                                         *)
LEMMA LoopInduction ==
  ASSUME NEW G, 0 \in G, \A n \in Nat : n \in G => n + 1 \in G
  PROVE  Nat \subseteq G
<1> DEFINE R == {ss \in Nat \X Nat : ss[1] < ss[2]}
           B == Nat \ G
<1>1. IsWellFoundedOn(R, Nat)
  BY NatLessThanWellFounded DEF OpToRel
<1> HIDE DEF R
<1>2. SUFFICES ASSUME B # {} PROVE FALSE
  OBVIOUS
<1>3. PICK x \in B : \A y \in B : ~ (<<y, x>> \in R)
  BY <1>1, <1>2, WFMin
<1>4. x \in Nat /\ x # 0 /\ x - 1 \in Nat
  BY <1>3
<1>5. <<x - 1, x>> \in R
  BY <1>4 DEF R
<1>6. x - 1 \in G
  BY <1>3, <1>4, <1>5
<1>7. (x - 1) + 1 \in G /\ (x - 1) + 1 = x
  BY <1>4, <1>6
<1>8. QED
  BY <1>3, <1>7

(* The recursive definition of written has a solution. *)
LEMMA WrittenSteps ==
  ASSUME queue \in Seq(Tasks)
  PROVE  /\ written[0] = file
         /\ \A i \in Nat : i + 1 <= Len(queue) =>
              written[i + 1] = IF Writable(queue[i + 1])
                               THEN Append(written[i], queue[i + 1]) ELSE written[i]
<1> DEFINE Body(f, i) == IF i = 0 THEN file
                         ELSE IF Writable(queue[i]) THEN Append(f[i - 1], queue[i])
                         ELSE f[i - 1]
           Upto(n) == \E f : f = [i \in 0..n |-> Body(f, i)]
           G == {n \in Nat : Upto(n)}
<1>1. 0 \in G
  <2> DEFINE g == [i \in 0..0 |-> file]
  <2>1. g = [i \in 0..0 |-> Body(g, i)]
    OBVIOUS
  <2>2. QED
    BY <2>1
<1>2. ASSUME NEW n \in Nat, n \in G PROVE n + 1 \in G
  <2>1. PICK f : f = [i \in 0..n |-> Body(f, i)]
    BY <1>2
  <2> DEFINE g == [i \in 0..n + 1 |-> IF i = n + 1 THEN Body(f, i) ELSE f[i]]
  <2>2. ASSUME NEW i \in 0..n + 1 PROVE g[i] = Body(g, i)
    <3>1. CASE i = 0
      BY <2>1, <3>1
    <3>2. CASE i # 0
      <4>1. i - 1 \in 0..n /\ i - 1 # n + 1 /\ g[i - 1] = f[i - 1]
        BY <3>2
      <4>2. g[i] = Body(f, i)
        <5>1. CASE i = n + 1
          BY <5>1
        <5>2. CASE i # n + 1
          <6>1. i \in 0..n /\ g[i] = f[i]
            BY <5>2
          <6>2. f[i] = Body(f, i)
            BY <2>1, <6>1
          <6>3. QED
            BY <6>1, <6>2
        <5>3. QED
          BY <5>1, <5>2
      <4>3. QED
        BY <3>2, <4>1, <4>2
    <3>3. QED
      BY <3>1, <3>2
  <2>3. g = [i \in 0..n + 1 |-> g[i]]
    OBVIOUS
  <2> HIDE DEF g
  <2>4. g = [i \in 0..n + 1 |-> Body(g, i)]
    BY <2>2, <2>3
  <2>5. QED
    BY <2>4
<1>3. Len(queue) \in G
  <2> HIDE DEF G
  <2>1. Nat \subseteq G
    BY <1>1, <1>2, LoopInduction
  <2>2. QED
    BY <2>1
<1>4. written = CHOOSE f : f = [i \in 0..Len(queue) |-> Body(f, i)]
  BY DEF written
<1>5. written = [i \in 0..Len(queue) |-> Body(written, i)]
  BY <1>3, <1>4
<1>6. \A i \in 0..Len(queue) : written[i] = Body(written, i)
  BY <1>5
<1>7. ASSUME NEW i \in Nat, i + 1 <= Len(queue)
      PROVE  written[i + 1] = Body(written, i + 1) /\ i + 1 # 0 /\ (i + 1) - 1 = i
  BY <1>6, <1>7
<1>8. QED
  BY <1>6, <1>7

(* What checkpoint() leaves in the file: what was in it and the writable   *)
(* records of the queue, each once if each was there once.                 *)
LEMMA Written ==
  ASSUME file \in Seq(Tasks), queue \in Seq(Tasks), IsInjective(file \o queue)
  PROVE  /\ written[Len(queue)] \in Seq(Tasks)
         /\ \A t \in Range(written[Len(queue)]) :
              t \in Range(file) \/ (t \in Range(queue) /\ Writable(t))
         /\ IsInjective(written[Len(queue)] \o <<>>)
<1> DEFINE Holds(n) ==
      /\ written[n] \in Seq(Tasks)
      /\ \A t \in Range(written[n]) :
           t \in Range(file) \/ \E i \in 1..n : t = queue[i] /\ Writable(t)
      /\ IsInjective(written[n] \o <<>>)
    G == {n \in Nat : n <= Len(queue) => Holds(n)}
<1>1. Len(queue) \in Nat /\ \A i \in 1..Len(queue) : queue[i] \in Tasks
  OBVIOUS
<1>2. /\ \A i, j \in 1..Len(queue) : queue[i] = queue[j] => i = j
      /\ \A i \in 1..Len(queue) : queue[i] \notin Range(file)
  <2> DEFINE w == file \o queue
  <2>1. /\ DOMAIN w = 1..(Len(file) + Len(queue)) /\ Len(file) \in Nat
        /\ \A i \in 1..Len(file) : w[i] = file[i]
        /\ \A i \in 1..Len(queue) : w[Len(file) + i] = queue[i]
    OBVIOUS
  <2>2. \A i, j \in DOMAIN w : w[i] = w[j] => i = j
    BY DEF IsInjective
  <2> HIDE DEF w
  <2>3. ASSUME NEW i \in 1..Len(queue), NEW j \in 1..Len(queue), queue[i] = queue[j]
        PROVE  i = j
    <3>1. Len(file) + i \in DOMAIN w /\ Len(file) + j \in DOMAIN w
      BY <1>1, <2>1
    <3>2. Len(file) + i = Len(file) + j
      BY <2>1, <2>2, <2>3, <3>1
    <3>3. QED
      BY <1>1, <2>1, <3>2
  <2>4. ASSUME NEW i \in 1..Len(queue), NEW j \in 1..Len(file), queue[i] = file[j]
        PROVE  FALSE
    <3>1. Len(file) + i \in DOMAIN w /\ j \in DOMAIN w
      BY <1>1, <2>1
    <3>2. Len(file) + i = j
      BY <2>1, <2>2, <2>4, <3>1
    <3>3. QED
      BY <1>1, <2>1, <3>2
  <2>5. QED
    BY <2>3, <2>4 DEF Range
<1>3. 0 \in G
  <2>1. written[0] = file
    BY WrittenSteps
  <2>2. IsInjective(file \o <<>>)
    <3>1. file \o <<>> = file
      BY ConcatEmptySeq
    <3>2. IsInjective(file)
      <4> DEFINE w == file \o queue
      <4>1. /\ DOMAIN file \subseteq DOMAIN w
            /\ \A i \in DOMAIN file : w[i] = file[i]
        OBVIOUS
      <4>2. QED
        BY <4>1 DEF IsInjective
    <3>3. QED
      BY <3>1, <3>2
  <2>3. QED
    BY <2>1, <2>2
<1>4. ASSUME NEW n \in Nat, n \in G PROVE n + 1 \in G
  <2>1. SUFFICES ASSUME n + 1 <= Len(queue) PROVE Holds(n + 1)
    OBVIOUS
  <2> DEFINE t == queue[n + 1]
  <2>2. Holds(n)
    BY <1>1, <1>4, <2>1
  <2>3. written[n + 1] = IF Writable(t) THEN Append(written[n], t) ELSE written[n]
    BY <2>1, WrittenSteps
  <2>4. t \in Tasks /\ n + 1 \in 1..Len(queue)
    BY <1>1, <2>1
  <2>5. t \notin Range(written[n])
    <3>1. SUFFICES ASSUME t \in Range(written[n]) PROVE FALSE
      OBVIOUS
    <3>2. t \notin Range(file)
      BY <1>2, <2>4
    <3>3. PICK i \in 1..n : t = queue[i]
      BY <2>2, <3>1, <3>2
    <3>4. i \in 1..Len(queue) /\ i # n + 1
      BY <1>1, <2>1
    <3>5. QED
      BY <1>2, <2>4, <3>3, <3>4
  <2>6. CASE ~Writable(t)
    <3>1. written[n + 1] = written[n] /\ 1..n \subseteq 1..n + 1
      BY <2>3, <2>6
    <3>2. QED
      BY <2>2, <3>1
  <2>7. CASE Writable(t)
    <3> DEFINE s == written[n]
    <3>1. written[n + 1] = Append(s, t)
      BY <2>3, <2>7
    <3>2. s \in Seq(Tasks) /\ IsInjective(s \o <<>>) /\ t \notin Range(s)
      BY <2>2, <2>5
    <3>3. \A u \in Range(s) : u \in Range(file) \/ \E i \in 1..n : u = queue[i] /\ Writable(u)
      BY <2>2
    <3> HIDE DEF s
    <3>4. Append(s, t) \in Seq(Tasks) /\ Range(Append(s, t)) = Range(s) \cup {t}
      BY <2>4, <3>2, RangeAppend
    <3>5. IsInjective(Append(s, t) \o <<>>)
      <4>1. <<>> \in Seq(Tasks) /\ Range(<<>>) = {}
        BY DEF Range
      <4>2. QED
        BY <2>4, <3>2, <4>1, InsertOnce
    <3>6. ASSUME NEW u \in Range(Append(s, t))
          PROVE  u \in Range(file) \/ \E i \in 1..n + 1 : u = queue[i] /\ Writable(u)
      <4>1. CASE u = t
        BY <2>4, <2>7, <4>1
      <4>2. CASE u \in Range(s)
        <5>1. 1..n \subseteq 1..n + 1
          OBVIOUS
        <5>2. QED
          BY <3>3, <4>2, <5>1
      <4>3. QED
        BY <3>4, <3>6, <4>1, <4>2
    <3>7. QED
      BY <3>1, <3>4, <3>5, <3>6
  <2>8. QED
    BY <2>6, <2>7
<1>5. Len(queue) \in G
  <2> HIDE DEF G
  <2>1. Nat \subseteq G
    BY <1>3, <1>4, LoopInduction
  <2>2. QED
    BY <1>1, <2>1
<1>6. Holds(Len(queue))
  BY <1>1, <1>5
<1>7. \A i \in 1..Len(queue) : queue[i] \in Range(queue)
  BY DEF Range
<1>8. QED
  BY <1>6, <1>7

-----------------------------------------------------------------------------
(* The steps of the kernel. *)


(* One more item keeps the launch queue a queue of tasks. *)
LEMMA LaunchQueued ==
  ASSUME TypeOK, NEW t \in Tasks, LaunchIfReady(t) \/ UNCHANGED pool
  PROVE  pool' \in Seq(Tasks)
<1>1. pool \in Seq(Tasks) /\ Append(pool, t) \in Seq(Tasks)
  BY DEF TypeOK
<1>2. pool' \in {pool, Append(pool, t)}
  BY DEF LaunchIfReady
<1>3. QED
  BY <1>1, <1>2

(* Only tasks are recorded. *)
LEMMA RecordedAreTasks == TypeOK => Recorded \subseteq Tasks
<1>1. SUFFICES ASSUME file \in Seq(Tasks), queue \in Seq(Tasks)
               PROVE  Recorded \subseteq Tasks
  BY DEF TypeOK
<1>2. QED
  BY <1>1 DEF Recorded, Range

(* submit() is called. *)
LEMMA SubmitInv == ASSUME IInv, NEW t \in Tasks, Submit(t) PROVE IInv'
<1> USE DEF IInv, Submit
<1>1. TypeOK'
  BY DEF TypeOK, Cached
<1>2. Control'
  BY DEF TypeOK, Control, Published, Visible, FinalStates, Succeeded
<1>3. Settling'
  BY DEF Settling, Visible
<1>4. DependenciesFirst' /\ Listing' /\ Hashing' /\ Recording' /\
        Waiting' /\ RecordedOnce'
  BY DEF DependenciesFirst, Listing, Hashing, Recording, FileHoldsSuccesses,
     Visible, Published, Waiting, WaitCoversSubmitted, RecordedOnce, Cached,
     Recorded, Succeeded
<1>5. QED
  BY <1>1, <1>2, <1>3, <1>4

(* The task record is made. *)
LEMMA RegisterInv == ASSUME IInv, NEW t \in Tasks, Register(t) PROVE IInv'
<1> USE DEF IInv, Register
<1>1. TypeOK'
  BY DependsAssumption DEF TypeOK, States, FinalStates
<1>2. Control'
  BY DEF TypeOK, Control, Published, Visible, FinalStates, Succeeded
<1>3. DependenciesFirst'
  BY DependsAssumption DEF TypeOK, Control, Published, DependenciesFirst,
     Visible, FinalStates
<1>4. Listing'
  BY DEF TypeOK, Control, Published, Listing, Visible, FinalStates, Succeeded
<1>5. Recording'
  BY DEF TypeOK, Control, Published, Recording, FileHoldsSuccesses, Visible,
     Recorded, Succeeded, FinalStates
<1>6. Settling'
  BY DEF TypeOK, Control, Published, Hashing, Settling, Visible, FinalStates,
     Cached, Succeeded
<1>7. Waiting'
  <2>1. \A u \in Tasks : Visible(u) => Visible(u)'
    BY DEF TypeOK, Control, Visible
  <2>2. QED
    BY <2>1 DEF TypeOK, Waiting, WaitCoversSubmitted
<1>8. Hashing' /\ RecordedOnce'
  BY DEF Hashing, RecordedOnce, Cached
<1>9. QED
  BY <1>1, <1>2, <1>3, <1>4, <1>5, <1>6, <1>7, <1>8

(* submit() attaches a callback to a dependency. *)
LEMMA WatchDependencyInv ==
  ASSUME IInv, NEW t \in Tasks, NEW d \in Tasks, WatchDependency(t, d)
  PROVE  IInv'
<1> USE DEF IInv, WatchDependency
<1>1. TypeOK'
  <2>1. pool' \in Seq(Tasks)
    BY LaunchQueued
  <2>2. \/ waiters' = waiters
        \/ waiters' = [waiters EXCEPT ![d] = waiters[d] \cup {t}]
    OBVIOUS
  <2>3. waiters \in [Tasks -> SUBSET Tasks] /\ waiters[d] \cup {t} \in SUBSET Tasks
    BY DEF TypeOK
  <2>4. waiters' \in [Tasks -> SUBSET Tasks]
    BY <2>2, <2>3, Zenon
  <2>5. toWatch' \in [Tasks -> SUBSET Tasks]
    BY DEF TypeOK
  <2>6. QED
    BY <2>1, <2>4, <2>5 DEF TypeOK
<1>2. Control' /\ DependenciesFirst' /\ Listing' /\ Hashing' /\ Recording' /\
        Settling' /\ Waiting' /\ RecordedOnce'
  BY DEF Control, Published, DependenciesFirst, Listing, Hashing, Recording,
     FileHoldsSuccesses, Visible, Settling, Waiting, WaitCoversSubmitted,
     RecordedOnce, FinalStates, Succeeded, Cached, Recorded
<1>3. QED
  BY <1>1, <1>2

(* submit() returns. *)
LEMMA SubmitLaunchInv ==
  ASSUME IInv, NEW t \in Tasks, SubmitLaunch(t)
  PROVE  IInv'
<1> USE DEF IInv, SubmitLaunch
<1>1. TypeOK'
  BY LaunchQueued DEF TypeOK
<1>2. Control'
  BY DEF TypeOK, Control, Published, Visible, FinalStates, Succeeded
<1>3. DependenciesFirst' /\ Listing' /\ Hashing' /\ Recording' /\ Settling' /\
        Waiting' /\ RecordedOnce'
  BY DEF DependenciesFirst, Listing, Hashing, Recording, FileHoldsSuccesses,
     Visible, Published, Settling, Waiting, WaitCoversSubmitted, RecordedOnce,
     Cached, Recorded, Succeeded
<1>4. QED
  BY <1>1, <1>2, <1>3

(* The launch thread drops an item. *)
LEMMA SkipLaunchInv == ASSUME IInv, NEW t \in Tasks, SkipLaunch(t) PROVE IInv'
<1> USE DEF IInv, SkipLaunch, Dequeue, Outstanding
<1>1. TypeOK'
  BY DEF TypeOK, Visible
<1>2. Control' /\ DependenciesFirst' /\ Listing' /\ Hashing' /\ Recording' /\
        Settling' /\ Waiting' /\ RecordedOnce'
  BY DEF Control, Published, DependenciesFirst, Listing, Hashing, Recording,
     FileHoldsSuccesses, Visible, Settling, Waiting, WaitCoversSubmitted,
     RecordedOnce, FinalStates, Succeeded, Cached, Recorded
<1>3. QED
  BY <1>1, <1>2

(* A dependency failed. *)
LEMMA LaunchDependencyFailureInv ==
  ASSUME IInv, NEW t \in Tasks, LaunchDependencyFailure(t)
  PROVE  IInv'
<1>1. /\ status[t] = "pending" /\ pc[t] = "idle" /\ exec[t] = "none"
      /\ fut[t] = "unset"
      /\ \A u \in Tasks : status[u] = "pending" => pc[u] = "idle"
  BY Inspected DEF LaunchDependencyFailure
<1> USE DEF IInv, LaunchDependencyFailure, Inspect, Dequeue
<1>2. TypeOK'
  BY DEF TypeOK, States, FinalStates, PCs, Visible
<1>3. Control'
  BY <1>1 DEF TypeOK, Control, Published, Visible, FinalStates, Succeeded
<1>4. Listing'
  BY <1>1 DEF TypeOK, Control, Published, Listing, Visible, FinalStates,
     Succeeded
<1>5. Hashing'
  BY <1>1 DEF TypeOK, Control, Published, Hashing, Cached
<1>6. Recording'
  BY <1>1 DEF TypeOK, Control, Published, Recording, FileHoldsSuccesses,
     Visible, Recorded, Succeeded, FinalStates
<1>7. Settling'
  BY <1>1 DEF TypeOK, Control, Published, Hashing, Settling, Visible,
     FinalStates, Cached, Succeeded
<1>8. DependenciesFirst' /\ Waiting' /\ RecordedOnce'
  BY DEF DependenciesFirst, Waiting, WaitCoversSubmitted, Visible,
     RecordedOnce
<1>9. QED
  BY <1>1, <1>2, <1>3, <1>4, <1>5, <1>6, <1>7, <1>8

(* The memo answers. *)
LEMMA LaunchMemoHitInv ==
  ASSUME IInv, NEW t \in Tasks, LaunchMemoHit(t)
  PROVE  IInv'
<1>1. /\ status[t] = "pending" /\ pc[t] = "idle" /\ exec[t] = "none"
      /\ fut[t] = "unset"
      /\ \A u \in Tasks : status[u] = "pending" => pc[u] = "idle"
  BY Inspected DEF LaunchMemoHit
<1> USE DEF IInv, LaunchMemoHit, Inspect, Dequeue
<1>2. TypeOK'
  BY KeyAssumption DEF TypeOK, PCs, Visible, Cached
<1>3. Control'
  BY <1>1 DEF TypeOK, Control, Published, Visible, FinalStates, Succeeded
<1>4. Listing'
  BY <1>1 DEF TypeOK, Control, Published, Listing, Visible, FinalStates,
     Succeeded
<1>5. Hashing'
  BY <1>1 DEF TypeOK, Control, Published, Hashing, Cached
<1>6. Recording'
  BY <1>1 DEF TypeOK, Control, Published, Recording, FileHoldsSuccesses,
     Visible, Recorded, Succeeded, FinalStates
<1>7. Settling'
  BY <1>1 DEF TypeOK, Control, Published, Hashing, Settling, Visible,
     FinalStates, Cached, Succeeded
<1>8. DependenciesFirst' /\ Waiting' /\ RecordedOnce'
  BY DEF DependenciesFirst, Waiting, WaitCoversSubmitted, Visible,
     RecordedOnce
<1>9. QED
  BY <1>1, <1>2, <1>3, <1>4, <1>5, <1>6, <1>7, <1>8

(* The executor takes the task. *)
LEMMA LaunchSubmitInv ==
  ASSUME IInv, NEW t \in Tasks, LaunchSubmit(t)
  PROVE  IInv'
<1>1. /\ status[t] = "pending" /\ pc[t] = "idle" /\ exec[t] = "none"
      /\ fut[t] = "unset"
      /\ \A u \in Tasks : status[u] = "pending" => pc[u] = "idle"
  BY Inspected DEF LaunchSubmit, MemoMiss
<1> USE DEF IInv, LaunchSubmit, MemoMiss, Inspect, Dequeue, Outstanding,
   FailedDeps, ExecutorsClosed
<1>2. TypeOK'
  <2>1. pool' \in Seq(Tasks) /\ launcher' = t
    BY DEF TypeOK
  <2>2. hashed' \in [Tasks -> BOOLEAN] /\ fromMemo' \in [Tasks -> BOOLEAN]
    BY DEF TypeOK, Cached
  <2>3. /\ exec' \in [Tasks -> {"none", "running", "ok", "error"}]
        /\ ran' \in [Tasks -> BOOLEAN]
        /\ pc' \in [Tasks -> PCs]
    BY DEF TypeOK, PCs
  <2>4. QED
    BY <2>1, <2>2, <2>3 DEF TypeOK
<1>3. Control'
  BY <1>1 DEF TypeOK, Control, Published, Visible, FinalStates, Succeeded
<1>4. DependenciesFirst'
  BY <1>1, DependsAssumption DEF TypeOK, Control, Published,
     DependenciesFirst, Visible, FinalStates
<1>5. Listing'
  BY <1>1 DEF TypeOK, Control, Published, Listing, Visible, FinalStates,
     Succeeded
<1>6. Hashing'
  <2>1. hashed'[t] = Cached(t)
    BY DEF TypeOK
  <2>2. \A u \in Tasks \ {t} : hashed'[u] = hashed[u] /\ exec'[u] = exec[u]
    BY DEF TypeOK
  <2>3. QED
    BY <2>1, <2>2 DEF Hashing
<1>7. Recording'
  BY <1>1 DEF TypeOK, Control, Published, Recording, FileHoldsSuccesses,
     Visible, Recorded, Succeeded, FinalStates
<1>8. Settling'
  BY <1>1, KeyAssumption DEF TypeOK, Control, Published, Hashing, Settling,
     Visible, FinalStates, Cached, Succeeded
<1>9. Waiting' /\ RecordedOnce'
  BY DEF Waiting, WaitCoversSubmitted, Visible, RecordedOnce
<1>10. QED
  BY <1>1, <1>2, <1>3, <1>4, <1>5, <1>6, <1>7, <1>8, <1>9

(* The executor refuses the task. *)
LEMMA LaunchRefusedInv ==
  ASSUME IInv, NEW t \in Tasks, LaunchRefused(t)
  PROVE  IInv'
<1>1. /\ status[t] = "pending" /\ pc[t] = "idle" /\ exec[t] = "none"
      /\ fut[t] = "unset"
      /\ \A u \in Tasks : status[u] = "pending" => pc[u] = "idle"
  BY Inspected DEF LaunchRefused, MemoMiss
<1> USE DEF IInv, LaunchRefused, MemoMiss, Inspect, Dequeue
<1>2. TypeOK'
  <2>1. pool' \in Seq(Tasks) /\ launcher' = t
    BY DEF TypeOK
  <2>2. hashed' \in [Tasks -> BOOLEAN] /\ fromMemo' \in [Tasks -> BOOLEAN]
    BY DEF TypeOK, Cached
  <2>3. /\ exec' \in [Tasks -> {"none", "running", "ok", "error"}]
        /\ pc' \in [Tasks -> PCs]
    BY DEF TypeOK, PCs
  <2>4. QED
    BY <2>1, <2>2, <2>3 DEF TypeOK
<1>3. Control'
  BY <1>1 DEF TypeOK, Control, Published, Visible, FinalStates, Succeeded
<1>4. Listing'
  BY <1>1 DEF TypeOK, Control, Published, Listing, Visible, FinalStates,
     Succeeded
<1>5. Hashing'
  BY <1>1 DEF TypeOK, Control, Published, Hashing, Cached
<1>6. Recording'
  BY <1>1 DEF TypeOK, Control, Published, Recording, FileHoldsSuccesses,
     Visible, Recorded, Succeeded, FinalStates
<1>7. Settling'
  BY <1>1 DEF TypeOK, Control, Published, Hashing, Settling, Visible,
     FinalStates, Cached, Succeeded
<1>8. DependenciesFirst' /\ Waiting' /\ RecordedOnce'
  BY DEF DependenciesFirst, Waiting, WaitCoversSubmitted, Visible,
     RecordedOnce
<1>9. QED
  BY <1>1, <1>2, <1>3, <1>4, <1>5, <1>6, <1>7, <1>8

(* The arguments have no hash. *)
LEMMA LaunchUnhashableInv ==
  ASSUME IInv, NEW t \in Tasks, LaunchUnhashable(t)
  PROVE  IInv'
<1>1. /\ status[t] = "pending" /\ pc[t] = "idle" /\ exec[t] = "none"
      /\ fut[t] = "unset"
      /\ \A u \in Tasks : status[u] = "pending" => pc[u] = "idle"
  BY Inspected DEF LaunchUnhashable
<1> USE DEF IInv, LaunchUnhashable, Inspect, Dequeue
<1>2. TypeOK'
  BY DEF TypeOK, PCs, Visible, Cached
<1>3. Control'
  BY <1>1 DEF TypeOK, Control, Published, Visible, FinalStates, Succeeded
<1>4. Listing'
  BY <1>1 DEF TypeOK, Control, Published, Listing, Visible, FinalStates,
     Succeeded
<1>5. Hashing'
  BY <1>1 DEF TypeOK, Control, Published, Hashing, Cached
<1>6. Recording'
  BY <1>1 DEF TypeOK, Control, Published, Recording, FileHoldsSuccesses,
     Visible, Recorded, Succeeded, FinalStates
<1>7. Settling'
  BY <1>1 DEF TypeOK, Control, Published, Hashing, Settling, Visible,
     FinalStates, Cached, Succeeded
<1>8. DependenciesFirst' /\ Waiting' /\ RecordedOnce'
  BY DEF DependenciesFirst, Waiting, WaitCoversSubmitted, Visible,
     RecordedOnce
<1>9. QED
  BY <1>1, <1>2, <1>3, <1>4, <1>5, <1>6, <1>7, <1>8

(* handle_exec_update is attached. *)
LEMMA AttachInv == ASSUME IInv, NEW t \in Tasks, Attach(t) PROVE IInv'
<1> USE DEF IInv, Attach
<1>1. TypeOK'
  <2>1. status' \in [Tasks -> States]
    BY DEF TypeOK, States, FinalStates
  <2>2. pc' \in [Tasks -> PCs]
    <3>1. pc' \in {[pc EXCEPT ![t] = "idle"], [pc EXCEPT ![t] = "exec"]}
      OBVIOUS
    <3>2. pc \in [Tasks -> PCs] /\ "idle" \in PCs /\ "exec" \in PCs
      BY DEF TypeOK, PCs
    <3>3. QED
      BY <3>1, <3>2
  <2>3. launcher' \in Tasks \cup {None}
    BY DEF TypeOK
  <2>4. QED
    BY <2>1, <2>2, <2>3 DEF TypeOK
<1>2. Control'
  <2>1. CASE exec[t] = "running"
    BY <2>1 DEF TypeOK, Control, Published, Visible, FinalStates, Succeeded
  <2>2. CASE exec[t] # "running"
    BY <2>2 DEF TypeOK, Control, Published, Visible, FinalStates, Succeeded
  <2>3. QED
    BY <2>1, <2>2
<1>3. Listing'
  BY DEF TypeOK, Control, Published, Listing, Visible, FinalStates, Succeeded
<1>4. Recording'
  <2>1. ~Visible(t)
    BY DEF Control, FinalStates, Published
  <2>2. \A u \in Tasks \ {t} : pc'[u] = pc[u]
    <3>1. \E x \in {"idle", "exec"} : pc' = [pc EXCEPT ![t] = x]
      OBVIOUS
    <3>2. QED
      BY <3>1 DEF TypeOK
  <2>3. \A u \in Recorded : u \in Tasks \ {t}
    BY <2>1, RecordedAreTasks DEF Recording
  <2>4. \A u \in Recorded' : Visible(u)' /\ pc'[u] \in {"wipe", "callbacks", "idle"}
    BY <2>2, <2>3 DEF Recording, Recorded, Visible
  <2>5. FileHoldsSuccesses'
    BY DEF Recording, FileHoldsSuccesses
  <2>6. QED
    BY <2>4, <2>5 DEF Recording
<1>5. Settling'
  BY DEF TypeOK, Control, Published, Hashing, Settling, Visible, FinalStates,
     Cached, Succeeded
<1>6. DependenciesFirst' /\ Hashing' /\ Waiting' /\ RecordedOnce'
  BY DEF DependenciesFirst, Hashing, Waiting, WaitCoversSubmitted, Visible,
     RecordedOnce, Cached
<1>7. QED
  BY <1>1, <1>2, <1>3, <1>4, <1>5, <1>6

(* The body ends. *)
LEMMA RunBodyInv == ASSUME IInv, NEW t \in Tasks, RunBody(t) PROVE IInv'
<1> USE DEF IInv, RunBody
<1>1. TypeOK'
  BY DEF TypeOK, PCs
<1>2. PICK r \in {"ok", "error"} : exec' = [exec EXCEPT ![t] = r]
  OBVIOUS
<1>3. status[t] \in {"pending", "launched"} /\ pc[t] \in {"attach", "idle"}
  <2>1. status[t] \notin FinalStates
    BY DEF Control
  <2>2. status[t] # "absent"
    BY DEF Control
  <2>3. pc[t] \notin {"exec", "ok", "err"}
    BY DEF Control
  <2>4. pc[t] # "set" /\ pc[t] \notin Published \ {"idle"}
    BY <2>1 DEF Control, Succeeded, FinalStates
  <2>5. QED
    BY <2>1, <2>2, <2>3, <2>4 DEF TypeOK, Control, Published, States, PCs
<1>4. ~Visible(t) /\ \A u \in Tasks \ {t} : pc'[u] = pc[u]
  BY <1>3 DEF Control, FinalStates
<1>5. Control'
  BY <1>2, <1>3 DEF TypeOK, Control, Published, Visible, FinalStates, Succeeded
<1>6. Listing' /\ Hashing'
  BY DEF Listing, Visible, Hashing, Cached
<1>7. Recording'
  BY <1>4 DEF TypeOK, Recording, Recorded, FileHoldsSuccesses, Visible
<1>8. Settling'
  BY <1>4 DEF TypeOK, Settling, Visible
<1>9. DependenciesFirst' /\ Waiting' /\ RecordedOnce'
  BY DEF DependenciesFirst, Waiting, WaitCoversSubmitted, Visible,
     RecordedOnce
<1>10. QED
  BY <1>1, <1>5, <1>6, <1>7, <1>8, <1>9

(* The attempt succeeded. *)
LEMMA HandleSuccessInv ==
  ASSUME IInv, NEW t \in Tasks, HandleSuccess(t)
  PROVE  IInv'
<1> USE DEF IInv, HandleSuccess
<1>1. TypeOK'
  BY DEF TypeOK, PCs
<1>2. Control'
  BY DEF TypeOK, Control, Published, Visible, FinalStates, Succeeded
<1>3. Listing'
  BY DEF TypeOK, Control, Published, Listing, Visible, FinalStates, Succeeded
<1>4. Recording'
  BY DEF TypeOK, Control, Published, Recording, FileHoldsSuccesses, Visible,
     Recorded, Succeeded, FinalStates
<1>5. Settling'
  BY DEF TypeOK, Control, Published, Hashing, Settling, Visible, FinalStates,
     Cached, Succeeded
<1>6. DependenciesFirst' /\ Hashing' /\ Waiting' /\ RecordedOnce'
  BY DEF DependenciesFirst, Hashing, Waiting, WaitCoversSubmitted, Visible,
     RecordedOnce, Cached
<1>7. QED
  BY <1>1, <1>2, <1>3, <1>4, <1>5, <1>6

(* The attempt failed and is retried. *)
LEMMA HandleRetryInv ==
  ASSUME IInv, NEW t \in Tasks, HandleRetry(t)
  PROVE  IInv'
<1> USE DEF IInv, HandleRetry, NewFailCost, HandlerReturns
<1>1. TypeOK'
  <2>1. pool' \in Seq(Tasks)
    BY LaunchQueued
  <2>2. rechecks' \in [Tasks -> Nat]
    BY DEF TypeOK
  <2>3. failCost' \in [Tasks -> Nat]
    BY RetryAssumption DEF TypeOK
  <2>4. QED
    BY <2>1, <2>2, <2>3 DEF TypeOK, States, FinalStates, PCs
<1>2. Control'
  BY DEF TypeOK, Control, Published, Visible, FinalStates, Succeeded
<1>3. Listing'
  BY DEF TypeOK, Control, Published, Listing, Visible, FinalStates, Succeeded
<1>4. Hashing'
  BY DEF TypeOK, Control, Published, Hashing, Cached
<1>5. Recording'
  BY DEF TypeOK, Control, Published, Recording, FileHoldsSuccesses, Visible,
     Recorded, Succeeded, FinalStates
<1>6. Settling'
  BY DEF TypeOK, Control, Published, Hashing, Settling, Visible, FinalStates,
     Cached, Succeeded
<1>7. DependenciesFirst' /\ Waiting' /\ RecordedOnce'
  BY DEF DependenciesFirst, Waiting, WaitCoversSubmitted, Visible,
     RecordedOnce
<1>8. QED
  BY <1>1, <1>2, <1>3, <1>4, <1>5, <1>6, <1>7

(* The handler of a retried attempt ends. *)
LEMMA RecheckInv == ASSUME IInv, NEW t \in Tasks, Recheck(t) PROVE IInv'
<1> USE DEF IInv, Recheck
<1>1. TypeOK'
  <2>1. pool' \in Seq(Tasks)
    BY LaunchQueued
  <2>2. rechecks' \in [Tasks -> Nat]
    BY DEF TypeOK
  <2>3. QED
    BY <2>1, <2>2 DEF TypeOK
<1>2. Control' /\ DependenciesFirst' /\ Listing' /\ Hashing' /\ Recording' /\
        Settling' /\ Waiting' /\ RecordedOnce'
  BY DEF Control, Published, DependenciesFirst, Listing, Hashing, Recording,
     FileHoldsSuccesses, Visible, Settling, Waiting, WaitCoversSubmitted,
     RecordedOnce, FinalStates, Succeeded, Cached, Recorded
<1>3. QED
  BY <1>1, <1>2

(* The attempt failed for good. *)
LEMMA HandleFailureInv ==
  ASSUME IInv, NEW t \in Tasks, HandleFailure(t)
  PROVE  IInv'
<1> USE DEF IInv, HandleFailure, NewFailCost
<1>1. TypeOK'
  <2>1. failCost' \in [Tasks -> Nat]
    BY RetryAssumption DEF TypeOK
  <2>2. QED
    BY <2>1 DEF TypeOK, States, FinalStates, PCs
<1>2. Control'
  BY DEF TypeOK, Control, Published, Visible, FinalStates, Succeeded
<1>3. Listing'
  BY DEF TypeOK, Control, Published, Listing, Visible, FinalStates, Succeeded
<1>4. Recording'
  BY DEF TypeOK, Control, Published, Recording, FileHoldsSuccesses, Visible,
     Recorded, Succeeded, FinalStates
<1>5. Settling'
  BY DEF TypeOK, Control, Published, Hashing, Settling, Visible, FinalStates,
     Cached, Succeeded
<1>6. DependenciesFirst' /\ Hashing' /\ Waiting' /\ RecordedOnce'
  BY DEF DependenciesFirst, Hashing, Waiting, WaitCoversSubmitted, Visible,
     RecordedOnce, Cached
<1>7. QED
  BY <1>1, <1>2, <1>3, <1>4, <1>5, <1>6

(* A done-callback runs. *)
LEMMA NotifyDependentInv ==
  ASSUME IInv, NEW t \in Tasks, NEW u \in Tasks, NotifyDependent(t, u)
  PROVE  IInv'
<1> USE DEF IInv, NotifyDependent
<1>1. TypeOK'
  BY LaunchQueued DEF TypeOK
<1>2. Control' /\ DependenciesFirst' /\ Listing' /\ Hashing' /\ Recording' /\
        Settling' /\ Waiting' /\ RecordedOnce'
  BY DEF Control, Published, DependenciesFirst, Listing, Hashing, Recording,
     FileHoldsSuccesses, Visible, Settling, Waiting, WaitCoversSubmitted,
     RecordedOnce, FinalStates, Succeeded, Cached, Recorded
<1>3. QED
  BY <1>1, <1>2

(* The handler of a finished task ends. *)
LEMMA HandlerEndsInv ==
  ASSUME IInv, NEW t \in Tasks, HandlerEnds(t)
  PROVE  IInv'
<1> USE DEF IInv, HandlerEnds, HandlerReturns
<1>1. TypeOK'
  BY DEF TypeOK, PCs
<1>2. Control'
  BY DEF TypeOK, Control, Published, Visible, FinalStates, Succeeded
<1>3. Listing'
  BY DEF TypeOK, Control, Published, Listing, Visible, FinalStates, Succeeded
<1>4. Recording'
  BY DEF TypeOK, Control, Published, Recording, FileHoldsSuccesses, Visible,
     Recorded, Succeeded, FinalStates
<1>5. Settling'
  BY DEF TypeOK, Control, Published, Hashing, Settling, Visible, FinalStates,
     Cached, Succeeded
<1>6. DependenciesFirst' /\ Hashing' /\ Waiting' /\ RecordedOnce'
  BY DEF DependenciesFirst, Hashing, Waiting, WaitCoversSubmitted, Visible,
     RecordedOnce, Cached
<1>7. QED
  BY <1>1, <1>2, <1>3, <1>4, <1>5, <1>6

-----------------------------------------------------------------------------
(* The record becomes final. *)
LEMMA EnterFinalStateInv ==
  ASSUME IInv, NEW t \in Tasks, EnterFinalState(t)
  PROVE  IInv'
<1> USE DEF IInv, EnterFinalState, Advance, DoneState
<1>1. TypeOK'
  BY DEF TypeOK, States, FinalStates, PCs
<1>2. Control'
  BY DEF TypeOK, Control, Published, Visible, FinalStates, Succeeded
<1>3. Listing'
  BY DEF TypeOK, Control, Published, Listing, Visible, FinalStates
<1>4. Settling'
  BY DEF TypeOK, Control, Published, Settling, Visible, FinalStates
<1>5. Recording'
  BY DEF TypeOK, Control, Recording, Recorded, FileHoldsSuccesses, Visible,
     Published
<1>6. DependenciesFirst' /\ Hashing' /\ Waiting' /\ RecordedOnce'
  BY DEF DependenciesFirst, Hashing, Waiting, WaitCoversSubmitted, Visible,
     RecordedOnce, Cached
<1>7. QED
  BY <1>1, <1>2, <1>3, <1>4, <1>5, <1>6

(* The future is set, before any bookkeeping. *)
LEMMA PublishFutureInv ==
  ASSUME IInv, NEW t \in Tasks, PublishFuture(t)
  PROVE  IInv'
<1> USE DEF IInv, PublishFuture, Advance, SetFuture
<1>1. TypeOK'
  BY DEF TypeOK, PCs
<1>2. ~Visible(t) /\ Visible(t)' /\ pc'[t] = "install"
  <2>1. pc[t] \notin Published
    BY DEF Published
  <2>2. ~Visible(t)
    BY <2>1 DEF Control
  <2>3. Visible(t)' /\ pc'[t] = "install"
    BY DEF TypeOK, Visible
  <2>4. QED
    BY <2>2, <2>3
<1>3. \A u \in Tasks \ {t} : fut'[u] = fut[u] /\ pc'[u] = pc[u]
  BY DEF TypeOK
<1>4. Control'
  BY DEF TypeOK, Control, Published, Visible, FinalStates, Succeeded
<1>5. DependenciesFirst'
  BY <1>2, <1>3, DependsAssumption DEF DependenciesFirst, Visible
<1>6. Listing' /\ Settling' /\ Hashing'
  BY <1>2, <1>3 DEF Listing, Settling, Hashing, Visible, Cached
<1>7. Recording'
  <2>1. t \notin Recorded
    BY <1>2 DEF Recording
  <2>2. QED
    <3>1. \A u \in Tasks : u \in Recorded => u # t
      BY <2>1
    <3>2. Recorded' = Recorded /\ Recorded \subseteq Tasks
      BY RecordedAreTasks DEF Recorded
    <3>3. \A u \in Recorded : u \in Tasks \ {t}
      BY <3>1, <3>2
    <3>4. \A u \in Recorded' : Visible(u)' /\ pc'[u] \in {"wipe", "callbacks", "idle"}
      BY <1>3, <3>2, <3>3 DEF Recording, Visible
    <3>5. FileHoldsSuccesses'
      BY <1>3, <3>3 DEF Recording, FileHoldsSuccesses, Recorded
    <3>6. QED
      BY <3>4, <3>5 DEF Recording
<1>8. Waiting'
  BY <1>2, <1>3 DEF Waiting, WaitCoversSubmitted, Visible, TypeOK
<1>9. RecordedOnce'
  BY DEF RecordedOnce
<1>10. QED
  BY <1>1, <1>4, <1>5, <1>6, <1>7, <1>8, <1>9

(* The memo learns of the outcome. *)
LEMMA InstallMemoInv ==
  ASSUME IInv, NEW t \in Tasks, InstallMemo(t)
  PROVE  IInv'
<1> USE DEF IInv, InstallMemo, Advance
<1>1. TypeOK'
  BY DEF TypeOK, PCs
<1>2. Control'
  BY DEF TypeOK, Control, Published, Visible, FinalStates, Succeeded
<1>3. Settling'
  <2>1. \A u \in Tasks : hashed[u] => Key[u] \in Keys
    BY KeyAssumption DEF Hashing, Cached
  <2>2. \A k \in Keys : memo[k] # "none" => memo'[k] # "none"
    BY DEF TypeOK
  <2>3. hashed[t] => memo'[Key[t]] # "none"
    BY <2>1 DEF TypeOK
  <2>4. QED
    BY <2>1, <2>2, <2>3 DEF TypeOK, Settling, Visible
<1>4. Recording'
  BY DEF TypeOK, Recording, Recorded, FileHoldsSuccesses, Visible
<1>5. DependenciesFirst' /\ Listing' /\ Hashing' /\ Waiting' /\ RecordedOnce'
  BY DEF DependenciesFirst, Listing, Hashing, Waiting, WaitCoversSubmitted,
     Visible, RecordedOnce, Cached
<1>6. QED
  BY <1>1, <1>2, <1>3, <1>4, <1>5

(* A finished task that is about to be recorded is not recorded yet. *)
LEMMA AboutToRecord ==
  ASSUME IInv, NEW t \in Tasks, pc[t] = "record"
  PROVE  /\ t \notin Recorded /\ Visible(t)
         /\ file \in Seq(Tasks) /\ queue \in Seq(Tasks)
BY DEF IInv, TypeOK, Control, Published, Recording

(* task_exit: a success is written. *)
LEMMA RecordTaskExitInv ==
  ASSUME IInv, NEW t \in Tasks, RecordTaskExit(t)
  PROVE  IInv'
<1>1. /\ t \notin Recorded /\ Visible(t)
      /\ file \in Seq(Tasks) /\ queue \in Seq(Tasks)
  BY AboutToRecord DEF RecordTaskExit, Advance
<1> USE DEF IInv, RecordTaskExit, Advance
<1>2. TypeOK'
  <2>1. file' \in {file, Append(file, t)}
    OBVIOUS
  <2>2. file' \in Seq(Tasks)
    BY <1>1, <2>1
  <2>3. pc' \in [Tasks -> PCs]
    BY DEF TypeOK, PCs
  <2>4. QED
    BY <2>2, <2>3 DEF TypeOK
<1>3. Control'
  BY DEF TypeOK, Control, Published, Visible, FinalStates, Succeeded
<1>4. Settling'
  BY DEF TypeOK, Settling, Visible
<1>5. Recording'
  <2>1. Range(file') = IF Writable(t) THEN Range(file) \cup {t} ELSE Range(file)
    BY <1>1, RangeAppend
  <2>2. FileHoldsSuccesses'
    BY <2>1 DEF Recording, FileHoldsSuccesses, Writable
  <2>3. \A u \in Recorded' : u \in Recorded \/ u = t
    BY <2>1 DEF Recorded
  <2>4. QED
    BY <1>1, <2>2, <2>3 DEF TypeOK, Recording, Visible
<1>6. RecordedOnce'
  BY <1>1, InsertOnce DEF Recorded, RecordedOnce
<1>7. DependenciesFirst' /\ Listing' /\ Hashing' /\ Waiting'
  BY DEF DependenciesFirst, Listing, Hashing, Waiting, WaitCoversSubmitted,
     Visible, Cached
<1>8. QED
  BY <1>2, <1>3, <1>4, <1>5, <1>6, <1>7

(* The success cannot be written. *)
LEMMA RecordTaskExitFailsInv ==
  ASSUME IInv, NEW t \in Tasks, RecordTaskExitFails(t)
  PROVE  IInv'
<1> USE DEF IInv, RecordTaskExitFails, Advance
<1>1. TypeOK'
  BY DEF TypeOK, PCs
<1>2. Control'
  BY DEF TypeOK, Control, Published, Visible, FinalStates, Succeeded
<1>3. Settling' /\ Recording'
  BY DEF TypeOK, Settling, Recording, Recorded, FileHoldsSuccesses, Visible
<1>4. DependenciesFirst' /\ Listing' /\ Hashing' /\ Waiting' /\ RecordedOnce'
  BY DEF DependenciesFirst, Listing, Hashing, Waiting, WaitCoversSubmitted,
     Visible, RecordedOnce, Cached
<1>5. QED
  BY <1>1, <1>2, <1>3, <1>4

(* Deferred modes: the task is queued. *)
LEMMA RecordDeferredInv ==
  ASSUME IInv, NEW t \in Tasks, RecordDeferred(t)
  PROVE  IInv'
<1>1. /\ t \notin Recorded /\ Visible(t)
      /\ file \in Seq(Tasks) /\ queue \in Seq(Tasks)
  BY AboutToRecord DEF RecordDeferred, Advance
<1> USE DEF IInv, RecordDeferred, Advance
<1>2. TypeOK'
  BY DEF TypeOK, PCs
<1>3. Control'
  BY DEF TypeOK, Control, Published, Visible, FinalStates, Succeeded
<1>4. Settling'
  BY DEF TypeOK, Settling, Visible
<1>5. Recording'
  <2>1. Range(queue') = Range(queue) \cup {t}
    BY <1>1, RangeAppend
  <2>2. \A u \in Recorded' : u \in Recorded \/ u = t
    BY <2>1 DEF Recorded
  <2>3. QED
    BY <1>1, <2>2 DEF TypeOK, Recording, FileHoldsSuccesses, Visible
<1>6. RecordedOnce'
  BY <1>1, InsertOnce DEF Recorded, RecordedOnce
<1>7. DependenciesFirst' /\ Listing' /\ Hashing' /\ Waiting'
  BY DEF DependenciesFirst, Listing, Hashing, Waiting, WaitCoversSubmitted,
     Visible, Cached
<1>8. QED
  BY <1>2, <1>3, <1>4, <1>5, <1>6, <1>7

(* No checkpointing. *)
LEMMA RecordNothingInv ==
  ASSUME IInv, NEW t \in Tasks, RecordNothing(t)
  PROVE  IInv'
<1> USE DEF IInv, RecordNothing, Advance
<1>1. TypeOK'
  BY DEF TypeOK, PCs
<1>2. Control'
  BY DEF TypeOK, Control, Published, Visible, FinalStates, Succeeded
<1>3. Settling' /\ Recording'
  BY DEF TypeOK, Settling, Recording, Recorded, FileHoldsSuccesses, Visible
<1>4. DependenciesFirst' /\ Listing' /\ Hashing' /\ Waiting' /\ RecordedOnce'
  BY DEF DependenciesFirst, Listing, Hashing, Waiting, WaitCoversSubmitted,
     Visible, RecordedOnce, Cached
<1>5. QED
  BY <1>1, <1>2, <1>3, <1>4

(* The record leaves the table, after the future. *)
LEMMA WipeInv == ASSUME IInv, NEW t \in Tasks, Wipe(t) PROVE IInv'
<1> USE DEF IInv, Wipe, Advance, WipeTask
<1>1. TypeOK'
  BY DEF TypeOK, PCs
<1>2. Control'
  BY DEF TypeOK, Control, Published, Visible, FinalStates, Succeeded
<1>3. Listing'
  BY DEF TypeOK, Control, Published, Listing, Visible, FinalStates
<1>4. Settling' /\ Recording'
  BY DEF TypeOK, Settling, Recording, Recorded, FileHoldsSuccesses, Visible
<1>5. DependenciesFirst' /\ Hashing' /\ Waiting' /\ RecordedOnce'
  BY DEF DependenciesFirst, Hashing, Waiting, WaitCoversSubmitted, Visible,
     RecordedOnce, Cached
<1>6. QED
  BY <1>1, <1>2, <1>3, <1>4, <1>5


(* wait_for_current_tasks is called. *)
LEMMA WaitBeginInv == ASSUME IInv, WaitBegin PROVE IInv'
<1> USE DEF IInv, WaitBegin
<1>1. TypeOK'
  BY DEF TypeOK
<1>2. Control' /\ DependenciesFirst' /\ Listing' /\ Hashing' /\ Recording' /\
        Settling' /\ Waiting' /\ RecordedOnce'
  BY DEF Control, Published, DependenciesFirst, Listing, Hashing, Recording,
     FileHoldsSuccesses, Visible, Settling, Waiting, WaitCoversSubmitted,
     RecordedOnce, FinalStates, Succeeded, Cached, Recorded
<1>3. QED
  BY <1>1, <1>2

(* It returns. *)
LEMMA WaitEndInv == ASSUME IInv, WaitEnd PROVE IInv'
<1> USE DEF IInv, WaitEnd
<1>1. TypeOK'
  BY DEF TypeOK, Visible
<1>2. Control' /\ DependenciesFirst' /\ Listing' /\ Hashing' /\ Recording' /\
        Settling' /\ Waiting' /\ RecordedOnce'
  BY DEF Control, Published, DependenciesFirst, Listing, Hashing, Recording,
     FileHoldsSuccesses, Visible, Settling, Waiting, WaitCoversSubmitted,
     RecordedOnce, FinalStates, Succeeded, Cached, Recorded
<1>3. QED
  BY <1>1, <1>2

(* cleanup() is called. *)
LEMMA CleanupBeginInv == ASSUME IInv, CleanupBegin PROVE IInv'
<1> USE DEF IInv, CleanupBegin
<1>1. TypeOK'
  BY DEF TypeOK
<1>2. Control' /\ DependenciesFirst' /\ Listing' /\ Hashing' /\ Recording' /\
        Settling' /\ Waiting' /\ RecordedOnce'
  BY DEF Control, Published, DependenciesFirst, Listing, Hashing, Recording,
     FileHoldsSuccesses, Visible, Settling, Waiting, WaitCoversSubmitted,
     RecordedOnce, FinalStates, Succeeded, Cached, Recorded
<1>3. QED
  BY <1>1, <1>2

(* cleanup() goes on. *)
LEMMA CleanupStepInv == ASSUME IInv, CleanupStep PROVE IInv'
<1> USE DEF IInv, CleanupStep, ExecutorsIdle
<1>1. TypeOK'
  BY DEF TypeOK
<1>2. Control' /\ DependenciesFirst' /\ Listing' /\ Hashing' /\ Recording' /\
        Settling' /\ Waiting' /\ RecordedOnce'
  BY DEF Control, Published, DependenciesFirst, Listing, Hashing, Recording,
     FileHoldsSuccesses, Visible, Settling, Waiting, WaitCoversSubmitted,
     RecordedOnce, FinalStates, Succeeded, Cached, Recorded
<1>3. QED
  BY <1>1, <1>2

(* A flush, successful or not, leaves only successes in the file and no    *)
(* task recorded twice.                                                    *)
LEMMA FlushKeeps ==
  ASSUME IInv, FlushQueue \/ FlushFails, UNCHANGED <<fut, hashed, pc>>
  PROVE  /\ file' \in Seq(Tasks) /\ queue' \in Seq(Tasks)
         /\ Recording'
         /\ RecordedOnce'
<1>1. file \in Seq(Tasks) /\ queue \in Seq(Tasks) /\ IsInjective(file \o queue)
  BY DEF IInv, TypeOK, RecordedOnce
<1>2. queue' = <<>> /\ Range(queue') = {}
  BY DEF FlushQueue, FlushFails, Range
<1>3. CASE FlushFails
  <2>1. file' = file
    BY <1>3 DEF FlushFails
  <2>2. IsInjective(file \o <<>>)
    <3>1. file \o <<>> = file
      BY <1>1, ConcatEmptySeq
    <3>2. IsInjective(file)
      <4> DEFINE w == file \o queue
      <4>1. /\ DOMAIN file \subseteq DOMAIN w
            /\ \A i \in DOMAIN file : w[i] = file[i]
        BY <1>1
      <4>2. QED
        BY <1>1, <4>1 DEF IsInjective
    <3>3. QED
      BY <3>1, <3>2
  <2>3. QED
    BY <1>1, <1>2, <2>1, <2>2 DEF IInv, Recording, Recorded,
       FileHoldsSuccesses, RecordedOnce, Visible
<1>4. CASE FlushQueue
  <2>1. /\ file' \in Seq(Tasks)
        /\ \A t \in Range(file') : t \in Range(file) \/ (t \in Range(queue) /\ Writable(t))
        /\ IsInjective(file' \o <<>>)
    BY <1>1, <1>4, Written DEF FlushQueue
  <2>2. FileHoldsSuccesses'
    BY <2>1 DEF IInv, Recording, FileHoldsSuccesses, Writable
  <2>3. Recorded' \subseteq Recorded
    BY <1>2, <2>1 DEF Recorded
  <2>4. Recording'
    BY <2>2, <2>3 DEF IInv, Recording, Visible
  <2>5. QED
    BY <1>2, <2>1, <2>4 DEF RecordedOnce
<1>5. QED
  BY <1>3, <1>4

(* checkpoint() is called. *)
LEMMA CheckpointInv == ASSUME IInv, Checkpoint PROVE IInv'
<1>1. /\ file' \in Seq(Tasks) /\ queue' \in Seq(Tasks)
      /\ Recording' /\ RecordedOnce'
  BY FlushKeeps DEF Checkpoint
<1> USE DEF IInv, Checkpoint
<1>2. TypeOK'
  BY <1>1 DEF TypeOK
<1>3. Control' /\ DependenciesFirst' /\ Listing' /\ Hashing' /\ Settling' /\
        Waiting'
  BY DEF Control, Published, Visible, FinalStates, Succeeded,
     DependenciesFirst, Listing, Hashing, Cached, Settling, Waiting,
     WaitCoversSubmitted
<1>4. QED
  BY <1>1, <1>2, <1>3

(* cleanup() flushes the queue, if there is a checkpoint mode. *)
LEMMA CleanupFlushInv == ASSUME IInv, CleanupFlush PROVE IInv'
<1>1. /\ file' \in Seq(Tasks) /\ queue' \in Seq(Tasks)
      /\ Recording' /\ RecordedOnce'
  <2>1. CASE UNCHANGED <<queue, file>>
    BY <2>1 DEF CleanupFlush, IInv, TypeOK, Recording, Recorded,
       FileHoldsSuccesses, Visible, RecordedOnce
  <2>2. CASE FlushQueue \/ FlushFails
    BY <2>2, FlushKeeps DEF CleanupFlush
  <2>3. QED
    BY <2>1, <2>2 DEF CleanupFlush
<1> USE DEF IInv, CleanupFlush
<1>2. TypeOK'
  BY <1>1 DEF TypeOK
<1>3. Control' /\ DependenciesFirst' /\ Listing' /\ Hashing' /\ Settling' /\
        Waiting'
  BY DEF Control, Published, Visible, FinalStates, Succeeded,
     DependenciesFirst, Listing, Hashing, Cached, Settling, Waiting,
     WaitCoversSubmitted
<1>4. QED
  BY <1>1, <1>2, <1>3

-----------------------------------------------------------------------------
(* A stuttering step. *)
LEMMA StutterInv == ASSUME IInv, UNCHANGED core PROVE IInv'
<1> USE DEF core, IInv
<1>1. TypeOK'
  BY DEF TypeOK
<1>2. Control' /\ DependenciesFirst' /\ Listing' /\ Hashing'
  BY DEF Control, Published, Visible, FinalStates, Succeeded,
     DependenciesFirst, Listing, Hashing, Cached
<1>3. Recording' /\ Settling' /\ Waiting' /\ RecordedOnce'
  BY DEF Recording, FileHoldsSuccesses, Visible, Published, Recorded,
     Succeeded, Settling, Cached, Waiting, WaitCoversSubmitted, RecordedOnce
<1>4. QED
  BY <1>1, <1>2, <1>3

(* IInv is inductive: whatever thread takes a step, it keeps IInv. *)
LEMMA NextInv == IInv /\ [Next]_core => IInv'
<1> SUFFICES ASSUME IInv, [Next]_core PROVE IInv'
  OBVIOUS
<1>1. ASSUME SubmitSteps PROVE IInv'
  BY <1>1, SubmitInv, RegisterInv, WatchDependencyInv, SubmitLaunchInv DEF
     SubmitSteps
<1>2. ASSUME NEW t \in Tasks, LaunchSteps(t) PROVE IInv'
  BY <1>2, SkipLaunchInv, LaunchDependencyFailureInv, LaunchMemoHitInv,
     LaunchSubmitInv, LaunchRefusedInv, LaunchUnhashableInv, AttachInv DEF
     LaunchSteps
<1>3. ASSUME NEW t \in Tasks, HandlerSteps(t) PROVE IInv'
  BY <1>3, HandleSuccessInv, HandleRetryInv, RecheckInv, HandleFailureInv,
     NotifyDependentInv, HandlerEndsInv DEF HandlerSteps
<1>4. ASSUME NEW t \in Tasks, PublishSteps(t) PROVE IInv'
  BY <1>4, EnterFinalStateInv, PublishFutureInv, InstallMemoInv,
     RecordTaskExitInv, RecordTaskExitFailsInv, RecordDeferredInv,
     RecordNothingInv, WipeInv
     DEF PublishSteps
<1>5. ASSUME CoreNext PROVE IInv'
  BY <1>1, <1>2, <1>3, <1>5, RunBodyInv, WaitBeginInv, WaitEndInv,
     CleanupBeginInv, CleanupStepInv DEF CoreNext
<1>6. CASE UNCHANGED core
  BY <1>6, StutterInv
<1>7. QED
  BY <1>4, <1>5, <1>6, CheckpointInv, CleanupFlushInv
     DEF Next

(* IInv holds in every reachable state of the kernel. *)
THEOREM Inductive == Spec => []IInv
  BY InitInv, NextInv, PTL DEF Spec

-----------------------------------------------------------------------------
(* What follows at every moment of every run. *)

(* Every variable of the kernel keeps its type. *)
THEOREM Typing == Spec => []TypeOK
  BY Inductive, PTL DEF IInv

(* Only the launch of a task makes the launch thread busy with it. *)
LEMMA LaunchesInspect ==
  ASSUME TypeOK, [Next]_core, NEW t \in Tasks, launcher # t, launcher' = t
  PROVE  Inspect(t)
<1>1. ASSUME NEW u \in Tasks, HandlerReturns(u) PROVE FALSE
  BY <1>1, NoneAssumption DEF HandlerReturns
<1>2. ASSUME NEW u \in Tasks, LaunchSteps(u) PROVE Inspect(t)
  <2>1. Inspect(u)
    BY <1>2, NoneAssumption DEF LaunchSteps, SkipLaunch,
       LaunchDependencyFailure, LaunchMemoHit, LaunchSubmit, LaunchRefused,
       LaunchUnhashable, MemoMiss, Attach
  <2>2. launcher' = u
    BY <2>1 DEF Inspect
  <2>3. QED
    BY <2>1, <2>2
<1>3. ~SubmitSteps
  BY DEF SubmitSteps, Submit, Register, WatchDependency, SubmitLaunch
<1>4. ASSUME NEW u \in Tasks, RunBody(u) \/ HandlerSteps(u) PROVE FALSE
  BY <1>1, <1>4 DEF RunBody, HandlerSteps, HandleSuccess, HandleRetry,
     Recheck, HandleFailure, NotifyDependent, HandlerEnds
<1>5. ASSUME NEW u \in Tasks, PublishSteps(u) PROVE FALSE
  BY <1>5 DEF PublishSteps, EnterFinalState, PublishFuture, InstallMemo,
     RecordTaskExit, RecordTaskExitFails, RecordDeferred, RecordNothing, Wipe
<1>6. ~(Checkpoint \/ CleanupFlush \/ UNCHANGED core)
  BY DEF Checkpoint, CleanupFlush, core
<1>7. ~(WaitBegin \/ WaitEnd \/ CleanupBegin \/ CleanupStep)
  BY DEF WaitBegin, WaitEnd, CleanupBegin, CleanupStep
<1>8. QED
  BY <1>2, <1>3, <1>4, <1>5, <1>6, <1>7 DEF Next, CoreNext

(* handle_exec_update of one attempt is over before the next attempt is    *)
(* launched, and a finished task is never launched: a task runs at most    *)
(* once at any time.                                                       *)
THEOREM NoDoubleRun == Spec => SingleAttempt
<1>1. ASSUME IInv, [Next]_core, NEW t \in Tasks, launcher # t, launcher' = t
      PROVE  pc[t] = "idle" /\ exec[t] = "none" /\ ~Visible(t)
  <2>1. Inspect(t)
    BY <1>1, LaunchesInspect DEF IInv
  <2>2. QED
    BY <1>1, <2>1, Inspected DEF Visible
<1>2. IInv /\ [Next]_core =>
        [\A t \in Tasks : launcher # t /\ launcher' = t =>
           pc[t] = "idle" /\ exec[t] = "none" /\ ~Visible(t)]_core
  BY <1>1
<1>3. QED
  BY <1>2, Inductive, PTL DEF Spec, SingleAttempt

(* No app body is given to an executor before all its dependencies have    *)
(* succeeded.                                                              *)
THEOREM DependencyOrder == Spec => []DependenciesFirst
  BY Inductive, PTL DEF IInv

(* When wait_for_current_tasks returns, the futures of all tasks submitted *)
(* before the call are done.                                               *)
THEOREM WaitIsComplete == Spec => []WaitCoversSubmitted
<1>1. IInv => WaitCoversSubmitted
  BY DEF IInv, Waiting
<1>2. QED
  BY <1>1, Inductive, PTL

(* However late the bookkeeping comes: dependents are notified with the    *)
(* memo settled, and checkpoint() has written each success at most once    *)
(* and nothing else.                                                       *)
THEOREM LateBookkeeping == Spec => []LateButComplete
<1>1. IInv => LateButComplete
  BY DEF IInv, Settling, Recording, LateButComplete, SettledAtLast
<1>2. QED
  BY <1>1, Inductive, PTL

=============================================================================
