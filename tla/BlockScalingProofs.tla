------------------------- MODULE BlockScalingProofs -------------------------
(***************************************************************************)
(* Proofs about BlockScaling for any number of blocks and tasks, any       *)
(* limits, every strategy and error handler and every fault.               *)
(*                                                                         *)
(* The invariant relates, for each block, what the executor has on record  *)
(* (the job ids, the status table and the simulated statuses that are laid *)
(* over the provider's reports) to the block's job in the scheduler.       *)
(***************************************************************************)
EXTENDS BlockScaling, FiniteSetTheorems, WellFoundedInduction, TLAPS

(* The states a job is really in. *)
JobsSeen == {"none", "PENDING", "RUNNING", "HELD", "COMPLETED", "FAILED", "CANCELLED"}

(* A block that was asked for has a status, and a simulated failure if its *)
(* launch failed; it has a job, and can have a manager, also when the      *)
(* scheduler took the job of a launch that failed.                         *)
Asked(b) ==
  /\ job[b] \in JobsSeen
  /\ b \in launched => job[b] # "none"
  /\ job[b] # "none" \/ mgr[b] # "none" => b <= counter
  /\ status[b] # "none" <=> b <= counter
  /\ b > counter => simulated[b] = "none"
  /\ b <= counter /\ b \notin launched =>
       simulated[b] \in {"FAILED", "MISSING"} /\ status[b] \in {"FAILED", "MISSING"}

(* A launched block has a simulated status only when it was scaled in, and *)
(* while its job is live it has a status that does not end it.             *)
Reported(b) ==
  /\ b \in launched => simulated[b] \in {"none", "SCALED_IN"}
  /\ status[b] = "SCALED_IN" <=> simulated[b] = "SCALED_IN"
  /\ status[b] = "SCALED_IN" => job[b] \notin Live
  /\ b \in launched /\ job[b] \in Live =>
       status[b] \in {"PENDING", "RUNNING", "HELD", "UNKNOWN"}

Recorded == \A b \in Blocks : Asked(b) /\ Reported(b)

(* Once the timer is joined nothing is launched any more, and what close   *)
(* is about to cancel are all the live jobs whose ids it has.              *)
Closing ==
  /\ joined => pc \in {"holding", "closed", "stuck"}
  /\ pc = "holding" /\ joined => LiveJobs \cap launched \subseteq victims

(* The initial blocks are the first ones. *)
Starting == first => counter = 0

IInv == TypeOK /\ Recorded /\ Closing /\ Starting

-----------------------------------------------------------------------------
(* A set of numbers that is not empty has a smallest one.                  *)
LEMMA MinExists == ASSUME NEW S \in SUBSET Nat, S # {} PROVE Min(S) \in S
<1> DEFINE R == {ss \in Nat \X Nat : ss[1] < ss[2]}
<1>1. IsWellFoundedOn(R, Nat)
  BY NatLessThanWellFounded DEF OpToRel
<1> HIDE DEF R
<1>2. PICK x \in S : \A y \in S : ~ (<<y, x>> \in R)
  BY <1>1, WFMin
<1>3. ASSUME NEW y \in S PROVE x <= y
  <2>1. x \in Nat /\ y \in Nat
    OBVIOUS
  <2>2. y < x => <<y, x>> \in R
    BY <2>1 DEF R
  <2>3. QED
    BY <1>2, <2>1, <2>2
<1>4. QED
  BY <1>3 DEF Min

(* Sets of blocks and of tasks are finite. *)
LEMMA BlocksFinite == ASSUME NEW S \in SUBSET Blocks PROVE IsFiniteSet(S) /\ Cardinality(S) \in Nat
<1>1. NumBlocks \in Int /\ 1 \in Int
  BY LimitsAssumption
<1>2. IsFiniteSet(Blocks)
  BY <1>1, FS_Interval DEF Blocks
<1>3. QED
  BY <1>2, FS_Subset, FS_CardinalityType

LEMMA TasksFinite ==
  ASSUME NEW S \in SUBSET Tasks PROVE IsFiniteSet(S) /\ Cardinality(S) \in 0..NumTasks
<1>1. NumTasks \in Int /\ 1 \in Int /\ NumTasks \in Nat
  BY LimitsAssumption
<1>2. IsFiniteSet(Tasks) /\ Cardinality(Tasks) = NumTasks
  BY <1>1, FS_Interval DEF Tasks
<1>3. IsFiniteSet(S) /\ Cardinality(S) <= Cardinality(Tasks)
  BY <1>2, FS_Subset
<1>4. Cardinality(S) \in Nat
  BY <1>3, FS_CardinalityType
<1>5. QED
  BY <1>1, <1>2, <1>3, <1>4

LEMMA BlockNumbers == \A b \in Blocks : b \in Nat /\ b > 0
  BY DEF Blocks

(* The next task that a loop fails is one that it has not met.             *)
LEMMA RestType ==
  ASSUME TypeOK, NEW c \in Callers, Rest(c) # {}
  PROVE  Min(Rest(c)) \in table /\ Min(Rest(c)) \in Tasks
<1>1. Rest(c) \subseteq table /\ table \subseteq Tasks
  BY DEF Rest, TypeOK
<1>2. Tasks \subseteq Nat
  BY DEF Tasks
<1>3. Min(Rest(c)) \in Rest(c)
  BY <1>1, <1>2, MinExists
<1>4. QED
  BY <1>1, <1>3

-----------------------------------------------------------------------------
(* Nothing is asked for yet. *)
LEMMA InitInv == Init => IInv
<1> SUFFICES ASSUME Init PROVE IInv
  OBVIOUS
<1> USE LimitsAssumption DEF Init
<1>1. TypeOK
  <2>1. counter \in 0..NumBlocks /\ launched \subseteq 1..counter
    OBVIOUS
  <2>2. cursor \in [Callers -> 0..NumTasks] /\ size \in [Callers -> 0..NumTasks]
    OBVIOUS
  <2>3. at \in [Tasks -> 0 .. NumBlocks + 2]
    BY DEF Nowhere
  <2>4. QED
    BY <2>1, <2>2, <2>3 DEF TypeOK, JobState
<1>2. ASSUME NEW b \in Blocks PROVE Asked(b) /\ Reported(b)
  <2>1. /\ job[b] = "none" /\ mgr[b] = "none" /\ status[b] = "none" /\ simulated[b] = "none"
        /\ counter = 0 /\ launched = {} /\ b \in Nat /\ b > 0
    BY DEF Blocks
  <2>2. QED
    BY <2>1 DEF Asked, Reported, Live, JobsSeen
<1>3. Closing /\ Starting
  BY DEF Closing, Starting
<1>4. QED
  BY <1>1, <1>2, <1>3 DEF IInv, Recorded

(* What the invariant says of a block's records does not change while the  *)
(* executor's tables, the jobs and the managers do not.                    *)
LEMMA RecordsKept ==
  ASSUME Recorded, UNCHANGED <<execVars, job, mgr>>
  PROVE  Recorded' /\ LiveJobs' = LiveJobs
<1>1. /\ counter' = counter /\ launched' = launched /\ status' = status
      /\ simulated' = simulated /\ job' = job /\ mgr' = mgr
  BY DEF execVars
<1>2. QED
  BY <1>1 DEF Recorded, Asked, Reported, LiveJobs

(* The tables are replaced by reports, with the simulated statuses on top. *)
LEMMA UpdateInv == ASSUME IInv, UpdateState PROVE IInv'
<1> USE DEF IInv
<1>1. PICK report \in [launched -> JobState] :
        /\ \A b \in launched : report[b] \in Reports(b)
        /\ status' = [b \in Blocks |->
             IF simulated'[b] # "none" THEN simulated'[b]
             ELSE IF b \in launched THEN Rewritten(report[b], b) ELSE "none"]
  BY DEF UpdateState
<1>2. simulated' = [b \in Blocks |-> Rewritten(simulated[b], b)]
  BY DEF UpdateState
<1>3. UNCHANGED <<setup, counter, launched, taskVars, loopVars, closing, joined, first, idle,
                  kill, victims, worldVars>> /\ pc = "asleep" /\ pc' = "handle"
  BY DEF UpdateState
<1>4. \A b \in Blocks : simulated'[b] = Rewritten(simulated[b], b)
  BY <1>2
<1>5. ASSUME NEW b \in Blocks
      PROVE  /\ Asked(b)' /\ Reported(b)'
             /\ status'[b] \in JobState \cup {"none"}
             /\ simulated'[b] \in {"none", "FAILED", "MISSING", "SCALED_IN"}
  <2>1. /\ Asked(b) /\ Reported(b) /\ simulated[b] \in {"none", "FAILED", "MISSING", "SCALED_IN"}
        /\ counter \in Nat /\ b \in Nat /\ launched \subseteq 1..counter
    BY BlockNumbers DEF Recorded, TypeOK
  <2>2. /\ simulated'[b] = Rewritten(simulated[b], b)
        /\ status'[b] = IF simulated'[b] # "none" THEN simulated'[b]
                        ELSE IF b \in launched THEN Rewritten(report[b], b) ELSE "none"
    BY <1>1, <1>4
  <2>3. b \in launched => report[b] \in {job[b], "UNKNOWN"}
    BY <1>1 DEF Reports
  <2>4. /\ Rewritten(simulated[b], b) \in {"none", "FAILED", "MISSING", "SCALED_IN"}
        /\ Rewritten(simulated[b], b) = "none" <=> simulated[b] = "none"
        /\ Rewritten(simulated[b], b) = "SCALED_IN" <=> simulated[b] = "SCALED_IN"
    BY <2>1 DEF Rewritten, TERMINAL_STATES
  <2>5. b \in launched =>
          /\ Rewritten(report[b], b) \in {"MISSING", job[b], "UNKNOWN"}
          /\ job[b] \in Live => Rewritten(report[b], b) \in {job[b], "UNKNOWN"}
    BY <2>3 DEF Rewritten, TERMINAL_STATES, Live
  <2>6. UNCHANGED <<counter, launched, job, mgr>>
    BY <1>3 DEF worldVars
  <2>7. Asked(b)'
    BY <2>1, <2>2, <2>4, <2>5, <2>6 DEF Asked, Reported, JobsSeen
  <2>8. Reported(b)'
    BY <2>1, <2>2, <2>4, <2>5, <2>6 DEF Asked, Reported, JobsSeen, Live
  <2>9. QED
    BY <2>1, <2>2, <2>4, <2>5, <2>7, <2>8 DEF Asked, JobsSeen, JobState, TERMINAL_STATES
<1>6. Recorded'
  BY <1>5 DEF Recorded
<1>7. /\ status' \in [Blocks -> JobState \cup {"none"}]
      /\ simulated' \in [Blocks -> {"none", "FAILED", "MISSING", "SCALED_IN"}]
  BY <1>1, <1>2, <1>5
<1>8. TypeOK'
  BY <1>3, <1>7 DEF TypeOK, taskVars, loopVars, worldVars
<1>9. Closing' /\ Starting'
  BY <1>3 DEF Closing, Starting
<1>10. QED
  BY <1>6, <1>8, <1>9

(* A loop of set_bad_state_and_fail_all fails tasks and nothing else.      *)
LEMMA FailNextType ==
  ASSUME TypeOK, NEW c \in Callers, FailNext(c)
  PROVE  /\ fut' \in [Tasks -> {"none", "checked", "pending", "done", "failed"}]
         /\ cursor' \in [Callers -> 0..NumTasks]
<1>1. Rest(c) # {}
  BY DEF FailNext, LoopRaises, LoopEnds
<1>2. PICK m : m = Min(Rest(c)) /\ m \in Tasks
  BY <1>1, RestType
<1>3. m \in 0..NumTasks
  BY <1>2 DEF Tasks
<1>4. fut' = [fut EXCEPT ![m] = "failed"] /\ cursor' = [cursor EXCEPT ![c] = m]
  BY <1>2 DEF FailNext
<1>5. QED
  BY <1>3, <1>4 DEF TypeOK

LEMMA BeginFailingType ==
  ASSUME TypeOK, NEW c \in Callers, BeginFailing(c)
  PROVE  /\ bad' = TRUE
         /\ cursor' \in [Callers -> 0..NumTasks]
         /\ size' \in [Callers -> 0..NumTasks]
<1>1. Cardinality(table) \in 0..NumTasks
  BY TasksFinite DEF TypeOK
<1>2. 0 \in 0..NumTasks
  BY LimitsAssumption
<1>3. QED
  BY <1>1, <1>2 DEF BeginFailing, TypeOK

(* The steps of the poller that neither launch nor cancel.                 *)
LEMMA PollInv ==
  ASSUME IInv, SkipUpdate \/ HandleErrors \/ PollerFails \/ StrategyWaits
  PROVE  IInv'
<1> USE DEF IInv
<1>1. /\ UNCHANGED <<execVars, table, receiver, closing, joined, first, kill, victims, worldVars>>
      /\ pc \in {"asleep", "handle", "failing", "strategize"}
      /\ pc' \in {"asleep", "handle", "failing", "strategize"}
  BY DEF SkipUpdate, HandleErrors, PollerFails, StrategyWaits, taskVars, loopVars
<1>2. Recorded' /\ LiveJobs' = LiveJobs
  BY <1>1, RecordsKept DEF worldVars
<1>3. Closing' /\ Starting'
  BY <1>1 DEF Closing, Starting, execVars
<1>4. idle' \in BOOLEAN
  BY DEF SkipUpdate, HandleErrors, PollerFails, StrategyWaits, TypeOK
<1>5. /\ bad' \in BOOLEAN
      /\ fut' \in [Tasks -> {"none", "checked", "pending", "done", "failed"}]
      /\ cursor' \in [Callers -> 0..NumTasks]
      /\ size' \in [Callers -> 0..NumTasks]
  <2>1. CASE SkipUpdate \/ StrategyWaits
    BY <2>1 DEF SkipUpdate, StrategyWaits, TypeOK, taskVars, loopVars
  <2>2. CASE HandleErrors
    BY <2>2, BeginFailingType DEF HandleErrors, TypeOK, loopVars, Callers
  <2>3. CASE PollerFails
    BY <2>3, FailNextType DEF PollerFails, TypeOK, Callers
  <2>4. QED
    BY <2>1, <2>2, <2>3
<1>6. TypeOK'
  BY <1>1, <1>4, <1>5 DEF TypeOK, execVars, worldVars
<1>7. QED
  BY <1>2, <1>3, <1>6

-----------------------------------------------------------------------------
(* Launching. *)

(* k new blocks get the next numbers; those whose launch fails have no id, *)
(* and some of them a job.                                                 *)
LEMMA ScaleOutInv ==
  ASSUME IInv, NEW n \in Nat, ScaleOut(n), UNCHANGED mgr
  PROVE  /\ Recorded'
         /\ counter' \in 0..NumBlocks /\ launched' \subseteq 1..counter'
         /\ status' \in [Blocks -> JobState \cup {"none"}]
         /\ simulated' \in [Blocks -> {"none", "FAILED", "MISSING", "SCALED_IN"}]
         /\ job' \in [Blocks -> JobState \cup {"none"}]
         /\ counter <= counter' /\ counter' <= counter + n
         /\ LiveJobs' \subseteq LiveJobs \cup (counter + 1 .. counter')
         /\ \A b \in Blocks : b <= counter => status'[b] = status[b]
<1> USE DEF IInv
<1> DEFINE k == IF n <= NumBlocks - counter THEN n ELSE NumBlocks - counter
           new == counter + 1 .. counter + k
<1>1. PICK failed \in SUBSET new, orphans \in SUBSET new :
        /\ orphans \subseteq failed
        /\ counter' = counter + k
        /\ launched' = launched \cup (new \ failed)
        /\ status' = [b \in Blocks |-> IF b \in failed THEN "FAILED"
                                       ELSE IF b \in new THEN "PENDING" ELSE status[b]]
        /\ simulated' = [b \in Blocks |-> IF b \in failed THEN "FAILED" ELSE simulated[b]]
        /\ job' = [b \in Blocks |-> IF b \in (new \ failed) \cup orphans THEN "PENDING"
                                    ELSE job[b]]
  BY DEF ScaleOut
<1>2. counter \in 0..NumBlocks /\ NumBlocks \in Nat /\ launched \subseteq 1..counter
  BY LimitsAssumption DEF TypeOK
<1>3. k \in Nat /\ counter + k <= NumBlocks /\ k <= n /\ counter \in Nat
  BY <1>2
<1> HIDE DEF k
<1>4. /\ counter' \in 0..NumBlocks /\ launched' \subseteq 1..counter'
      /\ counter <= counter' /\ counter' <= counter + n
  BY <1>1, <1>2, <1>3
<1>5. ASSUME NEW b \in Blocks
      PROVE  /\ Asked(b)' /\ Reported(b)'
             /\ job'[b] \in Live => job[b] \in Live \/ b \in new
             /\ b <= counter => status'[b] = status[b]
  <2>1. Asked(b) /\ Reported(b) /\ b \in Nat
    BY BlockNumbers DEF Recorded
  <2>2. /\ status'[b] = IF b \in failed THEN "FAILED"
                        ELSE IF b \in new THEN "PENDING" ELSE status[b]
        /\ simulated'[b] = IF b \in failed THEN "FAILED" ELSE simulated[b]
        /\ job'[b] = IF b \in (new \ failed) \cup orphans THEN "PENDING" ELSE job[b]
    BY <1>1
  <2>3. /\ b \in new <=> b > counter /\ b <= counter'
        /\ b \in launched => b <= counter
        /\ b \in launched' <=> b \in launched \/ b \in new \ failed
        /\ b \in failed => b \in new
        /\ b \in orphans => b \in failed
        /\ counter \in Nat /\ counter' \in Nat /\ counter <= counter'
    BY <1>1, <1>2, <1>3, <2>1
  <2> HIDE DEF new
  <2>4. CASE b \in failed
    BY <2>1, <2>2, <2>3, <2>4 DEF Asked, Reported, Live, JobsSeen
  <2>5. CASE b \in new \ failed
    BY <2>1, <2>2, <2>3, <2>5 DEF Asked, Reported, Live, JobsSeen
  <2>6. CASE b \notin new
    BY <2>1, <2>2, <2>3, <2>6 DEF Asked, Reported, Live, JobsSeen
  <2>7. QED
    BY <2>4, <2>5, <2>6
<1>6. Recorded'
  BY <1>5 DEF Recorded
<1>7. LiveJobs' \subseteq LiveJobs \cup (counter + 1 .. counter')
  BY <1>1, <1>5 DEF LiveJobs
<1>8. /\ status' \in [Blocks -> JobState \cup {"none"}]
      /\ simulated' \in [Blocks -> {"none", "FAILED", "MISSING", "SCALED_IN"}]
      /\ job' \in [Blocks -> JobState \cup {"none"}]
  BY <1>1 DEF TypeOK, JobState, TERMINAL_STATES
<1>9. QED
  BY <1>4, <1>5, <1>6, <1>7, <1>8

LEMMA CeilDivType == ASSUME NEW a \in Nat, NEW b \in Nat \ {0} PROVE CeilDiv(a, b) \in Nat
  BY DEF CeilDiv

LEMMA ActiveType == ActiveBlocks \in Nat
  BY BlocksFinite DEF ActiveBlocks, Known

(* Case 2b asks for at most as many blocks as the limit leaves.            *)
LEMMA AddType ==
  ASSUME TypeOK, ScalesOut, Overloaded
  PROVE  BlocksToAdd \in Nat /\ BlocksToAdd <= MaxBlocks - ActiveBlocks
<1> DEFINE x == ActiveTasks * Num
           y == ActiveSlots * Den
           c == CeilDiv(CeilDiv(x - y, Den), Slots)
<1>1. /\ Slots \in Nat \ {0} /\ MaxBlocks \in Nat
      /\ Num \in Nat /\ Den \in Nat \ {0}
  BY LimitsAssumption DEF Num, Den
<1>2. ActiveBlocks \in Nat /\ ActiveTasks \in Nat
  BY ActiveType, TasksFinite DEF ActiveTasks, TypeOK
<1>3. ActiveSlots \in Nat
  BY <1>1, <1>2 DEF ActiveSlots
<1>4. x \in Nat /\ y \in Nat
  BY <1>1, <1>2, <1>3
<1>5. y < x /\ ActiveBlocks < MaxBlocks
  BY DEF Overloaded, ScalesOut
<1> HIDE DEF x, y
<1>6. x - y \in Nat
  BY <1>4, <1>5
<1>7. c \in Nat
  BY <1>1, <1>6, CeilDivType
<1>8. BlocksToAdd = SmallerOf(c, MaxBlocks - ActiveBlocks)
  BY DEF BlocksToAdd, x, y
<1> HIDE DEF c
<1>9. QED
  BY <1>1, <1>2, <1>5, <1>7, <1>8 DEF SmallerOf

(* How much a strategy asks for. *)
Asking(n) ==
  \/ StrategizeFirst /\ n = InitBlocks
  \/ StrategyScalesOut /\ n = IF Overloaded THEN BlocksToAdd ELSE 1

LEMMA AskingType ==
  ASSUME IInv, NEW n, Asking(n)
  PROVE  n \in Nat /\ ScaleOut(n) /\ UNCHANGED mgr
<1>1. CASE StrategizeFirst /\ n = InitBlocks
  BY <1>1, LimitsAssumption DEF StrategizeFirst
<1>2. CASE StrategyScalesOut /\ n = IF Overloaded THEN BlocksToAdd ELSE 1
  <2>1. TypeOK /\ ScalesOut
    BY <1>2 DEF StrategyScalesOut, IInv
  <2>2. n \in Nat
    BY <1>2, <2>1, AddType
  <2>3. QED
    BY <1>2, <2>2 DEF StrategyScalesOut
<1>3. QED
  BY <1>1, <1>2 DEF Asking

LEMMA LaunchInv == ASSUME IInv, NEW n, Asking(n) PROVE IInv'
<1> USE DEF IInv
<1>1. /\ UNCHANGED <<setup, taskVars, loopVars, closing, joined, kill, victims, interchange, mgr, at>>
      /\ pc = "strategize" /\ pc' \in {"strategize", "asleep"}
      /\ first' = FALSE /\ idle' \in BOOLEAN
  BY DEF Asking, StrategizeFirst, StrategyScalesOut, TypeOK
<1>2. /\ Recorded'
      /\ counter' \in 0..NumBlocks /\ launched' \subseteq 1..counter'
      /\ status' \in [Blocks -> JobState \cup {"none"}]
      /\ simulated' \in [Blocks -> {"none", "FAILED", "MISSING", "SCALED_IN"}]
      /\ job' \in [Blocks -> JobState \cup {"none"}]
  BY AskingType, ScaleOutInv
<1>3. TypeOK'
  BY <1>1, <1>2 DEF TypeOK, taskVars, loopVars
<1>4. Closing' /\ Starting'
  BY <1>1 DEF Closing, Starting
<1>5. QED
  BY <1>2, <1>3, <1>4

-----------------------------------------------------------------------------
(* Giving blocks back. *)

(* Only blocks are selected; and when as many are asked for as the table   *)
(* has, every block that is not over is.                                   *)
LEMMA SelectionType ==
  ASSUME NEW n, NEW l, NEW K \in Selection(n, l) PROVE K \subseteq Blocks
<1>1. NonTerminal \subseteq Blocks /\ Candidates \subseteq Blocks
  BY DEF NonTerminal, Candidates
<1>2. \A C \in SUBSET Blocks : FirstOf(n, C) \subseteq SUBSET Blocks
  BY DEF FirstOf
<1>3. \A J \in IdleSets : J \subseteq Blocks
  BY <1>1 DEF IdleSets
<1>4. CASE ~setup.htex
  BY <1>1, <1>4 DEF Selection
<1>5. CASE setup.htex /\ ~l
  BY <1>1, <1>2, <1>5 DEF Selection
<1>6. CASE setup.htex /\ l
  <2>1. PICK J \in IdleSets : K \in IF n > 0 THEN FirstOf(n, J) ELSE {J}
    BY <1>6 DEF Selection
  <2>2. QED
    BY <1>2, <1>3, <2>1
<1>7. QED
  BY <1>4, <1>5, <1>6

LEMMA AllOf ==
  ASSUME NEW C \in SUBSET Blocks, NEW K \in SUBSET C, NEW n \in Nat, Cardinality(C) <= n,
         Cardinality(K) = SmallerOf(n, Cardinality(C))
  PROVE  K = C
<1>1. IsFiniteSet(C) /\ Cardinality(C) \in Nat
  BY BlocksFinite
<1>2. Cardinality(K) = Cardinality(C)
  BY <1>1 DEF SmallerOf
<1>3. QED
  BY <1>1, <1>2, FS_Subset

LEMMA SelectsAll ==
  ASSUME IInv, NEW K \in Selection(Cardinality({b \in Blocks : status[b] # "none"}), FALSE)
  PROVE  NonTerminal \subseteq K
<1> DEFINE A == {b \in Blocks : status[b] # "none"}
           n == Cardinality(A)
<1>1. NonTerminal \subseteq A
  BY DEF NonTerminal
<1>2. Candidates \subseteq A
  <2>1. ASSUME NEW b \in Blocks, mgr[b] = "active" PROVE status[b] # "none"
    <3>1. b <= counter
      BY <2>1 DEF IInv, Recorded, Asked
    <3>2. QED
      BY <3>1 DEF IInv, Recorded, Asked
  <2>2. QED
    BY <1>1, <2>1 DEF Candidates
<1>3. IsFiniteSet(A) /\ n \in Nat /\ A \subseteq Blocks
  BY BlocksFinite
<1>4. Cardinality(NonTerminal) <= n /\ Cardinality(Candidates) <= n
  BY <1>1, <1>2, <1>3, FS_Subset
<1>5. CASE ~setup.htex
  <2>1. K \subseteq NonTerminal /\ Cardinality(K) = SmallerOf(n, Cardinality(NonTerminal))
    BY <1>5 DEF Selection
  <2>2. QED
    BY <1>1, <1>3, <1>4, <2>1, AllOf
<1>6. CASE setup.htex
  <2>1. K \subseteq Candidates /\ Cardinality(K) = SmallerOf(n, Cardinality(Candidates))
    BY <1>6 DEF Selection, FirstOf
  <2>2. K = Candidates
    BY <1>2, <1>3, <1>4, <2>1, AllOf
  <2>3. QED
    BY <2>2 DEF Candidates
<1>7. QED
  BY <1>5, <1>6

(* A live job whose id is known belongs to a block that is not over; the   *)
(* block of any other has been asked for and is on record as failed.       *)
LEMMA LiveIsOpen ==
  ASSUME Recorded
  PROVE  /\ LiveJobs \cap launched \subseteq NonTerminal
         /\ \A b \in LiveJobs : b <= counter
         /\ \A b \in LiveJobs \ launched : simulated[b] \in {"FAILED", "MISSING"}
  BY DEF Recorded, Asked, Reported, LiveJobs, NonTerminal, Live, TERMINAL_STATES

(* Blocks are selected, by a strategy or by close.                         *)
LEMMA SelectInv == ASSUME IInv, StrategyScalesIn \/ JoinTimer PROVE IInv'
<1> USE DEF IInv
<1>1. UNCHANGED <<setup, execVars, taskVars, loopVars, closing, first, worldVars>>
  BY DEF StrategyScalesIn, JoinTimer
<1>2. Recorded' /\ LiveJobs' = LiveJobs
  BY <1>1, RecordsKept DEF worldVars
<1>3. victims' \subseteq Blocks /\ kill' \subseteq victims'
      /\ pc' \in {"holding", "closed"} /\ idle' \in BOOLEAN /\ joined' \in BOOLEAN
  BY SelectionType DEF StrategyScalesIn, JoinTimer, BeginScaleIn, TypeOK
<1>4. TypeOK'
  BY <1>1, <1>3 DEF TypeOK, execVars, taskVars, loopVars, worldVars
<1>5. Closing'
  <2>1. CASE StrategyScalesIn
    BY <2>1 DEF StrategyScalesIn, Closing
  <2>2. CASE JoinTimer
    <3>1. CASE bad
      BY <2>2, <3>1 DEF JoinTimer, Closing
    <3>2. CASE ~bad
      <4>1. NonTerminal \subseteq victims' /\ pc' = "holding"
        BY <2>2, <3>2, SelectsAll DEF JoinTimer, BeginScaleIn
      <4>2. launched' = launched
        BY <1>1 DEF execVars
      <4>3. QED
        BY <1>2, <4>1, <4>2, LiveIsOpen DEF Closing
    <3>3. QED
      BY <3>1, <3>2
  <2>3. QED
    BY <2>1, <2>2
<1>6. Starting'
  BY <1>1 DEF Starting, execVars
<1>7. QED
  BY <1>2, <1>4, <1>5, <1>6

(* The rest of a scaling in that cancels nothing: holding blocks, a cancel *)
(* that raises, a command that hangs, and the beginning of close.          *)
LEMMA HoldInv == ASSUME IInv, NEW b \in Blocks, HoldBlock(b) PROVE IInv'
<1> USE DEF IInv
<1>1. UNCHANGED <<setup, execVars, taskVars, loopVars, pc, closing, joined, first, idle, victims, job,
                interchange, at>>
      /\ kill' \subseteq kill /\ mgr' = [mgr EXCEPT ![b] = IF @ = "active" THEN "held" ELSE @]
  BY DEF HoldBlock
<1>2. ASSUME NEW c \in Blocks PROVE mgr'[c] # "none" <=> mgr[c] # "none"
  BY <1>1 DEF TypeOK
<1>3. Recorded'
  BY <1>1, <1>2 DEF Recorded, Asked, Reported, execVars
<1>4. mgr' \in [Blocks -> {"none", "active", "held", "gone"}]
  BY <1>1 DEF TypeOK
<1>5. TypeOK'
  BY <1>1, <1>4 DEF TypeOK, execVars, taskVars, loopVars
<1>6. Closing' /\ Starting'
  BY <1>1 DEF Closing, Starting, execVars, LiveJobs
<1>7. QED
  BY <1>3, <1>5, <1>6

LEMMA GiveUpInv == ASSUME IInv, CancelRaises \/ CommandHangs \/ Close PROVE IInv'
<1> USE DEF IInv
<1>1. /\ UNCHANGED <<setup, execVars, taskVars, loopVars, joined, first, idle, kill, worldVars>>
      /\ closing' \in BOOLEAN
      /\ victims' \in {{}, victims} /\ (kill # {} => victims' = victims)
      /\ pc' \in {"asleep", "handle", "failing", "strategize", "holding", "stuck", "closed"}
      /\ pc' = "holding" => pc = "holding" /\ victims' = victims
      /\ joined => pc' \in {"holding", "closed", "stuck"}
  BY DEF CancelRaises, CommandHangs, Close, TypeOK, Closing
<1>2. Recorded' /\ LiveJobs' = LiveJobs
  BY <1>1, RecordsKept DEF worldVars
<1>3. victims' \subseteq Blocks /\ kill' \subseteq victims'
  BY <1>1 DEF TypeOK
<1>4. TypeOK'
  BY <1>1, <1>3 DEF TypeOK, execVars, taskVars, loopVars, worldVars
<1>5. Closing' /\ Starting'
  BY <1>1, <1>2 DEF Closing, Starting, execVars
<1>6. QED
  BY <1>2, <1>4, <1>5

(* What was cancelled is recorded as scaled in and its job has ended.      *)
LEMMA CancelInv == ASSUME IInv, Cancel PROVE IInv'
<1> USE DEF IInv
<1>1. PICK killed \in SUBSET (victims \cap launched) :
        /\ job' = [b \in Blocks |->
                    IF b \in killed /\ job[b] \in Live THEN "CANCELLED" ELSE job[b]]
        /\ status' = [b \in Blocks |-> IF b \in killed THEN "SCALED_IN" ELSE status[b]]
        /\ simulated' = [b \in Blocks |-> IF b \in killed THEN "SCALED_IN" ELSE simulated[b]]
  BY DEF Cancel
<1>2. /\ UNCHANGED <<setup, counter, launched, taskVars, loopVars, closing, joined, first,
                     idle, kill, interchange, mgr, at>>
      /\ pc = "holding" /\ kill = {} /\ victims' = {}
      /\ pc' = IF joined THEN "closed" ELSE "asleep"
  BY DEF Cancel
<1>3. ASSUME NEW b \in Blocks PROVE Asked(b)' /\ Reported(b)'
  <2>1. /\ Asked(b) /\ Reported(b) /\ b \in Nat /\ counter \in Nat
        /\ b \in launched => b <= counter
    BY BlockNumbers DEF Recorded, TypeOK
  <2>2. /\ job'[b] = IF b \in killed /\ job[b] \in Live THEN "CANCELLED" ELSE job[b]
        /\ status'[b] = IF b \in killed THEN "SCALED_IN" ELSE status[b]
        /\ simulated'[b] = IF b \in killed THEN "SCALED_IN" ELSE simulated[b]
    BY <1>1
  <2>3. CASE b \in killed
    BY <1>1, <1>2, <2>1, <2>2, <2>3 DEF Asked, Reported, Live, JobsSeen
  <2>4. CASE b \notin killed
    BY <1>2, <2>1, <2>2, <2>4 DEF Asked, Reported
  <2>5. QED
    BY <2>3, <2>4
<1>4. Recorded'
  BY <1>3 DEF Recorded
<1>5. /\ status' \in [Blocks -> JobState \cup {"none"}]
      /\ simulated' \in [Blocks -> {"none", "FAILED", "MISSING", "SCALED_IN"}]
      /\ job' \in [Blocks -> JobState \cup {"none"}]
  BY <1>1 DEF TypeOK, JobState, TERMINAL_STATES
<1>6. TypeOK'
  BY <1>2, <1>5 DEF TypeOK, taskVars, loopVars
<1>7. Closing' /\ Starting'
  BY <1>2 DEF Closing, Starting
<1>8. QED
  BY <1>4, <1>6, <1>7

-----------------------------------------------------------------------------
(* Tasks, jobs and managers. *)

LEMMA TaskInv == ASSUME IInv, TaskNext PROVE IInv'
<1> USE DEF IInv
<1>1. UNCHANGED <<setup, execVars, pollVars, job, interchange, mgr>>
  BY DEF TaskNext, SubmitChecks, SubmitEnters, Receive, Finish, ReceiverEnds, ReceiveMismatch, ReceiverFails,
         Dispatch, worldVars
<1>2. Recorded' /\ LiveJobs' = LiveJobs
  BY <1>1, RecordsKept
<1>3. Closing' /\ Starting'
  BY <1>1, <1>2 DEF Closing, Starting, execVars, pollVars
<1>4. /\ bad' \in BOOLEAN /\ table' \subseteq Tasks
      /\ fut' \in [Tasks -> {"none", "checked", "pending", "done", "failed"}]
      /\ receiver' \in {"up", "failing", "ended"}
      /\ cursor' \in [Callers -> 0..NumTasks] /\ size' \in [Callers -> 0..NumTasks]
      /\ at' \in [Tasks -> 0 .. NumBlocks + 2]
  <2>1. ASSUME NEW t \in Tasks, SubmitChecks(t) \/ SubmitEnters(t) \/ Receive(t) \/ Finish(t)
        PROVE <1>4!:
    <3>1. Queue \in 0 .. NumBlocks + 2 /\ Answers \in 0 .. NumBlocks + 2 /\ Nowhere \in 0 .. NumBlocks + 2
      BY LimitsAssumption DEF Queue, Answers, Nowhere
    <3>2. CASE SubmitChecks(t)
      BY <3>2 DEF SubmitChecks, TypeOK, loopVars, worldVars
    <3>3. CASE SubmitEnters(t)
      BY <3>1, <3>3 DEF SubmitEnters, TypeOK, loopVars
    <3>4. CASE Receive(t)
      BY <3>1, <3>4 DEF Receive, TypeOK, loopVars
    <3>5. CASE Finish(t)
      BY <3>1, <3>5 DEF Finish, TypeOK, taskVars, loopVars
    <3>6. QED
      BY <2>1, <3>2, <3>3, <3>4, <3>5
  <2>2. CASE ReceiverEnds
    BY <2>2 DEF ReceiverEnds, TypeOK, loopVars, worldVars
  <2>3. CASE ReceiveMismatch
    BY <2>3, BeginFailingType DEF ReceiveMismatch, TypeOK, worldVars, Callers
  <2>4. CASE ReceiverFails
    BY <2>4, FailNextType DEF ReceiverFails, TypeOK, worldVars, Callers
  <2>5. ASSUME NEW t \in Tasks, NEW b \in Blocks, Dispatch(t, b) PROVE <1>4!:
    <3>1. b \in 0 .. NumBlocks + 2
      BY LimitsAssumption DEF Blocks
    <3>2. QED
      BY <2>5, <3>1 DEF Dispatch, TypeOK, taskVars, loopVars
  <2>6. QED
    BY <2>1, <2>2, <2>3, <2>4, <2>5 DEF TaskNext
<1>5. TypeOK'
  BY <1>1, <1>4 DEF TypeOK, execVars, pollVars
<1>6. QED
  BY <1>2, <1>3, <1>5

LEMMA WorldInv ==
  ASSUME IInv, NEW b \in Blocks, JobMoves(b) \/ Register(b) \/ Expire(b) \/ InterchangeEnds
  PROVE  IInv'
<1> USE DEF IInv
<1>1. UNCHANGED <<setup, execVars, taskVars, loopVars, pollVars>>
  BY DEF JobMoves, Register, Expire, InterchangeEnds
<1>2. /\ interchange' \in {"up", "ended"}
      /\ job' \in [Blocks -> JobState \cup {"none"}]
      /\ mgr' \in [Blocks -> {"none", "active", "held", "gone"}]
      /\ at' \in [Tasks -> 0 .. NumBlocks + 2]
      /\ \A c \in Blocks :
        /\ job'[c] \in JobsSeen
        /\ job'[c] = job[c] \/ job[c] \in Live
        /\ job[c] # "none" <=> job'[c] # "none"
        /\ mgr'[c] # "none" => mgr[c] # "none" \/ job[c] = "RUNNING"
  <2>1. \A c \in Blocks : job[c] \in JobsSeen
    BY DEF Recorded, Asked
  <2>2. CASE JobMoves(b)
    <3>1. UNCHANGED <<interchange, mgr, at>>
      BY <2>2 DEF JobMoves
    <3>2. PICK s \in {"RUNNING", "COMPLETED", "FAILED", "HELD", "PENDING"} :
            job' = [job EXCEPT ![b] = s] /\ job[b] \in Live
      BY <2>2 DEF JobMoves, Live
    <3>3. job' \in [Blocks -> JobState \cup {"none"}]
      BY <3>2 DEF TypeOK, JobState, TERMINAL_STATES
    <3>4. QED
      BY <2>1, <3>1, <3>2, <3>3 DEF TypeOK, JobsSeen, Live
  <2>3. CASE Register(b)
    BY <2>1, <2>3 DEF Register, TypeOK
  <2>4. CASE Expire(b)
    <3>1. Answers \in 0 .. NumBlocks + 2
      BY LimitsAssumption DEF Answers
    <3>2. UNCHANGED <<job, interchange>> /\ mgr' = [mgr EXCEPT ![b] = "gone"] /\ mgr[b] # "none"
      BY <2>4 DEF Expire
    <3>3. at' \in [Tasks -> 0 .. NumBlocks + 2]
      BY <2>4, <3>1 DEF Expire, TypeOK
    <3>4. QED
      BY <2>1, <3>2, <3>3 DEF TypeOK
  <2>5. CASE InterchangeEnds
    BY <2>1, <2>5 DEF InterchangeEnds, TypeOK
  <2>6. QED
    BY <2>2, <2>3, <2>4, <2>5
<1>3. Recorded'
  <2>1. SUFFICES ASSUME NEW c \in Blocks PROVE Asked(c)' /\ Reported(c)'
    BY DEF Recorded
  <2>2. Asked(c) /\ Reported(c)
    BY DEF Recorded
  <2>3. QED
    BY <1>1, <1>2, <2>2 DEF Asked, Reported, execVars
<1>4. LiveJobs' \subseteq LiveJobs
  BY <1>2 DEF LiveJobs
<1>5. TypeOK'
  BY <1>1, <1>2 DEF TypeOK, execVars, taskVars, loopVars, pollVars
<1>6. Closing' /\ Starting'
  BY <1>1, <1>4 DEF Closing, Starting, execVars, pollVars
<1>7. QED
  BY <1>3, <1>5, <1>6

-----------------------------------------------------------------------------
(* Every step keeps the invariant.                                         *)
LEMMA NextInv == IInv /\ [Next]_vars => IInv'
<1> SUFFICES ASSUME IInv, [Next]_vars PROVE IInv'
  OBVIOUS
<1>1. CASE UNCHANGED vars
  <2>1. UNCHANGED <<execVars, taskVars, loopVars, pollVars, worldVars>>
    BY <1>1 DEF vars
  <2>2. Recorded' /\ LiveJobs' = LiveJobs
    BY <2>1, RecordsKept DEF IInv, worldVars
  <2>3. QED
    BY <2>1, <2>2 DEF IInv, TypeOK, Closing, Starting, execVars, taskVars, loopVars, pollVars,
                      worldVars
<1>2. CASE PollerNext
  <2>1. ASSUME StrategizeFirst \/ StrategyScalesOut PROVE IInv'
    BY <2>1, LaunchInv DEF Asking
  <2>2. QED
    BY <1>2, <2>1, UpdateInv, PollInv, SelectInv, HoldInv, CancelInv, GiveUpInv DEF PollerNext
<1>3. CASE Close
  BY <1>3, GiveUpInv
<1>4. CASE TaskNext
  BY <1>4, TaskInv
<1>5. CASE WorldNext
  <2>1. CASE InterchangeEnds
    <3>1. PICK b \in Blocks : job[b] = "RUNNING"
      BY <2>1 DEF InterchangeEnds
    <3>2. QED
      BY <2>1, <3>1, WorldInv
  <2>2. QED
    BY <1>5, <2>1, WorldInv DEF WorldNext
<1>6. QED
  BY <1>1, <1>2, <1>3, <1>4, <1>5 DEF Next

(* The invariant holds in every state, with any limits, strategy, error    *)
(* handler and fault.                                                      *)
THEOREM Inductive == Spec => []IInv
  BY InitInv, NextInv, PTL DEF Spec

(* A job that runs or waits, and whose launch gave the executor its id, is *)
(* never lost: its block keeps the id and an open status through failed    *)
(* launches of others, failed cancellations and stale reports, and close   *)
(* selects every one of them (scale_out_facade, scale_in_facade,           *)
(* poll_facade, close_poller).  Any other live job is one the scheduler    *)
(* took from a launch that failed, and its block is on record as failed.   *)
THEOREM JobsKept == Spec => []NoJobForgotten
<1>1. IInv => NoJobForgotten
  BY LiveIsOpen DEF IInv, Closing, NoJobForgotten
<1>2. QED
  BY <1>1, Inductive, PTL

-----------------------------------------------------------------------------
(* The status of a block that was scaled in, or never launched, is final.  *)

LEMMA ScaleOutFinal ==
  ASSUME IInv, NEW n, Asking(n), NEW b \in Blocks
  PROVE  /\ status[b] = "SCALED_IN" => status'[b] = "SCALED_IN"
         /\ status[b] # "none" /\ b \notin launched => status'[b] \in {"FAILED", "MISSING"}
<1>1. Recorded' /\ counter' \in Nat /\ counter \in Nat /\ counter <= counter' /\ b \in Nat
  BY AskingType, ScaleOutInv, BlockNumbers DEF IInv, TypeOK
<1>2. Asked(b) /\ Reported(b) /\ Asked(b)' /\ Reported(b)'
  BY <1>1 DEF IInv, Recorded
<1>3. b <= counter => status'[b] = status[b]
  BY AskingType, ScaleOutInv
<1>4. QED
  BY <1>2, <1>3 DEF Asked

(* poll_facade replaces the status table, but not what was recorded of a   *)
(* block that was scaled in or could not be launched.                      *)
THEOREM Finality == Spec => RecordedIsFinal
<1> DEFINE Kept == \A b \in Blocks :
             /\ status[b] = "SCALED_IN" => status'[b] = "SCALED_IN"
             /\ status[b] # "none" /\ b \notin launched => status'[b] \in {"FAILED", "MISSING"}
<1>1. ASSUME IInv, IInv', Next PROVE Kept
  <2> SUFFICES ASSUME NEW b \in Blocks
               PROVE  /\ status[b] = "SCALED_IN" => status'[b] = "SCALED_IN"
                      /\ status[b] # "none" /\ b \notin launched =>
                           status'[b] \in {"FAILED", "MISSING"}
    OBVIOUS
  <2>1. Asked(b) /\ Reported(b) /\ Asked(b)' /\ Reported(b)'
    BY <1>1 DEF IInv, Recorded
  <2>2. CASE status' = status
    BY <2>1, <2>2 DEF Asked
  <2>3. CASE UpdateState
    <3>1. launched' = launched /\ counter' = counter
          /\ simulated' = [c \in Blocks |-> Rewritten(simulated[c], c)]
      BY <2>3 DEF UpdateState
    <3>2. simulated[b] = "SCALED_IN" => simulated'[b] = "SCALED_IN"
      BY <3>1 DEF Rewritten
    <3>3. QED
      BY <2>1, <3>1, <3>2 DEF Asked, Reported
  <2>4. CASE \E n : Asking(n)
    BY <1>1, <2>4, ScaleOutFinal
  <2>5. CASE Cancel
    <3>1. launched' = launched /\ status'[b] \in {status[b], "SCALED_IN"}
      BY <2>5 DEF Cancel
    <3>2. \E killed \in SUBSET launched :
            status' = [c \in Blocks |-> IF c \in killed THEN "SCALED_IN" ELSE status[c]]
      BY <2>5 DEF Cancel
    <3>3. b \notin launched => status'[b] = status[b]
      BY <3>2
    <3>4. QED
      BY <2>1, <3>1, <3>3 DEF Asked
  <2>6. \/ status' = status \/ UpdateState \/ Cancel \/ \E n : Asking(n)
    <3>1. CASE PollerNext
      BY <3>1 DEF PollerNext, SkipUpdate, HandleErrors, PollerFails, StrategyScalesIn,
                  StrategyWaits, HoldBlock, CancelRaises, CommandHangs, JoinTimer, execVars, Asking
    <3>2. CASE Close \/ TaskNext \/ WorldNext
      BY <3>2 DEF Close, TaskNext, SubmitChecks, SubmitEnters, Receive, Finish, ReceiverEnds, ReceiveMismatch,
                  ReceiverFails, Dispatch, WorldNext, InterchangeEnds, JobMoves, Register, Expire, execVars
    <3>3. QED
      BY <1>1, <3>1, <3>2 DEF Next
  <2>7. QED
    BY <2>2, <2>3, <2>4, <2>5, <2>6
<1>2. IInv /\ IInv' /\ [Next]_vars => [Kept]_vars
  BY <1>1
<1>3. QED
  BY <1>2, Inductive, PTL DEF Spec, RecordedIsFinal

-----------------------------------------------------------------------------
(* simple_error_handler looks at the table only, which is as old as the    *)
(* last poll; when all of it has failed, no job whose id the executor has  *)
(* can run a task any more.                                                *)
THEOREM OnlyDead == Spec => GivesUpOnlyDead
<1> DEFINE Dead == setup.handler = "simple" /\ ~bad /\ bad' /\ receiver' = receiver =>
             LiveJobs \cap launched = {}
<1>1. ASSUME IInv, Next PROVE Dead
  <2> SUFFICES ASSUME setup.handler = "simple", ~bad, bad', receiver' = receiver
               PROVE  LiveJobs \cap launched = {}
    OBVIOUS
  <2>1. HandleErrors /\ TooManyFailures
    <3>1. PollerNext => HandleErrors /\ TooManyFailures
      BY DEF PollerNext, UpdateState, SkipUpdate, HandleErrors, PollerFails, StrategizeFirst,
             StrategyScalesOut, StrategyScalesIn, StrategyWaits, HoldBlock, Cancel, CancelRaises,
             CommandHangs, JoinTimer, taskVars
    <3>2. ~(Close \/ TaskNext \/ WorldNext)
      BY <1>1 DEF Close, TaskNext, SubmitChecks, SubmitEnters, Receive, Finish, ReceiverEnds, ReceiveMismatch,
             ReceiverFails, Dispatch, WorldNext, InterchangeEnds, JobMoves, Register, Expire, taskVars
    <3>3. QED
      BY <1>1, <3>1, <3>2 DEF Next
  <2>2. \A b \in Blocks : status[b] # "none" => status[b] \in {"FAILED", "MISSING"}
    BY <2>1 DEF TooManyFailures, Failures
  <2>3. QED
    BY <1>1, <2>2 DEF IInv, Recorded, Reported, LiveJobs
<1>2. IInv /\ [Next]_vars => [Dead]_vars
  BY <1>1
<1>3. QED
  BY <1>2, Inductive, PTL DEF Spec, GivesUpOnlyDead

-----------------------------------------------------------------------------
(* The limit on blocks.  The strategies count the blocks that the table    *)
(* says run or wait.                                                       *)
Seen == {b \in LiveJobs : ~Overlooked(b)}

LEMMA SeenIsActive == ASSUME IInv PROVE Seen \subseteq Known({"RUNNING", "PENDING"})
  BY DEF IInv, Recorded, Reported, LiveJobs, Known, Overlooked, Seen

(* What is asked for fits under the limit with all that is seen. *)
LEMMA AskingFits ==
  ASSUME IInv, InitBlocks <= MaxBlocks, NEW n, Asking(n)
  PROVE  Cardinality(Seen) + n <= MaxBlocks
<1>1. Cardinality(Seen) \in Nat /\ ActiveBlocks \in Nat /\ n \in Nat /\ MaxBlocks \in Nat
  BY BlocksFinite, ActiveType, AskingType, LimitsAssumption DEF LiveJobs, Seen
<1>2. CASE StrategizeFirst /\ n = InitBlocks
  <2>1. counter = 0
    BY <1>2 DEF StrategizeFirst, IInv, Starting
  <2>2. Seen = {}
    BY <2>1, LiveIsOpen, BlockNumbers DEF IInv, LiveJobs, Seen
  <2>3. QED
    BY <1>1, <1>2, <2>2, FS_EmptySet
<1>3. CASE StrategyScalesOut /\ n = IF Overloaded THEN BlocksToAdd ELSE 1
  <2>1. ScalesOut /\ ActiveBlocks < MaxBlocks
    BY <1>3 DEF StrategyScalesOut, ScalesOut
  <2>2. n <= MaxBlocks - ActiveBlocks
    BY <1>1, <1>3, <2>1, AddType DEF IInv
  <2>3. Cardinality(Seen) <= ActiveBlocks
    BY SeenIsActive, BlocksFinite, FS_Subset DEF Known, ActiveBlocks
  <2>4. QED
    BY <1>1, <2>2, <2>3
<1>4. QED
  BY <1>2, <1>3 DEF Asking

LEMMA LaunchFits ==
  ASSUME IInv, InitBlocks <= MaxBlocks, NEW n, Asking(n)
  PROVE  Cardinality({b \in LiveJobs' : b \in LiveJobs => ~Overlooked(b)}) <= MaxBlocks
<1> DEFINE new == counter + 1 .. counter'
           C == {b \in LiveJobs' : b \in LiveJobs => ~Overlooked(b)}
<1>1. /\ LiveJobs' \subseteq LiveJobs \cup new
      /\ counter \in Nat /\ counter' \in Nat /\ n \in Nat
      /\ counter <= counter' /\ counter' <= counter + n
  BY AskingType, ScaleOutInv DEF IInv, TypeOK
<1>2. IsFiniteSet(new) /\ Cardinality(new) = counter' - counter
  <2>1. counter + 1 \in Int /\ counter' \in Int
    BY <1>1
  <2>2. /\ IsFiniteSet(new)
        /\ Cardinality(new) = IF counter + 1 > counter' THEN 0 ELSE counter' - (counter + 1) + 1
    BY <2>1, FS_Interval
  <2>3. QED
    BY <1>1, <2>2
<1> HIDE DEF new
<1>3. IsFiniteSet(Seen) /\ Cardinality(Seen) \in Nat
  BY BlocksFinite DEF LiveJobs, Seen
<1>4. IsFiniteSet(Seen \cup new)
  BY <1>2, <1>3, FS_Union
<1>5. Cardinality(Seen \cup new) <= Cardinality(Seen) + Cardinality(new)
  <2>1. Cardinality(Seen \cup new) =
          Cardinality(Seen) + Cardinality(new) - Cardinality(Seen \cap new)
    BY <1>2, <1>3, FS_Union
  <2>2. Cardinality(Seen \cap new) \in Nat
    BY <1>2, <1>3, FS_Intersection, FS_CardinalityType
  <2>3. QED
    BY <1>1, <1>2, <1>3, <2>1, <2>2
<1>6. C \subseteq Seen \cup new
  BY <1>1 DEF Seen
<1> HIDE DEF C
<1>7. Cardinality(C) \in Nat /\ Cardinality(Seen \cup new) \in Nat
      /\ Cardinality(C) <= Cardinality(Seen \cup new)
  BY <1>4, <1>6, FS_Subset, FS_CardinalityType
<1>8. Cardinality(C) <= MaxBlocks
  BY <1>1, <1>2, <1>3, <1>5, <1>7, AskingFits, LimitsAssumption
<1>9. QED
  BY <1>8 DEF C

(* Nothing else starts a job.                                              *)
LEMMA NoneStarted ==
  ASSUME IInv, [Next]_vars, ~\E n : Asking(n)
  PROVE  LiveJobs' \subseteq LiveJobs
<1>1. CASE job' = job
  BY <1>1 DEF LiveJobs
<1>2. CASE Cancel
  BY <1>2 DEF Cancel, LiveJobs, Live, IInv, TypeOK
<1>3. ASSUME NEW b \in Blocks, JobMoves(b) PROVE LiveJobs' \subseteq LiveJobs
  <2>1. PICK s : job' = [job EXCEPT ![b] = s] /\ job[b] \in Live
    BY <1>3 DEF JobMoves, Live
  <2>2. QED
    BY <2>1 DEF LiveJobs, IInv, TypeOK
<1>4. \/ job' = job \/ Cancel \/ \E b \in Blocks : JobMoves(b)
  <2>1. CASE PollerNext
    BY <2>1 DEF PollerNext, UpdateState, SkipUpdate, HandleErrors, PollerFails, StrategyScalesIn,
                StrategyWaits, HoldBlock, CancelRaises, CommandHangs, JoinTimer, worldVars, Asking
  <2>2. CASE Close \/ TaskNext \/ WorldNext
    BY <2>2 DEF Close, TaskNext, SubmitChecks, SubmitEnters, Receive, Finish, ReceiverEnds, ReceiveMismatch,
                ReceiverFails, Dispatch, WorldNext, InterchangeEnds, Register, Expire, worldVars
  <2>3. CASE UNCHANGED vars
    BY <2>3 DEF vars, worldVars
  <2>4. QED
    BY <2>1, <2>2, <2>3 DEF Next
<1>5. QED
  BY <1>1, <1>2, <1>3, <1>4

(* However old the table is that blocks are counted in, and whatever the   *)
(* scheduler does with the jobs, no strategy asks for blocks that take the *)
(* executor over max_blocks together with the live ones that it can see    *)
(* and counts, if the initial blocks do not (_general_strategy, cases 2b   *)
(* and 3).                                                                 *)
THEOREM Limited == ASSUME InitBlocks <= MaxBlocks PROVE Spec => WithinMaxBlocks
<1> DEFINE Fits == \/ LiveJobs' \subseteq LiveJobs
                   \/ Cardinality({b \in LiveJobs' : b \in LiveJobs => ~Overlooked(b)}) <= MaxBlocks
<1>1. IInv /\ [Next]_vars => [Fits]_vars
  <2> SUFFICES ASSUME IInv, [Next]_vars PROVE Fits
    OBVIOUS
  <2>1. CASE \E n : Asking(n)
    BY <2>1, LaunchFits
  <2>2. CASE ~\E n : Asking(n)
    BY <2>2, NoneStarted
  <2>3. QED
    BY <2>1, <2>2
<1>2. QED
  BY <1>1, Inductive, PTL DEF Spec, WithinMaxBlocks

=============================================================================
