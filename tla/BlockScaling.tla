---------------------------- MODULE BlockScaling ----------------------------
(***************************************************************************)
(* How an executor's blocks are asked for, watched and given back:         *)
(* BlockProviderExecutor (status_handling.py), Strategy, the job status    *)
(* poller and its error handlers (jobs/), and the scaling of the           *)
(* HighThroughputExecutor, with a batch scheduler that is true to its      *)
(* reports.  The executor's tasks are here as far as scaling sees them:    *)
(* who waits, which block's manager has them, and who is failed when the   *)
(* executor is given up.                                                   *)
(*                                                                         *)
(* One thread, the poller's timer, reads and writes the status table, so   *)
(* its steps are split only where the scheduler, the interchange, the      *)
(* submitting thread or the result thread can come in between.             *)
(*                                                                         *)
(* Block ids and task ids are numbers in the order of their counters, and  *)
(* NumBlocks bounds the blocks of a behaviour.  Time is a choice: a poll   *)
(* may be too early for a status, an idle time may be long enough.         *)
(***************************************************************************)
EXTENDS Naturals, FiniteSets, FiniteSetsExt

CONSTANTS
  NumTasks, NumBlocks,
  MinBlocks, MaxBlocks, InitBlocks,
  Slots,        \* tasks_per_node * nodes_per_block
  Parallelism,  \* <<numerator, denominator>>
  Setups        \* what a behaviour may have: [htex: BOOLEAN, strategy: , handler: ,
                \* faults: a set of "submit", "cancel", "job fails",
                \* "hold job", "unknown", "mismatch"]

Tasks == 1..NumTasks
Blocks == 1..NumBlocks

ASSUME LimitsAssumption ==
  /\ NumTasks \in Nat /\ NumBlocks \in Nat
  /\ MinBlocks \in Nat /\ MaxBlocks \in Nat /\ InitBlocks \in Nat
  /\ Slots \in Nat \ {0}
  /\ Parallelism \in Nat \X (Nat \ {0}) /\ Parallelism[1] <= Parallelism[2]

VARIABLES
  setup,
  (* executor *)
  counter,    \* _block_id_counter
  launched,   \* keys of blocks_to_job_id
  status,     \* status[b]: state in _status, or "none"
  simulated,  \* simulated[b]: state in _simulated_status, or "none"
  bad,        \* _executor_bad_state
  table,      \* keys of _tasks
  fut,        \* fut[t]: "none", "checked", "pending", "done", "failed"
  receiver,   \* result thread: "up", "failing", "ended"
  (* poller *)
  pc,         \* "asleep", "handle", "failing", "strategize", "holding", "stuck", "closed"
  closing,    \* the timer's kill event
  joined,     \* the timer thread has ended
  first, idle,
  kill,       \* blocks selected by scale_in that are still to be held
  victims,    \* blocks selected by scale_in
  cursor,     \* cursor[c]: last task seen by set_bad_state_and_fail_all
  size,       \* size[c]: length of _tasks when its loop began
  (* scheduler, managers *)
  job,        \* job[b]: "none" or a state of the job of b
  interchange,  \* "up", "ended"
  mgr,        \* mgr[b]: "none", "active", "held", "gone"
  at          \* at[t]: where t is, the block that has it or a place below

execVars == <<counter, launched, status, simulated>>
taskVars == <<bad, table, fut, receiver>>
loopVars == <<cursor, size>>
pollVars == <<pc, closing, joined, first, idle, kill, victims>>
worldVars == <<job, interchange, mgr, at>>
vars == <<setup, execVars, taskVars, loopVars, pollVars, worldVars>>

TERMINAL_STATES == {"CANCELLED", "COMPLETED", "FAILED", "TIMEOUT", "MISSING", "SCALED_IN"}
JobState == TERMINAL_STATES \cup {"UNKNOWN", "PENDING", "RUNNING", "HELD"}
Live == {"PENDING", "RUNNING", "HELD"}
Callers == {"poller", "receiver"}

(* Places of a task outside the blocks. *)
Nowhere == 0
Queue == NumBlocks + 1
Answers == NumBlocks + 2

Init ==
  /\ setup \in Setups
  /\ counter = 0 /\ launched = {}
  /\ status = [b \in Blocks |-> "none"]
  /\ simulated = [b \in Blocks |-> "none"]
  /\ bad = FALSE /\ table = {}
  /\ fut = [t \in Tasks |-> "none"]
  /\ receiver = "up"
  /\ pc = "asleep" /\ closing = FALSE /\ joined = FALSE
  /\ first = TRUE /\ idle = FALSE
  /\ kill = {} /\ victims = {}
  /\ cursor = [c \in Callers |-> 0] /\ size = [c \in Callers |-> 0]
  /\ job = [b \in Blocks |-> "none"]
  /\ interchange = "up"
  /\ mgr = [b \in Blocks |-> "none"]
  /\ at = [t \in Tasks |-> Nowhere]

Known(s) == {b \in Blocks : status[b] \in s}
NonTerminal == {b \in Blocks : status[b] # "none" /\ status[b] \notin TERMINAL_STATES}
Load(b) == Cardinality({t \in Tasks : at[t] = b})
InterchangeUp == interchange = "up"
Registered == {b \in Blocks : mgr[b] # "none"}  \* connected_block_history

(***************************************************************************)
(* Poll: status, error handlers, strategy.                                 *)
(***************************************************************************)
(* What the provider may say of a launched block. *)
Reports(b) == {job[b]} \cup (IF "unknown" \in setup.faults THEN {"UNKNOWN"} ELSE {})

(* HTEX: a block that ended and whose managers never registered is MISSING *)
(* and so is, in place, a simulated failure.                               *)
Rewritten(s, b) ==
  IF setup.htex /\ s \in TERMINAL_STATES \ {"SCALED_IN"} /\ b \notin Registered
    THEN "MISSING" ELSE s

(* Mutant: what scaling has recorded is not laid over the reports.         *)
UpdateForgets ==
  /\ pc = "asleep" /\ ~closing
  /\ pc' = "handle"
  /\ \E report \in [launched -> JobState] :
       /\ \A b \in launched : report[b] \in Reports(b)
       /\ status' = [b \in Blocks |->
            IF b \in launched THEN Rewritten(report[b], b)
            ELSE IF simulated[b] # "none" THEN Rewritten(simulated[b], b) ELSE "none"]
  /\ UNCHANGED <<setup, counter, launched, simulated, taskVars, loopVars, closing, joined,
                 first, idle, kill, victims, worldVars>>

(* poll_facade: the table is replaced by the provider's reports, with what *)
(* launching and scaling in have recorded on top.                          *)
UpdateState ==
  /\ pc = "asleep" /\ ~closing /\ (setup.htex => InterchangeUp)
  /\ pc' = "handle"
  /\ simulated' = [b \in Blocks |-> Rewritten(simulated[b], b)]
  /\ \E report \in [launched -> JobState] :
       /\ \A b \in launched : report[b] \in Reports(b)
       /\ status' = [b \in Blocks |->
            IF simulated'[b] # "none" THEN simulated'[b]
            ELSE IF b \in launched THEN Rewritten(report[b], b) ELSE "none"]
  /\ UNCHANGED <<setup, counter, launched, taskVars, loopVars, closing, joined, first, idle,
                 kill, victims, worldVars>>

(* The status polling interval is not over yet. *)
SkipUpdate ==
  /\ pc = "asleep" /\ ~closing
  /\ pc' = "handle"
  /\ UNCHANGED <<setup, execVars, taskVars, loopVars, closing, joined, first, idle, kill,
                 victims, worldVars>>

(* windowed_error_handler with a threshold of three looks at the last ones. *)
Window == {b \in Blocks : status[b] # "none"
             /\ Cardinality({c \in Blocks : c > b /\ status[c] # "none"}) < 3}
Failures(bs) == {b \in bs : status[b] \in {"FAILED", "MISSING"}}
Threshold == IF InitBlocks > 1 THEN InitBlocks ELSE 1

(* Mutant: any of the jobs has failed, for all of them.                    *)
EnoughFailures ==
  LET all == {b \in Blocks : status[b] # "none"} IN
  Cardinality(all) >= Threshold /\ Failures(all) # {}

(* simple_error_handler, windowed_error_handler, noop_error_handler. *)
TooManyFailures ==
  LET all == {b \in Blocks : status[b] # "none"} IN
  CASE setup.handler = "simple" ->
         Cardinality(all) >= Threshold /\ Failures(all) = all
    [] setup.handler = "windowed" -> Cardinality(Failures(Window)) = 3
    [] OTHER -> FALSE

BeginFailing(c) ==
  /\ bad' = TRUE
  /\ cursor' = [cursor EXCEPT ![c] = 0]
  /\ size' = [size EXCEPT ![c] = Cardinality(table)]

HandleErrors ==
  /\ pc = "handle"
  /\ IF TooManyFailures
       THEN BeginFailing("poller") /\ pc' = "failing"
       ELSE pc' = "strategize" /\ UNCHANGED <<bad, loopVars>>
  /\ UNCHANGED <<setup, execVars, table, fut, receiver, closing, joined, first, idle, kill,
                 victims, worldVars>>

(* The loop of set_bad_state_and_fail_all over _tasks, in the order of     *)
(* insertion.  A changed size (RuntimeError), a task that the result thread *)
(* has taken (KeyError) and a future that is done (InvalidStateError) end  *)
(* it.                                                                     *)
Rest(c) == {t \in table : t > cursor[c]}
Resized(c) == Cardinality(table) # size[c]
LoopRaises(c) == Resized(c) \/ (Rest(c) # {} /\ fut[Min(Rest(c))] = "failed")
LoopEnds(c) == Rest(c) = {} /\ ~Resized(c)

FailNext(c) ==
  /\ ~LoopRaises(c) /\ ~LoopEnds(c)
  /\ fut' = [fut EXCEPT ![Min(Rest(c))] = "failed"]
  /\ cursor' = [cursor EXCEPT ![c] = Min(Rest(c))]

(* An exception of a handler ends the poll; the timer logs it. *)
PollerFails ==
  /\ pc = "failing"
  /\ \/ FailNext("poller") /\ UNCHANGED pc
     \/ LoopEnds("poller") /\ pc' = "strategize" /\ UNCHANGED <<fut, cursor>>
     \/ LoopRaises("poller") /\ pc' = "asleep" /\ UNCHANGED <<fut, cursor>>
  /\ UNCHANGED <<setup, execVars, bad, table, receiver, size, closing, joined, first, idle,
                 kill, victims, worldVars>>

(* scale_out_facade(n): a launch that raises, or gives no job id, leaves a *)
(* simulated status; of those, the scheduler may have taken the jobs of    *)
(* some before the provider failed (orphans).                              *)
ScaleOut(n) ==
  LET k == IF n <= NumBlocks - counter THEN n ELSE NumBlocks - counter
      new == counter + 1 .. counter + k
  IN \E failed \in SUBSET (IF "submit" \in setup.faults THEN new ELSE {}) :
     \E orphans \in SUBSET failed :
       /\ counter' = counter + k
       /\ launched' = launched \cup (new \ failed)
       /\ status' = [b \in Blocks |-> IF b \in failed THEN "FAILED"
                                      ELSE IF b \in new THEN "PENDING" ELSE status[b]]
       /\ simulated' = [b \in Blocks |-> IF b \in failed THEN "FAILED" ELSE simulated[b]]
       /\ job' = [b \in Blocks |-> IF b \in (new \ failed) \cup orphans THEN "PENDING"
                                   ELSE job[b]]

(* The first strategy poll asks for the initial blocks. *)
StrategizeFirst ==
  /\ pc = "strategize" /\ first
  /\ first' = FALSE
  /\ ScaleOut(InitBlocks)
  /\ UNCHANGED <<setup, taskVars, loopVars, pc, closing, joined, idle, kill, victims,
                 interchange, mgr, at>>

(* Mutant: blocks that wait in the scheduler's queue are not counted.      *)
RunningBlocks == Cardinality(Known({"RUNNING"}))

ActiveBlocks == Cardinality(Known({"RUNNING", "PENDING"}))
ActiveSlots == ActiveBlocks * Slots
ActiveTasks == Cardinality(table)  \* outstanding()
Num == Parallelism[1]
Den == Parallelism[2]
Overloaded == ActiveSlots * Den < ActiveTasks * Num

CeilDiv(a, b) == (a + b - 1) \div b
SmallerOf(a, b) == IF a <= b THEN a ELSE b

(* Case 2b: blocks to ask for. *)
BlocksToAdd ==
  SmallerOf(CeilDiv(CeilDiv(ActiveTasks * Num - ActiveSlots * Den, Den), Slots),
            MaxBlocks - ActiveBlocks)

(* Case 4b: blocks to give back. *)
BlocksToDrop ==
  SmallerOf(((ActiveSlots * Den - ActiveTasks * Num) \div Den) \div Slots,
            ActiveBlocks - MinBlocks)

ScalesOut ==
  /\ ActiveTasks > 0 /\ ActiveBlocks < MaxBlocks
  /\ Overloaded \/ ActiveSlots = 0

StrategyScalesOut ==
  /\ pc = "strategize" /\ ~first /\ setup.strategy # "none"
  /\ ScalesOut
  /\ ScaleOut(IF Overloaded THEN BlocksToAdd ELSE 1)
  /\ pc' = "asleep" /\ idle' = FALSE
  /\ UNCHANGED <<setup, taskVars, loopVars, closing, joined, first, kill, victims,
                 interchange, mgr, at>>

(* scale_in of BlockProviderExecutor: the first n, cancelled at once.      *)
(* scale_in of HTEX begins by selecting blocks: those without an active    *)
(* manager first, which count as idle for ever, then idle ones, then by    *)
(* load.  It meets every block that is not terminal or has an active       *)
(* manager.  With an idle limit only blocks without tasks that have been   *)
(* idle for long enough count, and the search stops when there are         *)
(* exactly n.                                                              *)
Candidates == NonTerminal \cup {b \in Blocks : mgr[b] = "active"}
Rank(b) == IF mgr[b] # "active" THEN 0 ELSE 1 + Load(b)
InOrder(K, C) == \A b \in K, c \in C \ K : Rank(b) <= Rank(c)

FirstOf(n, C) ==
  {K \in SUBSET C : Cardinality(K) = SmallerOf(n, Cardinality(C)) /\ InOrder(K, C)}
IdleSets == {J \in SUBSET {b \in Candidates : Rank(b) <= 1} :
               \A b \in Candidates : Rank(b) = 0 => b \in J}
Selection(n, limited) ==
  IF ~setup.htex
    THEN {K \in SUBSET NonTerminal : Cardinality(K) = SmallerOf(n, Cardinality(NonTerminal))}
  ELSE IF limited THEN UNION {IF n > 0 THEN FirstOf(n, I) ELSE {I} : I \in IdleSets}
  ELSE FirstOf(n, Candidates)

BeginScaleIn(n, limited) ==
  /\ victims' \in Selection(n, limited)
  /\ kill' = IF setup.htex THEN victims' ELSE {}
  /\ pc' = "holding"

(* Case 1b, and case 4b for HTEX. *)
StrategyScalesIn ==
  /\ pc = "strategize" /\ ~first /\ setup.strategy # "none"
  /\ ActiveBlocks > MinBlocks
  /\ \/ /\ ActiveTasks = 0 /\ idle
        /\ BeginScaleIn(ActiveBlocks - MinBlocks, FALSE)
        /\ UNCHANGED idle
     \/ /\ ActiveTasks > 0 /\ ~Overloaded /\ ActiveSlots > ActiveTasks
        /\ setup.strategy = "htex" /\ setup.htex
        /\ BeginScaleIn(BlocksToDrop, TRUE)
        /\ idle' = FALSE
  /\ UNCHANGED <<setup, execVars, taskVars, loopVars, closing, joined, first, worldVars>>

(* No strategy, nothing to do, or not idle for long enough. *)
StrategyWaits ==
  /\ pc = "strategize" /\ ~first
  /\ \/ setup.strategy = "none" /\ UNCHANGED idle
     \/ /\ setup.strategy # "none" /\ ActiveTasks = 0
        /\ idle' = (idle \/ ActiveBlocks > MinBlocks)
     \/ /\ setup.strategy # "none" /\ ActiveTasks > 0 /\ ~ScalesOut
        /\ ~(ActiveSlots > ActiveTasks /\ ~Overloaded /\ setup.strategy = "htex"
              /\ setup.htex /\ ActiveBlocks > MinBlocks)
        /\ idle' = FALSE
  /\ pc' = "asleep"
  /\ UNCHANGED <<setup, execVars, taskVars, loopVars, closing, joined, first, kill,
                 victims, worldVars>>

(* Mutant: waits for a manager of the block.                               *)
HoldConnected(b) ==
  /\ pc = "holding" /\ b \in kill /\ InterchangeUp
  /\ mgr[b] # "none"
  /\ kill' = kill \ {b}
  /\ mgr' = [mgr EXCEPT ![b] = IF @ = "active" THEN "held" ELSE @]
  /\ UNCHANGED <<setup, execVars, taskVars, loopVars, pc, closing, joined, first, idle, victims,
                 job, interchange, at>>

(* _hold_block: the interchange gives a held manager no more tasks. *)
HoldBlock(b) ==
  /\ pc = "holding" /\ b \in kill /\ InterchangeUp
  /\ kill' = kill \ {b}
  /\ mgr' = [mgr EXCEPT ![b] = IF @ = "active" THEN "held" ELSE @]
  /\ UNCHANGED <<setup, execVars, taskVars, loopVars, pc, closing, joined, first, idle,
                 victims, job, interchange, at>>

(* Mutant: what could not be cancelled is marked as well. *)
CancelAll ==
  /\ pc = "holding" /\ kill = {}
  /\ \E failed \in SUBSET (IF "cancel" \in setup.faults THEN victims \cap launched ELSE {}) :
       LET given == victims \cap launched IN
       /\ job' = [b \in Blocks |->
                    IF b \in given \ failed /\ job[b] \in Live THEN "CANCELLED" ELSE job[b]]
       /\ status' = [b \in Blocks |-> IF b \in given THEN "SCALED_IN" ELSE status[b]]
       /\ simulated' = [b \in Blocks |-> IF b \in given THEN "SCALED_IN" ELSE simulated[b]]
  /\ pc' = IF joined THEN "closed" ELSE "asleep"
  /\ victims' = {}
  /\ UNCHANGED <<setup, counter, launched, taskVars, loopVars, closing, joined, first,
                 idle, kill, interchange, mgr, at>>

(* provider.cancel, _filter_scale_in_ids, and scale_in_facade's marks. *)
Cancel ==
  /\ pc = "holding" /\ kill = {}
  /\ \E failed \in SUBSET (IF "cancel" \in setup.faults THEN victims \cap launched ELSE {}) :
       LET killed == (victims \cap launched) \ failed IN
       /\ job' = [b \in Blocks |-> IF b \in killed /\ job[b] \in Live THEN "CANCELLED" ELSE job[b]]
       /\ status' = [b \in Blocks |-> IF b \in killed THEN "SCALED_IN" ELSE status[b]]
       /\ simulated' = [b \in Blocks |-> IF b \in killed THEN "SCALED_IN" ELSE simulated[b]]
  /\ pc' = IF joined THEN "closed" ELSE "asleep"
  /\ victims' = {}
  /\ UNCHANGED <<setup, counter, launched, taskVars, loopVars, closing, joined, first,
                 idle, kill, interchange, mgr, at>>

(* The provider's cancel raises; the timer logs it, close passes it on. *)
CancelRaises ==
  /\ "cancel" \in setup.faults
  /\ pc = "holding" /\ kill = {}
  /\ pc' = IF joined THEN "closed" ELSE "asleep"
  /\ victims' = {}
  /\ UNCHANGED <<setup, execVars, taskVars, loopVars, closing, joined, first, idle, kill,
                 worldVars>>

(* close sets the timer's kill event and waits for the poll that is        *)
(* running; then the blocks of an executor that is not bad are scaled in.  *)
Close ==
  /\ ~closing
  /\ closing' = TRUE
  /\ UNCHANGED <<setup, execVars, taskVars, loopVars, pc, joined, first, idle, kill,
                 victims, worldVars>>

JoinTimer ==
  /\ closing /\ pc = "asleep"
  /\ joined' = TRUE
  /\ IF bad THEN pc' = "closed" /\ UNCHANGED <<kill, victims>>
            ELSE BeginScaleIn(Cardinality({b \in Blocks : status[b] # "none"}), FALSE)
  /\ UNCHANGED <<setup, execVars, taskVars, loopVars, closing, first, idle, worldVars>>

(* Once the interchange is gone a command of HTEX waits for ever: only     *)
(* WORKER_BINDS has a timeout.                                             *)
CommandHangs ==
  /\ setup.htex /\ ~InterchangeUp
  /\ (pc = "asleep" /\ ~closing) \/ (pc = "holding" /\ kill # {})
  /\ pc' = "stuck"
  /\ UNCHANGED <<setup, execVars, taskVars, loopVars, closing, joined, first, idle, kill,
                 victims, worldVars>>

(***************************************************************************)
(* Tasks.                                                                  *)
(***************************************************************************)
(* One thread submits; a bad executor raises. *)
SubmitChecks(t) ==
  /\ fut[t] = "none" /\ \A u \in Tasks : fut[u] # "checked" /\ (u < t => fut[u] # "none")
  /\ fut' = [fut EXCEPT ![t] = IF bad THEN "failed" ELSE "checked"]
  /\ UNCHANGED <<setup, execVars, bad, table, receiver, loopVars, pollVars, worldVars>>

SubmitEnters(t) ==
  /\ fut[t] = "checked"
  /\ fut' = [fut EXCEPT ![t] = "pending"]
  /\ table' = table \cup {t}
  /\ at' = [at EXCEPT ![t] = Queue]
  /\ UNCHANGED <<setup, execVars, bad, receiver, loopVars, pollVars, job, interchange, mgr>>

(* The result thread looks for a bad state only before it waits for the    *)
(* next batch: what comes while it waits, or is in the batch, is still     *)
(* handled.  A future that was failed meanwhile raises, which ends it.     *)
Receive(t) ==
  /\ receiver = "up"
  /\ at[t] = Answers
  /\ at' = [at EXCEPT ![t] = Nowhere]
  /\ table' = table \ {t}
  /\ IF fut[t] = "failed" THEN receiver' = "ended" /\ UNCHANGED fut
       ELSE fut' = [fut EXCEPT ![t] = "done"] /\ UNCHANGED receiver
  /\ UNCHANGED <<setup, execVars, bad, loopVars, pollVars, job, interchange, mgr>>

(* ... and at the next batch HTEX's result thread sees the bad state. *)
ReceiverEnds ==
  /\ setup.htex /\ receiver = "up" /\ bad
  /\ receiver' = "ended"
  /\ UNCHANGED <<setup, execVars, bad, table, fut, loopVars, pollVars, worldVars>>

(* The last message of the interchange, after the answers before it. *)
ReceiveMismatch ==
  /\ receiver = "up" /\ ~InterchangeUp
  /\ \A t \in Tasks : at[t] # Answers
  /\ receiver' = "failing"
  /\ BeginFailing("receiver")
  /\ UNCHANGED <<setup, execVars, table, fut, pollVars, worldVars>>

ReceiverFails ==
  /\ receiver = "failing"
  /\ \/ FailNext("receiver") /\ UNCHANGED receiver
     \/ /\ LoopRaises("receiver") \/ LoopEnds("receiver")
        /\ receiver' = "ended" /\ UNCHANGED <<fut, cursor>>
  /\ UNCHANGED <<setup, execVars, bad, table, size, pollVars, worldVars>>

(***************************************************************************)
(* The scheduler, and managers with the interchange, as scaling sees them. *)
(***************************************************************************)
(* TIMEOUT is a COMPLETED that nobody here tells apart. *)
JobMoves(b) ==
  /\ \/ job[b] = "PENDING" /\ job' = [job EXCEPT ![b] = "RUNNING"]
     \/ job[b] = "RUNNING" /\ job' = [job EXCEPT ![b] = "COMPLETED"]
     \/ /\ job[b] \in {"PENDING", "RUNNING"} /\ "job fails" \in setup.faults
        /\ job' = [job EXCEPT ![b] = "FAILED"]
     \/ job[b] = "PENDING" /\ "hold job" \in setup.faults /\ job' = [job EXCEPT ![b] = "HELD"]
     \/ job[b] = "HELD" /\ job' = [job EXCEPT ![b] = "PENDING"]
  /\ UNCHANGED <<setup, execVars, taskVars, loopVars, pollVars, interchange, mgr, at>>

(* The interchange meets a manager of another version. *)
InterchangeEnds ==
  /\ setup.htex /\ "mismatch" \in setup.faults /\ InterchangeUp
  /\ \E b \in Blocks : job[b] = "RUNNING"
  /\ interchange' = "ended"
  /\ UNCHANGED <<setup, execVars, taskVars, loopVars, pollVars, job, mgr, at>>

Register(b) ==
  /\ setup.htex /\ InterchangeUp
  /\ job[b] = "RUNNING" /\ mgr[b] = "none"
  /\ mgr' = [mgr EXCEPT ![b] = "active"]
  /\ UNCHANGED <<setup, execVars, taskVars, loopVars, pollVars, job, interchange, at>>

(* A manager whose job is gone is expired, and its tasks are answered. *)
Expire(b) ==
  /\ InterchangeUp
  /\ mgr[b] \in {"active", "held"} /\ job[b] \notin Live
  /\ mgr' = [mgr EXCEPT ![b] = "gone"]
  /\ at' = [t \in Tasks |-> IF at[t] = b THEN Answers ELSE at[t]]
  /\ UNCHANGED <<setup, execVars, taskVars, loopVars, pollVars, job, interchange>>

Dispatch(t, b) ==
  /\ InterchangeUp
  /\ at[t] = Queue
  /\ mgr[b] = "active" /\ Load(b) < Slots
  /\ at' = [at EXCEPT ![t] = b]
  /\ UNCHANGED <<setup, execVars, taskVars, loopVars, pollVars, job, interchange, mgr>>

Finish(t) ==
  /\ \/ at[t] \in Blocks /\ job[at[t]] = "RUNNING" /\ InterchangeUp
     \/ at[t] = Queue /\ ~setup.htex /\ \E b \in Blocks : job[b] = "RUNNING"
  /\ at' = [at EXCEPT ![t] = Answers]
  /\ UNCHANGED <<setup, execVars, taskVars, loopVars, pollVars, job, interchange, mgr>>

PollerNext ==
  \/ UpdateState \/ SkipUpdate \/ HandleErrors \/ PollerFails
  \/ StrategizeFirst \/ StrategyScalesOut \/ StrategyScalesIn \/ StrategyWaits
  \/ \E b \in Blocks : HoldBlock(b)
  \/ Cancel \/ CancelRaises \/ CommandHangs \/ JoinTimer

TaskNext ==
  \/ \E t \in Tasks : SubmitChecks(t) \/ SubmitEnters(t) \/ Receive(t) \/ Finish(t)
  \/ ReceiverEnds \/ ReceiveMismatch \/ ReceiverFails
  \/ \E t \in Tasks, b \in Blocks : Dispatch(t, b)

WorldNext == InterchangeEnds \/ \E b \in Blocks : JobMoves(b) \/ Register(b) \/ Expire(b)

Next == PollerNext \/ Close \/ TaskNext \/ WorldNext

(* The timer thread is not starved; neither is the caller of close, which  *)
(* JoinTimer and the scaling in after it stand for.                        *)
Spec == Init /\ [][Next]_vars /\ WF_vars(PollerNext)

-----------------------------------------------------------------------------
TypeOK ==
  /\ counter \in 0..NumBlocks /\ launched \subseteq 1..counter
  /\ status \in [Blocks -> JobState \cup {"none"}]
  /\ simulated \in [Blocks -> {"none", "FAILED", "MISSING", "SCALED_IN"}]
  /\ bad \in BOOLEAN /\ table \subseteq Tasks
  /\ fut \in [Tasks -> {"none", "checked", "pending", "done", "failed"}]
  /\ receiver \in {"up", "failing", "ended"} /\ interchange \in {"up", "ended"}
  /\ pc \in {"asleep", "handle", "failing", "strategize", "holding", "stuck", "closed"}
  /\ closing \in BOOLEAN /\ joined \in BOOLEAN /\ first \in BOOLEAN /\ idle \in BOOLEAN
  /\ kill \subseteq victims /\ victims \subseteq Blocks
  /\ cursor \in [Callers -> 0..NumTasks] /\ size \in [Callers -> 0..NumTasks]
  /\ job \in [Blocks -> JobState \cup {"none"}]
  /\ mgr \in [Blocks -> {"none", "active", "held", "gone"}]
  /\ at \in [Tasks -> 0 .. NumBlocks + 2]

LiveJobs == {b \in Blocks : job[b] \in Live}

(* However launches and cancellations fail and however old the reports     *)
(* are, a job that still runs or waits belongs to a block that can be      *)
(* given back: it has a job id and no status that ends it.  Closing, which *)
(* asks for as many blocks as the table has, therefore cancels them all.   *)
(* The one exception is a job that the scheduler took from a launch that   *)
(* then failed (orphans): its block stays on record as failed.             *)
NoJobForgotten ==
  /\ TypeOK
  /\ \A b \in LiveJobs : IF b \in launched THEN b \in NonTerminal
                         ELSE simulated[b] \in {"FAILED", "MISSING"}
  /\ pc = "holding" /\ joined => LiveJobs \cap launched \subseteq victims

(* However old the table is that a strategy counts in, the blocks it asks  *)
(* for and those that have live jobs already are never more than           *)
(* max_blocks together, except for the jobs that it cannot see or does not *)
(* count: the orphans of failed launches, and the blocks whose last report *)
(* was HELD or UNKNOWN (_general_strategy counts PENDING and RUNNING).     *)
Overlooked(b) == b \notin launched \/ status[b] \in {"HELD", "UNKNOWN"}
WithinMaxBlocks ==
  [][LiveJobs' \subseteq LiveJobs
       \/ Cardinality({b \in LiveJobs' : b \in LiveJobs => ~Overlooked(b)}) <= MaxBlocks]_vars

(* poll_facade replaces the whole table, but a block that was scaled in    *)
(* stays so and one that was never launched stays failed.                  *)
RecordedIsFinal == [][\A b \in Blocks :
  /\ status[b] = "SCALED_IN" => status'[b] = "SCALED_IN"
  /\ status[b] # "none" /\ b \notin launched => status'[b] \in {"FAILED", "MISSING"}]_vars

(* simple_error_handler gives an executor up only when not one job of its  *)
(* blocks could still run a task, as far as it was given the jobs' ids.    *)
GivesUpOnlyDead ==
  [][setup.handler = "simple" /\ ~bad /\ bad' /\ receiver' = receiver 
       => LiveJobs \cap launched = {}]_vars

(* Closing the poller ends, whatever is failing or being scaled when it    *)
(* begins, unless the interchange has gone.                                *)
CloseEnds == closing ~> (pc = "closed" \/ ~InterchangeUp)
=============================================================================
