----------------------------- MODULE Providers -----------------------------
(***************************************************************************)
(* What the providers (providers/) know of the jobs they submit: how each  *)
(* reads its scheduler's or its cloud's answers, and what submit and       *)
(* cancel leave on record.  The scheduler moves by itself, forgets jobs    *)
(* that are over, and its commands can fail.                               *)
(*                                                                         *)
(* job[j] is where j really is.  status[j] is what status() says of j: its *)
(* entry in resources or, for the clouds that do not keep one, the last    *)
(* answer; "none" when the provider does not know j.  A query that fails   *)
(* and leaves everything as it was is a stuttering step.                   *)
(***************************************************************************)
EXTENDS Naturals, FiniteSets

CONSTANTS
  Jobs,
  MaxNodes,  \* aws: max_blocks * nodes_per_block
  Setups     \* [kind: Kinds, faults: a set of "query", "submit", "cancel"]

Slurm == {"sacct", "squeue"}
Kinds == Slurm \cup {"torque", "pbspro", "lsf", "condor", "sge", "local",
                     "kube", "aws", "azure", "google"}

ASSUME SetupsAssumption ==
  /\ MaxNodes \in Nat
  /\ Setups \subseteq [kind: Kinds, faults: SUBSET {"query", "submit", "cancel"}]

VARIABLES
  setup,
  job,     \* job[j]: "none" or a state below
  gone,    \* jobs the scheduler no longer answers for
  status,  \* status[j]: "none" or a JobState
  told,    \* jobs of which cancel has answered True
  marked,  \* local: jobs with 'cancelled' in their entry
  alive,   \* local: alive[j]: what _is_alive said, "" between polls
  infra    \* aws: [stage, file, vpcs, failed]

vars == <<setup, job, gone, status, told, marked, alive, infra>>

Live == {"queued", "held", "transferring", "running", "suspended"}
(* "broken" is a local process that was killed while it wrote its exit code. *)
Over == {"done", "failed", "timeout", "cancelled", "broken"}
JobState == {"PENDING", "RUNNING", "HELD", "UNKNOWN", "COMPLETED", "FAILED",
             "TIMEOUT", "CANCELLED"}
Terminal == {"COMPLETED", "FAILED", "TIMEOUT", "CANCELLED"}

kind == setup.kind
Fault(f) == f \in setup.faults
Known == {j \in Jobs : status[j] # "none"}
Active == {j \in Known : status[j] \notin Terminal}

(***************************************************************************)
(* The translate tables, over the states a query can show.  "stopping" is  *)
(* a job whose script is over: exiting, completing, shutting down, being   *)
(* deleted, or (condor) sending its output.                                *)
(***************************************************************************)
SacctTable ==
  [queued |-> "PENDING", held |-> "PENDING", running |-> "RUNNING", suspended |-> "HELD",
   stopping |-> "UNKNOWN", done |-> "COMPLETED", failed |-> "FAILED",
   timeout |-> "TIMEOUT", cancelled |-> "CANCELLED"]
SqueueTable ==
  [queued |-> "PENDING", held |-> "PENDING", running |-> "RUNNING", suspended |-> "UNKNOWN",
   stopping |-> "RUNNING", done |-> "COMPLETED", failed |-> "FAILED",
   timeout |-> "TIMEOUT", cancelled |-> "CANCELLED"]
PbsTable ==
  [queued |-> "PENDING", held |-> "HELD", running |-> "RUNNING", suspended |-> "HELD",
   stopping |-> "COMPLETED", done |-> "COMPLETED", failed |-> "COMPLETED",
   timeout |-> "COMPLETED", cancelled |-> "COMPLETED"]
LsfTable ==
  [queued |-> "PENDING", held |-> "CANCELLED", running |-> "RUNNING", suspended |-> "CANCELLED",
   done |-> "COMPLETED", failed |-> "FAILED", timeout |-> "FAILED", cancelled |-> "FAILED"]
CondorTable ==
  [queued |-> "PENDING", held |-> "FAILED", running |-> "RUNNING", stopping |-> "FAILED",
   done |-> "COMPLETED", failed |-> "COMPLETED", cancelled |-> "CANCELLED"]
SgeTable ==
  [queued |-> "PENDING", held |-> "PENDING", transferring |-> "FAILED", running |-> "RUNNING",
   suspended |-> "FAILED", stopping |-> "COMPLETED"]
KubeTable ==
  [queued |-> "PENDING", running |-> "RUNNING", stopping |-> "RUNNING",
   done |-> "COMPLETED", failed |-> "FAILED"]
AwsTable ==
  [queued |-> "PENDING", running |-> "RUNNING", stopping |-> "COMPLETED", done |-> "COMPLETED"]
AzureTable == AwsTable
GoogleTable ==
  [queued |-> "PENDING", running |-> "RUNNING", suspended |-> "COMPLETED",
   stopping |-> "COMPLETED", done |-> "COMPLETED"]
(* local has no table: these are the contents of the exit code file. *)
ExitFile ==
  [running |-> "-", stopping |-> "", done |-> "0", failed |-> "1",
   cancelled |-> "-", broken |-> ""]

Table ==
  CASE kind = "sacct" -> SacctTable
    [] kind = "squeue" -> SqueueTable
    [] kind \in {"torque", "pbspro"} -> PbsTable
    [] kind = "lsf" -> LsfTable
    [] kind = "condor" -> CondorTable
    [] kind = "sge" -> SgeTable
    [] kind = "kube" -> KubeTable
    [] kind = "aws" -> AwsTable
    [] kind = "azure" -> AzureTable
    [] kind = "google" -> GoogleTable
    [] kind = "local" -> ExitFile

Listed(j) == job[j] \in DOMAIN Table /\ j \notin gone
Answer(j) == Table[job[j]]
Answers(js, missing) ==
  [j \in Jobs |-> IF j \notin js THEN status[j] ELSE IF Listed(j) THEN Answer(j) ELSE missing]

Init ==
  /\ setup \in Setups
  /\ job = [j \in Jobs |-> "none"]
  /\ status = [j \in Jobs |-> "none"]
  /\ gone = {} /\ told = {} /\ marked = {}
  /\ alive = [j \in Jobs |-> ""]
  /\ infra = [stage |-> IF setup.kind = "aws" THEN "start" ELSE "ready",
              file |-> FALSE, vpcs |-> 0, failed |-> 0]

(***************************************************************************)
(* submit.                                                                 *)
(***************************************************************************)
Accepted(j, at, s) ==
  /\ job' = [job EXCEPT ![j] = at]
  /\ status' = [status EXCEPT ![j] = s]

(* The job is there but its id is not: the command was cut off, its output *)
(* has no id that is recognised, or a call after the one that creates it   *)
(* failed.                                                                 *)
Unread(j, at) ==
  /\ Fault("submit")
  /\ job' = [job EXCEPT ![j] = at]
  /\ UNCHANGED status

Submitting(k, j) == kind \in k /\ infra.stage = "ready" /\ job[j] = "none"

Batch(j) == Accepted(j, "queued", "PENDING") \/ Unread(j, "queued")

SlurmSubmit(j) == Submitting(Slurm, j) /\ Batch(j)
TorqueSubmit(j) == Submitting({"torque"}, j) /\ Batch(j)
PbsSubmit(j) == Submitting({"pbspro"}, j) /\ Batch(j)
LsfSubmit(j) == Submitting({"lsf"}, j) /\ Batch(j)
CondorSubmit(j) == Submitting({"condor"}, j) /\ Batch(j)
SgeSubmit(j) == Submitting({"sge"}, j) /\ Batch(j)
LocalSubmit(j) ==
  Submitting({"local"}, j) /\ (Accepted(j, "running", "RUNNING") \/ Unread(j, "running"))
KubeCreatePod(j) == Accepted(j, "queued", "RUNNING") \/ Unread(j, "queued")
KubeSubmit(j) == Submitting({"kube"}, j) /\ KubeCreatePod(j)
(* instances loses an entry only when it is cancelled. *)
Instances == Known \ told
AwsSpinUpInstance(j) ==
  /\ Cardinality(Instances) <= MaxNodes
  /\ Batch(j)
AwsSubmit(j) == Submitting({"aws"}, j) /\ AwsSpinUpInstance(j)
AzureSubmit(j) == Submitting({"azure"}, j) /\ Batch(j)
(* What is put on record is the status of the insert operation. *)
GoogleCreateInstance(j, s) == Accepted(j, "queued", s) \/ Unread(j, "queued")
GoogleSubmit(j) ==
  /\ Submitting({"google"}, j)
  /\ \E s \in {"PENDING", "RUNNING", "COMPLETED"} : GoogleCreateInstance(j, s)

Submit(j) ==
  /\ \/ SlurmSubmit(j) \/ TorqueSubmit(j) \/ PbsSubmit(j) \/ LsfSubmit(j) \/ CondorSubmit(j)
     \/ SgeSubmit(j) \/ LocalSubmit(j) \/ KubeSubmit(j) \/ AwsSubmit(j) \/ AzureSubmit(j)
     \/ GoogleSubmit(j)
  /\ UNCHANGED <<setup, gone, told, marked, alive, infra>>

(***************************************************************************)
(* status, of every job the provider knows.                                *)
(***************************************************************************)
(* Only jobs that are active are asked for, but every job that is not in   *)
(* the answers is taken to be complete.                                    *)
SlurmStatus ==
  /\ kind \in Slurm /\ Active # {}
  /\ status' = [j \in Jobs |->
       IF j \in Active /\ Listed(j) THEN Answer(j)
       ELSE IF j \in Known THEN "COMPLETED" ELSE status[j]]

TorqueStatus ==
  /\ kind = "torque"
  /\ status' = Answers(Known, "COMPLETED")

(* Mutant: a query that failed is taken for an empty answer.               *)
PbsStatusBlind ==
  /\ kind = "pbspro"
  /\ \/ status' = Answers(Known, "COMPLETED")
     \/ status' = [j \in Jobs |-> IF j \in Known THEN "COMPLETED" ELSE status[j]]

PbsStatus ==
  /\ kind = "pbspro"
  /\ status' = Answers(Known, "COMPLETED")

LsfStatus ==
  /\ kind = "lsf" /\ Active # {}
  /\ status' = Answers(Active, "COMPLETED")

(* Mutant: a job that qstat no longer shows is left as it was.             *)
SgeStatusOfListed ==
  /\ kind = "sge"
  /\ status' = Answers({j \in Known : Listed(j)}, "COMPLETED")

SgeStatus ==
  /\ kind = "sge"
  /\ status' = Answers(Known, "COMPLETED")

(* A chunk that is not answered is left as it is, and so is a job that the *)
(* queue no longer has.                                                    *)
CondorStatusOf(chunks) ==
  /\ kind = "condor"
  /\ status' = Answers({j \in chunks : Listed(j)}, "UNKNOWN")

(* A pod that cannot be read keeps its status: the comparison with a       *)
(* JobStatus made on the spot is never true.                               *)
KubeStatusOf(pods) ==
  /\ kind = "kube"
  /\ status' = Answers({j \in pods : Listed(j)}, "UNKNOWN")

CondorStatus == CondorStatusOf(Known)
KubeStatus == KubeStatusOf(Active)

(* The answers come in the order of the reservations, not of the ids, and  *)
(* the executor takes them by their position.                              *)
AwsOrders == {order \in [Known -> Known] : \A i, j \in Known : order[i] = order[j] => i = j}
AwsAnswers(order) == [j \in Jobs |-> IF j \in Known THEN Answer(order[j]) ELSE status[j]]
AwsStatus ==
  /\ kind = "aws" /\ \A j \in Known : Listed(j)
  /\ \E order \in AwsOrders : status' = AwsAnswers(order)

(* One machine that is not there any more makes the whole call fail.       *)
AzureStatus ==
  /\ kind = "azure" /\ \A j \in Known : Listed(j)
  /\ status' = Answers(Known, "UNKNOWN")

GoogleStatus ==
  /\ kind = "google" /\ \A j \in Known : Listed(j)
  /\ status' = Answers(Known, "UNKNOWN")

Status ==
  /\ \/ SlurmStatus \/ TorqueStatus \/ PbsStatus \/ LsfStatus \/ SgeStatus
     \/ CondorStatus \/ KubeStatus \/ AwsStatus \/ AzureStatus \/ GoogleStatus
  /\ UNCHANGED <<setup, job, gone, told, marked, alive, infra>>

(* A failing query that is not noticed: torque finds no job in the output, *)
(* condor and kube go on with the jobs they could ask for.                 *)
StatusFails ==
  /\ Fault("query")
  /\ \/ /\ kind = "torque"
        /\ status' = [j \in Jobs |-> IF j \in Known THEN "COMPLETED" ELSE status[j]]
     \/ \E js \in SUBSET Known : CondorStatusOf(js)
     \/ \E js \in SUBSET Active : KubeStatusOf(js)
  /\ UNCHANGED <<setup, job, gone, told, marked, alive, infra>>

(* local looks whether the process is there, then at its exit code file.   *)
LocalIsAlive(j) ==
  /\ kind = "local" /\ j \in Active /\ alive[j] = ""
  /\ alive' = [alive EXCEPT ![j] = IF job[j] \in Over THEN "no" ELSE "yes"]
  /\ UNCHANGED <<setup, job, gone, status, told, marked, infra>>

LocalReads(j) ==
  /\ kind = "local" /\ alive[j] # ""
  /\ status' = [status EXCEPT ![j] =
       CASE ExitFile[job[j]] = "-" -> IF alive[j] = "yes" THEN "RUNNING" ELSE "CANCELLED"
         [] ExitFile[job[j]] = "0" -> "COMPLETED"
         [] OTHER -> "FAILED"]
  /\ alive' = [alive EXCEPT ![j] = ""]
  /\ UNCHANGED <<setup, job, gone, told, marked, infra>>

(***************************************************************************)
(* cancel, which scale_in calls with jobs that are not over on record.     *)
(***************************************************************************)
(* The scheduler takes a job out: it may be stopping for a while. *)
Killed(js) ==
  \E slow \in SUBSET {j \in js : job[j] = "running" /\ "stopping" \in DOMAIN Table} :
    job' = [j \in Jobs |->
      IF j \notin js \/ job[j] \in Over THEN job[j]
      ELSE IF j \in slow THEN "stopping"
      ELSE IF kind = "local" /\ job[j] = "stopping" THEN "broken" ELSE "cancelled"]

(* One command for all; when it fails some may be gone all the same.       *)
BatchCancel(js, s) ==
  \/ /\ Killed(js)
     /\ status' = [j \in Jobs |-> IF j \in js THEN s ELSE status[j]]
     /\ told' = told \cup js
  \/ /\ Fault("cancel")
     /\ \E some \in SUBSET js : Killed(some)
     /\ UNCHANGED <<status, told>>

(* Mutant: the return code is not looked at.                               *)
SlurmCancelUnchecked(js) ==
  /\ kind \in Slurm
  /\ \E some \in SUBSET js : Killed(some) /\ (Fault("cancel") \/ some = js)
  /\ status' = [j \in Jobs |-> IF j \in js THEN "CANCELLED" ELSE status[j]]
  /\ told' = told \cup js
  /\ UNCHANGED marked

SlurmCancel(js) == kind \in Slurm /\ BatchCancel(js, "CANCELLED") /\ UNCHANGED marked
TorqueCancel(js) == kind \in {"torque", "pbspro"} /\ BatchCancel(js, "COMPLETED") /\ UNCHANGED marked
LsfCancel(js) == kind = "lsf" /\ BatchCancel(js, "CANCELLED") /\ UNCHANGED marked
SgeCancel(js) == kind = "sge" /\ BatchCancel(js, "COMPLETED") /\ UNCHANGED marked
AwsCancel(js) == kind = "aws" /\ BatchCancel(js, "COMPLETED") /\ UNCHANGED marked

(* condor goes on with the next chunk.                                     *)
CondorCancel(js) ==
  /\ kind = "condor"
  /\ \E ok, some \in SUBSET js :
       /\ ok \subseteq some /\ (Fault("cancel") \/ ok = js)
       /\ Killed(some)
       /\ status' = [j \in Jobs |-> IF j \in ok THEN "CANCELLED" ELSE status[j]]
       /\ told' = told \cup ok
  /\ UNCHANGED marked

(* azure and google too, and they put nothing on record.                   *)
CloudCancel(js) ==
  /\ kind \in {"azure", "google"}
  /\ \E ok, some \in SUBSET js :
       /\ ok \subseteq some /\ (Fault("cancel") \/ ok = js)
       /\ Killed(some)
       /\ told' = told \cup ok
  /\ UNCHANGED <<marked, status>>

(* kube stops at the first pod that it cannot delete, with an exception.   *)
KubeCancel(js) ==
  /\ kind = "kube"
  /\ \E ok, some \in SUBSET js :
       /\ ok \subseteq some /\ Cardinality(some) <= Cardinality(ok) + 1
       /\ Fault("cancel") \/ ok = js
       /\ Killed(some)
       /\ status' = [j \in Jobs |-> IF j \in ok THEN "CANCELLED" ELSE status[j]]
       /\ told' = IF ok = js THEN told \cup js ELSE told
  /\ UNCHANGED marked

(* local says True whether or not the kill command worked; one that takes  *)
(* too long is an exception.                                               *)
LocalCancel(js) ==
  /\ kind = "local"
  /\ marked' = marked \cup js
  /\ \E some \in SUBSET js : Killed(some) /\ (Fault("cancel") \/ some = js)
  /\ told' = told \cup js \/ (Fault("cancel") /\ UNCHANGED told)
  /\ UNCHANGED status

Cancel(js) ==
  /\ js # {} /\ js \subseteq Active \ told
  /\ \A j \in Jobs : alive[j] = ""
  /\ \/ SlurmCancel(js) \/ TorqueCancel(js) \/ LsfCancel(js) \/ CondorCancel(js) \/ SgeCancel(js)
     \/ LocalCancel(js) \/ KubeCancel(js) \/ AwsCancel(js) \/ CloudCancel(js)
  /\ UNCHANGED <<setup, gone, alive, infra>>

(***************************************************************************)
(* The scheduler.                                                          *)
(***************************************************************************)
Follows(s) ==
  CASE s = "queued" -> {"running", "held", "transferring", "failed", "cancelled"}
    [] s = "held" -> {"queued"}
    [] s = "transferring" -> {"running"}
    [] s = "running" -> {"suspended", "stopping", "done", "failed", "timeout", "cancelled"}
    [] s = "suspended" -> {"running"}
    [] s = "stopping" -> {"done", "failed", "timeout", "cancelled"}
    [] OTHER -> {}

(* A local process ends by writing its exit code, or is killed.            *)
CanShow == IF kind = "local" THEN DOMAIN Table ELSE DOMAIN Table \cup {"done"}
JobMoves(j) ==
  /\ \E s \in Follows(job[j]) \cap CanShow :
       /\ kind = "local" /\ job[j] = "running" => s \in {"stopping", "cancelled"}
       /\ job' = [job EXCEPT ![j] = s]
  /\ UNCHANGED <<setup, gone, status, told, marked, alive, infra>>

Forget(j) ==
  /\ kind # "local" /\ job[j] \in Over /\ j \notin gone
  /\ gone' = gone \cup {j}
  /\ UNCHANGED <<setup, job, status, told, marked, alive, infra>>

(***************************************************************************)
(* The network of the EC2 provider, made before the first job and kept     *)
(* from run to run in a state file.  A run may end before its first job.   *)
(***************************************************************************)
AfterStage(s) ==
  CASE s = "vpc" -> "gateway" [] s = "gateway" -> "routes" [] s = "routes" -> "subnets"
    [] s = "subnets" -> "group" [] s = "group" -> "file"

AwsReadStateFile ==
  /\ infra.stage = "start"
  /\ infra' = IF infra.file THEN [infra EXCEPT !.stage = "ready"]
              ELSE [infra EXCEPT !.stage = "vpc", !.vpcs = @ + 1]

AwsCreateVpc ==
  /\ infra.stage \in {"vpc", "gateway", "routes", "subnets", "group"}
  /\ infra' = [infra EXCEPT !.stage = AfterStage(@)]

(* Mutant: another run makes its own network.                              *)
AwsForgetStateFile ==
  /\ infra.stage = "file"
  /\ infra' = [infra EXCEPT !.stage = "ready"]

AwsWriteStateFile ==
  /\ infra.stage = "file"
  /\ infra' = [infra EXCEPT !.stage = "ready", !.file = TRUE]

(* A call fails: the constructor raises.  The bound is one such run.       *)
AwsCreateFails ==
  /\ infra.stage \notin {"start", "ready"} /\ infra.failed < 1
  /\ infra' = [infra EXCEPT !.stage = "start", !.failed = @ + 1]

AwsRunEnds ==
  /\ infra.stage = "ready" /\ \A j \in Jobs : job[j] = "none"
  /\ infra' = [infra EXCEPT !.stage = "start"]

AwsInfra ==
  /\ kind = "aws"
  /\ AwsReadStateFile \/ AwsCreateVpc \/ AwsWriteStateFile \/ AwsCreateFails \/ AwsRunEnds
  /\ UNCHANGED <<setup, job, gone, status, told, marked, alive>>

Next ==
  \/ \E j \in Jobs : Submit(j) \/ LocalIsAlive(j) \/ LocalReads(j) \/ JobMoves(j) \/ Forget(j)
  \/ Status \/ StatusFails
  \/ \E js \in SUBSET Jobs : Cancel(js)
  \/ AwsInfra

(* EC2 may answer in the same order for ever: a poll must change what is   *)
(* said only when that is so in every order.                               *)
TellsSomething == kind = "aws" => \A order \in AwsOrders : AwsAnswers(order) # status

(* The poller asks again and again, and is answered again and again.       *)
Spec ==
  /\ Init /\ [][Next]_vars
  /\ WF_vars(Status /\ TellsSomething)
  /\ \A j \in Jobs : WF_vars(LocalIsAlive(j) \/ LocalReads(j))

-----------------------------------------------------------------------------
TypeOK ==
  /\ job \in [Jobs -> Live \cup Over \cup {"none", "stopping"}]
  /\ status \in [Jobs -> JobState \cup {"none"}]
  /\ gone \subseteq Jobs /\ told \subseteq Known /\ marked \subseteq Known
  /\ alive \in [Jobs -> {"", "yes", "no"}]
  /\ infra.vpcs \in Nat

(* A job that cancel has answered True for does not run or wait any more,  *)
(* whatever of the commands has failed.  local answers True for a process  *)
(* that it could not kill.                                                 *)
CancelledIsOver ==
  /\ TypeOK
  /\ ~(kind = "local" /\ Fault("cancel")) => \A j \in told : job[j] \notin Live

(* However often runs begin and end, the account has one network and one   *)
(* more for each run that failed while it made one.                        *)
OneVpc == infra.vpcs <= 1 + infra.failed

(* States that a scheduler shows in a way the provider reads wrongly: jobs *)
(* on hold or suspended, on their way to a node or sending their output    *)
(* are said to be over or to have failed, and an exit code file that is    *)
(* just being written is a failure.                                        *)
Misread ==
  {<<"lsf", "held">>, <<"lsf", "suspended">>, <<"lsf", "cancelled">>, <<"lsf", "timeout">>,
   <<"condor", "held">>, <<"condor", "stopping">>,
   <<"sge", "transferring">>, <<"sge", "suspended">>,
   <<"google", "suspended">>, <<"local", "stopping">>, <<"local", "broken">>}

Proves(s) ==
  CASE s = "FAILED" -> {"failed"}
    [] s = "TIMEOUT" -> {"timeout"}
    [] s = "CANCELLED" -> {"cancelled", "stopping"} \cup (IF kind = "local" THEN {} ELSE Over)
    [] s = "COMPLETED" -> Over \cup {"stopping"}

(* A poll says that a job is over, and how, only when that is so: not of a *)
(* job whose query failed, whose process ended between two looks at it, or *)
(* that is not in the answer yet.  Excepted are the readings above, torque *)
(* with a failing qstat, and EC2, which may give one instance's answer for *)
(* another.  And a job that was over on record stays so, where the         *)
(* provider does not ask for it again; slurm forgets how it ended.         *)
EndsTrue(j) ==
  /\ status'[j] \in Terminal /\ status[j] \notin Terminal \cup {"none"}
  /\ kind # "aws" /\ ~(kind = "torque" /\ Fault("query"))
  => job'[j] \in Proves(status'[j]) \/ <<kind, job[j]>> \in Misread
EndsKept(j) ==
  status[j] \in Terminal /\ kind \in Slurm \cup {"lsf", "local", "kube"}
    => status'[j] \in {status[j]} \cup (IF kind \in Slurm THEN {"COMPLETED"} ELSE {})
EndsAreReal == [][\A j \in Jobs : EndsTrue(j) /\ EndsKept(j)]_vars

(* The end of a job that the provider knows is seen, even when its         *)
(* scheduler has forgotten it before it was asked.  condor and kube leave  *)
(* such a job as it was, and the clouds raise for all.  With EC2 it may    *)
(* always be another instance's state that is taken for the job's, until   *)
(* every instance that is asked for is over.                               *)
EndIsSeen == \A j \in Jobs :
  (j \in Known /\ job[j] \in Over) ~>
     \/ status[j] \in Terminal
     \/ kind \in {"condor", "kube"} /\ ~Listed(j)
     \/ kind \in {"aws", "azure", "google"} /\ \E i \in Known : ~Listed(i)
     \/ kind = "aws" /\ \E i \in Known : job[i] \notin Over
=============================================================================
