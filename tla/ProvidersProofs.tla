-------------------------- MODULE ProvidersProofs --------------------------
(***************************************************************************)
(* That a cancelled job is over, that the runs of an EC2 provider share    *)
(* one network, and that a poll tells a job's end from what is so.         *)
(***************************************************************************)
EXTENDS Providers, TLAPS

States == Live \cup Over \cup {"none", "stopping"}
Stages == {"start", "vpc", "gateway", "routes", "subnets", "group", "file", "ready"}

(* The state of one job: it is one that its scheduler has, and a job that  *)
(* the provider knows was submitted.                                       *)
JobOK(j) ==
  /\ job[j] \in States
  /\ job[j] \in (DOMAIN Table) \cup Over \cup {"none"}
  /\ kind = "local" => job[j] \in (DOMAIN ExitFile) \cup {"none"}
  /\ j \in Known => job[j] # "none"
  /\ j \in gone => job[j] \in Over

(* What local has seen of a process between its two looks at it.           *)
LookOK(j) ==
  /\ alive[j] # "" => j \in Active /\ kind = "local"
  /\ alive[j] = "no" => job[j] \in Over

CancelOK(j) ==
  j \in told /\ ~(kind = "local" /\ Fault("cancel")) => job[j] \notin Live

(* A network is made by one run at a time, and kept once it is in the file.*)
InfraOK ==
  /\ infra \in [stage: Stages, file: BOOLEAN, vpcs: Nat, failed: Nat]
  /\ infra.stage = "start" /\ ~infra.file => infra.vpcs <= infra.failed
  /\ infra.vpcs <= 1 + infra.failed
  /\ kind = "aws" /\ infra.stage = "ready" => infra.file
  /\ infra.stage \notin {"start", "ready"} => ~infra.file

IInv ==
  /\ setup \in Setups
  /\ TypeOK
  /\ \A j \in Jobs : JobOK(j) /\ LookOK(j) /\ CancelOK(j)
  /\ InfraOK

-----------------------------------------------------------------------------
(***************************************************************************)
(* Tables and readings.                                                    *)
(***************************************************************************)
LEMMA KindIs == IInv => kind \in Kinds
  BY SetupsAssumption DEF IInv, kind

(* What the table of a provider other than local says is a job state, and  *)
(* one that ends the job is so, but for what is misread.                   *)
LEMMA Reading ==
  ASSUME kind \in Kinds \ {"local"}, NEW s \in DOMAIN Table
  PROVE  /\ Table[s] \in JobState
         /\ Table[s] \in Terminal /\ kind # "aws" =>
              s \in Proves(Table[s]) \/ <<kind, s>> \in Misread
<1> USE DEF JobState, Terminal, Proves, Misread, Over, Live
<1>1. CASE kind = "sacct"
  BY <1>1 DEF Table, SacctTable
<1>2. CASE kind = "squeue"
  BY <1>2 DEF Table, SqueueTable
<1>3. CASE kind \in {"torque", "pbspro"}
  BY <1>3 DEF Table, PbsTable
<1>4. CASE kind = "lsf"
  BY <1>4 DEF Table, LsfTable
<1>5. CASE kind = "condor"
  BY <1>5 DEF Table, CondorTable
<1>6. CASE kind = "sge"
  BY <1>6 DEF Table, SgeTable
<1>7. CASE kind = "kube"
  BY <1>7 DEF Table, KubeTable
<1>8. CASE kind = "aws"
  BY <1>8 DEF Table, AwsTable
<1>9. CASE kind = "azure"
  <2>1. Table = AwsTable
    BY <1>9 DEF Table, AzureTable
  <2>2. QED
    BY <2>1 DEF AwsTable
<1>10. CASE kind = "google"
  BY <1>10 DEF Table, GoogleTable
<1>11. QED
  BY <1>1, <1>2, <1>3, <1>4, <1>5, <1>6, <1>7, <1>8, <1>9, <1>10 DEF Kinds, Slurm

(* A job can be submitted and run whatever the provider.                   *)
LEMMA Shown ==
  ASSUME kind \in Kinds
  PROVE  /\ "running" \in DOMAIN Table
         /\ kind # "local" => "queued" \in DOMAIN Table
         /\ kind = "local" => Table = ExitFile
  BY DEF Kinds, Slurm, Table, SacctTable, SqueueTable, PbsTable, LsfTable, CondorTable,
         SgeTable, KubeTable, AwsTable, AzureTable, GoogleTable, ExitFile

-----------------------------------------------------------------------------
(***************************************************************************)
(* Polls.                                                                  *)
(***************************************************************************)
Ends == \A j \in Jobs : EndsTrue(j) /\ EndsKept(j)

(* A poll answers for the jobs the provider knows, truly.                  *)
Reports ==
  /\ status' \in [Jobs -> JobState \cup {"none"}]
  /\ \A j \in Jobs : status'[j] = "none" <=> status[j] = "none"
  /\ Ends

LEMMA SameEnds == UNCHANGED status => Ends
  BY DEF Ends, EndsTrue, EndsKept

(* A job that the provider knows and is not answered for is over.          *)
LEMMA Missing ==
  ASSUME IInv, NEW j \in Known, ~Listed(j)
  PROVE  job[j] \in Over
  BY DEF IInv, JobOK, Listed, Known

(* What is answered for a job is a state, and an end only if it is so.     *)
LEMMA Answered ==
  ASSUME IInv, kind # "local", NEW j \in Jobs, Listed(j)
  PROVE  /\ Answer(j) \in JobState
         /\ Answer(j) \in Terminal /\ kind # "aws" =>
              job[j] \in Proves(Answer(j)) \/ <<kind, job[j]>> \in Misread
  BY KindIs, Reading DEF Listed, Answer

LEMMA AnswersReport ==
  ASSUME IInv, NEW js \in SUBSET Known, NEW missing \in {"COMPLETED", "UNKNOWN"},
         status' = Answers(js, missing), job' = job, kind # "local",
         kind \in Slurm \cup {"lsf", "kube"} => js \subseteq Active
  PROVE  Reports
<1>1. js \subseteq Jobs /\ missing \in JobState \ {"none"} /\ "none" \notin JobState
  BY DEF Known, JobState
<1>2. status \in [Jobs -> JobState \cup {"none"}]
  BY DEF IInv, TypeOK
<1>3. \A j \in Jobs : status'[j] = IF j \notin js THEN status[j]
                                   ELSE IF Listed(j) THEN Answer(j) ELSE missing
  BY DEF Answers
<1>4. \A j \in js : status'[j] \in JobState /\ status[j] # "none"
  BY <1>1, <1>3, Answered DEF Known
<1>5. status' \in [Jobs -> JobState \cup {"none"}]
  <2>1. \A j \in Jobs : status'[j] \in JobState \cup {"none"}
    BY <1>2, <1>3, <1>4
  <2>2. QED
    BY <2>1 DEF Answers
<1>6. \A j \in Jobs : status'[j] = "none" <=> status[j] = "none"
  BY <1>1, <1>3, <1>4
<1>7. ASSUME NEW j \in Jobs PROVE EndsTrue(j)
  <2>1. CASE j \notin js
    BY <1>3, <2>1 DEF EndsTrue
  <2>2. CASE j \in js /\ Listed(j)
    BY <1>3, <2>2, Answered DEF EndsTrue
  <2>3. CASE j \in js /\ ~Listed(j)
    <3>1. status'[j] = missing /\ job'[j] \in Over
      BY <1>3, <2>3, Missing
    <3>2. QED
      BY <3>1 DEF EndsTrue, Proves, Terminal
  <2>4. QED
    BY <2>1, <2>2, <2>3
<1>8. ASSUME NEW j \in Jobs PROVE EndsKept(j)
  <2>1. kind \in Slurm \cup {"lsf", "kube"} /\ status[j] \in Terminal => j \notin js
    BY DEF Active
  <2>2. QED
    BY <1>3, <2>1 DEF EndsKept
<1>9. QED
  BY <1>5, <1>6, <1>7, <1>8 DEF Reports, Ends

(* slurm asks for active jobs, and writes down every job.                  *)
LEMMA SlurmReports == ASSUME IInv, SlurmStatus, job' = job PROVE Reports
<1>1. kind \in Slurm /\ kind # "local"
  BY DEF SlurmStatus, Slurm
<1>2. status \in [Jobs -> JobState \cup {"none"}] /\ "none" \notin JobState
      /\ "COMPLETED" \in JobState /\ Active \subseteq Known
  BY DEF IInv, TypeOK, JobState, Active
<1>3. \A j \in Jobs : status'[j] = IF j \in Active /\ Listed(j) THEN Answer(j)
                                   ELSE IF j \in Known THEN "COMPLETED" ELSE status[j]
  BY DEF SlurmStatus
<1>4. \A j \in Known : status'[j] \in JobState /\ status[j] # "none" /\ j \in Jobs
  BY <1>1, <1>2, <1>3, Answered DEF Known
<1>5. status' \in [Jobs -> JobState \cup {"none"}]
  <2>1. \A j \in Jobs : status'[j] \in JobState \cup {"none"}
    BY <1>2, <1>3, <1>4
  <2>2. QED
    BY <2>1 DEF SlurmStatus
<1>6. \A j \in Jobs : status'[j] = "none" <=> status[j] = "none"
  BY <1>2, <1>3, <1>4
<1>7. ASSUME NEW j \in Jobs PROVE EndsTrue(j)
  <2>1. CASE j \notin Active
    BY <1>3, <2>1 DEF EndsTrue, Active, Known
  <2>2. CASE j \in Active /\ Listed(j)
    BY <1>1, <1>3, <2>2, Answered DEF EndsTrue
  <2>3. CASE j \in Active /\ ~Listed(j)
    <3>1. status'[j] = "COMPLETED" /\ job'[j] \in Over
      BY <1>2, <1>3, <2>3, Missing
    <3>2. QED
      BY <3>1 DEF EndsTrue, Proves
  <2>4. QED
    BY <2>1, <2>2, <2>3
<1>8. ASSUME NEW j \in Jobs PROVE EndsKept(j)
  BY <1>1, <1>3 DEF EndsKept, Active
<1>9. QED
  BY <1>5, <1>6, <1>7, <1>8 DEF Reports, Ends

(* EC2: any of the answers.                                                *)
LEMMA AwsReports == ASSUME IInv, AwsStatus PROVE Reports
<1>1. kind = "aws" /\ \A j \in Known : Listed(j)
  BY DEF AwsStatus
<1>2. PICK order \in [Known -> Known] :
        status' = [j \in Jobs |-> IF j \in Known THEN Answer(order[j]) ELSE status[j]]
  BY DEF AwsStatus, AwsOrders, AwsAnswers
<1>3. status \in [Jobs -> JobState \cup {"none"}] /\ "none" \notin JobState
  BY DEF IInv, TypeOK, JobState
<1>4. \A j \in Known : Answer(order[j]) \in JobState
  BY <1>1, Answered DEF Known
<1>5. /\ status' \in [Jobs -> JobState \cup {"none"}]
      /\ \A j \in Jobs : status'[j] = "none" <=> status[j] = "none"
  BY <1>2, <1>3, <1>4 DEF Known
<1>6. Ends
  BY <1>1 DEF Ends, EndsTrue, EndsKept, Slurm
<1>7. QED
  BY <1>5, <1>6 DEF Reports

(* All the known jobs said to be complete: a torque that reads nothing.    *)
LEMMA BlindReports ==
  ASSUME IInv, kind = "torque", Fault("query"),
         status' = [j \in Jobs |-> IF j \in Known THEN "COMPLETED" ELSE status[j]]
  PROVE  Reports
<1>1. status \in [Jobs -> JobState \cup {"none"}] /\ "COMPLETED" \in JobState
  BY DEF IInv, TypeOK, JobState
<1>2. /\ status' \in [Jobs -> JobState \cup {"none"}]
      /\ \A j \in Jobs : status'[j] = "none" <=> status[j] = "none"
  BY <1>1 DEF Known
<1>3. Ends
  BY DEF Ends, EndsTrue, EndsKept, Slurm
<1>4. QED
  BY <1>2, <1>3 DEF Reports

LEMMA StatusReports ==
  ASSUME IInv, Status \/ StatusFails
  PROVE  Reports /\ kind # "local"
<1>1. job' = job /\ Active \subseteq Known
  BY DEF Status, StatusFails, Active
<1>2. ASSUME NEW chunks \in SUBSET Known, CondorStatusOf(chunks) PROVE Reports /\ kind # "local"
  <2>1. {j \in chunks : Listed(j)} \in SUBSET Known
    OBVIOUS
  <2>2. QED
    BY <1>1, <1>2, <2>1, AnswersReport DEF CondorStatusOf, Slurm
<1>3. ASSUME NEW pods \in SUBSET Active, KubeStatusOf(pods) PROVE Reports /\ kind # "local"
  <2>1. {j \in pods : Listed(j)} \in SUBSET Known /\ {j \in pods : Listed(j)} \subseteq Active
    BY <1>1
  <2>2. QED
    BY <1>1, <1>3, <2>1, AnswersReport DEF KubeStatusOf, Slurm
<1>4. CASE Status
  <2>1. CASE SlurmStatus
    BY <1>1, <2>1, SlurmReports DEF SlurmStatus, Slurm
  <2>2. CASE TorqueStatus \/ PbsStatus \/ SgeStatus
    BY <1>1, <2>2, AnswersReport DEF TorqueStatus, PbsStatus, SgeStatus, Slurm
  <2>3. CASE LsfStatus
    BY <1>1, <2>3, AnswersReport DEF LsfStatus, Slurm
  <2>4. CASE CondorStatus \/ KubeStatus
    BY <1>1, <1>2, <1>3, <2>4 DEF CondorStatus, KubeStatus
  <2>5. CASE AwsStatus
    BY <2>5, AwsReports DEF AwsStatus
  <2>6. CASE AzureStatus \/ GoogleStatus
    BY <1>1, <2>6, AnswersReport DEF AzureStatus, GoogleStatus, Slurm
  <2>7. QED
    BY <1>4, <2>1, <2>2, <2>3, <2>4, <2>5, <2>6 DEF Status
<1>5. CASE StatusFails
  BY <1>2, <1>3, <1>5, BlindReports DEF StatusFails
<1>6. QED
  BY <1>4, <1>5

LEMMA ReportsInv ==
  ASSUME IInv, Status \/ StatusFails
  PROVE  IInv' /\ Ends
<1>1. Reports /\ kind # "local"
  BY StatusReports
<1>2. UNCHANGED <<setup, job, gone, told, marked, alive, infra>>
  BY DEF Status, StatusFails
<1>3. kind' = kind /\ Table' = Table /\ Known' = Known
  BY <1>1, <1>2 DEF kind, Table, Reports, Known
<1>4. TypeOK'
  BY <1>1, <1>2, <1>3 DEF IInv, TypeOK, Reports
<1>5. \A j \in Jobs : JobOK(j)' /\ CancelOK(j)'
  BY <1>2, <1>3 DEF IInv, JobOK, CancelOK, Fault
<1>6. \A j \in Jobs : LookOK(j)'
  BY <1>1, <1>2, <1>3 DEF IInv, LookOK
<1>7. InfraOK'
  BY <1>2, <1>3 DEF IInv, InfraOK
<1>8. QED
  BY <1>1, <1>2, <1>4, <1>5, <1>6, <1>7 DEF IInv, Reports

(* local looks at a process ...                                            *)
LEMMA LocalIsAliveInv ==
  ASSUME IInv, NEW j \in Jobs, LocalIsAlive(j)
  PROVE  IInv' /\ Ends
<1>1. UNCHANGED <<setup, job, gone, status, told, marked, infra>>
  BY DEF LocalIsAlive
<1>2. kind' = kind /\ Table' = Table /\ Known' = Known /\ Active' = Active
  BY <1>1 DEF kind, Table, Known, Active
<1>3. alive' = [alive EXCEPT ![j] = IF job[j] \in Over THEN "no" ELSE "yes"]
      /\ kind = "local" /\ j \in Active /\ alive \in [Jobs -> {"", "yes", "no"}]
  BY DEF LocalIsAlive, IInv, TypeOK
<1>4. TypeOK'
  BY <1>1, <1>2, <1>3 DEF IInv, TypeOK
<1>5. \A i \in Jobs : JobOK(i)' /\ CancelOK(i)'
  BY <1>1, <1>2 DEF IInv, JobOK, CancelOK, Fault
<1>6. \A i \in Jobs : LookOK(i)'
  BY <1>1, <1>2, <1>3 DEF IInv, LookOK
<1>7. InfraOK'
  BY <1>1, <1>2 DEF IInv, InfraOK
<1>8. QED
  BY <1>1, <1>4, <1>5, <1>6, <1>7, SameEnds DEF IInv

(* ... and reads its file, where a file just being written is misread.     *)
LEMMA FileRead ==
  ASSUME IInv, NEW j \in Jobs, LocalReads(j)
  PROVE  /\ kind = "local" /\ j \in Active
         /\ status'[j] \in JobState
         /\ status'[j] \in Terminal => job[j] \in Proves(status'[j]) \/ <<kind, job[j]>> \in Misread
<1>1. kind = "local" /\ j \in Active /\ alive[j] \in {"yes", "no"}
  BY DEF LocalReads, IInv, TypeOK, LookOK
<1>2. job[j] \in DOMAIN ExitFile /\ (alive[j] = "no" => job[j] \in Over)
  BY <1>1 DEF IInv, JobOK, LookOK, Active
<1>3. status'[j] =
        CASE ExitFile[job[j]] = "-" -> IF alive[j] = "yes" THEN "RUNNING" ELSE "CANCELLED"
          [] ExitFile[job[j]] = "0" -> "COMPLETED"
          [] OTHER -> "FAILED"
  BY DEF LocalReads, IInv, TypeOK
<1>4. job[j] \in {"running", "stopping", "done", "failed", "cancelled", "broken"}
  BY <1>2 DEF ExitFile
<1>5. CASE job[j] = "running"
  BY <1>1, <1>2, <1>3, <1>5 DEF ExitFile, Over, JobState, Terminal
<1>6. CASE job[j] \in {"stopping", "broken"}
  BY <1>1, <1>3, <1>6 DEF ExitFile, JobState, Misread
<1>7. CASE job[j] = "done"
  <2>1. status'[j] = "COMPLETED"
    BY <1>1, <1>3, <1>7 DEF ExitFile
  <2>2. QED
    BY <1>1, <1>7, <2>1 DEF JobState, Proves, Over
<1>8. CASE job[j] = "failed"
  <2>1. status'[j] = "FAILED"
    BY <1>1, <1>3, <1>8 DEF ExitFile
  <2>2. QED
    BY <1>1, <1>8, <2>1 DEF JobState, Proves
<1>9. CASE job[j] = "cancelled"
  <2>1. status'[j] \in {"RUNNING", "CANCELLED"}
    BY <1>1, <1>3, <1>9 DEF ExitFile
  <2>2. QED
    BY <1>1, <1>9, <2>1 DEF JobState, Terminal, Proves
<1>10. QED
  BY <1>1, <1>4, <1>5, <1>6, <1>7, <1>8, <1>9

LEMMA LocalReadsInv ==
  ASSUME IInv, NEW j \in Jobs, LocalReads(j)
  PROVE  IInv' /\ Ends
<1>1. UNCHANGED <<setup, job, gone, told, marked, infra>>
  BY DEF LocalReads
<1>2. /\ alive' = [alive EXCEPT ![j] = ""] /\ alive \in [Jobs -> {"", "yes", "no"}]
      /\ status \in [Jobs -> JobState \cup {"none"}]
      /\ \A i \in Jobs \ {j} : status'[i] = status[i]
      /\ DOMAIN status' = Jobs /\ status' = [i \in Jobs |-> status'[i]]
  BY DEF LocalReads, IInv, TypeOK
<1>3. kind = "local" /\ j \in Active /\ status'[j] \in JobState
  BY FileRead
<1>4. kind' = kind /\ Table' = Table /\ Known' = Known
  BY <1>1, <1>2, <1>3 DEF kind, Table, Known, Active, JobState
<1>5. TypeOK'
  <2>1. status' \in [Jobs -> JobState \cup {"none"}]
    BY <1>2, <1>3
  <2>2. alive' \in [Jobs -> {"", "yes", "no"}]
    BY <1>2
  <2>3. QED
    BY <1>1, <1>4, <2>1, <2>2 DEF IInv, TypeOK
<1>6. \A i \in Jobs : JobOK(i)' /\ CancelOK(i)'
  BY <1>1, <1>4 DEF IInv, JobOK, CancelOK, Fault
<1>7. \A i \in Jobs : LookOK(i)'
  BY <1>1, <1>2, <1>3, <1>4 DEF IInv, LookOK, Active
<1>8. InfraOK'
  BY <1>1, <1>4 DEF IInv, InfraOK
<1>9. ASSUME NEW i \in Jobs PROVE EndsTrue(i) /\ EndsKept(i)
  <2>1. CASE i = j
    <3>1. j \in Active /\ job' = job
      BY <1>1, <1>3
    <3>2. QED
      BY <2>1, <3>1, FileRead DEF EndsTrue, EndsKept, Active
  <2>2. CASE i # j
    BY <1>2, <2>2 DEF EndsTrue, EndsKept
  <2>3. QED
    BY <2>1, <2>2
<1>10. QED
  BY <1>1, <1>5, <1>6, <1>7, <1>8, <1>9 DEF IInv, Ends

-----------------------------------------------------------------------------
(***************************************************************************)
(* Jobs enter.                                                             *)
(***************************************************************************)
LEMMA EntersInv ==
  ASSUME IInv, NEW j \in Jobs, job[j] = "none",
         NEW first \in {"queued", "running"}, first \in DOMAIN Table,
         kind = "local" => first = "running", NEW s \in JobState,
         Accepted(j, first, s) \/ Unread(j, first),
         UNCHANGED <<setup, gone, told, marked, alive, infra>>
  PROVE  IInv' /\ Ends
<1>1. /\ job \in [Jobs -> States] /\ status \in [Jobs -> JobState \cup {"none"}]
      /\ job' = [job EXCEPT ![j] = first] /\ first \in States \ {"none"}
  BY DEF IInv, TypeOK, Accepted, Unread, States, Live
<1>2. status[j] = "none" /\ j \notin told /\ alive[j] = "" /\ j \notin gone
  BY DEF IInv, TypeOK, JobOK, LookOK, Known, Active, Over
<1>3. status' = status \/ status' = [status EXCEPT ![j] = s]
  BY DEF Accepted, Unread
<1>4. kind' = kind /\ Table' = Table /\ Known \subseteq Known' /\ Known' \subseteq Known \cup {j}
  BY <1>1, <1>2, <1>3 DEF kind, Table, Known, JobState
<1>5. \A i \in Jobs \ {j} : status'[i] = status[i] /\ job'[i] = job[i]
  BY <1>1, <1>3
<1>6. TypeOK'
  <2>1. job' \in [Jobs -> States] /\ status' \in [Jobs -> JobState \cup {"none"}]
    BY <1>1, <1>3
  <2>2. told \subseteq Known' /\ marked \subseteq Known'
    BY <1>4 DEF IInv, TypeOK
  <2>3. QED
    BY <2>1, <2>2 DEF IInv, TypeOK, States
<1>7. JobOK(j)' /\ LookOK(j)' /\ CancelOK(j)'
  <2>1. job'[j] = first /\ alive'[j] = "" /\ j \notin told' /\ j \notin gone'
    BY <1>1, <1>2
  <2>2. kind = "local" => first \in DOMAIN ExitFile
    BY DEF ExitFile
  <2>3. QED
    BY <1>1, <1>4, <2>1, <2>2 DEF JobOK, LookOK, CancelOK
<1>8. ASSUME NEW i \in Jobs, i # j PROVE JobOK(i)' /\ LookOK(i)' /\ CancelOK(i)'
  <2>1. job'[i] = job[i] /\ (i \in Known' <=> i \in Known) /\ (i \in Active' <=> i \in Active)
    BY <1>4, <1>5, <1>8 DEF Known, Active
  <2>2. QED
    BY <1>4, <2>1 DEF IInv, JobOK, LookOK, CancelOK, Fault
<1>9. InfraOK'
  BY <1>4 DEF IInv, InfraOK
<1>10. Ends
  <2>1. \A i \in Jobs : status[i] = "none" \/ status'[i] = status[i]
    BY <1>2, <1>5
  <2>2. QED
    BY <2>1 DEF Ends, EndsTrue, EndsKept, Terminal
<1>11. QED
  BY <1>6, <1>7, <1>8, <1>9, <1>10 DEF IInv

LEMMA SubmitInv ==
  ASSUME IInv, NEW j \in Jobs, Submit(j)
  PROVE  IInv' /\ Ends
<1>1. UNCHANGED <<setup, gone, told, marked, alive, infra>> /\ job[j] = "none"
  BY DEF Submit, SlurmSubmit, TorqueSubmit, PbsSubmit, LsfSubmit, CondorSubmit, SgeSubmit,
         LocalSubmit, KubeSubmit, AwsSubmit, AzureSubmit, GoogleSubmit, Submitting
<1>2. CASE LocalSubmit(j)
  <2>1. kind = "local" /\ "running" \in DOMAIN Table /\ "RUNNING" \in JobState
        /\ (Accepted(j, "running", "RUNNING") \/ Unread(j, "running"))
    BY <1>2, KindIs, Shown DEF LocalSubmit, Submitting, JobState
  <2>2. QED
    BY <1>1, <2>1, EntersInv
<1>3. CASE ~LocalSubmit(j)
  <2>1. kind # "local" /\ "queued" \in DOMAIN Table
    BY <1>3, KindIs, Shown DEF Submit, SlurmSubmit, TorqueSubmit, PbsSubmit, LsfSubmit,
       CondorSubmit, SgeSubmit, LocalSubmit, KubeSubmit, AwsSubmit, AzureSubmit, GoogleSubmit,
       Submitting, Slurm
  <2>2. PICK s \in JobState : Accepted(j, "queued", s) \/ Unread(j, "queued")
    BY <1>3 DEF Submit, SlurmSubmit, TorqueSubmit, PbsSubmit, LsfSubmit, CondorSubmit,
       SgeSubmit, KubeSubmit, AwsSubmit, AzureSubmit, GoogleSubmit, Batch, KubeCreatePod,
       AwsSpinUpInstance, GoogleCreateInstance, JobState
  <2>3. QED
    BY <1>1, <2>1, <2>2, EntersInv
<1>4. QED
  BY <1>2, <1>3

-----------------------------------------------------------------------------
(***************************************************************************)
(* Jobs are cancelled.                                                     *)
(***************************************************************************)
(* What a command that takes jobs out does to each.                        *)
Taken(js) ==
  /\ job' \in [Jobs -> States]
  /\ \A j \in js : job'[j] \in Over \cup {"stopping"}
  /\ \A j \in Jobs \ js : job'[j] = job[j]
  /\ \A j \in Jobs : job[j] \in Over => job'[j] = job[j]
  /\ \A j \in js : job'[j] \in DOMAIN Table \cup Over
  /\ \A j \in js : kind = "local" => job'[j] \in DOMAIN ExitFile

LEMMA KilledJobs ==
  ASSUME IInv, NEW js \in SUBSET Known, Killed(js)
  PROVE  Taken(js)
<1>1. PICK slow \in SUBSET {j \in js : job[j] = "running" /\ "stopping" \in DOMAIN Table} :
        job' = [j \in Jobs |->
          IF j \notin js \/ job[j] \in Over THEN job[j]
          ELSE IF j \in slow THEN "stopping"
          ELSE IF kind = "local" /\ job[j] = "stopping" THEN "broken" ELSE "cancelled"]
  BY DEF Killed
<1>2. js \subseteq Jobs /\ job \in [Jobs -> States]
  BY DEF Known, IInv, TypeOK, States
<1>3. {"broken", "cancelled"} \subseteq Over /\ Over \cup {"stopping"} \subseteq States
      /\ {"broken", "cancelled", "stopping"} \subseteq DOMAIN ExitFile
  BY DEF Over, States, ExitFile
<1>4. job' \in [Jobs -> States]
  BY <1>1, <1>2, <1>3
<1>5. \A j \in js : job'[j] \in Over \cup {"stopping"} /\ job'[j] \in DOMAIN Table \cup Over
  BY <1>1, <1>2, <1>3
<1>6. \A j \in js : kind = "local" => job'[j] \in DOMAIN ExitFile
  <2>1. ASSUME NEW j \in js, kind = "local", job[j] \in Over PROVE job'[j] \in DOMAIN ExitFile
    <3>1. job'[j] = job[j] /\ job[j] # "none"
      BY <1>1, <1>2, <2>1 DEF Over
    <3>2. QED
      BY <1>2, <2>1, <3>1 DEF IInv, JobOK
  <2>2. ASSUME NEW j \in js, kind = "local", job[j] \notin Over PROVE job'[j] \in DOMAIN ExitFile
    BY <1>1, <1>2, <1>3, <2>2
  <2>3. QED
    BY <2>1, <2>2
<1>7. \A j \in Jobs \ js : job'[j] = job[j]
  BY <1>1
<1>8. \A j \in Jobs : job[j] \in Over => job'[j] = job[j]
  BY <1>1
<1>9. QED
  BY <1>4, <1>5, <1>6, <1>7, <1>8 DEF Taken

(* One command takes some of the jobs out; those that go on record as over *)
(* are among these, and so are those the caller is told of, unless it is   *)
(* local that tells.                                                       *)
Takes(js, some) ==
  /\ some \subseteq js
  /\ Taken(some)
  /\ status' \in [Jobs -> JobState \cup {"none"}]
  /\ \A j \in Jobs : \/ status'[j] = status[j]
                     \/ j \in some /\ kind # "local" /\ status'[j] \in {"CANCELLED", "COMPLETED"}
  /\ told \subseteq told' /\ told' \subseteq told \cup js
  /\ ~(kind = "local" /\ Fault("cancel")) => told' \subseteq told \cup some
  /\ marked' \subseteq marked \cup js

LEMMA Marking ==
  ASSUME IInv, NEW js \in SUBSET Known, NEW s \in {"CANCELLED", "COMPLETED"},
         status' = [j \in Jobs |-> IF j \in js THEN s ELSE status[j]]
  PROVE  /\ status' \in [Jobs -> JobState \cup {"none"}]
         /\ \A j \in Jobs : status'[j] = status[j] \/ (j \in js /\ status'[j] = s)
<1>1. status \in [Jobs -> JobState \cup {"none"}] /\ s \in JobState
  BY DEF IInv, TypeOK, JobState
<1>2. QED
  BY <1>1

LEMMA BatchTakes ==
  ASSUME IInv, NEW js \in SUBSET Known, NEW s \in {"CANCELLED", "COMPLETED"},
         kind # "local", BatchCancel(js, s), UNCHANGED marked
  PROVE  \E some \in SUBSET js : Takes(js, some)
<1>1. CASE Killed(js) /\ told' = told \cup js
           /\ status' = [j \in Jobs |-> IF j \in js THEN s ELSE status[j]]
  <2>1. Takes(js, js)
    BY <1>1, KilledJobs, Marking DEF Takes
  <2>2. QED
    BY <2>1
<1>2. CASE (\E some \in SUBSET js : Killed(some)) /\ UNCHANGED <<status, told>>
  <2>1. PICK some \in SUBSET js : Killed(some)
    BY <1>2
  <2>2. some \in SUBSET Known /\ status \in [Jobs -> JobState \cup {"none"}]
    BY DEF IInv, TypeOK
  <2>3. Takes(js, some)
    BY <1>2, <2>1, <2>2, KilledJobs DEF Takes
  <2>4. QED
    BY <2>3
<1>3. QED
  BY <1>1, <1>2 DEF BatchCancel

(* Jobs are cancelled one by one, and those of ok have been.               *)
LEMMA EachTakes ==
  ASSUME IInv, NEW js \in SUBSET Known, NEW some \in SUBSET js, NEW ok \in SUBSET some,
         kind # "local", Killed(some), UNCHANGED marked,
         \/ UNCHANGED status
         \/ status' = [j \in Jobs |-> IF j \in ok THEN "CANCELLED" ELSE status[j]],
         told' \in {told, told \cup ok}
  PROVE  Takes(js, some)
<1>1. some \in SUBSET Known /\ ok \in SUBSET Known
  OBVIOUS
<1>2. /\ status' \in [Jobs -> JobState \cup {"none"}]
      /\ \A j \in Jobs : status'[j] = status[j] \/ (j \in ok /\ status'[j] = "CANCELLED")
  <2>1. CASE UNCHANGED status
    BY <2>1 DEF IInv, TypeOK
  <2>2. CASE status' = [j \in Jobs |-> IF j \in ok THEN "CANCELLED" ELSE status[j]]
    <3>1. "CANCELLED" \in {"CANCELLED", "COMPLETED"}
      OBVIOUS
    <3>2. QED
      BY <1>1, <2>2, <3>1, Marking
  <2>3. QED
    BY <2>1, <2>2
<1>3. Taken(some) /\ told \subseteq told' /\ told' \subseteq told \cup ok
  BY <1>1, KilledJobs
<1>4. QED
  BY <1>2, <1>3 DEF Takes

LEMMA LocalTakes ==
  ASSUME IInv, NEW js \in SUBSET Known, LocalCancel(js)
  PROVE  \E some \in SUBSET js : Takes(js, some)
<1>1. PICK some \in SUBSET js : Killed(some) /\ (Fault("cancel") \/ some = js)
  BY DEF LocalCancel
<1>2. some \in SUBSET Known /\ status \in [Jobs -> JobState \cup {"none"}]
  BY DEF IInv, TypeOK
<1>3. Taken(some) /\ UNCHANGED status /\ kind = "local" /\ marked' = marked \cup js
      /\ (told' = told \cup js \/ UNCHANGED told)
  BY <1>1, <1>2, KilledJobs DEF LocalCancel
<1>4. Takes(js, some)
  BY <1>1, <1>2, <1>3 DEF Takes
<1>5. QED
  BY <1>4

LEMMA CancelTakes ==
  ASSUME IInv, NEW js \in SUBSET Jobs, Cancel(js)
  PROVE  /\ js \in SUBSET Known /\ js \subseteq Active \ told
         /\ \E some \in SUBSET js : Takes(js, some)
<1>1. js \in SUBSET Known /\ js \subseteq Active \ told
  BY DEF Cancel, Active
<1>2. CASE SlurmCancel(js) \/ LsfCancel(js)
  BY <1>1, <1>2, BatchTakes DEF SlurmCancel, LsfCancel, Slurm
<1>3. CASE TorqueCancel(js) \/ SgeCancel(js) \/ AwsCancel(js)
  BY <1>1, <1>3, BatchTakes DEF TorqueCancel, SgeCancel, AwsCancel
<1>4. CASE CondorCancel(js)
  <2>1. PICK ok \in SUBSET js, some \in SUBSET js :
          /\ ok \subseteq some /\ Killed(some) /\ told' = told \cup ok
          /\ status' = [j \in Jobs |-> IF j \in ok THEN "CANCELLED" ELSE status[j]]
    BY <1>4 DEF CondorCancel
  <2>2. kind # "local" /\ UNCHANGED marked
    BY <1>4 DEF CondorCancel
  <2>3. QED
    BY <1>1, <2>1, <2>2, EachTakes
<1>5. CASE CloudCancel(js)
  <2>1. PICK ok \in SUBSET js, some \in SUBSET js :
          ok \subseteq some /\ Killed(some) /\ told' = told \cup ok
    BY <1>5 DEF CloudCancel
  <2>2. kind # "local" /\ UNCHANGED <<marked, status>>
    BY <1>5 DEF CloudCancel
  <2>3. QED
    BY <1>1, <2>1, <2>2, EachTakes
<1>6. CASE KubeCancel(js)
  <2>1. PICK ok \in SUBSET js, some \in SUBSET js :
          /\ ok \subseteq some /\ Killed(some)
          /\ told' = IF ok = js THEN told \cup js ELSE told
          /\ status' = [j \in Jobs |-> IF j \in ok THEN "CANCELLED" ELSE status[j]]
    BY <1>6 DEF KubeCancel
  <2>2. kind # "local" /\ UNCHANGED marked /\ told' \in {told, told \cup ok}
    BY <1>6, <2>1 DEF KubeCancel
  <2>3. QED
    BY <1>1, <2>1, <2>2, EachTakes
<1>7. CASE LocalCancel(js)
  BY <1>1, <1>7, LocalTakes
<1>8. QED
  BY <1>1, <1>2, <1>3, <1>4, <1>5, <1>6, <1>7 DEF Cancel

LEMMA CancelInv ==
  ASSUME IInv, NEW js \in SUBSET Jobs, Cancel(js)
  PROVE  IInv' /\ Ends
<1>1. js \in SUBSET Known /\ js \subseteq Active \ told
  BY CancelTakes
<1>2. PICK some \in SUBSET js : Takes(js, some)
  BY CancelTakes
<1>3. UNCHANGED <<setup, gone, alive, infra>> /\ \A j \in Jobs : alive[j] = ""
  BY DEF Cancel
<1>4. kind' = kind /\ Table' = Table /\ Known' = Known
  BY <1>1, <1>2, <1>3 DEF kind, Table, Known, Takes
<1>5. TypeOK'
  <2>1. told' \subseteq Known /\ marked' \subseteq Known
    BY <1>1, <1>2 DEF Takes, IInv, TypeOK
  <2>2. QED
    BY <1>2, <1>3, <1>4, <2>1 DEF Takes, Taken, States, IInv, TypeOK
<1>6. ASSUME NEW j \in Jobs PROVE JobOK(j)'
  <2>1. CASE j \in some
    <3>1. job'[j] \in Over \cup {"stopping"} /\ job'[j] \in DOMAIN Table \cup Over
          /\ (kind = "local" => job'[j] \in DOMAIN ExitFile) /\ job'[j] \in States
      BY <1>2, <2>1 DEF Takes, Taken
    <3>2. j \in gone => job'[j] \in Over
      BY <1>2 DEF Takes, Taken, IInv, JobOK
    <3>3. QED
      BY <1>3, <1>4, <3>1, <3>2 DEF JobOK, Over
  <2>2. CASE j \notin some
    BY <1>2, <1>3, <1>4, <2>2 DEF Takes, Taken, IInv, JobOK
  <2>3. QED
    BY <2>1, <2>2
<1>7. \A j \in Jobs : LookOK(j)'
  BY <1>3 DEF LookOK
<1>8. ASSUME NEW j \in Jobs PROVE CancelOK(j)'
  <2>1. CASE j \in some
    BY <1>2, <2>1 DEF Takes, Taken, CancelOK, Over, Live
  <2>2. CASE j \notin some
    <3>1. job'[j] = job[j]
      BY <1>2, <2>2 DEF Takes, Taken
    <3>2. ~(kind = "local" /\ Fault("cancel")) /\ j \in told' => j \in told
      BY <1>2, <2>2 DEF Takes
    <3>3. QED
      BY <1>3, <1>4, <3>1, <3>2 DEF IInv, CancelOK, Fault
  <2>3. QED
    BY <2>1, <2>2
<1>9. InfraOK'
  BY <1>3, <1>4 DEF IInv, InfraOK
<1>10. ASSUME NEW j \in Jobs PROVE EndsTrue(j) /\ EndsKept(j)
  <2>1. CASE status'[j] = status[j]
    BY <2>1 DEF EndsTrue, EndsKept
  <2>2. CASE status'[j] # status[j]
    <3>1. j \in some /\ kind # "local" /\ status'[j] \in {"CANCELLED", "COMPLETED"}
          /\ job'[j] \in Over \cup {"stopping"}
      BY <1>2, <2>2 DEF Takes, Taken
    <3>2. job'[j] \in Proves(status'[j])
      BY <3>1 DEF Proves
    <3>3. status[j] \notin Terminal
      BY <1>1, <3>1 DEF Active
    <3>4. QED
      BY <3>2, <3>3 DEF EndsTrue, EndsKept
  <2>3. QED
    BY <2>1, <2>2
<1>11. QED
  BY <1>3, <1>5, <1>6, <1>7, <1>8, <1>9, <1>10 DEF IInv, Ends

-----------------------------------------------------------------------------
(***************************************************************************)
(* The scheduler and the network.                                          *)
(***************************************************************************)
(* A job that is over stays so, and none that is on its way out comes back.*)
LEMMA FollowsOver ==
  ASSUME NEW s, s \notin Live
  PROVE  Follows(s) \subseteq Over /\ (s \in Over \cup {"none"} => Follows(s) = {})
  BY DEF Follows, Live, Over

LEMMA FollowsStates == \A s : Follows(s) \subseteq States \ {"none"}
  BY DEF Follows, States, Live, Over

LEMMA JobMovesInv ==
  ASSUME IInv, NEW j \in Jobs, JobMoves(j)
  PROVE  IInv' /\ Ends
<1>1. UNCHANGED <<setup, gone, status, told, marked, alive, infra>>
  BY DEF JobMoves
<1>2. PICK s \in Follows(job[j]) \cap CanShow : job' = [job EXCEPT ![j] = s]
  BY DEF JobMoves
<1>3. kind' = kind /\ Table' = Table /\ Known' = Known /\ Active' = Active
  BY <1>1 DEF kind, Table, Known, Active
<1>4. job \in [Jobs -> States] /\ s \in States \ {"none"}
  BY <1>2, FollowsStates DEF IInv, TypeOK, States
<1>5. job[j] \notin Over \cup {"none"} /\ (job[j] \notin Live => s \in Over)
  <2>1. job[j] \in Over \cup {"none"} => job[j] \notin Live
    BY DEF Over, Live
  <2>2. QED
    BY <1>2, <2>1, FollowsOver
<1>6. s \in DOMAIN Table \cup Over /\ (kind = "local" => s \in DOMAIN ExitFile)
  <2>1. "done" \in Over
    BY DEF Over
  <2>2. QED
    BY <1>2, <2>1, KindIs, Shown DEF CanShow
<1>7. TypeOK'
  BY <1>1, <1>2, <1>3, <1>4 DEF IInv, TypeOK, States
<1>8. JobOK(j)' /\ LookOK(j)' /\ CancelOK(j)'
  <2>1. job'[j] = s
    BY <1>2, <1>4
  <2>2. j \notin gone /\ alive[j] # "no"
    BY <1>5 DEF IInv, JobOK, LookOK
  <2>3. JobOK(j)'
    BY <1>1, <1>3, <1>4, <1>6, <2>1, <2>2 DEF JobOK
  <2>4. LookOK(j)'
    BY <1>1, <1>3, <2>2 DEF IInv, LookOK
  <2>5. CancelOK(j)'
    BY <1>1, <1>3, <1>5, <2>1 DEF IInv, CancelOK, Fault, Over, Live
  <2>6. QED
    BY <2>3, <2>4, <2>5
<1>9. ASSUME NEW i \in Jobs, i # j PROVE JobOK(i)' /\ LookOK(i)' /\ CancelOK(i)'
  <2>1. job'[i] = job[i]
    BY <1>2, <1>9
  <2>2. QED
    BY <1>1, <1>3, <2>1 DEF IInv, JobOK, LookOK, CancelOK, Fault
<1>10. InfraOK'
  BY <1>1, <1>3 DEF IInv, InfraOK
<1>11. QED
  BY <1>1, <1>7, <1>8, <1>9, <1>10, SameEnds DEF IInv

LEMMA ForgetInv ==
  ASSUME IInv, NEW j \in Jobs, Forget(j)
  PROVE  IInv' /\ Ends
<1>1. UNCHANGED <<setup, job, status, told, marked, alive, infra>>
      /\ gone' = gone \cup {j} /\ job[j] \in Over
  BY DEF Forget
<1>2. kind' = kind /\ Table' = Table /\ Known' = Known /\ Active' = Active
  BY <1>1 DEF kind, Table, Known, Active
<1>3. TypeOK' /\ InfraOK'
  BY <1>1, <1>2 DEF IInv, TypeOK, InfraOK
<1>4. \A i \in Jobs : JobOK(i)' /\ LookOK(i)' /\ CancelOK(i)'
  BY <1>1, <1>2 DEF IInv, JobOK, LookOK, CancelOK, Fault
<1>5. QED
  BY <1>1, <1>3, <1>4, SameEnds DEF IInv

(* A run that finds no file makes a network, and one that made a network   *)
(* and did not write it down has failed.                                   *)
LEMMA InfraStep ==
  ASSUME InfraOK, kind = "aws", kind' = kind,
         AwsReadStateFile \/ AwsCreateVpc \/ AwsWriteStateFile \/ AwsCreateFails \/ AwsRunEnds
  PROVE  InfraOK'
<1>1. infra \in [stage: Stages, file: BOOLEAN, vpcs: Nat, failed: Nat]
  BY DEF InfraOK
<1> USE <1>1
<1>2. CASE AwsReadStateFile
  <2>1. CASE infra.file
    <3>1. infra' = [infra EXCEPT !.stage = "ready"] /\ "ready" \in Stages
      BY <1>2, <2>1 DEF AwsReadStateFile, Stages
    <3>2. QED
      BY <2>1, <3>1 DEF InfraOK
  <2>2. CASE ~infra.file
    <3>1. /\ infra' = [infra EXCEPT !.stage = "vpc", !.vpcs = @ + 1] /\ "vpc" \in Stages
          /\ infra.stage = "start"
      BY <1>2, <2>2 DEF AwsReadStateFile, Stages
    <3>2. infra.vpcs <= infra.failed /\ infra.vpcs + 1 \in Nat
      BY <2>2, <3>1 DEF InfraOK
    <3>3. /\ infra' \in [stage: Stages, file: BOOLEAN, vpcs: Nat, failed: Nat]
          /\ infra'.stage = "vpc" /\ infra'.file = infra.file
          /\ infra'.vpcs = infra.vpcs + 1 /\ infra'.failed = infra.failed
      BY <3>1, <3>2
    <3>4. QED
      BY <2>2, <3>2, <3>3 DEF InfraOK
  <2>3. QED
    BY <2>1, <2>2
<1>3. CASE AwsCreateVpc
  <2>1. AfterStage(infra.stage) \in Stages \ {"start", "ready"}
    BY <1>3 DEF AwsCreateVpc, AfterStage, Stages
  <2>2. QED
    BY <1>1, <1>3, <2>1 DEF InfraOK, AwsCreateVpc, Stages
<1>4. CASE AwsWriteStateFile
  BY <1>1, <1>4 DEF InfraOK, AwsWriteStateFile, Stages
<1>5. CASE AwsCreateFails
  <2>1. /\ infra' = [infra EXCEPT !.stage = "start", !.failed = @ + 1] /\ "start" \in Stages
        /\ infra.stage \notin {"start", "ready"} /\ infra.failed + 1 \in Nat
    BY <1>5 DEF AwsCreateFails, Stages
  <2>2. /\ infra' \in [stage: Stages, file: BOOLEAN, vpcs: Nat, failed: Nat]
        /\ infra'.stage = "start" /\ infra'.file = infra.file
        /\ infra'.vpcs = infra.vpcs /\ infra'.failed = infra.failed + 1
    BY <2>1
  <2>3. QED
    BY <2>1, <2>2 DEF InfraOK
<1>6. CASE AwsRunEnds
  BY <1>1, <1>6 DEF InfraOK, AwsRunEnds, Stages
<1>7. QED
  BY <1>2, <1>3, <1>4, <1>5, <1>6

LEMMA AwsInfraInv == ASSUME IInv, AwsInfra PROVE IInv' /\ Ends
<1>1. UNCHANGED <<setup, job, gone, status, told, marked, alive>>
  BY DEF AwsInfra
<1>2. kind' = kind /\ Table' = Table /\ Known' = Known /\ Active' = Active
  BY <1>1 DEF kind, Table, Known, Active
<1>3. InfraOK'
  BY <1>2, InfraStep DEF IInv, AwsInfra
<1>4. TypeOK'
  BY <1>1, <1>2, <1>3 DEF IInv, TypeOK, InfraOK
<1>5. \A i \in Jobs : JobOK(i)' /\ LookOK(i)' /\ CancelOK(i)'
  BY <1>1, <1>2 DEF IInv, JobOK, LookOK, CancelOK, Fault
<1>6. QED
  BY <1>1, <1>3, <1>4, <1>5, SameEnds DEF IInv

-----------------------------------------------------------------------------
LEMMA InitInv == Init => IInv
<1> SUFFICES ASSUME Init PROVE IInv
  OBVIOUS
<1>1. TypeOK
  BY DEF Init, TypeOK
<1>2. \A j \in Jobs : JobOK(j) /\ LookOK(j) /\ CancelOK(j)
  BY DEF Init, JobOK, LookOK, CancelOK, States, Known
<1>3. InfraOK
  <2>1. /\ infra \in [stage: Stages, file: BOOLEAN, vpcs: Nat, failed: Nat]
        /\ infra.vpcs = 0 /\ infra.failed = 0 /\ infra.file = FALSE
        /\ infra.stage \in {"start", "ready"}
    BY DEF Init, Stages
  <2>2. kind = "aws" => infra.stage = "start"
    BY DEF Init, kind
  <2>3. QED
    BY <2>1, <2>2 DEF InfraOK
<1>4. QED
  BY <1>1, <1>2, <1>3 DEF Init, IInv

LEMMA NextInv == IInv /\ [Next]_vars => IInv' /\ Ends
<1> SUFFICES ASSUME IInv, [Next]_vars PROVE IInv' /\ Ends
  OBVIOUS
<1>1. CASE UNCHANGED vars
  <2>1. Ends
    BY <1>1, SameEnds DEF vars
  <2>2. IInv'
    BY <1>1 DEF vars, IInv, TypeOK, JobOK, LookOK, CancelOK, InfraOK, Known, Active, kind,
                Table, Fault
  <2>3. QED
    BY <2>1, <2>2
<1>2. ASSUME NEW j \in Jobs,
             Submit(j) \/ LocalIsAlive(j) \/ LocalReads(j) \/ JobMoves(j) \/ Forget(j)
      PROVE  IInv' /\ Ends
  BY <1>2, SubmitInv, LocalIsAliveInv, LocalReadsInv, JobMovesInv, ForgetInv
<1>3. QED
  BY <1>1, <1>2, ReportsInv, CancelInv, AwsInfraInv DEF Next

(* The invariant that the theorems rest on: a job that the provider knows  *)
(* was submitted, one its scheduler has forgotten or local has seen gone   *)
(* is over, and so is one that cancel has answered for; the network is in  *)
(* the file, or was made by the run that makes one or by one that failed.  *)
THEOREM Inductive == Spec => []IInv
<1>1. Init => IInv
  BY InitInv
<1>2. IInv /\ [Next]_vars => IInv'
  BY NextInv
<1>3. QED
  BY <1>1, <1>2, PTL DEF Spec

(* A job for which cancel has answered True neither runs nor waits again.  *)
THEOREM CancelledStaysOver == Spec => []CancelledIsOver
<1>1. IInv => CancelledIsOver
  <2> SUFFICES ASSUME IInv, ~(kind = "local" /\ Fault("cancel")), NEW j \in told
               PROVE  TypeOK /\ job[j] \notin Live
    BY DEF CancelledIsOver, IInv
  <2>1. j \in Jobs
    BY DEF IInv, TypeOK, Known
  <2>2. QED
    BY <2>1 DEF IInv, CancelOK
<1>2. QED
  BY <1>1, Inductive, PTL

(* Runs of the EC2 provider share one network, but for those that failed.  *)
THEOREM OneNetwork == Spec => []OneVpc
<1>1. IInv => OneVpc
  BY DEF IInv, InfraOK, OneVpc
<1>2. QED
  BY <1>1, Inductive, PTL

(* No step of a provider or its scheduler puts an end on record that is    *)
(* not so, other than the misreadings that are named, nor takes one back.  *)
THEOREM TrueEnds == Spec => EndsAreReal
<1>1. IInv /\ [Next]_vars => [\A j \in Jobs : EndsTrue(j) /\ EndsKept(j)]_vars
  BY NextInv DEF Ends
<1>2. QED
  BY <1>1, Inductive, PTL DEF Spec, EndsAreReal

=============================================================================
