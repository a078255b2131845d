---------------------------- MODULE CheckpointLog ---------------------------
(***************************************************************************)
(* The checkpoint files of the repaired code over several runs of a        *)
(* workflow: DataFlowKernel.checkpoint and _write_checkpoint_payloads      *)
(* (solution/dflow.py) with the file operations that can fail and their    *)
(* rollback, a process that may die between any two of them, and the next  *)
(* process, which discovers the numbered runs under Config.run_dir and     *)
(* loads every checkpoint directory it finds (Memoizer._load_checkpoints). *)
(*                                                                         *)
(* A file is the sequence of what was appended to it: whole records, and   *)
(* Torn for the beginning of a record.  checkpoint_lock is held from       *)
(* FlushBegin until the flush is over, so outcomes are queued in between.  *)
(***************************************************************************)
EXTENDS Naturals, Sequences, SequencesExt, FiniteSetsExt

CONSTANTS
  Hashes,
  Torn,        \* the first bytes of a record
  Faults,      \* what may go wrong
  MaxOutcomes, \* bound: successful tasks over all runs
  MaxRuns      \* bound: processes started

FaultKinds == {"makedirs", "open", "write", "sync", "rollback", "crash"}

ASSUME BoundAssumption == MaxOutcomes \in Nat /\ MaxRuns \in Nat
ASSUME FaultAssumption == Faults \subseteq FaultKinds

VARIABLES
  run,      \* number of the latest run directory; runs are 1..run
  process,  \* the latest process: "none", "alive", "dead" or "refused"
  taskExit, \* its checkpoint_mode is task_exit: an outcome is written at once
  dir,      \* dir[r]: run r has a checkpoint directory
  exists,   \* exists[r]: it holds a tasks.pkl
  file,     \* file[r]: what tasks.pkl of run r consists of
  loaded,   \* loaded[h]: the memo entry the latest process started with
  pending,  \* checkpointable_tasks
  pc,       \* where _write_checkpoint_payloads is
  existed,  \* its file_existed
  original, \* its original_size
  count,    \* outcomes so far; an outcome's value is its number
  acked,    \* history: acked[r], the records whose flush returned normally
  last,     \* history: last[h], the value of the latest of those for h
  broken    \* history: runs in which a rollback failed

logVars == <<run, process, taskExit, dir, exists, file, loaded, pending, pc, existed,
             original, count, acked, last, broken>>

Runs == 1..MaxRuns
Record == [hash : Hashes, val : 1..MaxOutcomes]

(* 0 stands for "no value". *)
LogInit ==
  /\ run = 0
  /\ process = "none"
  /\ taskExit = FALSE
  /\ dir = [r \in Runs |-> FALSE]
  /\ exists = [r \in Runs |-> FALSE]
  /\ file = [r \in Runs |-> <<>>]
  /\ loaded = [h \in Hashes |-> 0]
  /\ pending = <<>>
  /\ pc = "idle"
  /\ existed = FALSE
  /\ original = 0
  /\ count = 0
  /\ acked = [r \in Runs |-> <<>>]
  /\ last = [h \in Hashes |-> 0]
  /\ broken = {}

-----------------------------------------------------------------------------
(* Recovery. *)

(* get_all_checkpoints looks for checkpoint directories, in run order. *)
Discovered == {r \in 1..run : dir[r]}

(* _load_checkpoints refuses a missing file, an empty one and a torn one. *)
Loadable(r) == exists[r] /\ file[r] # <<>> /\ Torn \notin Range(file[r])

LastValue(s, h) ==
  LET at == {i \in DOMAIN s : s[i] # Torn /\ s[i].hash = h}
  IN  IF at = {} THEN 0 ELSE s[Max(at)].val

(* Mutant: the newest run is loaded first. *)
RecordsNewestFirst ==
  FlattenSeq([r \in 1..run |-> IF dir[run + 1 - r] THEN file[run + 1 - r] ELSE <<>>])

(* Later records replace earlier ones with the same hash. *)
AllRecords == FlattenSeq([r \in 1..run |-> IF dir[r] THEN file[r] ELSE <<>>])

(* A new process makes its run directory and loads what it finds. *)
Start ==
  /\ process \in {"none", "dead"}
  /\ run < MaxRuns
  /\ run' = run + 1
  /\ taskExit' \in BOOLEAN
  /\ IF \A r \in Discovered : Loadable(r)
     THEN /\ process' = "alive"
          /\ loaded' = [h \in Hashes |-> LastValue(AllRecords, h)]
     ELSE /\ process' = "refused"
          /\ UNCHANGED loaded
  /\ pending' = <<>>
  /\ pc' = "idle"
  /\ UNCHANGED <<dir, exists, file, existed, original, count, acked, last,
                 broken>>

-----------------------------------------------------------------------------
(* A cached task succeeds; its outcome waits to be written. *)
Succeed(h) ==
  /\ process = "alive" /\ pc = "idle"
  /\ count < MaxOutcomes
  /\ taskExit => pending = <<>>
  /\ count' = count + 1
  /\ pending' = Append(pending, [hash |-> h, val |-> count + 1])
  /\ UNCHANGED <<run, process, dir, exists, file, loaded, pc, existed, original,
                 acked, last, taskExit, broken>>

FlushBegin ==
  /\ process = "alive" /\ pc = "idle"
  /\ pending # <<>>
  /\ pc' = "makedirs"
  /\ UNCHANGED <<run, process, dir, exists, file, loaded, pending, existed,
                 original, count, acked, last, taskExit, broken>>

(* The exception leaves checkpoint(): a deferred flush keeps the queue, a  *)
(* task_exit outcome is given up with the success it belongs to.           *)
Raise == /\ pc' = "idle"
         /\ pending' = IF taskExit THEN <<>> ELSE pending

(* os.makedirs, then a look at the file. *)
MakeDir ==
  /\ process = "alive" /\ pc = "makedirs"
  /\ dir' = [dir EXCEPT ![run] = TRUE]
  /\ existed' = exists[run]
  /\ original' = Len(file[run])
  /\ pc' = "open"
  /\ UNCHANGED <<run, process, exists, file, loaded, pending, count, acked, last,
                 taskExit, broken>>

MakeDirFails ==
  /\ process = "alive" /\ pc = "makedirs"
  /\ "makedirs" \in Faults
  /\ Raise
  /\ UNCHANGED <<run, process, dir, exists, file, loaded, existed, original,
                 count, acked, last, taskExit, broken>>

(* open(..., 'a+b') creates the file; then the size is taken once more. *)
Open ==
  /\ process = "alive" /\ pc = "open"
  /\ exists' = [exists EXCEPT ![run] = TRUE]
  /\ original' = Len(file[run])
  /\ pc' = "write"
  /\ UNCHANGED <<run, process, dir, file, loaded, pending, existed, count, acked,
                 last, taskExit, broken>>

OpenFails ==
  /\ process = "alive" /\ pc = "open"
  /\ "open" \in Faults
  /\ pc' = "rollback"
  /\ UNCHANGED <<run, process, dir, exists, file, loaded, pending, existed,
                 original, count, acked, last, taskExit, broken>>

(* What a write that is cut short can leave of the batch. *)
Started(n, tail) == SubSeq(pending, 1, n) \o tail
PartialBatches == {Started(n, tail) : n \in 0..(Len(pending) - 1), tail \in {<<>>, <<Torn>>}}

Write ==
  /\ process = "alive" /\ pc = "write"
  /\ file' = [file EXCEPT ![run] = @ \o pending]
  /\ pc' = "sync"
  /\ UNCHANGED <<run, process, dir, exists, loaded, pending, existed, original,
                 count, acked, last, taskExit, broken>>

WriteFails ==
  /\ process = "alive" /\ pc = "write"
  /\ "write" \in Faults
  /\ \E s \in PartialBatches : file' = [file EXCEPT ![run] = @ \o s]
  /\ pc' = "rollback"
  /\ UNCHANGED <<run, process, dir, exists, loaded, pending, existed, original,
                 count, acked, last, taskExit, broken>>

(* The batch is on disk: it leaves the queue. *)
Sync ==
  /\ process = "alive" /\ pc = "sync"
  /\ pc' = "idle"
  /\ pending' = <<>>
  /\ acked' = [acked EXCEPT ![run] = @ \o pending]
  /\ last' = [h \in Hashes |-> IF LastValue(pending, h) # 0
                               THEN LastValue(pending, h) ELSE last[h]]
  /\ UNCHANGED <<run, process, dir, exists, file, loaded, existed, original,
                 count, taskExit, broken>>

SyncFails ==
  /\ process = "alive" /\ pc = "sync"
  /\ "sync" \in Faults
  /\ pc' = "rollback"
  /\ UNCHANGED <<run, process, dir, exists, file, loaded, pending, existed,
                 original, count, acked, last, taskExit, broken>>

(* Mutant: a partial append is left behind. *)
NoRollback ==
  /\ process = "alive" /\ pc = "rollback"
  /\ Raise
  /\ UNCHANGED <<run, process, dir, exists, file, loaded, existed, original,
                 count, acked, last, taskExit, broken>>

(* stream.truncate(original_size); a file this flush created goes on to be *)
(* unlinked.                                                               *)
Rollback ==
  /\ process = "alive" /\ pc = "rollback"
  /\ IF exists[run]
     THEN file' = [file EXCEPT ![run] = SubSeq(@, 1, original)]
     ELSE UNCHANGED file
  /\ IF exists[run] /\ ~existed /\ original = 0
     THEN pc' = "unlink" /\ UNCHANGED pending
     ELSE Raise
  /\ UNCHANGED <<run, process, dir, exists, loaded, existed, original, count,
                 acked, last, taskExit, broken>>

Unlink ==
  /\ process = "alive" /\ pc = "unlink"
  /\ exists' = [exists EXCEPT ![run] = FALSE]
  /\ Raise
  /\ UNCHANGED <<run, process, dir, file, loaded, existed, original, count,
                 acked, last, taskExit, broken>>

(* A rollback that fails is only logged.  (Bound: once in a run, or the    *)
(* file could grow for ever.)                                              *)
RollbackFails ==
  /\ process = "alive" /\ pc \in {"rollback", "unlink"}
  /\ "rollback" \in Faults /\ run \notin broken
  /\ Raise
  /\ broken' = broken \cup {run}
  /\ UNCHANGED <<run, process, dir, exists, file, loaded, existed, original,
                 count, acked, last, taskExit>>

-----------------------------------------------------------------------------
(* The workflow ends; an outcome no flush has managed to write goes with it. *)
Exit ==
  /\ process = "alive" /\ pc = "idle"
  /\ process' = "dead"
  /\ UNCHANGED <<run, dir, exists, file, loaded, pending, pc, existed,
                 original, count, acked, last, taskExit, broken>>

(* The process dies, possibly in the middle of a write. *)
Crash ==
  /\ process = "alive"
  /\ "crash" \in Faults
  /\ process' = "dead"
  /\ IF pc = "write"
     THEN \E s \in PartialBatches \cup {pending} :
            file' = [file EXCEPT ![run] = @ \o s]
     ELSE UNCHANGED file
  /\ UNCHANGED <<run, dir, exists, loaded, pending, pc, existed, original,
                 count, acked, last, taskExit, broken>>

-----------------------------------------------------------------------------
LogNext ==
  \/ Start
  \/ \E h \in Hashes : Succeed(h)
  \/ FlushBegin
  \/ MakeDir \/ MakeDirFails
  \/ Open \/ OpenFails
  \/ Write \/ WriteFails
  \/ Sync \/ SyncFails
  \/ Rollback \/ Unlink \/ RollbackFails
  \/ Exit \/ Crash

LogSpec == LogInit /\ [][LogNext]_logVars

-----------------------------------------------------------------------------
(* loaded and last are compared in NewestWins. *)
LogTypeOK ==
  /\ run \in 0..MaxRuns
  /\ process \in {"none", "alive", "dead", "refused"}
  /\ taskExit \in BOOLEAN
  /\ dir \in [Runs -> BOOLEAN]
  /\ exists \in [Runs -> BOOLEAN]
  /\ file \in [Runs -> Seq(Record \cup {Torn})]
  /\ pending \in Seq(Record)
  /\ pc \in {"idle", "makedirs", "open", "write", "sync", "rollback", "unlink"}
  /\ existed \in BOOLEAN
  /\ original \in Nat
  /\ count \in 0..MaxOutcomes
  /\ acked \in [Runs -> Seq(Record)]
  /\ broken \subseteq Runs

(* What was once acknowledged stays readable at the head of its file,      *)
(* whatever fails later and wherever the process dies (only a rollback     *)
(* that itself fails may leave rubbish between two acknowledged batches).  *)
AckedIsPrefix == \A r \in Runs \ broken : IsPrefix(acked[r], file[r])

(* The comment in _write_checkpoint_payloads: a retry begins from the      *)
(* exact previously committed prefix, if the rollback did not fail.        *)
RetryFromPrefix ==
  process = "alive" /\ pc = "idle" /\ run \notin broken => file[run] = acked[run]

(* What a flush has reported as written is never damaged by a later one,   *)
(* and a failed one leaves nothing that a retry would build on.            *)
AckedSurvives == LogTypeOK /\ AckedIsPrefix /\ RetryFromPrefix

(* In every later run the newest acknowledged record of a hash wins (a     *)
(* newer one may have reached the disk unacknowledged before a crash).     *)
NewestWins ==
  [][run' # run /\ process' = "alive" => \A h \in Hashes : loaded'[h] >= last[h]]_logVars

=============================================================================
