---------------------------- MODULE KernelProofs ----------------------------
(***************************************************************************)
(* Proofs about four parts of and around the kernel with variables of      *)
(* their own: the checkpoint files, the run directories, the join apps and *)
(* the monitoring messages.                                                *)
(***************************************************************************)
EXTENDS CheckpointLog, RunDirs, JoinApp, Monitoring, SequenceTheorems,
        FiniteSetTheorems, WellFoundedInduction, TLAPS

(***************************************************************************)
(* Proofs about CheckpointLog for any number of runs and outcomes and any  *)
(* faults: what a flush has acknowledged is never damaged, a failed flush  *)
(* leaves exactly the acknowledged records, and a recovery loads for every *)
(* hash a value that is not older than the acknowledged one.               *)
(*                                                                         *)
(* At each place of _write_checkpoint_payloads the file is known up to     *)
(* what a failing write has added: it is what was acknowledged, followed   *)
(* by the batch after the write, and original is its length before.        *)
(***************************************************************************)

Element == Record \cup {Torn}

(* The file of a run that is going on, by the place of its flush. *)
Writing ==
  process = "alive" /\ run \notin broken =>
    /\ pc \in {"idle", "makedirs", "open", "write", "unlink"} => file[run] = acked[run]
    /\ pc = "sync" => file[run] = acked[run] \o pending
    /\ pc \in {"open", "write", "sync", "rollback"} => original = Len(acked[run])
    /\ pc \in {"write", "sync"} => exists[run]
    /\ pc = "rollback" => IsPrefix(acked[run], file[run])
    /\ pc = "rollback" /\ ~exists[run] => file[run] = acked[run]

(* A file can be cut where its flush began. *)
Cuttable ==
  process = "alive" /\ pc \in {"open", "write", "sync", "rollback"} => original <= Len(file[run])

(* A run that has not begun has written nothing. *)
Future ==
  /\ process = "alive" => run \in Runs
  /\ \A r \in Runs : r > run => file[r] = <<>> /\ acked[r] = <<>>

LogIInv == LogTypeOK /\ AckedIsPrefix /\ Writing /\ Cuttable /\ Future

-----------------------------------------------------------------------------
(* A sequence is a prefix of itself and of what is appended to it, and can *)
(* be cut out of it again.                                                 *)
LEMMA PrefixSelf == ASSUME NEW S, NEW s \in Seq(S) PROVE IsPrefix(s, s)
  BY LenProperties DEF IsPrefix

LEMMA PrefixGrows ==
  ASSUME NEW S, NEW s \in Seq(S), NEW t \in Seq(S), NEW u \in Seq(S), IsPrefix(s, t)
  PROVE  IsPrefix(s, t \o u)
<1> DEFINE v == t \o u
<1>1. Len(s) \in Nat /\ Len(t) \in Nat /\ Len(u) \in Nat /\ Len(s) <= Len(t)
  BY LenProperties DEF IsPrefix
<1>2. /\ v \in Seq(S) /\ Len(v) = Len(t) + Len(u)
      /\ \A i \in 1..Len(t) : v[i] = t[i]
  BY <1>1, ConcatProperties
<1> HIDE DEF v
<1>3. \A i \in 1..Len(t) : t[i] \in S
  BY LenProperties
<1>4. /\ SubSeq(t, 1, Len(s)) \in Seq(S) /\ Len(SubSeq(t, 1, Len(s))) = Len(s)
      /\ \A i \in 1..Len(s) : SubSeq(t, 1, Len(s))[i] = t[i]
  BY <1>1, <1>3, SubSeqProperties
<1>5. /\ SubSeq(v, 1, Len(s)) \in Seq(S) /\ Len(SubSeq(v, 1, Len(s))) = Len(s)
      /\ \A i \in 1..Len(s) : SubSeq(v, 1, Len(s))[i] = v[i]
  <2>1. \A i \in 1..Len(s) : v[i] \in S
    BY <1>1, <1>2, <1>3
  <2>2. QED
    BY <1>1, <1>2, <2>1, SubSeqProperties
<1>6. SubSeq(t, 1, Len(s)) = SubSeq(v, 1, Len(s))
  <2>1. \A i \in 1..Len(s) : SubSeq(t, 1, Len(s))[i] = SubSeq(v, 1, Len(s))[i]
    BY <1>1, <1>2, <1>4, <1>5
  <2>2. QED
    BY <1>4, <1>5, <2>1, SeqEqual
<1>7. QED
  BY <1>1, <1>2, <1>6 DEF IsPrefix, v

LEMMA PrefixCut ==
  ASSUME NEW S, NEW s \in Seq(S), NEW t \in Seq(S), IsPrefix(s, t)
  PROVE  SubSeq(t, 1, Len(s)) = s
<1>1. Len(s) \in Nat /\ \A i \in 1..Len(s) : s[i] \in S
  BY LenProperties
<1>2. SubSeq(s, 1, Len(s)) = s
  <2>1. /\ SubSeq(s, 1, Len(s)) \in Seq(S) /\ Len(SubSeq(s, 1, Len(s))) = Len(s)
        /\ \A i \in 1..Len(s) : SubSeq(s, 1, Len(s))[i] = s[i]
    BY <1>1, SubSeqProperties
  <2>2. QED
    BY <2>1, SeqEqual
<1>3. QED
  BY <1>2 DEF IsPrefix

(* A file that is cut is a file. *)
LEMMA CutIsFile ==
  ASSUME NEW S, NEW s \in Seq(S), NEW n \in Nat, n <= Len(s)
  PROVE  SubSeq(s, 1, n) \in Seq(S)
<1>1. \A i \in 1..n : s[i] \in S
  BY LenProperties
<1>2. QED
  BY <1>1, SubSeqProperties

(* What a write may leave is a sequence of records, the last one perhaps   *)
(* torn.                                                                   *)
LEMMA Partial == ASSUME LogTypeOK, NEW s \in PartialBatches PROVE s \in Seq(Element)
<1>1. PICK n \in 0..(Len(pending) - 1), tail \in {<<>>, <<Torn>>} :
        s = Started(n, tail)
  BY DEF PartialBatches
<1>2. pending \in Seq(Record) /\ Len(pending) \in Nat
  BY LenProperties DEF LogTypeOK
<1>3. SubSeq(pending, 1, n) \in Seq(Record)
  BY <1>1, <1>2, CutIsFile
<1>4. SubSeq(pending, 1, n) \in Seq(Element) /\ tail \in Seq(Element)
  <2>1. Record \subseteq Element /\ Torn \in Element
    BY DEF Element
  <2>2. <<Torn>> \in Seq(Element) /\ <<>> \in Seq(Element)
    BY <2>1
  <2>3. SubSeq(pending, 1, n) \in Seq(Element)
    BY <1>3, <2>1, SeqMonotonic
  <2>4. QED
    BY <1>1, <2>2, <2>3
<1>5. QED
  BY <1>1, <1>4, ConcatProperties DEF Started

-----------------------------------------------------------------------------
(* At the start there is no run. *)
LEMMA LogInitInv == LogInit => LogIInv
<1> SUFFICES ASSUME LogInit PROVE LogIInv
  OBVIOUS
<1> USE BoundAssumption DEF LogInit
<1>1. <<>> \in Seq(Element) /\ <<>> \in Seq(Record)
  OBVIOUS
<1>2. LogTypeOK
  <2>1. file \in [Runs -> Seq(Record \cup {Torn})] /\ acked \in [Runs -> Seq(Record)]
    BY <1>1 DEF Element
  <2>2. run \in 0..MaxRuns /\ count \in 0..MaxOutcomes /\ original \in Nat
    OBVIOUS
  <2>3. dir \in [Runs -> BOOLEAN] /\ exists \in [Runs -> BOOLEAN]
    OBVIOUS
  <2>4. QED
    BY <1>1, <2>1, <2>2, <2>3 DEF LogTypeOK
<1>3. AckedIsPrefix
  BY <1>1, PrefixSelf DEF AckedIsPrefix
<1>4. Writing /\ Cuttable /\ Future
  BY DEF Writing, Cuttable, Future, Runs
<1>5. QED
  BY <1>2, <1>3, <1>4 DEF LogIInv

LEMMA StartInv == ASSUME LogIInv, Start PROVE LogIInv'
<1> USE BoundAssumption DEF Start, LogIInv
<1>1. run' \in Runs /\ run' > run
  BY DEF LogTypeOK, Runs
<1>2. LogTypeOK'
  BY <1>1 DEF LogTypeOK, Runs
<1>3. AckedIsPrefix' /\ Cuttable'
  BY DEF AckedIsPrefix, Cuttable
<1>4. file[run'] = acked[run']
  BY <1>1 DEF Future
<1>5. Writing'
  BY <1>4 DEF Writing
<1>6. Future'
  BY <1>1 DEF Future, LogTypeOK, Runs
<1>7. QED
  BY <1>2, <1>3, <1>5, <1>6

(* Outcomes are queued while no flush is under way.                        *)
LEMMA SucceedInv == ASSUME LogIInv, NEW h \in Hashes, Succeed(h) PROVE LogIInv'
<1> USE BoundAssumption DEF Succeed, LogIInv
<1>1. [hash |-> h, val |-> count + 1] \in Record /\ count + 1 \in 0..MaxOutcomes
  BY DEF LogTypeOK, Record
<1>2. pending' \in Seq(Record)
  BY <1>1, AppendProperties DEF LogTypeOK
<1>3. LogTypeOK'
  BY <1>1, <1>2 DEF LogTypeOK
<1>4. AckedIsPrefix' /\ Cuttable' /\ Writing' /\ Future'
  BY DEF AckedIsPrefix, Cuttable, Writing, Future
<1>5. QED
  BY <1>3, <1>4

(* Steps of a flush that write nothing.                                    *)
LEMMA LogQuietInv ==
  ASSUME LogIInv, FlushBegin \/ MakeDir \/ MakeDirFails \/ Open \/ OpenFails \/ SyncFails
                 \/ Unlink \/ RollbackFails \/ Exit
  PROVE  LogIInv'
<1> USE DEF LogIInv, Raise
<1>1. process = "alive" /\ run \in Runs /\ UNCHANGED <<run, file, acked>>
  BY DEF FlushBegin, MakeDir, MakeDirFails, Open, OpenFails, SyncFails, Unlink, RollbackFails,
         Exit, Future
<1>2. /\ file[run] \in Seq(Element) /\ Len(file[run]) \in Nat
      /\ acked[run] \in Seq(Element) /\ acked[run] \in Seq(Record)
  <2>1. Record \subseteq Element /\ acked[run] \in Seq(Record) /\ file[run] \in Seq(Element)
    BY <1>1 DEF LogTypeOK, Element
  <2>2. QED
    BY <2>1, SeqMonotonic, LenProperties
<1>3. pending' = pending \/ pending' = <<>>
  BY DEF FlushBegin, MakeDir, MakeDirFails, Open, OpenFails, SyncFails, Unlink, RollbackFails,
         Exit
<1>4. LogTypeOK'
  <2>1. pending' \in Seq(Record)
    BY <1>3, EmptySeq DEF LogTypeOK
  <2>2. exists' \in [Runs -> BOOLEAN] /\ dir' \in [Runs -> BOOLEAN] /\ existed' \in BOOLEAN
        /\ broken' \subseteq Runs
    BY <1>1
       DEF FlushBegin, MakeDir, MakeDirFails, Open, OpenFails, SyncFails, Unlink, RollbackFails,
           Exit, LogTypeOK
  <2>3. original' \in Nat
    BY <1>1, <1>2
       DEF FlushBegin, MakeDir, MakeDirFails, Open, OpenFails, SyncFails, Unlink, RollbackFails,
           Exit, LogTypeOK
  <2>4. /\ pc' \in {"idle", "makedirs", "open", "write", "sync", "rollback", "unlink"}
        /\ process' \in {"none", "alive", "dead", "refused"}
        /\ UNCHANGED <<taskExit, count>>
    BY DEF FlushBegin, MakeDir, MakeDirFails, Open, OpenFails, SyncFails, Unlink,
           RollbackFails, Exit, LogTypeOK
  <2>5. QED
    BY <1>1, <2>1, <2>2, <2>3, <2>4 DEF LogTypeOK
<1>5. broken \subseteq broken'
  BY DEF FlushBegin, MakeDir, MakeDirFails, Open, OpenFails, SyncFails, Unlink, RollbackFails,
         Exit
<1>6. AckedIsPrefix' /\ Future'
  BY <1>1, <1>5
     DEF FlushBegin, MakeDir, MakeDirFails, Open, OpenFails, SyncFails, Unlink, RollbackFails,
         Exit, AckedIsPrefix, Future
<1>7. Writing'
  <2>1. CASE FlushBegin \/ MakeDir \/ MakeDirFails \/ Open \/ Unlink \/ RollbackFails \/ Exit
    BY <1>1, <2>1
       DEF FlushBegin, MakeDir, MakeDirFails, Open, Unlink, RollbackFails, Exit, Writing, LogTypeOK
  <2>2. CASE OpenFails
    BY <1>1, <1>2, <2>2, PrefixSelf DEF OpenFails, Writing
  <2>3. CASE SyncFails
    <3>1. run \notin broken => IsPrefix(acked[run], file[run])
      BY <1>1 DEF AckedIsPrefix
    <3>3. QED
      BY <1>1, <2>3, <3>1 DEF SyncFails, Writing
  <2>4. QED
    BY <2>1, <2>2, <2>3
<1>8. Cuttable'
  BY <1>1, <1>2
     DEF FlushBegin, MakeDir, MakeDirFails, Open, OpenFails, SyncFails, Unlink, RollbackFails,
         Exit, Cuttable
<1>9. QED
  BY <1>4, <1>6, <1>7, <1>8

(* A write, whole or cut short, and a crash in it.                         *)
LEMMA WriteInv == ASSUME LogIInv, Write \/ WriteFails PROVE LogIInv'
<1> USE DEF LogIInv
<1>1. PICK s \in Seq(Element) :
        /\ file' = [file EXCEPT ![run] = file[run] \o s]
        /\ pc' = "sync" => s = pending
        /\ pc' \in {"sync", "rollback"}
  <2>1. CASE Write
    <3>1. pending \in Seq(Element)
      <4>1. Record \subseteq Element /\ pending \in Seq(Record)
        BY DEF Element, LogTypeOK
      <4>2. QED
        BY <4>1, SeqMonotonic
    <3>2. QED
      BY <2>1, <3>1 DEF Write
  <2>2. CASE WriteFails
    BY <2>2, Partial DEF WriteFails
  <2>3. QED
    BY <2>1, <2>2
<1>2. /\ process = "alive" /\ pc = "write" /\ run \in Runs
      /\ UNCHANGED <<run, process, dir, exists, loaded, pending, existed, original, count, acked,
                     last, taskExit, broken>>
  BY DEF Write, WriteFails, Future
<1>3. /\ file[run] \in Seq(Element) /\ acked[run] \in Seq(Element)
  <2>1. Record \subseteq Element /\ acked[run] \in Seq(Record) /\ file[run] \in Seq(Element)
    BY <1>2 DEF LogTypeOK, Element
  <2>2. QED
    BY <2>1, SeqMonotonic
<1>4. file'[run] = file[run] \o s /\ \A r \in Runs : r # run => file'[r] = file[r]
  BY <1>1, <1>2 DEF LogTypeOK
<1>5. file[run] \o s \in Seq(Element) /\ Len(file[run] \o s) = Len(file[run]) + Len(s)
      /\ Len(file[run]) \in Nat /\ Len(s) \in Nat
  BY <1>3, ConcatProperties, LenProperties
<1>6. LogTypeOK'
  <2>1. file' \in [Runs -> Seq(Element)]
    BY <1>1, <1>5 DEF LogTypeOK, Element
  <2>2. QED
    BY <1>1, <1>2, <2>1 DEF LogTypeOK, Element
<1>7. AckedIsPrefix'
  <2>1. run \notin broken => IsPrefix(acked[run], file[run] \o s)
    BY <1>1, <1>2, <1>3, PrefixGrows DEF AckedIsPrefix
  <2>2. QED
    BY <1>2, <1>4, <2>1 DEF AckedIsPrefix
<1>8. Writing'
  BY <1>1, <1>2, <1>4, <1>7 DEF Writing, AckedIsPrefix
<1>9. Cuttable'
  BY <1>2, <1>4, <1>5 DEF Cuttable, LogTypeOK
<1>10. Future'
  BY <1>2, <1>4 DEF Future, Runs, LogTypeOK
<1>11. QED
  BY <1>6, <1>7, <1>8, <1>9, <1>10

LEMMA CrashInv == ASSUME LogIInv, Crash PROVE LogIInv'
<1> USE DEF LogIInv
<1>1. /\ process = "alive" /\ process' = "dead" /\ run \in Runs
      /\ UNCHANGED <<run, dir, exists, loaded, pending, pc, existed, original, count, acked,
                     last, taskExit, broken>>
  BY DEF Crash, Future
<1>2. Writing' /\ Cuttable'
  BY <1>1 DEF Writing, Cuttable
<1>3. CASE file' = file
  <2>1. LogTypeOK' /\ AckedIsPrefix' /\ Future'
    BY <1>1, <1>3 DEF LogTypeOK, AckedIsPrefix, Future
  <2>2. QED
    BY <1>2, <2>1
<1>4. ASSUME NEW s \in Seq(Element), file' = [file EXCEPT ![run] = file[run] \o s] PROVE LogIInv'
  <2>1. /\ file[run] \in Seq(Element) /\ acked[run] \in Seq(Element)
    <3>1. Record \subseteq Element /\ acked[run] \in Seq(Record) /\ file[run] \in Seq(Element)
      BY <1>1 DEF LogTypeOK, Element
    <3>2. QED
      BY <3>1, SeqMonotonic
  <2>2. file'[run] = file[run] \o s /\ \A r \in Runs : r # run => file'[r] = file[r]
    BY <1>1, <1>4 DEF LogTypeOK
  <2>3. file[run] \o s \in Seq(Element)
    BY <2>1, ConcatProperties
  <2>4. LogTypeOK'
    <3>1. file' \in [Runs -> Seq(Element)]
      BY <1>4, <2>3 DEF LogTypeOK, Element
    <3>2. QED
      BY <1>1, <3>1 DEF LogTypeOK, Element
  <2>5. AckedIsPrefix'
    <3>1. run \notin broken => IsPrefix(acked[run], file[run] \o s)
      BY <1>1, <2>1, PrefixGrows DEF AckedIsPrefix
    <3>2. QED
      BY <1>1, <2>2, <3>1 DEF AckedIsPrefix
  <2>6. Future'
    BY <1>1, <2>2 DEF Future, Runs, LogTypeOK
  <2>7. QED
    BY <1>2, <2>4, <2>5, <2>6
<1>5. pending \in Seq(Element)
  <2>1. Record \subseteq Element /\ pending \in Seq(Record)
    BY DEF Element, LogTypeOK
  <2>2. QED
    BY <2>1, SeqMonotonic
<1>6. QED
  BY <1>3, <1>4, <1>5, Partial DEF Crash

(* The batch is acknowledged. *)
LEMMA SyncInv == ASSUME LogIInv, Sync PROVE LogIInv'
<1> USE DEF LogIInv, Sync
<1>1. process = "alive" /\ run \in Runs
  BY DEF Future
<1>2. acked[run] \in Seq(Record) /\ pending \in Seq(Record)
  BY <1>1 DEF LogTypeOK
<1>3. acked[run] \o pending \in Seq(Record)
  BY <1>2, ConcatProperties
<1>4. acked'[run] = acked[run] \o pending /\ \A r \in Runs : r # run => acked'[r] = acked[r]
  BY <1>1 DEF LogTypeOK
<1>5. LogTypeOK'
  <2>1. acked' \in [Runs -> Seq(Record)]
    BY <1>3 DEF LogTypeOK
  <2>2. <<>> \in Seq(Record)
    OBVIOUS
  <2>3. QED
    BY <2>1, <2>2 DEF LogTypeOK
<1>6. Writing' /\ Cuttable'
  BY <1>1, <1>4 DEF Writing, Cuttable
<1>7. AckedIsPrefix'
  <2>1. file[run] \in Seq(Element)
    BY <1>1 DEF LogTypeOK, Element
  <2>2. run \notin broken => IsPrefix(file[run], file[run]) /\ file[run] = acked[run] \o pending
    BY <1>1, <2>1, PrefixSelf DEF Writing
  <2>3. QED
    BY <1>1, <1>4, <2>2 DEF AckedIsPrefix
<1>8. Future'
  BY <1>4 DEF Future, Runs, LogTypeOK
<1>9. QED
  BY <1>5, <1>6, <1>7, <1>8

(* The rollback cuts what was not acknowledged. *)
LEMMA RollbackInv == ASSUME LogIInv, Rollback PROVE LogIInv'
<1> USE DEF LogIInv, Raise
<1>1. /\ process = "alive" /\ pc = "rollback" /\ run \in Runs
      /\ UNCHANGED <<run, process, dir, exists, loaded, existed, original, count, acked, last,
                     taskExit, broken>>
      /\ pc' \in {"unlink", "idle"} /\ (pending' = pending \/ pending' = <<>>)
  BY DEF Rollback, Future
<1>2. file[run] \in Seq(Element) /\ acked[run] \in Seq(Element) /\ original \in Nat
      /\ original <= Len(file[run])
  <2>1. Record \subseteq Element /\ acked[run] \in Seq(Record) /\ file[run] \in Seq(Element)
    BY <1>1 DEF LogTypeOK, Element
  <2>2. QED
    BY <1>1, <2>1, SeqMonotonic DEF Cuttable, LogTypeOK
<1>3. SubSeq(file[run], 1, original) \in Seq(Element)
  BY <1>2, CutIsFile
<1>4. \A r \in Runs : r # run => file'[r] = file[r]
  BY <1>1 DEF Rollback, LogTypeOK
<1>5. run \notin broken => file'[run] = acked[run]
  <2>1. CASE exists[run]
    <3>1. file'[run] = SubSeq(file[run], 1, original)
      BY <1>1, <2>1 DEF Rollback, LogTypeOK
    <3>2. run \notin broken => IsPrefix(acked[run], file[run]) /\ original = Len(acked[run])
      BY <1>1 DEF Writing
    <3>3. QED
      BY <1>2, <3>1, <3>2, PrefixCut
  <2>2. CASE ~exists[run]
    BY <1>1, <2>2 DEF Rollback, Writing
  <2>3. QED
    BY <2>1, <2>2
<1>6. LogTypeOK'
  <2>1. file' \in [Runs -> Seq(Element)]
    BY <1>3 DEF Rollback, LogTypeOK, Element
  <2>2. pending' \in Seq(Record)
    BY <1>1, EmptySeq DEF LogTypeOK
  <2>3. QED
    BY <1>1, <2>1, <2>2 DEF LogTypeOK, Element
<1>7. Writing' /\ Cuttable'
  BY <1>1, <1>5 DEF Writing, Cuttable
<1>8. AckedIsPrefix'
  BY <1>1, <1>2, <1>4, <1>5, PrefixSelf DEF AckedIsPrefix
<1>9. Future'
  BY <1>1, <1>4 DEF Future, Runs, LogTypeOK
<1>10. QED
  BY <1>6, <1>7, <1>8, <1>9

(* Every step keeps the invariant. *)
LEMMA LogNextInv == LogIInv /\ [LogNext]_logVars => LogIInv'
<1> SUFFICES ASSUME LogIInv, [LogNext]_logVars PROVE LogIInv'
  OBVIOUS
<1>1. CASE UNCHANGED logVars
  BY <1>1 DEF logVars, LogIInv, LogTypeOK, AckedIsPrefix, Writing, Cuttable, Future
<1>2. QED
  BY <1>1, StartInv, SucceedInv, LogQuietInv, WriteInv, SyncInv, RollbackInv, CrashInv DEF LogNext

(* The invariant holds in every state of every run. *)
THEOREM LogInductive == LogSpec => []LogIInv
  BY LogInitInv, LogNextInv, PTL DEF LogSpec

(* What a flush has reported as written is never damaged by a later one,   *)
(* and a retry begins from exactly that (_write_checkpoint_payloads).      *)
THEOREM Surviving == LogSpec => []AckedSurvives
<1>1. LogIInv => AckedSurvives
  BY DEF LogIInv, Writing, AckedSurvives, RetryFromPrefix
<1>2. QED
  BY <1>1, LogInductive, PTL

-----------------------------------------------------------------------------
(* Induction over the natural numbers, from their being well founded.      *)
LEMMA LoopInduction ==
  ASSUME NEW G, 0 \in G, \A n \in Nat : n \in G => n + 1 \in G
  PROVE  Nat \subseteq G
<1> DEFINE R == {ss \in Nat \X Nat : ss[1] < ss[2]}
           B == Nat \ G
<1>1. IsWellFoundedOn(R, Nat)
  BY NatLessThanWellFounded DEF OpToRel
<1> HIDE DEF R
<1>2. SUFFICES ASSUME B # {} PROVE FALSE
  OBVIOUS
<1>3. PICK x \in B : \A y \in B : ~ (<<y, x>> \in R)
  BY <1>1, <1>2, WFMin
<1>4. x \in Nat /\ x # 0 /\ x - 1 \in Nat
  BY <1>3
<1>5. <<x - 1, x>> \in R
  BY <1>4 DEF R
<1>6. x - 1 \in G
  BY <1>3, <1>4, <1>5
<1>7. (x - 1) + 1 \in G /\ (x - 1) + 1 = x
  BY <1>4, <1>6
<1>8. QED
  BY <1>3, <1>7

-----------------------------------------------------------------------------
(* Recovery: which record of a hash wins in a file, in two files one after *)
(* the other, and in all of them.                                          *)

(* Where the records of a hash are. *)
Matches(s, h) == {i \in DOMAIN s : s[i] # Torn /\ s[i].hash = h}

LEMMA LargestPosition ==
  ASSUME NEW n \in Nat, NEW S \in SUBSET (1..n), S # {}
  PROVE  Max(S) \in S /\ \A i \in S : i <= Max(S)
<1> DEFINE HasMax(T) == \E x \in T : \A y \in T : x >= y
           G == {m \in Nat : \A T \in SUBSET (1..m) : T # {} => HasMax(T)}
<1>1. 0 \in G
  <2>1. \A T \in SUBSET (1..0) : T = {}
    OBVIOUS
  <2>2. QED
    BY <2>1
<1>2. ASSUME NEW m \in Nat, m \in G PROVE m + 1 \in G
  <2>1. SUFFICES ASSUME NEW T \in SUBSET (1..m + 1), T # {} PROVE HasMax(T)
    BY <1>2
  <2>2. CASE m + 1 \in T
    <3>1. \A y \in T : m + 1 >= y
      OBVIOUS
    <3>2. QED
      BY <2>2, <3>1
  <2>3. CASE m + 1 \notin T
    <3>1. T \in SUBSET (1..m)
      BY <2>3
    <3>2. QED
      BY <1>2, <2>1, <3>1
  <2>4. QED
    BY <2>2, <2>3
<1>3. n \in G
  <2> HIDE DEF G
  <2>1. QED
    BY <1>1, <1>2, LoopInduction
<1>4. PICK x \in S : \A y \in S : x >= y
  BY <1>3
<1>5. Max(S) \in S /\ \A y \in S : Max(S) >= y
  BY <1>4 DEF Max
<1>6. QED
  BY <1>5

(* The last record of a hash wins. *)
LEMMA LastValueIs ==
  ASSUME NEW s \in Seq(Element), NEW h
  PROVE  \/ Matches(s, h) = {} /\ LastValue(s, h) = 0
         \/ \E i \in Matches(s, h) : /\ \A j \in Matches(s, h) : j <= i
                                     /\ LastValue(s, h) = s[i].val
                                     /\ s[i].val \in 1..MaxOutcomes
<1>1. LastValue(s, h) = IF Matches(s, h) = {} THEN 0 ELSE s[Max(Matches(s, h))].val
  BY DEF LastValue, Matches
<1>2. CASE Matches(s, h) = {}
  BY <1>1, <1>2
<1>3. CASE Matches(s, h) # {}
  <2>1. Len(s) \in Nat /\ DOMAIN s = 1..Len(s) /\ \A i \in 1..Len(s) : s[i] \in Element
    BY LenProperties
  <2>2. Matches(s, h) \in SUBSET (1..Len(s))
    BY <2>1 DEF Matches
  <2>3. PICK i \in Matches(s, h) : i = Max(Matches(s, h)) /\ \A j \in Matches(s, h) : j <= i
    BY <1>3, <2>1, <2>2, LargestPosition
  <2>4. s[i] \in Record
    BY <2>1, <2>3 DEF Matches, Element
  <2>5. s[i].val \in 1..MaxOutcomes
    BY <2>4 DEF Record
  <2>6. QED
    BY <1>1, <1>3, <2>3, <2>5
<1>4. QED
  BY <1>2, <1>3

LEMMA LastValueType ==
  ASSUME NEW s \in Seq(Element), NEW h
  PROVE  LastValue(s, h) \in Nat
<1>1. CASE LastValue(s, h) = 0
  BY <1>1
<1>2. CASE LastValue(s, h) # 0
  <2>1. LastValue(s, h) \in 1..MaxOutcomes
    BY <1>2, LastValueIs
  <2>2. QED
    BY <2>1, BoundAssumption
<1>3. QED
  BY <1>1, <1>2

(* Records that are appended come after those that were there.             *)
LEMMA LastOfConcat ==
  ASSUME NEW s \in Seq(Element), NEW u \in Seq(Element), NEW h
  PROVE  LastValue(s \o u, h) = IF LastValue(u, h) # 0 THEN LastValue(u, h) ELSE LastValue(s, h)
<1> DEFINE w == s \o u
<1>1. Len(s) \in Nat /\ DOMAIN s = 1..Len(s) /\ Len(u) \in Nat /\ DOMAIN u = 1..Len(u)
  BY LenProperties
<1>2. /\ w \in Seq(Element) /\ Len(w) = Len(s) + Len(u)
      /\ \A i \in 1..Len(s) + Len(u) : w[i] = IF i <= Len(s) THEN s[i] ELSE u[i - Len(s)]
  BY ConcatProperties
<1> HIDE DEF w
<1>3. DOMAIN w = 1..Len(s) + Len(u)
  BY <1>2, LenProperties
<1>4. \A i \in Matches(s, h) : i \in Matches(w, h) /\ w[i] = s[i]
  BY <1>1, <1>2, <1>3 DEF Matches
<1>5. ASSUME NEW i \in Matches(u, h)
      PROVE  Len(s) + i \in Matches(w, h) /\ w[Len(s) + i] = u[i]
  <2>1. i \in 1..Len(u) /\ Len(s) + i \in 1..Len(s) + Len(u)
    BY <1>1 DEF Matches
  <2>2. w[Len(s) + i] = u[i]
    BY <1>1, <1>2, <2>1
  <2>3. QED
    BY <1>3, <2>1, <2>2 DEF Matches
<1>6. ASSUME NEW i \in Matches(w, h)
      PROVE  \/ i \in Matches(s, h)
             \/ i > Len(s) /\ i - Len(s) \in Matches(u, h)
  BY <1>1, <1>2, <1>3 DEF Matches
<1>7. Matches(s, h) \subseteq 1..Len(s) /\ Matches(u, h) \subseteq 1..Len(u)
      /\ Matches(w, h) \subseteq Nat
  BY <1>1, <1>3 DEF Matches
<1>8. CASE Matches(u, h) = {}
  <2>1. LastValue(u, h) = 0
    BY <1>8, LastValueIs
  <2>2. Matches(w, h) = Matches(s, h)
    BY <1>4, <1>6, <1>8
  <2>3. LastValue(w, h) = LastValue(s, h)
    <3>1. CASE Matches(s, h) = {}
      BY <1>2, <2>2, <3>1, LastValueIs
    <3>2. CASE Matches(s, h) # {}
      <4>1. PICK i \in Matches(s, h) : /\ \A j \in Matches(s, h) : j <= i
                                       /\ LastValue(s, h) = s[i].val
        BY <3>2, LastValueIs
      <4>2. PICK j \in Matches(w, h) : /\ \A k \in Matches(w, h) : k <= j
                                       /\ LastValue(w, h) = w[j].val
        BY <1>2, <2>2, <3>2, LastValueIs
      <4>3. i = j
        BY <1>7, <2>2, <4>1, <4>2
      <4>4. QED
        BY <1>4, <4>1, <4>2, <4>3
    <3>3. QED
      BY <3>1, <3>2
  <2>4. QED
    BY <2>1, <2>3 DEF w
<1>9. CASE Matches(u, h) # {}
  <2>1. PICK i \in Matches(u, h) : /\ \A j \in Matches(u, h) : j <= i
                                   /\ LastValue(u, h) = u[i].val
                                   /\ u[i].val \in 1..MaxOutcomes
    BY <1>9, LastValueIs
  <2>2. Len(s) + i \in Matches(w, h) /\ w[Len(s) + i] = u[i]
    BY <1>5
  <2>3. PICK j \in Matches(w, h) : /\ \A k \in Matches(w, h) : k <= j
                                   /\ LastValue(w, h) = w[j].val
    BY <1>2, <2>2, LastValueIs
  <2>4. Len(s) + i <= j /\ j \in Nat /\ i \in 1..Len(u)
    BY <1>7, <2>2, <2>3
  <2>5. j - Len(s) \in Matches(u, h)
    BY <1>1, <1>6, <1>7, <2>4
  <2>6. j - Len(s) <= i
    BY <2>1, <2>5
  <2>7. j = Len(s) + i
    BY <1>1, <2>4, <2>6
  <2>8. LastValue(w, h) = LastValue(u, h) /\ LastValue(u, h) # 0
    BY <2>1, <2>2, <2>3, <2>7
  <2>9. QED
    BY <2>8 DEF w
<1>10. QED
  BY <1>8, <1>9

(* FlattenSeq is well defined ...                                          *)
LEMMA FlattenSteps ==
  ASSUME NEW M, NEW seqs \in Seq(Seq(M)), Len(seqs) # 0
  PROVE  \E p : /\ p[1] = seqs[1]
                /\ \A i \in 1..Len(seqs) : i + 1 <= Len(seqs) => p[i + 1] = p[i] \o seqs[i + 1]
                /\ FlattenSeq(seqs) = p[Len(seqs)]
<1> DEFINE Body(f, i) == IF i = 1 THEN seqs[i] ELSE f[i - 1] \o seqs[i]
           Upto(n) == \E f : f = [i \in 1..n |-> Body(f, i)]
           G == {n \in Nat : Upto(n)}
           p == CHOOSE f : f = [i \in 1..Len(seqs) |-> Body(f, i)]
<1>1. 0 \in G
  <2> DEFINE g == [i \in 1..0 |-> <<>>]
  <2>1. g = [i \in 1..0 |-> Body(g, i)]
    OBVIOUS
  <2>2. QED
    BY <2>1
<1>2. ASSUME NEW n \in Nat, n \in G PROVE n + 1 \in G
  <2>1. PICK f : f = [i \in 1..n |-> Body(f, i)]
    BY <1>2
  <2> DEFINE g == [i \in 1..n + 1 |-> IF i = n + 1 THEN Body(f, i) ELSE f[i]]
  <2>2. ASSUME NEW i \in 1..n + 1 PROVE g[i] = Body(g, i)
    <3>1. ASSUME i # n + 1 PROVE f[i] = Body(f, i)
      <4>1. i \in 1..n
        BY <3>1
      <4>2. QED
        BY <2>1, <4>1
    <3>2. g[i] = Body(f, i)
      BY <3>1
    <3>3. CASE i = 1
      BY <3>2, <3>3
    <3>4. CASE i # 1
      <4>1. i - 1 \in 1..n /\ i - 1 # n + 1 /\ g[i - 1] = f[i - 1]
        BY <3>4
      <4>2. QED
        BY <3>2, <3>4, <4>1
    <3>5. QED
      BY <3>3, <3>4
  <2>3. g = [i \in 1..n + 1 |-> g[i]]
    OBVIOUS
  <2> HIDE DEF g
  <2>4. g = [i \in 1..n + 1 |-> Body(g, i)]
    BY <2>2, <2>3
  <2>5. Upto(n + 1)
    BY <2>4
  <2> HIDE DEF Upto
  <2>6. QED
    BY <2>5
<1>3. Len(seqs) \in G /\ Len(seqs) \in Nat
  <2>1. Len(seqs) \in Nat
    BY LenProperties
  <2> HIDE DEF G
  <2>2. QED
    BY <1>1, <1>2, <2>1, LoopInduction
<1>4. p = [i \in 1..Len(seqs) |-> Body(p, i)]
  BY <1>3
<1>5. FlattenSeq(seqs) = p[Len(seqs)]
  BY DEF FlattenSeq
<1> HIDE DEF p
<1>6. \A i \in 1..Len(seqs) : p[i] = Body(p, i)
  BY <1>4
<1>7. p[1] = seqs[1]
  BY <1>3, <1>6
<1>8. ASSUME NEW i \in 1..Len(seqs), i + 1 <= Len(seqs) PROVE p[i + 1] = p[i] \o seqs[i + 1]
  <2>1. i + 1 \in 1..Len(seqs) /\ i + 1 # 1 /\ (i + 1) - 1 = i
    BY <1>3, <1>8
  <2>2. QED
    BY <1>6, <2>1
<1>9. QED
  BY <1>5, <1>7, <1>8

(* ... and of several files the last one that has a value decides: if one  *)
(* gives at least v, and none after it gives less, so do all together.     *)
LEMMA LastOfFlatten ==
  ASSUME NEW seqs \in Seq(Seq(Element)), NEW h, NEW v \in Nat, NEW r \in 1..Len(seqs),
         LastValue(seqs[r], h) >= v,
         \A q \in 1..Len(seqs) : q > r => LastValue(seqs[q], h) = 0 \/ LastValue(seqs[q], h) >= v
  PROVE  LastValue(FlattenSeq(seqs), h) >= v
<1>1. Len(seqs) \in Nat /\ Len(seqs) # 0 /\ \A i \in 1..Len(seqs) : seqs[i] \in Seq(Element)
  BY LenProperties
<1>2. PICK p : /\ p[1] = seqs[1]
               /\ \A i \in 1..Len(seqs) : i + 1 <= Len(seqs) => p[i + 1] = p[i] \o seqs[i + 1]
               /\ FlattenSeq(seqs) = p[Len(seqs)]
  BY <1>1, FlattenSteps
<1> DEFINE Fine(n) == p[n] \in Seq(Element) /\ (n >= r => LastValue(p[n], h) >= v)
           G == {n \in Nat : n \in 1..Len(seqs) => Fine(n)}
<1>3. 0 \in G
  OBVIOUS
<1>4. ASSUME NEW n \in Nat, n \in G PROVE n + 1 \in G
  <2>1. SUFFICES ASSUME n + 1 <= Len(seqs) PROVE Fine(n + 1)
    OBVIOUS
  <2>2. CASE n = 0
    BY <1>1, <1>2, <2>2
  <2>3. CASE n # 0
    <3>1. n \in 1..Len(seqs) /\ n + 1 \in 1..Len(seqs)
      BY <1>1, <2>1, <2>3
    <3>2. p[n + 1] = p[n] \o seqs[n + 1] /\ seqs[n + 1] \in Seq(Element) /\ Fine(n)
      BY <1>1, <1>2, <1>4, <2>1, <3>1
    <3>3. p[n + 1] \in Seq(Element)
      BY <3>2, ConcatProperties
    <3>4. LastValue(p[n + 1], h) = IF LastValue(seqs[n + 1], h) # 0
                                   THEN LastValue(seqs[n + 1], h) ELSE LastValue(p[n], h)
      BY <3>2, LastOfConcat
    <3>5. CASE n + 1 = r
      <4>1. LastValue(p[n], h) \in Nat
        BY <3>2, LastValueType
      <4>2. QED
        BY <3>3, <3>4, <3>5, <4>1
    <3>6. CASE n + 1 > r
      <4>1. n >= r /\ (LastValue(seqs[n + 1], h) = 0 \/ LastValue(seqs[n + 1], h) >= v)
        BY <3>1, <3>6
      <4>2. QED
        BY <3>2, <3>3, <3>4, <4>1
    <3>7. CASE n + 1 < r
      BY <3>3, <3>7
    <3>8. QED
      BY <3>5, <3>6, <3>7
  <2>4. QED
    BY <2>2, <2>3
<1>5. Len(seqs) \in G
  <2> HIDE DEF G
  <2>1. QED
    BY <1>1, <1>3, <1>4, LoopInduction
<1>6. QED
  BY <1>1, <1>2, <1>5

-----------------------------------------------------------------------------
(* NewestWins: a second invariant, on top of the first one, says what a    *)
(* recovery would find at any time.                                        *)

(* What waits to be written is newer than all that was acknowledged. *)
Counted ==
  /\ last \in [Hashes -> 0..count]
  /\ \A i \in 1..Len(pending) :
       pending[i].val <= count /\ \A h \in Hashes : last[h] < pending[i].val

(* Files f have a value for h that is not older than the acknowledged one, *)
(* and none after it is older.                                             *)
Readable(f, h) ==
  \E r \in Runs : /\ dir[r] /\ LastValue(f[r], h) # 0 /\ LastValue(f[r], h) >= last[h]
                  /\ \A q \in Runs : q > r => \/ LastValue(f[q], h) = 0
                                              \/ LastValue(f[q], h) >= last[h]

Saved(f) == \A h \in Hashes : last[h] # 0 => Readable(f, h)

(* The files as a rollback would leave them. *)
CutFiles == [file EXCEPT ![run] = SubSeq(file[run], 1, original)]

RollbackIsSafe ==
  process = "alive" /\ pc \in {"open", "write", "sync", "rollback"} => dir[run] /\ Saved(CutFiles)

BatchIsLast ==
  process = "alive" /\ pc = "sync" =>
    \A h \in Hashes : LastValue(pending, h) # 0 => LastValue(file[run], h) = LastValue(pending, h)

NewestIInv == Counted /\ Saved(file) /\ RollbackIsSafe /\ BatchIsLast

LEMMA NewestInit == LogInit => NewestIInv
<1> SUFFICES ASSUME LogInit PROVE NewestIInv
  OBVIOUS
<1>1. Len(<<>>) = 0
  OBVIOUS
<1>2. Counted
  BY <1>1 DEF LogInit, Counted
<1>3. Saved(file) /\ RollbackIsSafe /\ BatchIsLast
  BY DEF LogInit, Saved, RollbackIsSafe, BatchIsLast
<1>4. QED
  BY <1>2, <1>3 DEF NewestIInv

(* Files without their new end. *)
LEMMA CutOfConcat ==
  ASSUME NEW S, NEW s \in Seq(S), NEW u \in Seq(S), NEW n \in Nat, n <= Len(s)
  PROVE  SubSeq(s \o u, 1, n) = SubSeq(s, 1, n)
<1>1. CASE n = 0
  BY <1>1, SubSeqEmpty
<1>2. CASE n # 0
  <2>1. 1 \in 1..Len(s) /\ n \in 1..Len(s)
    BY <1>2, LenProperties
  <2>2. QED
    BY <2>1, SubSeqOfConcat1
<1>3. QED
  BY <1>1, <1>2

(* What a failing write may leave is from the batch. *)
LEMMA PartialFromBatch ==
  ASSUME LogTypeOK, NEW s \in PartialBatches \cup {pending}, NEW i \in DOMAIN s, s[i] # Torn
  PROVE  \E j \in 1..Len(pending) : s[i] = pending[j]
<1>1. pending \in Seq(Record) /\ Len(pending) \in Nat /\ DOMAIN pending = 1..Len(pending)
  BY LenProperties DEF LogTypeOK
<1>2. CASE s = pending
  BY <1>1, <1>2
<1>3. CASE s \in PartialBatches
  <2>1. PICK n \in 0..(Len(pending) - 1), tail \in {<<>>, <<Torn>>} : s = Started(n, tail)
    BY <1>3 DEF PartialBatches
  <2> DEFINE a == SubSeq(pending, 1, n)
  <2>2. \A k \in 1..n : pending[k] \in Element
    BY <1>1, <2>1 DEF Element
  <2>3. /\ a \in Seq(Element) /\ Len(a) = n /\ n \in Nat
        /\ \A k \in 1..n : a[k] = pending[k]
    BY <1>1, <2>1, <2>2, SubSeqProperties
  <2>4. tail \in Seq(Element) /\ Len(tail) \in Nat /\ \A k \in 1..Len(tail) : tail[k] = Torn
    <3>1. Torn \in Element
      BY DEF Element
    <3>2. CASE tail = <<>>
      BY <3>2
    <3>3. CASE tail = <<Torn>>
      <4>1. <<Torn>> \in Seq(Element) /\ Len(<<Torn>>) = 1 /\ <<Torn>>[1] = Torn
        BY <3>1
      <4>2. QED
        BY <3>3, <4>1
    <3>4. QED
      BY <2>1, <3>2, <3>3
  <2>5. s = a \o tail
    BY <2>1 DEF Started
  <2> HIDE DEF a
  <2>6. /\ s \in Seq(Element) /\ Len(s) = n + Len(tail)
        /\ \A k \in 1..n + Len(tail) : s[k] = IF k <= n THEN a[k] ELSE tail[k - n]
    <3>1. /\ a \o tail \in Seq(Element) /\ Len(a \o tail) = Len(a) + Len(tail)
          /\ \A k \in 1..Len(a) + Len(tail) :
               (a \o tail)[k] = IF k <= Len(a) THEN a[k] ELSE tail[k - Len(a)]
      BY <2>3, <2>4, ConcatProperties
    <3>2. QED
      BY <2>3, <2>5, <3>1
  <2>7. i \in 1..n + Len(tail)
    BY <2>6, LenProperties
  <2>8. CASE i <= n
    <3>1. i \in 1..n /\ i \in 1..Len(pending)
      BY <1>1, <2>1, <2>3, <2>7, <2>8
    <3>2. QED
      BY <2>3, <2>6, <2>7, <2>8, <3>1
  <2>9. CASE i > n
    <3>1. i - n \in 1..Len(tail)
      BY <2>3, <2>4, <2>7, <2>9
    <3>2. s[i] = Torn
      BY <2>3, <2>4, <2>6, <2>7, <2>9, <3>1
    <3>3. QED
      BY <3>2
  <2>10. QED
    BY <2>3, <2>7, <2>8, <2>9
<1>4. QED
  BY <1>2, <1>3

(* So whatever reaches the file is newer than all that was acknowledged.   *)
LEMMA BatchIsNewer ==
  ASSUME LogTypeOK, Counted, NEW s \in PartialBatches \cup {pending}, s \in Seq(Element),
         NEW h \in Hashes
  PROVE  /\ LastValue(s, h) = 0 \/ LastValue(s, h) > last[h]
         /\ LastValue(s, h) \in 0..count
<1>1. count \in Nat
  BY BoundAssumption DEF LogTypeOK
<1>2. CASE LastValue(s, h) = 0
  BY <1>1, <1>2
<1>3. CASE LastValue(s, h) # 0
  <2>1. PICK i \in Matches(s, h) : /\ LastValue(s, h) = s[i].val
                                   /\ s[i].val \in 1..MaxOutcomes
    BY <1>3, LastValueIs
  <2>2. PICK j \in 1..Len(pending) : s[i] = pending[j]
    BY <2>1, PartialFromBatch DEF Matches
  <2>3. s[i].val <= count /\ last[h] < s[i].val
    BY <2>2 DEF Counted
  <2>4. QED
    BY <1>1, <2>1, <2>3, BoundAssumption
<1>4. QED
  BY <1>2, <1>3

(* Newer records at the end of a file leave recovery no worse. *)
LEMMA AppendSaves ==
  ASSUME LogIInv, Counted, Saved(file), process = "alive", dir[run],
         NEW s \in PartialBatches \cup {pending}, s \in Seq(Element)
  PROVE  Saved([file EXCEPT ![run] = file[run] \o s])
<1> DEFINE f == [file EXCEPT ![run] = file[run] \o s]
<1>1. run \in Runs /\ Runs \subseteq Nat /\ file \in [Runs -> Seq(Element)] /\ LogTypeOK
  BY DEF LogIInv, LogTypeOK, Future, Runs, Element
<1>2. f[run] = file[run] \o s /\ \A r \in Runs : r # run => f[r] = file[r]
  BY <1>1
<1> HIDE DEF f
<1>3. SUFFICES ASSUME NEW h \in Hashes, last[h] # 0 PROVE Readable(f, h)
  BY DEF Saved, f
<1>4. PICK r \in Runs : /\ dir[r] /\ LastValue(file[r], h) # 0 /\ LastValue(file[r], h) >= last[h]
                        /\ \A q \in Runs : q > r => \/ LastValue(file[q], h) = 0
                                                    \/ LastValue(file[q], h) >= last[h]
  BY <1>3 DEF Saved, Readable
<1>5. LastValue(f[run], h) = IF LastValue(s, h) # 0 THEN LastValue(s, h)
                             ELSE LastValue(file[run], h)
  BY <1>1, <1>2, LastOfConcat
<1>6. LastValue(s, h) = 0 \/ LastValue(s, h) > last[h]
  BY <1>1, BatchIsNewer
<1>7. LastValue(s, h) \in Nat /\ last[h] \in Nat
  <2>1. count \in Nat
    BY <1>1, BoundAssumption DEF LogTypeOK
  <2>2. last[h] \in 0..count
    BY DEF Counted
  <2>3. QED
    BY <2>1, <2>2, LastValueType
<1>8. CASE LastValue(s, h) = 0
  <2>1. \A q \in Runs : LastValue(f[q], h) = LastValue(file[q], h)
    BY <1>2, <1>5, <1>8
  <2>2. QED
    BY <1>4, <2>1 DEF Readable
<1>9. CASE LastValue(s, h) # 0
  <2>1. LastValue(f[run], h) # 0 /\ LastValue(f[run], h) >= last[h]
    BY <1>5, <1>6, <1>7, <1>9
  <2>2. LastValue(f[r], h) # 0 /\ LastValue(f[r], h) >= last[h]
    BY <1>2, <1>4, <2>1
  <2>3. ASSUME NEW q \in Runs, q > r
        PROVE  LastValue(f[q], h) = 0 \/ LastValue(f[q], h) >= last[h]
    BY <1>2, <1>4, <2>1, <2>3
  <2>4. QED
    BY <1>4, <2>2, <2>3 DEF Readable
<1>10. QED
  BY <1>8, <1>9

(* Steps that leave file and acknowledgement alone, but for those that     *)
(* note the length of the file.                                            *)
LEMMA NewestQuiet ==
  ASSUME LogIInv, NewestIInv,
         FlushBegin \/ MakeDirFails \/ OpenFails \/ SyncFails \/ Unlink \/ RollbackFails \/ Exit
  PROVE  NewestIInv'
<1>1. /\ UNCHANGED <<file, last, dir, count, run, original>>
      /\ pending' = pending \/ pending' = <<>>
      /\ pc' \in {"open", "write", "sync", "rollback"} /\ process' = "alive" =>
           process = "alive" /\ pc \in {"open", "write", "sync", "rollback"}
      /\ ~ (process' = "alive" /\ pc' = "sync")
  BY DEF FlushBegin, MakeDirFails, OpenFails, SyncFails, Unlink, RollbackFails, Exit, Raise
<1>2. Counted'
  <2>1. Len(<<>>) = 0
    OBVIOUS
  <2>2. QED
    BY <1>1, <2>1 DEF NewestIInv, Counted
<1>3. Saved(file)'
  BY <1>1 DEF NewestIInv, Saved, Readable
<1>4. RollbackIsSafe'
  <2>1. CutFiles' = CutFiles
    BY <1>1 DEF CutFiles
  <2>2. QED
    BY <1>1, <2>1 DEF NewestIInv, RollbackIsSafe, Saved, Readable
<1>5. BatchIsLast'
  BY <1>1 DEF BatchIsLast
<1>6. QED
  BY <1>2, <1>3, <1>4, <1>5 DEF NewestIInv

(* At the beginning of a flush a rollback would cut nothing. *)
LEMMA NewestAtBeginning ==
  ASSUME LogIInv, NewestIInv, MakeDir \/ Open
  PROVE  NewestIInv'
<1>1. /\ process = "alive" /\ UNCHANGED <<file, last, count, run, pending>>
      /\ original' = Len(file[run]) /\ pc' \in {"open", "write"}
  BY DEF MakeDir, Open
<1>2. run \in Runs /\ file \in [Runs -> Seq(Element)] /\ file[run] \in Seq(Element)
  BY <1>1 DEF LogIInv, LogTypeOK, Future, Element
<1>3. dir'[run] /\ \A r \in Runs : dir[r] => dir'[r]
  BY <1>1, <1>2 DEF MakeDir, Open, LogIInv, LogTypeOK, NewestIInv, RollbackIsSafe
<1>4. Counted'
  BY <1>1 DEF NewestIInv, Counted
<1>5. Saved(file)'
  BY <1>1, <1>3 DEF NewestIInv, Saved, Readable
<1>6. RollbackIsSafe'
  <2>1. CutFiles' = file
    <3>1. SubSeq(file[run], 1, Len(file[run])) = file[run]
      BY <1>2, SubSeqFull
    <3>2. QED
      BY <1>1, <1>2, <3>1 DEF CutFiles
  <2>2. QED
    BY <1>1, <1>3, <1>5, <2>1 DEF RollbackIsSafe, Saved, Readable
<1>7. BatchIsLast'
  BY <1>1 DEF BatchIsLast
<1>8. QED
  BY <1>4, <1>5, <1>6, <1>7 DEF NewestIInv

LEMMA NewestWrite ==
  ASSUME LogIInv, NewestIInv, Write \/ WriteFails \/ Crash
  PROVE  NewestIInv'
<1>1. /\ process = "alive" /\ run \in Runs /\ file \in [Runs -> Seq(Element)] /\ LogTypeOK
      /\ UNCHANGED <<run, dir, original, last, count, pending>>
  BY DEF Write, WriteFails, Crash, LogIInv, LogTypeOK, Future, Element
<1>2. Counted'
  BY <1>1 DEF NewestIInv, Counted
<1>3. CASE Crash /\ pc # "write"
  <2>1. file' = file /\ process' = "dead"
    BY <1>3 DEF Crash
  <2>2. Saved(file)'
    BY <1>1, <2>1 DEF NewestIInv, Saved, Readable
  <2>3. QED
    BY <1>2, <2>1, <2>2 DEF NewestIInv, RollbackIsSafe, BatchIsLast
<1>4. CASE pc = "write"
  <2>1. PICK s \in PartialBatches \cup {pending} :
          /\ file' = [file EXCEPT ![run] = file[run] \o s]
          /\ pc' = "sync" /\ process' = "alive" => s = pending
    BY <1>4 DEF Write, WriteFails, Crash
  <2>2. s \in Seq(Element)
    <3>1. pending \in Seq(Element)
      <4>1. Record \subseteq Element /\ pending \in Seq(Record)
        BY <1>1 DEF Element, LogTypeOK
      <4>2. QED
        BY <4>1, SeqMonotonic
    <3>2. QED
      BY <1>1, <3>1, Partial
  <2>3. dir[run] /\ Saved(CutFiles) /\ Counted /\ Saved(file)
    BY <1>1, <1>4 DEF NewestIInv, RollbackIsSafe
  <2> DEFINE f == [file EXCEPT ![run] = file[run] \o s]
  <2>4. Saved(f)
    BY <1>1, <2>2, <2>3, AppendSaves
  <2>5. file' = f
    BY <2>1
  <2>6. Saved(file)'
    <3> HIDE DEF f
    <3>1. QED
      BY <1>1, <2>4, <2>5 DEF Saved, Readable
  <2>7. RollbackIsSafe'
    <3>1. original \in Nat /\ original <= Len(file[run])
      BY <1>1, <1>4 DEF LogIInv, LogTypeOK, Cuttable
    <3>2. SubSeq(file[run] \o s, 1, original) = SubSeq(file[run], 1, original)
      BY <1>1, <2>2, <3>1, CutOfConcat
    <3>3. file'[run] = file[run] \o s
      BY <1>1, <2>1
    <3>4. CutFiles' = CutFiles
      BY <1>1, <2>1, <3>2, <3>3 DEF CutFiles
    <3>5. QED
      BY <1>1, <2>3, <3>4 DEF RollbackIsSafe, Saved, Readable
  <2>8. BatchIsLast'
    <3>1. SUFFICES ASSUME pc' = "sync", process' = "alive", NEW h \in Hashes,
                          LastValue(pending, h) # 0
                   PROVE  LastValue(file'[run], h) = LastValue(pending, h)
      BY <1>1 DEF BatchIsLast
    <3>2. s = pending /\ file'[run] = file[run] \o s
      BY <1>1, <2>1, <3>1
    <3>3. QED
      BY <1>1, <2>2, <3>1, <3>2, LastOfConcat
  <2>9. QED
    BY <1>2, <2>6, <2>7, <2>8 DEF NewestIInv
<1>5. QED
  BY <1>3, <1>4 DEF Write, WriteFails

(* The batch is acknowledged: its records are the last ones of the run.    *)
LEMMA NewestSync == ASSUME LogIInv, NewestIInv, Sync PROVE NewestIInv'
<1>1. /\ process = "alive" /\ pc = "sync" /\ pc' = "idle" /\ pending' = <<>>
      /\ UNCHANGED <<run, dir, file, count>>
      /\ run \in Runs /\ Runs \subseteq Nat /\ count \in Nat
      /\ LogTypeOK /\ Counted /\ dir[run] /\ Saved(file) /\ BatchIsLast
  BY BoundAssumption
     DEF Sync, LogIInv, LogTypeOK, Future, Runs, NewestIInv, RollbackIsSafe
<1>2. last' = [h \in Hashes |-> IF LastValue(pending, h) # 0 THEN LastValue(pending, h)
                                ELSE last[h]]
  BY DEF Sync
<1>3. pending \in Seq(Element)
  <2>1. Record \subseteq Element /\ pending \in Seq(Record)
    BY <1>1 DEF Element, LogTypeOK
  <2>2. QED
    BY <2>1, SeqMonotonic
<1>4. ASSUME NEW h \in Hashes
      PROVE  LastValue(pending, h) \in 0..count /\ last[h] \in 0..count
  BY <1>1, <1>3, BatchIsNewer DEF Counted
<1>5. Counted'
  <2>1. last' \in [Hashes -> 0..count]
    BY <1>2, <1>4
  <2>2. Len(<<>>) = 0
    OBVIOUS
  <2>3. QED
    BY <1>1, <2>1, <2>2 DEF Counted
<1>6. ASSUME NEW h \in Hashes, last'[h] # 0 PROVE Readable(file, h)'
  <2>1. CASE LastValue(pending, h) = 0
    <3>1. last'[h] = last[h]
      BY <1>2, <2>1
    <3>2. Readable(file, h)
      BY <1>1, <1>6, <3>1 DEF Saved
    <3>3. QED
      BY <1>1, <3>1, <3>2 DEF Readable
  <2>2. CASE LastValue(pending, h) # 0
    <3>1. last'[h] = LastValue(file[run], h) /\ last'[h] \in Nat
      BY <1>1, <1>2, <1>4, <2>2 DEF BatchIsLast
    <3>2. ASSUME NEW q \in Runs, q > run PROVE LastValue(file[q], h) = 0
      <4>1. file[q] = <<>>
        BY <3>2 DEF LogIInv, Future
      <4>2. Matches(<<>>, h) = {} /\ <<>> \in Seq(Element)
        BY DEF Matches
      <4>3. QED
        BY <4>1, <4>2, LastValueIs
    <3>3. QED
      BY <1>1, <1>6, <3>1, <3>2 DEF Readable
  <2>3. QED
    BY <2>1, <2>2
<1>7. Saved(file)'
  BY <1>6 DEF Saved
<1>8. RollbackIsSafe' /\ BatchIsLast'
  BY <1>1 DEF RollbackIsSafe, BatchIsLast
<1>9. QED
  BY <1>5, <1>7, <1>8 DEF NewestIInv

LEMMA NewestRollback == ASSUME LogIInv, NewestIInv, Rollback PROVE NewestIInv'
<1>1. /\ process = "alive" /\ pc = "rollback" /\ pc' \in {"unlink", "idle"}
      /\ (pending' = pending \/ pending' = <<>>)
      /\ UNCHANGED <<run, dir, last, count>>
      /\ file' = CutFiles \/ file' = file
  BY DEF Rollback, Raise, CutFiles
<1>2. Counted'
  <2>1. Len(<<>>) = 0
    OBVIOUS
  <2>2. QED
    BY <1>1, <2>1 DEF NewestIInv, Counted
<1>3. Saved(file)'
  <2>1. Saved(CutFiles) /\ Saved(file)
    BY <1>1 DEF NewestIInv, RollbackIsSafe
  <2>2. QED
    BY <1>1, <2>1 DEF Saved, Readable
<1>4. QED
  BY <1>1, <1>2, <1>3 DEF NewestIInv, RollbackIsSafe, BatchIsLast

LEMMA NewestOutcome ==
  ASSUME LogIInv, NewestIInv, Start \/ \E h \in Hashes : Succeed(h)
  PROVE  NewestIInv'
<1>1. pc' = "idle" /\ UNCHANGED <<file, last, dir>>
  BY DEF Start, Succeed
<1>2. Saved(file)'
  BY <1>1 DEF NewestIInv, Saved, Readable
<1>3. RollbackIsSafe' /\ BatchIsLast'
  BY <1>1 DEF RollbackIsSafe, BatchIsLast
<1>4. Counted'
  <2>1. CASE Start
    <3>1. Len(<<>>) = 0
      OBVIOUS
    <3>2. QED
      BY <2>1, <3>1 DEF Start, NewestIInv, Counted
  <2>2. CASE \E h \in Hashes : Succeed(h)
    <3>1. PICK g \in Hashes : Succeed(g)
      BY <2>2
    <3>2. count \in Nat /\ count' = count + 1 /\ pending \in Seq(Record)
          /\ pending' = Append(pending, [hash |-> g, val |-> count + 1])
          /\ count < MaxOutcomes
      BY <3>1, BoundAssumption DEF Succeed, LogIInv, LogTypeOK
    <3>3. [hash |-> g, val |-> count + 1] \in Record
      BY <3>2, BoundAssumption DEF Record
    <3>4. /\ Len(pending') = Len(pending) + 1 /\ Len(pending) \in Nat
          /\ \A i \in 1..Len(pending) : pending'[i] = pending[i]
          /\ pending'[Len(pending) + 1] = [hash |-> g, val |-> count + 1]
      BY <3>2, <3>3, AppendProperties, LenProperties
    <3>5. Counted /\ \A h \in Hashes : last[h] \in 0..count
      BY DEF NewestIInv, Counted
    <3>6. last' \in [Hashes -> 0..count']
      BY <1>1, <3>2, <3>5 DEF Counted
    <3>7. ASSUME NEW i \in 1..Len(pending')
          PROVE  pending'[i].val <= count' /\ \A h \in Hashes : last[h] < pending'[i].val
      <4>1. CASE i = Len(pending) + 1
        BY <3>2, <3>4, <3>5, <4>1
      <4>2. CASE i # Len(pending) + 1
        <5>1. i \in 1..Len(pending)
          BY <3>4, <4>2
        <5>2. pending[i] \in Record
          BY <3>2, <5>1, LenProperties
        <5>3. pending[i].val \in Nat /\ pending[i].val <= count
          BY <3>5, <5>1, <5>2 DEF Counted, Record
        <5>4. QED
          BY <3>2, <3>4, <3>5, <5>1, <5>3 DEF Counted
      <4>3. QED
        BY <4>1, <4>2
    <3>8. QED
      BY <1>1, <3>6, <3>7 DEF Counted
  <2>3. QED
    BY <2>1, <2>2
<1>5. QED
  BY <1>2, <1>3, <1>4 DEF NewestIInv

LEMMA NewestNext == LogIInv /\ NewestIInv /\ [LogNext]_logVars => NewestIInv'
<1> SUFFICES ASSUME LogIInv, NewestIInv, [LogNext]_logVars PROVE NewestIInv'
  OBVIOUS
<1>1. CASE UNCHANGED logVars
  BY <1>1
     DEF logVars, NewestIInv, Counted, Saved, Readable, RollbackIsSafe, CutFiles, BatchIsLast
<1>2. QED
  BY <1>1, NewestQuiet, NewestAtBeginning, NewestWrite, NewestSync, NewestRollback, NewestOutcome
     DEF LogNext

(* The next process finds for every hash a value that is not older than    *)
(* the acknowledged one.                                                   *)
LEMMA Recovery ==
  ASSUME LogIInv, NewestIInv, NEW h \in Hashes
  PROVE  LastValue(AllRecords, h) >= last[h]
<1> DEFINE seqs == [r \in 1..run |-> IF dir[r] THEN file[r] ELSE <<>>]
<1>1. /\ run \in 0..MaxRuns /\ Runs = 1..MaxRuns /\ MaxRuns \in Nat
      /\ file \in [Runs -> Seq(Element)]
      /\ \A r \in Runs : r > run => file[r] = <<>>
      /\ last[h] \in Nat
  BY BoundAssumption DEF LogIInv, LogTypeOK, Runs, Future, Element, NewestIInv, Counted
<1>2. <<>> \in Seq(Element) /\ LastValue(<<>>, h) = 0
  <2>1. <<>> \in Seq(Element) /\ Matches(<<>>, h) = {}
    BY DEF Matches
  <2>2. QED
    BY <2>1, LastValueIs
<1>3. \A r \in 1..run : r \in Runs /\ seqs[r] = IF dir[r] THEN file[r] ELSE <<>>
  BY <1>1
<1>4. seqs \in Seq(Seq(Element)) /\ Len(seqs) = run
  BY <1>1, <1>2
<1>5. AllRecords = FlattenSeq(seqs)
  BY DEF AllRecords
<1>6. CASE run = 0
  <2>1. AllRecords = <<>>
    BY <1>4, <1>5, <1>6 DEF FlattenSeq
  <2>2. last[h] = 0
    BY <1>1, <1>2, <1>6 DEF NewestIInv, Saved, Readable
  <2>3. QED
    BY <1>2, <2>1, <2>2
<1> HIDE DEF seqs
<1>7. CASE run # 0
  <2>1. PICK r \in 1..run : /\ LastValue(seqs[r], h) >= last[h]
                            /\ \A q \in 1..run : q > r => \/ LastValue(seqs[q], h) = 0
                                                           \/ LastValue(seqs[q], h) >= last[h]
    <3>1. CASE last[h] # 0
      <4>1. PICK r \in Runs : /\ dir[r] /\ LastValue(file[r], h) # 0
                              /\ LastValue(file[r], h) >= last[h]
                              /\ \A q \in Runs : q > r => \/ LastValue(file[q], h) = 0
                                                          \/ LastValue(file[q], h) >= last[h]
        BY <3>1 DEF NewestIInv, Saved, Readable
      <4>2. r \in 1..run
        BY <1>1, <1>2, <4>1
      <4>3. \A q \in 1..run : q > r => \/ LastValue(seqs[q], h) = 0
                                       \/ LastValue(seqs[q], h) >= last[h]
        BY <1>2, <1>3, <4>1
      <4>4. LastValue(seqs[r], h) >= last[h]
        BY <1>3, <4>1, <4>2
      <4>5. QED
        BY <4>2, <4>3, <4>4
    <3>2. CASE last[h] = 0
      <4>1. ASSUME NEW q \in 1..run PROVE LastValue(seqs[q], h) >= last[h]
        <5>1. seqs[q] \in Seq(Element)
          BY <1>1, <1>2, <1>3
        <5>2. QED
          BY <3>2, <5>1, LastValueIs
      <4>2. 1 \in 1..run
        BY <1>1, <1>7
      <4>3. QED
        BY <4>1, <4>2
    <3>3. QED
      BY <3>1, <3>2
  <2>2. QED
    BY <1>1, <1>4, <1>5, <2>1, LastOfFlatten
<1>8. QED
  BY <1>6, <1>7

(* A recovery loads for every hash the newest acknowledged value, or a     *)
(* newer one that reached the disk (_load_checkpoints over all the runs    *)
(* that get_all_checkpoints finds), whatever failed or died before.        *)
THEOREM RecoveryIsNewest == LogSpec => NewestWins
<1>1. LogIInv /\ NewestIInv /\ [LogNext]_logVars =>
        [run' # run /\ process' = "alive" => \A h \in Hashes : loaded'[h] >= last[h]]_logVars
  <2>1. SUFFICES ASSUME LogIInv, NewestIInv, LogNext, run' # run, process' = "alive",
                        NEW h \in Hashes
                 PROVE  loaded'[h] >= last[h]
    OBVIOUS
  <2>2. Start
    BY <2>1
       DEF LogNext, Succeed, FlushBegin, MakeDir, MakeDirFails, Open, OpenFails, Write, WriteFails,
           Sync, SyncFails, Rollback, Unlink, RollbackFails, Exit, Crash
  <2>3. loaded'[h] = LastValue(AllRecords, h)
    BY <2>1, <2>2 DEF Start
  <2>4. QED
    BY <2>1, <2>3, Recovery
<1>2. LogSpec => []NewestIInv
  BY LogInductive, NewestInit, NewestNext, PTL DEF LogSpec
<1>3. QED
  BY <1>1, <1>2, LogInductive, PTL DEF LogSpec, NewestWins

-----------------------------------------------------------------------------
(***************************************************************************)
(* Proofs about RunDirs for any number of launchers and any run root.      *)
(*                                                                         *)
(* The invariant says what a launcher knows: everything counted when its   *)
(* scan began stays counted and lies below the number it chooses, and that *)
(* includes the directories of all launchers that were done by then.       *)
(***************************************************************************)

(* Names and counted directories only grow. *)
RootGrows == OldTaken \subseteq taken /\ OldCounted \subseteq counted

(* A directory that was made is there. *)
DoneIsThere == \A p \in Done : next[p] \in taken \cap counted

(* The scan met the old directories; the number chosen is above the scan.  *)
AboveScan ==
  \A p \in Launchers :
    /\ stage[p] # "new" => OldCounted \subseteq start[p]
    /\ stage[p] \in {"making", "done"} => \A i \in start[p] : i < next[p]

(* The scan met the directory of every older launcher. *)
OlderScanned == \A q \in Launchers : \A p \in older[q] : p \in Done /\ next[p] \in start[q]

(* No directory is made under a name that was taken. *)
DoneIsNew == \A p \in Done : next[p] \notin OldTaken

DirsIInv == /\ DirsTypeOK
        /\ RootGrows
        /\ DoneIsThere
        /\ AboveScan
        /\ OlderScanned
        /\ DoneIsNew
        /\ DistinctRunDirs

-----------------------------------------------------------------------------
(* The run root found at the start satisfies the invariant. *)
LEMMA DirsInitInv == DirsInit => DirsIInv
  BY OldAssumption DEF DirsInit, DirsIInv, DirsTypeOK, RootGrows, DoneIsThere, AboveScan,
     OlderScanned, DoneIsNew, DistinctRunDirs, Done

(* os.scandir is opened: the scan will meet all that is counted now. *)
LEMMA ScanIInv == ASSUME DirsIInv, NEW p \in Launchers, Scan(p) PROVE DirsIInv'
<1> USE DEF DirsIInv, DirsTypeOK, Scan, Done
<1>1. DirsTypeOK'
  OBVIOUS
<1>2. RootGrows' /\ DoneIsThere' /\ DoneIsNew' /\ DistinctRunDirs'
  BY DEF RootGrows, DoneIsThere, DoneIsNew, DistinctRunDirs
<1>3. AboveScan'
  BY DEF AboveScan, RootGrows
<1>4. OlderScanned'
  BY DEF OlderScanned, DoneIsThere
<1>5. QED
  BY <1>1, <1>2, <1>3, <1>4

(* The scan ends: the number chosen is above everything met. *)
LEMMA ChooseNextIInv == ASSUME DirsIInv, NEW p \in Launchers, ChooseNext(p) PROVE DirsIInv'
<1> USE DEF DirsIInv, DirsTypeOK, Done
<1>1. PICK S \in {start[p] \cup X : X \in SUBSET (counted \ start[p])} :
        \E n \in {0} \cup {i + 1 : i \in S} :
          IsNextId(n, S) /\ next' = [next EXCEPT ![p] = n]
  BY DEF ChooseNext
<1>2. PICK n \in {0} \cup {i + 1 : i \in S} :
        IsNextId(n, S) /\ next' = [next EXCEPT ![p] = n]
  BY <1>1
<1>3. /\ start[p] \subseteq S
      /\ n \in Nat
      /\ \A i \in S : i < n
  BY <1>2 DEF IsNextId
<1>4. DirsTypeOK'
  BY <1>2, <1>3 DEF ChooseNext
<1>5. RootGrows' /\ DoneIsThere' /\ DoneIsNew' /\ DistinctRunDirs'
  BY <1>2 DEF ChooseNext, RootGrows, DoneIsThere, DoneIsNew, DistinctRunDirs
<1>6. AboveScan'
  BY <1>2, <1>3 DEF ChooseNext, AboveScan
<1>7. OlderScanned'
  BY <1>2 DEF ChooseNext, OlderScanned
<1>8. QED
  BY <1>4, <1>5, <1>6, <1>7

(* os.mkdir succeeds: the name was free, so nobody else has it. *)
LEMMA MakeIInv == ASSUME DirsIInv, NEW p \in Launchers, Make(p) PROVE DirsIInv'
<1> USE DEF DirsIInv, DirsTypeOK, Make, Done
<1>1. DirsTypeOK'
  OBVIOUS
<1>2. RootGrows' /\ DoneIsThere'
  BY DEF RootGrows, DoneIsThere
<1>3. AboveScan' /\ OlderScanned'
  BY DEF AboveScan, OlderScanned
<1>4. DoneIsNew'
  BY DEF DoneIsNew, RootGrows
<1>5. DistinctRunDirs'
  BY DEF DistinctRunDirs, DoneIsThere
<1>6. QED
  BY <1>1, <1>2, <1>3, <1>4, <1>5

(* FileExistsError: the next number is above the scan as well. *)
LEMMA CollideIInv == ASSUME DirsIInv, NEW p \in Launchers, Collide(p) PROVE DirsIInv'
<1> USE DEF DirsIInv, DirsTypeOK, Collide, Done
<1>1. DirsTypeOK'
  OBVIOUS
<1>2. RootGrows' /\ DoneIsThere' /\ OlderScanned' /\ DoneIsNew' /\ DistinctRunDirs'
  BY DEF RootGrows, DoneIsThere, OlderScanned, DoneIsNew, DistinctRunDirs
<1>3. AboveScan'
  <2> SUFFICES ASSUME NEW q \in Launchers
               PROVE /\ stage'[q] # "new" => OldCounted \subseteq start'[q]
                     /\ stage'[q] \in {"making", "done"} =>
                          \A i \in start'[q] : i < next'[q]
    BY DEF AboveScan
  <2>1. \A i \in start[q] : i \in Nat
    OBVIOUS
  <2>2. next'[q] \in {next[q], next[q] + 1} /\ next[q] \in Nat
    OBVIOUS
  <2>3. QED
    BY <2>1, <2>2 DEF AboveScan
<1>4. QED
  BY <1>1, <1>2, <1>3

(* DirsIInv is inductive. *)
LEMMA DirsNextInv == DirsIInv /\ [DirsNext]_rdVars => DirsIInv'
<1> SUFFICES ASSUME DirsIInv, [DirsNext]_rdVars PROVE DirsIInv'
  OBVIOUS
<1>1. ASSUME NEW p \in Launchers, Step(p) PROVE DirsIInv'
  BY <1>1, ScanIInv, ChooseNextIInv, MakeIInv, CollideIInv DEF Step
<1>2. CASE UNCHANGED rdVars
  BY <1>2 DEF rdVars, DirsIInv, DirsTypeOK, RootGrows, DoneIsThere, AboveScan,
     OlderScanned, DoneIsNew, DistinctRunDirs, Done
<1>3. QED
  BY <1>1, <1>2 DEF DirsNext

(* DirsIInv holds in every reachable state. *)
THEOREM DirsInductive == DirsSpec => []DirsIInv
  BY DirsInitInv, DirsNextInv, PTL DEF DirsSpec

-----------------------------------------------------------------------------
(* make_rundir keeps its variables within their types. *)
THEOREM DirsTyping == DirsSpec => []DirsTypeOK
  BY DirsInductive, PTL DEF DirsIInv

(* However many launchers race for run directories, and whatever the run   *)
(* root holds, no two of them are given the same one.                      *)
THEOREM Distinctness == DirsSpec => []DistinctRunDirs
  BY DirsInductive, PTL DEF DirsIInv

(* A launcher that calls make_rundir after another has returned from it    *)
(* gets a larger number, so the order of run numbers is an order of time.  *)
THEOREM Chronology == DirsSpec => []NumbersFollowTime
<1>1. DirsIInv => NumbersFollowTime
  BY DEF DirsIInv, DirsTypeOK, OlderScanned, AboveScan, NumbersFollowTime, Done
<1>2. QED
  BY <1>1, DirsInductive, PTL

(* No entry of the run root found at the start is ever handed out again.   *)
THEOREM Freshness == DirsSpec => []NeverReuses
<1>1. DirsIInv => NeverReuses
  <2> SUFFICES ASSUME DirsIInv, NEW p \in Done PROVE next[p] \notin OldTaken \cup OldCounted
    BY DEF NeverReuses
  <2>1. next[p] \notin OldTaken
    BY DEF DirsIInv, DoneIsNew
  <2>2. \A i \in OldCounted : i < next[p]
    BY DEF DirsIInv, AboveScan, Done
  <2>3. next[p] \in Nat
    BY DEF DirsIInv, DirsTypeOK, Done
  <2>4. QED
    BY <2>1, <2>2, <2>3
<1>2. QED
  BY <1>1, DirsInductive, PTL

(* make_rundir gives every launcher a directory of its own, in the order   *)
(* of time, and takes no old one over.                                     *)
THEOREM Ownership == DirsSpec => []DirectoriesOwned
  BY DirsTyping, Distinctness, Chronology, Freshness, PTL DEF DirectoriesOwned

-----------------------------------------------------------------------------
(***************************************************************************)
(* Proofs about JoinApp for any number of inner futures.                   *)
(*                                                                         *)
(* The invariant says who may change the outer task: the thread in         *)
(* join_lock, of which there is one, and only while the task is joining;   *)
(* by the time it publishes, every inner future has its final value.       *)
(***************************************************************************)

InLock == {"locked", "publishing"}

(* One thread is between acquiring and releasing join_lock.                *)
Locking == \A th \in Threads : place[th] \in InLock <=> lock = th

(* The handler has not looked at what the body returned.                   *)
Launching == place["attacher"] = "exec" <=> status = "launched"

(* Whoever publishes has found the task joining and closed it.             *)
Publishing ==
  \A th \in Threads : place[th] = "publishing" =>
    joinable = "futures" /\ status \in {"exec_done", "failed"} /\ outer = "unset"

(* The status follows the inner futures, and the outer one the status.     *)
Outcome ==
  /\ status \in {"launched", "joining"} => outer = "unset"
  /\ status = "joining" => joinable = "futures"
  /\ joinable = "futures" /\ status \in {"exec_done", "failed"} =>
       AllDone /\ (status = "failed" <=> SomeFailed)
  /\ outer # "unset" => (outer = "exception" <=> status = "failed")
  /\ updates = IF outer = "unset" THEN 0 ELSE 1

(* An inner future is completed by a thread that does so once.             *)
Working == \A i \in Inner : place[i] = "working" => inner[i] = "running"

JoinIInv == JoinTypeOK /\ Working /\ Locking /\ Launching /\ Publishing /\ Outcome

-----------------------------------------------------------------------------
(* Nothing has happened yet. *)
LEMMA JoinInitInv == JoinInit => JoinIInv
  BY InnerAssumption
     DEF JoinInit, JoinIInv, JoinTypeOK, Working, Locking, InLock, Launching, Publishing, Outcome, Threads, Joinables

(* The handler starts joining, which nobody could have looked at before.   *)
LEMMA JoinStartInv == ASSUME JoinIInv, StartJoining \/ RejectJoinable PROVE JoinIInv'
<1> USE InnerAssumption DEF JoinIInv, JoinTypeOK, Threads, Joinables, InLock
<1>1. CASE StartJoining
  BY <1>1 DEF StartJoining, Working, Locking, Launching, Publishing, Outcome
<1>2. CASE RejectJoinable
  BY <1>2 DEF RejectJoinable, Working, Locking, Launching, Publishing, Outcome
<1>3. QED
  BY <1>1, <1>2

(* Attaching callbacks touches neither the lock nor the outer task.        *)
LEMMA AttachInv ==
  ASSUME JoinIInv, AttacherReturns \/ \E i \in Inner : AttachTo(i)
  PROVE  JoinIInv'
<1> USE InnerAssumption DEF JoinIInv, JoinTypeOK, Threads, Joinables, InLock, AllDone, SomeFailed
<1>1. CASE AttacherReturns
  BY <1>1 DEF AttacherReturns, Working, Locking, Launching, Publishing, Outcome
<1>2. ASSUME NEW i \in Inner, AttachTo(i) PROVE JoinIInv'
  BY <1>2 DEF AttachTo, Working, Locking, Launching, Publishing, Outcome
<1>3. QED
  BY <1>1, <1>2

(* A future that completes was running, so the task was not settled.       *)
LEMMA CompleteInv == ASSUME JoinIInv, NEW i \in Inner, CompleteInner(i) PROVE JoinIInv'
  BY InnerAssumption
     DEF JoinIInv, JoinTypeOK, Threads, Joinables, InLock, AllDone, SomeFailed, CompleteInner,
         Working, Locking, Launching, Publishing, Outcome

(* The thread in the lock finds nothing to do, or closes the task, when    *)
(* all inner futures have their final values.                              *)
LEMMA CallbackInv == ASSUME JoinIInv, NEW th \in Threads, Callback(th) PROVE JoinIInv'
<1> USE InnerAssumption DEF JoinIInv, JoinTypeOK, Threads, Joinables, InLock, AllDone, SomeFailed,
        AfterCallback
<1>1. CASE Acquire(th)
  BY <1>1 DEF Acquire, Working, Locking, Launching, Publishing, Outcome
<1>2. CASE Skip(th)
  BY <1>2 DEF Skip, Working, Locking, Launching, Publishing, Outcome
<1>3. CASE JoinFails(th)
  BY <1>3 DEF JoinFails, Working, Locking, Launching, Publishing, Outcome
<1>4. CASE JoinSucceeds(th)
  BY <1>4 DEF JoinSucceeds, Working, Locking, Launching, Publishing, Outcome
<1>5. CASE SetOuter(th)
  BY <1>5 DEF SetOuter, Working, Locking, Launching, Publishing, Outcome
<1>6. QED
  BY <1>1, <1>2, <1>3, <1>4, <1>5 DEF Callback

(* Every step keeps the invariant. *)
LEMMA JoinNextInv == JoinIInv /\ [JoinNext]_joinVars => JoinIInv'
<1> SUFFICES ASSUME JoinIInv, [JoinNext]_joinVars PROVE JoinIInv'
  OBVIOUS
<1>1. CASE UNCHANGED joinVars
  BY <1>1 DEF joinVars, JoinIInv, JoinTypeOK, Working, Locking, Launching, Publishing, Outcome, InLock,
              AllDone, SomeFailed
<1>2. CASE Attacher
  BY <1>2, JoinStartInv, AttachInv DEF Attacher
<1>3. QED
  BY <1>1, <1>2, CompleteInv, CallbackInv DEF JoinNext

(* The invariant holds in every state, for any number of inner futures.    *)
THEOREM JoinInductive == JoinSpec => []JoinIInv
  BY JoinInitInv, JoinNextInv, PTL DEF JoinSpec

(* Whatever completes while callbacks are attached and called, the outer   *)
(* future is set at most once, after the inner ones and in agreement with  *)
(* them (handle_join_update under join_lock).                              *)
THEOREM Following == JoinSpec => []OuterFollowsInner
<1>1. JoinIInv => OuterFollowsInner
  BY DEF JoinIInv, OuterFollowsInner, SetOnce, Outcome, JoinTypeOK
<1>2. QED
  BY <1>1, JoinInductive, PTL

(* Join_lock is never held by two threads, nor lost.                       *)
THEOREM MutualExclusion == JoinSpec => []Locking
  BY JoinInductive, PTL DEF JoinIInv

-----------------------------------------------------------------------------
(***************************************************************************)
(* Proofs about Monitoring for any number of tries, any room in the pipe   *)
(* and any setup: no message disappears without a name for its loss.       *)
(*                                                                         *)
(* The manager inserts each row of the kernel's once only because no       *)
(* message of the kernel is twice on its way: that is Once and Apart.  The *)
(* running time is there with the first message because a first message    *)
(* waits for its try: that is Keyed.                                       *)
(***************************************************************************)

(* What the kernel has put on the queue so far. *)
KernelSent ==
  {KernelMessage(n) : n \in 1..sent}
    \cup (IF phase \in {"closing", "joined", "closed"} THEN {<<"end", 0>>} ELSE {})

(* The way of the kernel's messages. *)
InFlow == ToSet(priority) \cup ToSet(hand) \cup ToSet(pipe) \cup ToSet(buffer)

(* The other places where a message can be. *)
Aside == ToSet(air) \cup ToSet(resource) \cup ToSet(again)

(* A sequence holds each message of the kernel at most once. *)
KernelOnce(s) ==
  \A i, j \in DOMAIN s : s[i] = s[j] /\ KernelSends(s[i]) => i = j

(* Every variable holds a value of its kind, the queues sequences of       *)
(* messages.                                                               *)
Typed ==
  /\ setup \in Setups
  /\ sent \in 0..(2 * NumTries + 1)
  /\ phase \in {"starting", "failed", "run", "down", "closing", "joined", "closed"}
  /\ worker \in [Tries -> {"none", "queued", "running", "ended", "over"}]
  /\ router \in {"starting", "up", "draining", "gone"}
  /\ buffer \in Seq(Messages) /\ air \in Seq(Messages) /\ pipe \in Seq(Messages)
  /\ hand \in Seq(Messages) /\ Len(hand) <= 1
  /\ priority \in Seq(Messages) /\ resource \in Seq(Messages)
  /\ again \in Seq(Messages)
  /\ rows \subseteq Messages /\ lost \subseteq Messages /\ kept \subseteq Messages
  /\ dbm \in {"pipe", "priority", "resource", "end", "ended", "killed"}
  /\ started \in BOOLEAN /\ finished \in BOOLEAN
  /\ kill \in BOOLEAN /\ migrating \in BOOLEAN
  /\ inserted \subseteq Tries /\ deferred \subseteq Tries
  /\ tries \subseteq Tries /\ ran \subseteq Tries
  /\ workflow \in {"none", "began", "completed"}

(* The kernel's messages and the radios' keep to their queues. *)
Sorted ==
  /\ \A m \in ToSet(priority) : KernelSends(m)
  /\ \A m \in Aside : ~KernelSends(m)

Once == KernelOnce(priority) /\ KernelOnce(pipe) /\ KernelOnce(buffer)

(* No message of the kernel is at two stations of its way. *)
Apart ==
  /\ \A m \in ToSet(buffer) :
       KernelSends(m) => m \notin ToSet(pipe) \cup ToSet(hand) \cup ToSet(priority)
  /\ \A m \in ToSet(pipe) : KernelSends(m) => m \notin ToSet(hand) \cup ToSet(priority)
  /\ \A m \in ToSet(hand) : KernelSends(m) => m \notin ToSet(priority)

(* A message of the kernel is put once and passed on once. *)
Unique ==
  /\ Once /\ Apart
  /\ \A m \in InFlow : KernelSends(m) => m \in KernelSent /\ m \notin rows
  /\ \A m \in rows : KernelSends(m) => m \in KernelSent

(* First messages that may be written now are of tries in the table, and   *)
(* they are written in the same turn.                                      *)
Keyed ==
  /\ \A m \in ToSet(again) : m[1] = "first" /\ m[2] \in inserted
  /\ dbm \in {"resource", "killed"} \/ again = <<>>
  /\ Fault("statement") \/ inserted \subseteq tries

(* No message disappears. *)
Placed == Sent \subseteq InFlow \cup Aside \cup Deferred \cup rows \cup lost

(* What is lost or waits has a reason, what is written has its time. *)
Explained ==
  /\ \A m \in lost : KernelSends(m) => Fault("statement")
  /\ inserted \cap deferred = {}
  /\ Fault("statement") \/ \A t \in Tries : <<"first", t>> \in rows => t \in ran

(* The inductive invariant. *)
MonitorIInv == Typed /\ Sorted /\ Unique /\ Keyed /\ Placed /\ Explained

-----------------------------------------------------------------------------
(* Sequences and the sets of their elements. *)

(* The elements of a concatenation. *)
LEMMA ConcatSet ==
  ASSUME NEW M, NEW s \in Seq(M), NEW u \in Seq(M)
  PROVE  s \o u \in Seq(M) /\ ToSet(s \o u) = ToSet(s) \cup ToSet(u)
<1>1. ToSet(s \o u) = Range(s \o u) /\ ToSet(s) = Range(s) /\ ToSet(u) = Range(u)
  BY DEF ToSet, Range
<1>2. QED
  BY <1>1, RangeConcatenation, ConcatProperties

(* The elements after Append. *)
LEMMA AppendSet ==
  ASSUME NEW M, NEW s \in Seq(M), NEW e \in M
  PROVE  Append(s, e) \in Seq(M) /\ ToSet(Append(s, e)) = ToSet(s) \cup {e}
<1>1. Append(s, e) = s \o <<e>> /\ <<e>> \in Seq(M) /\ ToSet(<<e>>) = {e}
  BY AppendIsConcat DEF ToSet
<1>2. s \o <<e>> \in Seq(M) /\ ToSet(s \o <<e>>) = ToSet(s) \cup ToSet(<<e>>)
  BY <1>1, ConcatSet
<1>3. QED
  BY <1>1, <1>2

(* Taking the head off. *)
LEMMA HeadSet ==
  ASSUME NEW M, NEW s \in Seq(M), s # <<>>
  PROVE  /\ Head(s) \in M /\ Tail(s) \in Seq(M) /\ <<Head(s)>> \in Seq(M)
         /\ s = <<Head(s)>> \o Tail(s)
         /\ ToSet(s) = {Head(s)} \cup ToSet(Tail(s))
<1>1. Head(s) \in M /\ Tail(s) \in Seq(M) /\ <<Head(s)>> \in Seq(M)
  BY HeadTailProperties
<1>2. s = <<Head(s)>> \o Tail(s)
  <2>1. Len(s) \in 1..Len(s)
    BY EmptySeq
  <2>2. 1 \in 1..Len(s)
    BY <2>1
  <2>3. SubSeq(s, 1, Len(s)) = <<s[1]>> \o SubSeq(s, 2, Len(s))
    BY <2>1, <2>2, SubSeqRecursiveFirst
  <2>4. QED
    BY <2>3, SubSeqFull, TailIsSubSeq
<1>3. ToSet(<<Head(s)>>) = {Head(s)}
  BY DEF ToSet
<1>4. ToSet(<<Head(s)>> \o Tail(s)) = ToSet(<<Head(s)>>) \cup ToSet(Tail(s))
  BY <1>1, ConcatSet
<1>5. QED
  BY <1>1, <1>2, <1>3, <1>4

(* Taking an element out. *)
LEMMA RemoveSet ==
  ASSUME NEW M, NEW s \in Seq(M), NEW i \in 1..Len(s)
  PROVE  /\ RemoveAt(s, i) \in Seq(M) /\ s[i] \in M
         /\ ToSet(s) = ToSet(RemoveAt(s, i)) \cup {s[i]}
<1> DEFINE a == SubSeq(s, 1, i - 1)
           b == SubSeq(s, i + 1, Len(s))
<1>1. a \in Seq(M) /\ Len(a) = i - 1 /\ \A j \in 1..(i - 1) : a[j] = s[j]
  OBVIOUS
<1>2. b \in Seq(M) /\ Len(b) = Len(s) - i /\ \A j \in 1..(Len(s) - i) : b[j] = s[i + j]
  OBVIOUS
<1>3. RemoveAt(s, i) = a \o b /\ DOMAIN s = 1..Len(s) /\ Len(s) \in Nat /\ s[i] \in M
  BY DEF RemoveAt
<1> HIDE DEF a, b
<1>4. DOMAIN a = 1..(i - 1) /\ DOMAIN b = 1..(Len(s) - i)
  BY <1>1, <1>2
<1>5. ToSet(s) \subseteq ToSet(a) \cup ToSet(b) \cup {s[i]}
  <2>1. SUFFICES ASSUME NEW j \in 1..Len(s) PROVE s[j] \in ToSet(a) \cup ToSet(b) \cup {s[i]}
    BY <1>3 DEF ToSet
  <2>2. CASE j < i
    <3>1. j \in 1..(i - 1)
      BY <1>3, <2>2
    <3>2. QED
      BY <1>1, <1>4, <3>1 DEF ToSet
  <2>3. CASE j > i
    <3>1. j - i \in 1..(Len(s) - i) /\ i + (j - i) = j
      BY <1>3, <2>3
    <3>2. QED
      BY <1>2, <1>4, <3>1 DEF ToSet
  <2>4. QED
    BY <1>3, <2>2, <2>3
<1>6. ToSet(a) \cup ToSet(b) \subseteq ToSet(s)
  <2>1. ASSUME NEW j \in 1..(i - 1) PROVE a[j] \in ToSet(s)
    <3>1. j \in 1..Len(s) /\ a[j] = s[j]
      BY <1>1, <1>3
    <3>2. QED
      BY <1>3, <3>1 DEF ToSet
  <2>2. ASSUME NEW j \in 1..(Len(s) - i) PROVE b[j] \in ToSet(s)
    <3>1. i + j \in 1..Len(s) /\ b[j] = s[i + j]
      BY <1>2, <1>3
    <3>2. QED
      BY <1>3, <3>1 DEF ToSet
  <2>3. QED
    BY <1>4, <2>1, <2>2 DEF ToSet
<1>7. s[i] \in ToSet(s)
  BY <1>3 DEF ToSet
<1>8. QED
  BY <1>1, <1>2, <1>3, <1>5, <1>6, <1>7, ConcatSet

(* SetToSeq lists a finite set. *)
LEMMA ListedSet ==
  ASSUME NEW S, IsFiniteSet(S)
  PROVE  SetToSeq(S) \in Seq(S) /\ ToSet(SetToSeq(S)) = S
<1> DEFINE n == Cardinality(S)
<1>1. n \in Nat /\ ExistsBijection(1..n, S)
  BY FS_CardinalityType
<1>2. \E f \in [1..n -> S] : IsInjective(f)
  BY <1>1 DEF ExistsBijection, Bijection, Injection
<1>3. SetToSeq(S) \in [1..n -> S] /\ IsInjective(SetToSeq(S))
  BY <1>2 DEF SetToSeq
<1>4. SetToSeq(S) \in Injection(1..n, S)
  BY <1>3 DEF Injection
<1>5. IsFiniteSet(1..n) /\ Cardinality(1..n) = n
  BY <1>1, FS_Interval
<1>6. SetToSeq(S) \in Surjection(1..n, S)
  BY <1>4, <1>5, FS_Injection
<1>7. ToSet(SetToSeq(S)) = S
  BY <1>3, <1>6 DEF Surjection, ToSet
<1>8. SetToSeq(S) \in Seq(S)
  BY <1>1, <1>3
<1>9. QED
  BY <1>7, <1>8

(* Among is well defined ...                                               *)
LEMMA AmongSteps ==
  ASSUME NEW M, NEW s \in Seq(M), NEW S
  PROVE  \E p : /\ p[0] = <<>>
                /\ \A i \in Nat : i + 1 <= Len(s) =>
                     p[i + 1] = IF s[i + 1] \in S THEN Append(p[i], s[i + 1]) ELSE p[i]
                /\ Among(s, S) = p[Len(s)]
<1> DEFINE Body(f, i) == IF i = 0 THEN <<>>
                         ELSE IF s[i] \in S THEN Append(f[i - 1], s[i]) ELSE f[i - 1]
           Upto(n) == \E f : f = [i \in 0..n |-> Body(f, i)]
           G == {n \in Nat : Upto(n)}
           p == CHOOSE f : f = [i \in 0..Len(s) |-> Body(f, i)]
<1>1. 0 \in G
  <2> DEFINE g == [i \in 0..0 |-> <<>>]
  <2>1. g = [i \in 0..0 |-> Body(g, i)]
    OBVIOUS
  <2>2. QED
    BY <2>1
<1>2. ASSUME NEW n \in Nat, n \in G PROVE n + 1 \in G
  <2>1. PICK f : f = [i \in 0..n |-> Body(f, i)]
    BY <1>2
  <2> DEFINE g == [i \in 0..n + 1 |-> IF i = n + 1 THEN Body(f, i) ELSE f[i]]
  <2>2. ASSUME NEW i \in 0..n + 1 PROVE g[i] = Body(g, i)
    <3>1. CASE i = 0
      BY <2>1, <3>1
    <3>2. CASE i # 0
      <4>1. i - 1 \in 0..n /\ i - 1 # n + 1 /\ g[i - 1] = f[i - 1]
        BY <3>2
      <4>2. g[i] = Body(f, i)
        <5>1. CASE i = n + 1
          BY <5>1
        <5>2. CASE i # n + 1
          <6>1. i \in 0..n /\ g[i] = f[i]
            BY <5>2
          <6>2. f[i] = Body(f, i)
            BY <2>1, <6>1
          <6>3. QED
            BY <6>1, <6>2
        <5>3. QED
          BY <5>1, <5>2
      <4>3. QED
        BY <3>2, <4>1, <4>2
    <3>3. QED
      BY <3>1, <3>2
  <2>3. g = [i \in 0..n + 1 |-> g[i]]
    OBVIOUS
  <2> HIDE DEF g
  <2>4. g = [i \in 0..n + 1 |-> Body(g, i)]
    BY <2>2, <2>3
  <2>5. Upto(n + 1)
    BY <2>4
  <2> HIDE DEF Upto
  <2>6. QED
    BY <2>5
<1>3. Len(s) \in G /\ Len(s) \in Nat
  <2> HIDE DEF G
  <2>1. Nat \subseteq G
    BY <1>1, <1>2, LoopInduction
  <2>2. QED
    BY <2>1
<1>4. p = [i \in 0..Len(s) |-> Body(p, i)]
  BY <1>3
<1>5. Among(s, S) = p[Len(s)]
  BY DEF Among
<1> HIDE DEF p
<1>6. \A i \in 0..Len(s) : p[i] = Body(p, i)
  BY <1>4
<1>7. p[0] = <<>>
  BY <1>3, <1>6
<1>8. ASSUME NEW i \in Nat, i + 1 <= Len(s)
      PROVE  p[i + 1] = IF s[i + 1] \in S THEN Append(p[i], s[i + 1]) ELSE p[i]
  <2>1. p[i + 1] = Body(p, i + 1) /\ i + 1 # 0 /\ (i + 1) - 1 = i
    BY <1>3, <1>6, <1>8
  <2>2. QED
    BY <2>1
<1>9. QED
  BY <1>5, <1>7, <1>8

(* ... and keeps the elements of a set, once each if they were there once. *)
LEMMA AmongSet ==
  ASSUME NEW M, NEW s \in Seq(M), NEW S
  PROVE  /\ Among(s, S) \in Seq(M)
         /\ ToSet(Among(s, S)) = ToSet(s) \cap S
         /\ IsInjective(s) => IsInjective(Among(s, S))
<1>1. PICK p : /\ p[0] = <<>>
               /\ \A i \in Nat : i + 1 <= Len(s) =>
                    p[i + 1] = IF s[i + 1] \in S THEN Append(p[i], s[i + 1]) ELSE p[i]
               /\ Among(s, S) = p[Len(s)]
  BY AmongSteps
<1> DEFINE Before(n) == {s[i] : i \in 1..n}
           Holds(n) == /\ p[n] \in Seq(M)
                       /\ ToSet(p[n]) = Before(n) \cap S
                       /\ IsInjective(s) => IsInjective(p[n])
           G == {n \in Nat : n <= Len(s) => Holds(n)}
<1>2. Len(s) \in Nat /\ \A i \in 1..Len(s) : s[i] \in M
  OBVIOUS
<1>3. 0 \in G
  <2>1. <<>> \in Seq(M) /\ ToSet(<<>>) = {} /\ IsInjective(<<>>)
    BY DEF ToSet, IsInjective
  <2>2. Before(0) = {}
    OBVIOUS
  <2>3. QED
    BY <1>1, <2>1, <2>2
<1>4. ASSUME NEW n \in Nat, n \in G PROVE n + 1 \in G
  <2>1. SUFFICES ASSUME n + 1 <= Len(s) PROVE Holds(n + 1)
    OBVIOUS
  <2> DEFINE e == s[n + 1]
             q == p[n]
  <2>2. q \in Seq(M) /\ ToSet(q) = Before(n) \cap S /\ (IsInjective(s) => IsInjective(q))
    BY <1>2, <1>4, <2>1
  <2>3. p[n + 1] = IF e \in S THEN Append(q, e) ELSE q
    BY <1>1, <2>1
  <2>4. e \in M /\ Before(n + 1) = Before(n) \cup {e}
    <3>1. 1..n + 1 = (1..n) \cup {n + 1}
      OBVIOUS
    <3>2. QED
      BY <1>2, <2>1, <3>1
  <2>5. IsInjective(s) => e \notin Before(n)
    <3>1. SUFFICES ASSUME IsInjective(s), NEW i \in 1..n PROVE s[i] # e
      OBVIOUS
    <3>2. i \in DOMAIN s /\ n + 1 \in DOMAIN s /\ i # n + 1
      BY <1>2, <2>1
    <3>3. QED
      BY <3>1, <3>2 DEF IsInjective
  <2> HIDE DEF q, e, Before
  <2>6. CASE e \in S
    <3>1. Append(q, e) \in Seq(M) /\ ToSet(Append(q, e)) = ToSet(q) \cup {e}
      BY <2>2, <2>4, AppendSet
    <3>2. ASSUME IsInjective(s) PROVE IsInjective(Append(q, e))
      <4>1. \A i \in 1..Len(q) : q[i] # e
        <5>1. e \notin ToSet(q) /\ DOMAIN q = 1..Len(q)
          BY <2>2, <2>5, <3>2
        <5>2. QED
          BY <5>1 DEF ToSet
      <4>2. \A i, j \in 1..Len(q) : q[i] = q[j] => i = j
        <5>1. DOMAIN q = 1..Len(q)
          BY <2>2
        <5>2. QED
          BY <2>2, <3>2, <5>1 DEF IsInjective
      <4>3. /\ DOMAIN Append(q, e) = 1..Len(q) + 1 /\ Len(q) \in Nat
            /\ \A i \in 1..Len(q) : Append(q, e)[i] = q[i]
            /\ Append(q, e)[Len(q) + 1] = e
        BY <2>2, <2>4
      <4>4. QED
        BY <4>1, <4>2, <4>3 DEF IsInjective
    <3>3. ToSet(Append(q, e)) = (Before(n) \cup {e}) \cap S
      BY <2>2, <2>6, <3>1
    <3>4. QED
      BY <2>3, <2>4, <2>6, <3>1, <3>2, <3>3
  <2>7. CASE e \notin S
    BY <2>2, <2>3, <2>4, <2>7
  <2>8. QED
    BY <2>6, <2>7
<1>5. Len(s) \in G
  <2> HIDE DEF G
  <2>1. Nat \subseteq G
    BY <1>3, <1>4, LoopInduction
  <2>2. QED
    BY <1>2, <2>1
<1>6. Before(Len(s)) = ToSet(s)
  BY DEF ToSet
<1>7. QED
  BY <1>1, <1>2, <1>5, <1>6

(* A sequence that holds the messages of the kernel once goes on doing so  *)
(* when a message is put at its end that is new or not the kernel's ...    *)
LEMMA OncePut ==
  ASSUME NEW M, NEW s \in Seq(M), NEW m \in M,
         KernelOnce(s), KernelSends(m) => m \notin ToSet(s)
  PROVE  KernelOnce(Append(s, m))
<1> DEFINE x == Append(s, m)
<1>1. /\ Len(s) \in Nat /\ DOMAIN s = 1..Len(s) /\ DOMAIN x = 1..Len(s) + 1
      /\ \A i \in 1..Len(s) : x[i] = s[i]
      /\ x[Len(s) + 1] = m
  OBVIOUS
<1>2. \A i, j \in 1..Len(s) : s[i] = s[j] /\ KernelSends(s[i]) => i = j
  BY <1>1 DEF KernelOnce
<1>3. KernelSends(m) => \A i \in 1..Len(s) : s[i] # m
  BY <1>1 DEF ToSet
<1> HIDE DEF x
<1>4. ASSUME NEW i \in DOMAIN x, NEW j \in DOMAIN x, x[i] = x[j], KernelSends(x[i])
      PROVE  i = j
  BY <1>1, <1>2, <1>3, <1>4
<1>5. QED
  BY <1>4 DEF KernelOnce, x

(* ... and when the first is taken off, which then is not in it.           *)
LEMMA OnceTaken ==
  ASSUME NEW M, NEW s \in Seq(M), s # <<>>, KernelOnce(s)
  PROVE  KernelOnce(Tail(s)) /\ (KernelSends(Head(s)) => Head(s) \notin ToSet(Tail(s)))
<1> DEFINE x == Tail(s)
<1>1. /\ Len(s) \in Nat /\ Len(s) # 0 /\ DOMAIN s = 1..Len(s)
      /\ DOMAIN x = 1..(Len(s) - 1) /\ Head(s) = s[1]
      /\ \A i \in 1..(Len(s) - 1) : x[i] = s[i + 1]
  OBVIOUS
<1>2. \A i, j \in 1..Len(s) : s[i] = s[j] /\ KernelSends(s[i]) => i = j
  BY <1>1 DEF KernelOnce
<1> HIDE DEF x
<1>3. ASSUME NEW i \in DOMAIN x, NEW j \in DOMAIN x, x[i] = x[j], KernelSends(x[i])
      PROVE  i = j
  <2>1. /\ i \in 1..(Len(s) - 1) /\ j \in 1..(Len(s) - 1)
        /\ i + 1 \in 1..Len(s) /\ j + 1 \in 1..Len(s)
    BY <1>1, <1>3
  <2>2. i + 1 = j + 1
    BY <1>1, <1>2, <1>3, <2>1
  <2>3. QED
    BY <2>1, <2>2
<1>4. ASSUME KernelSends(Head(s)), NEW i \in DOMAIN x, x[i] = Head(s) PROVE FALSE
  <2>1. i \in 1..(Len(s) - 1) /\ i + 1 \in 1..Len(s) /\ 1 \in 1..Len(s) /\ i + 1 # 1
    BY <1>1, <1>4
  <2>2. QED
    BY <1>1, <1>2, <1>4, <2>1
<1>5. KernelOnce(x)
  BY <1>3 DEF KernelOnce
<1>6. KernelSends(Head(s)) => Head(s) \notin ToSet(x)
  BY <1>4 DEF ToSet
<1>7. QED
  BY <1>5, <1>6 DEF x

-----------------------------------------------------------------------------
(* Messages. *)

LEMMA MessageKinds ==
  ASSUME NEW m \in Messages
  PROVE  /\ m = <<m[1], m[2]>>
         /\ \/ KernelSends(m) /\ m[1] \in {"launched", "over"} /\ m[2] \in Tries
            \/ KernelSends(m) /\ m[1] \in {"start", "end"} /\ m[2] = 0
            \/ ~KernelSends(m) /\ m[1] \in {"first", "usage", "last"} /\ m[2] \in Tries
BY DEF Messages, KernelSends

(* The kernel's messages have distinct numbers. *)
LEMMA KernelMessages ==
  ASSUME NEW n \in 1..(2 * NumTries + 1)
  PROVE  /\ KernelMessage(n) \in Messages /\ KernelSends(KernelMessage(n))
         /\ KernelMessage(n) # <<"end", 0>>
         /\ \A k \in 1..(2 * NumTries + 1) : KernelMessage(k) = KernelMessage(n) => k = n
<1>1. NumTries \in Nat
  BY MonitoringAssumption
<1>2. ASSUME NEW k \in 1..(2 * NumTries + 1)
      PROVE  \/ k = 1 /\ KernelMessage(k) = <<"start", 0>>
             \/ \E h \in Tries : k = 2 * h /\ KernelMessage(k) = <<"launched", h>>
             \/ \E h \in Tries : k = 2 * h + 1 /\ KernelMessage(k) = <<"over", h>>
  <2>1. CASE k = 1
    BY <2>1 DEF KernelMessage
  <2>2. CASE k # 1 /\ k % 2 = 0
    <3>1. k \div 2 \in Tries /\ k = 2 * (k \div 2)
      BY <1>1, <2>2 DEF Tries
    <3>2. KernelMessage(k) = <<"launched", k \div 2>>
      BY <2>2 DEF KernelMessage
    <3>3. QED
      BY <3>1, <3>2
  <2>3. CASE k # 1 /\ k % 2 # 0
    <3>1. k \div 2 \in Tries /\ k = 2 * (k \div 2) + 1
      BY <1>1, <2>3 DEF Tries
    <3>2. KernelMessage(k) = <<"over", k \div 2>>
      BY <2>3 DEF KernelMessage
    <3>3. QED
      BY <3>1, <3>2
  <2>4. QED
    BY <2>1, <2>2, <2>3
<1>3. KernelMessage(n) \in Messages /\ KernelSends(KernelMessage(n))
  BY <1>2 DEF Messages, KernelSends
<1>4. KernelMessage(n) # <<"end", 0>>
  BY <1>2
<1>5. ASSUME NEW k \in 1..(2 * NumTries + 1), KernelMessage(k) = KernelMessage(n)
      PROVE  k = n
  BY <1>2, <1>5
<1>6. QED
  BY <1>3, <1>4, <1>5

-----------------------------------------------------------------------------
(* The start. *)
LEMMA MonitorInitInv == Init => MonitorIInv
<1> SUFFICES ASSUME Init PROVE MonitorIInv
  OBVIOUS
<1> USE DEF Init
<1>1. /\ ToSet(buffer) = {} /\ ToSet(air) = {} /\ ToSet(pipe) = {} /\ ToSet(hand) = {}
      /\ ToSet(priority) = {} /\ ToSet(resource) = {} /\ ToSet(again) = {}
  BY DEF ToSet
<1>2. Typed
  <2>1. <<>> \in Seq(Messages) /\ Len(<<>>) = 0 /\ 0 \in 0..(2 * NumTries + 1)
    BY MonitoringAssumption
  <2>2. worker \in [Tries -> {"none", "queued", "running", "ended", "over"}]
    OBVIOUS
  <2>3. /\ buffer \in Seq(Messages) /\ air \in Seq(Messages) /\ pipe \in Seq(Messages)
        /\ hand \in Seq(Messages) /\ Len(hand) <= 1
        /\ priority \in Seq(Messages) /\ resource \in Seq(Messages)
        /\ again \in Seq(Messages)
    BY <2>1
  <2>4. QED
    BY <2>1, <2>2, <2>3 DEF Typed
<1>3. Sorted /\ Keyed /\ Explained
  BY <1>1 DEF Sorted, Aside, Keyed, Explained
<1>4. Unique
  BY <1>1 DEF Unique, InFlow, Once, KernelOnce, Apart
<1>5. Placed
  BY <1>1 DEF Placed, Sent
<1>6. QED
  BY <1>2, <1>3, <1>4, <1>5 DEF MonitorIInv

(* A step that moves no message. *)
LEMMA QuietInv ==
  ASSUME MonitorIInv, Typed',
         UNCHANGED <<setup, sent, buffer, air, pipe, hand, priority, resource, again,
                     inserted, deferred, tries, ran, rows, lost>>,
         phase' \in {"closing", "joined", "closed"} <=> phase \in {"closing", "joined", "closed"},
         \A t \in Tries : worker'[t] \in {"running", "ended"} => worker[t] \in {"running", "ended"},
         dbm' \in {"resource", "killed"} \/ again = <<>>
  PROVE  MonitorIInv'
<1>1. KernelSent' = KernelSent /\ Once' = Once /\ Apart' = Apart
      /\ InFlow' = InFlow /\ Aside' = Aside /\ Deferred' = Deferred
  BY DEF KernelSent, Once, Apart, InFlow, Aside, Deferred
<1>2. Sorted' /\ Unique' /\ Keyed' /\ Explained'
  BY <1>1 DEF MonitorIInv, Sorted, Unique, Keyed, Explained, Fault
<1>3. Sent' \subseteq Sent
  BY DEF Sent
<1>4. Placed'
  BY <1>1, <1>3 DEF MonitorIInv, Placed
<1>5. QED
  BY <1>2, <1>4 DEF MonitorIInv

(* The kernel puts a message that it has not put before. *)
LEMMA KernelPuts ==
  ASSUME MonitorIInv, Typed', NEW m \in Messages, KernelSends(m), m \notin KernelSent,
         buffer' = Append(buffer, m),
         KernelSent' = KernelSent \cup {m}, Sent' \subseteq Sent \cup {m},
         UNCHANGED <<setup, air, pipe, hand, priority, resource, again, dbm,
                     inserted, deferred, tries, ran, rows, lost>>
  PROVE  MonitorIInv'
<1>1. /\ buffer \in Seq(Messages) /\ pipe \in Seq(Messages) /\ hand \in Seq(Messages)
      /\ priority \in Seq(Messages)
  BY DEF MonitorIInv, Typed
<1>2. InFlow' = InFlow \cup {m} /\ Aside' = Aside /\ Deferred' = Deferred
  BY <1>1, AppendSet DEF InFlow, Aside, Deferred
<1>3. Unique'
  <2>1. m \notin InFlow
    BY DEF MonitorIInv, Unique
  <2>2. KernelOnce(buffer')
    BY <1>1, <2>1, OncePut DEF MonitorIInv, Unique, Once, InFlow
  <2>3. Once'
    BY <2>2 DEF MonitorIInv, Unique, Once
  <2>4. ToSet(buffer') = ToSet(buffer) \cup {m}
    BY <1>1, AppendSet
  <2>5. Apart'
    BY <2>1, <2>4 DEF MonitorIInv, Unique, Apart, InFlow
  <2>6. QED
    BY <1>2, <2>3, <2>5 DEF MonitorIInv, Unique
<1>4. Sorted' /\ Keyed' /\ Explained'
  BY <1>2 DEF MonitorIInv, Sorted, Keyed, Explained, Fault
<1>5. Placed'
  BY <1>2 DEF MonitorIInv, Placed
<1>6. QED
  BY <1>3, <1>4, <1>5 DEF MonitorIInv

(* A radio takes a message. *)
LEMMA RadioPuts ==
  ASSUME MonitorIInv, Typed', NEW m \in Messages, ~KernelSends(m), RadioSend(m),
         KernelSent' = KernelSent, Sent' \subseteq Sent \cup {m},
         UNCHANGED <<setup, pipe, hand, priority, resource, again, dbm,
                     inserted, deferred, tries, ran, rows, lost>>
  PROVE  MonitorIInv'
<1>1. /\ buffer \in Seq(Messages) /\ pipe \in Seq(Messages) /\ hand \in Seq(Messages)
      /\ priority \in Seq(Messages) /\ air \in Seq(Messages)
  BY DEF MonitorIInv, Typed
<1>2. CASE buffer' = Append(buffer, m) /\ air' = air
  <2>1. InFlow' = InFlow \cup {m} /\ Aside' = Aside /\ Deferred' = Deferred
    BY <1>1, <1>2, AppendSet DEF InFlow, Aside, Deferred
  <2>2. Unique'
    <3>1. KernelOnce(buffer') /\ ToSet(buffer') = ToSet(buffer) \cup {m}
      BY <1>1, <1>2, OncePut, AppendSet DEF MonitorIInv, Unique, Once
    <3>2. Once' /\ Apart'
      BY <3>1 DEF MonitorIInv, Unique, Once, Apart
    <3>3. QED
      BY <2>1, <3>2 DEF MonitorIInv, Unique
  <2>3. Sorted' /\ Keyed' /\ Explained'
    BY <2>1 DEF MonitorIInv, Sorted, Keyed, Explained, Fault
  <2>4. Placed'
    BY <2>1 DEF MonitorIInv, Placed
  <2>5. QED
    BY <2>2, <2>3, <2>4 DEF MonitorIInv
<1>3. CASE air' = Append(air, m) /\ buffer' = buffer
  <2>1. InFlow' = InFlow /\ Aside' = Aside \cup {m} /\ Deferred' = Deferred
    BY <1>1, <1>3, AppendSet DEF InFlow, Aside, Deferred
  <2>2. Sorted' /\ Unique' /\ Keyed' /\ Explained'
    BY <1>3, <2>1 DEF MonitorIInv, Sorted, Unique, Once, Apart, Keyed, Explained, Fault
  <2>3. Placed'
    BY <2>1 DEF MonitorIInv, Placed
  <2>4. QED
    BY <2>2, <2>3 DEF MonitorIInv
<1>4. QED
  BY <1>2, <1>3 DEF RadioSend

(* Messages are passed on.                                                 *)
LEMMA MovesInv ==
  ASSUME MonitorIInv, Typed', Sorted', Once', Apart',
         \A m \in InFlow' : KernelSends(m) => m \in InFlow,
         InFlow \cup Aside \cup lost \subseteq InFlow' \cup Aside' \cup lost',
         \A m \in lost' : KernelSends(m) => m \in lost,
         UNCHANGED <<setup, sent, phase, worker, dbm, again, inserted, deferred, tries,
                     ran, rows>>
  PROVE  MonitorIInv'
<1>1. KernelSent' = KernelSent /\ Deferred' = Deferred /\ Sent' = Sent
  BY DEF KernelSent, Deferred, Sent
<1>2. Unique'
  BY <1>1 DEF MonitorIInv, Unique
<1>3. Keyed' /\ Explained'
  BY DEF MonitorIInv, Keyed, Explained, Fault
<1>4. Placed'
  BY <1>1 DEF MonitorIInv, Placed
<1>5. QED
  BY <1>2, <1>3, <1>4 DEF MonitorIInv

LEMMA FlushInv ==
  ASSUME MonitorIInv, Typed', Flush
  PROVE  MonitorIInv'
<1>1. buffer \in Seq(Messages) /\ pipe \in Seq(Messages)
  BY DEF MonitorIInv, Typed
<1>2. /\ buffer # <<>> /\ pipe' = Append(pipe, Head(buffer)) /\ buffer' = Tail(buffer)
      /\ UNCHANGED <<hand, priority, air, resource, again, setup, sent, phase, worker, dbm>>
      /\ UNCHANGED <<inserted, deferred, tries, ran, rows, lost>>
  BY DEF Flush, radioVars, managerVars, memVars, dbVars
<1> DEFINE h == Head(buffer)
<1>3. h \in Messages /\ ToSet(buffer) = {h} \cup ToSet(buffer')
  BY <1>1, <1>2, HeadSet
<1>4. ToSet(pipe') = ToSet(pipe) \cup {h}
  BY <1>1, <1>2, <1>3, AppendSet
<1>5. Once /\ Apart
  BY DEF MonitorIInv, Unique
<1>6. KernelOnce(buffer') /\ (KernelSends(h) => h \notin ToSet(buffer'))
  BY <1>1, <1>2, <1>5, OnceTaken DEF Once
<1>7. KernelOnce(pipe')
  <2>1. KernelSends(h) => h \notin ToSet(pipe)
    BY <1>3, <1>5 DEF Apart
  <2>2. QED
    BY <1>1, <1>2, <1>3, <1>5, <2>1, OncePut DEF Once
<1> HIDE DEF h
<1>8. InFlow' = InFlow /\ Aside' = Aside
  BY <1>2, <1>3, <1>4 DEF InFlow, Aside
<1>9. Once'
  BY <1>2, <1>5, <1>6, <1>7 DEF Once
<1>10. Apart'
  BY <1>2, <1>3, <1>4, <1>5, <1>6 DEF Apart
<1>11. Sorted'
  BY <1>2, <1>8 DEF MonitorIInv, Sorted
<1>12. QED
  BY <1>2, <1>8, <1>9, <1>10, <1>11, MovesInv

LEMMA MigrateGetInv ==
  ASSUME MonitorIInv, Typed', MigrateGet
  PROVE  MonitorIInv'
<1>1. pipe \in Seq(Messages)
  BY DEF MonitorIInv, Typed
<1>2. /\ pipe # <<>> /\ hand = <<>> /\ hand' = <<Head(pipe)>> /\ pipe' = Tail(pipe)
      /\ UNCHANGED <<buffer, priority, air, resource, again, setup, sent, phase, worker, dbm>>
      /\ UNCHANGED <<inserted, deferred, tries, ran, rows, lost>>
  BY DEF MigrateGet, kernelVars, radioVars, managerVars, memVars, dbVars
<1> DEFINE h == Head(pipe)
<1>3. ToSet(pipe) = {h} \cup ToSet(pipe')
  BY <1>1, <1>2, HeadSet
<1>4. ToSet(hand') = {h} /\ ToSet(hand) = {}
  BY <1>2 DEF ToSet
<1>5. Once /\ Apart
  BY DEF MonitorIInv, Unique
<1>6. KernelOnce(pipe') /\ (KernelSends(h) => h \notin ToSet(pipe'))
  BY <1>1, <1>2, <1>5, OnceTaken DEF Once
<1> HIDE DEF h
<1>7. InFlow' = InFlow /\ Aside' = Aside
  BY <1>2, <1>3, <1>4 DEF InFlow, Aside
<1>8. Once'
  BY <1>2, <1>5, <1>6 DEF Once
<1>9. Apart'
  BY <1>2, <1>3, <1>4, <1>5, <1>6 DEF Apart
<1>10. Sorted'
  BY <1>2, <1>7 DEF MonitorIInv, Sorted
<1>11. QED
  BY <1>2, <1>7, <1>8, <1>9, <1>10, MovesInv

LEMMA DispatchInv ==
  ASSUME MonitorIInv, Typed', Dispatch
  PROVE  MonitorIInv'
<1>1. /\ priority \in Seq(Messages) /\ resource \in Seq(Messages)
      /\ hand \in Seq(Messages) /\ Len(hand) <= 1
  BY DEF MonitorIInv, Typed
<1>2. /\ hand # <<>> /\ hand' = <<>>
      /\ UNCHANGED <<buffer, pipe, air, again, setup, sent, phase, worker, dbm>>
      /\ UNCHANGED <<inserted, deferred, tries, ran, rows, lost>>
  BY DEF Dispatch, kernelVars, radioVars, memVars, dbVars
<1> DEFINE h == hand[1]
<1>3. hand = <<h>> /\ h \in Messages
  <2> DEFINE n == Len(hand)
  <2>1. n \in Nat /\ n # 0 /\ n <= 1
    BY <1>1, <1>2, EmptySeq
  <2> HIDE DEF n
  <2>2. n = 1
    BY <2>1
  <2>3. hand \in [1..Len(hand) -> Messages] /\ Len(hand) = 1
    BY <1>1, <2>2, LenProperties DEF n
  <2>4. 1 \in 1..Len(hand) /\ hand[1] \in Messages
    BY <2>3
  <2>5. Len(<<h>>) = 1 /\ <<h>>[1] = h /\ <<h>> \in Seq(Messages)
    BY <2>4
  <2>6. QED
    BY <1>1, <2>3, <2>4, <2>5, SeqEqual
<1> HIDE DEF h
<1>4. ToSet(hand) = {h} /\ ToSet(hand') = {}
  BY <1>2, <1>3 DEF ToSet
<1>5. Once /\ Apart
  BY DEF MonitorIInv, Unique
<1>6. CASE KernelSends(h)
  <2>1. priority' = Append(priority, h) /\ resource' = resource
    <3>1. priority' = priority \o hand /\ resource' = resource
      BY <1>6 DEF Dispatch, h
    <3>2. QED
      BY <1>1, <1>3, <3>1, AppendIsConcat
  <2>2. ToSet(priority') = ToSet(priority) \cup {h}
    BY <1>1, <1>3, <2>1, AppendSet
  <2>3. KernelOnce(priority')
    <3>1. h \notin ToSet(priority)
      BY <1>4, <1>5, <1>6 DEF Apart
    <3>2. QED
      BY <1>1, <1>3, <1>5, <2>1, <3>1, OncePut DEF Once
  <2>4. Once'
    BY <1>2, <1>5, <2>3 DEF Once
  <2>5. Apart'
    BY <1>2, <1>4, <1>5, <2>2 DEF Apart
  <2>6. InFlow' = InFlow /\ Aside' = Aside
    BY <1>2, <1>4, <2>1, <2>2 DEF InFlow, Aside
  <2>7. Sorted'
    BY <1>6, <2>2, <2>6 DEF MonitorIInv, Sorted
  <2>8. QED
    BY <1>2, <2>4, <2>5, <2>6, <2>7, MovesInv
<1>7. CASE ~KernelSends(h)
  <2>1. priority' = priority /\ resource' = Append(resource, h)
    <3>1. resource' = resource \o hand /\ priority' = priority
      BY <1>7 DEF Dispatch, h
    <3>2. QED
      BY <1>1, <1>3, <3>1, AppendIsConcat
  <2>2. ToSet(resource') = ToSet(resource) \cup {h}
    BY <1>1, <1>3, <2>1, AppendSet
  <2>3. Once'
    BY <1>2, <1>5, <2>1 DEF Once
  <2>4. Apart'
    BY <1>2, <1>4, <1>5, <2>1 DEF Apart
  <2>5. InFlow' \cup {h} = InFlow /\ Aside' = Aside \cup {h}
    BY <1>2, <1>4, <2>1, <2>2 DEF InFlow, Aside
  <2>6. Sorted'
    BY <1>7, <2>1, <2>5 DEF MonitorIInv, Sorted
  <2>7. QED
    BY <1>2, <2>3, <2>4, <2>5, <2>6, MovesInv
<1>8. QED
  BY <1>6, <1>7

(* The router puts a message on the pipe, and may keep its file. *)
LEMMA RouterPutsInv ==
  ASSUME MonitorIInv, Typed', NEW i \in 1..Len(air), RouterForwards(i) \/ RouterKeeps(i)
  PROVE  MonitorIInv'
<1>1. air \in Seq(Messages) /\ pipe \in Seq(Messages)
  BY DEF MonitorIInv, Typed
<1>2. /\ pipe' = Append(pipe, air[i]) /\ air' \in {air, RemoveAt(air, i)}
      /\ UNCHANGED <<buffer, hand, priority, resource, again, setup, sent, phase, worker, dbm>>
      /\ UNCHANGED <<inserted, deferred, tries, ran, rows, lost>>
  BY DEF RouterForwards, RouterKeeps, kernelVars, managerVars, memVars, dbVars
<1> DEFINE m == air[i]
<1>3. ToSet(air) = ToSet(air') \cup {m} \/ air' = air
  BY <1>1, <1>2, RemoveSet
<1>4. m \in Messages /\ m \in ToSet(air) /\ ~KernelSends(m)
  <2>1. m \in ToSet(air) /\ m \in Messages
    BY <1>1 DEF ToSet
  <2>2. QED
    BY <2>1 DEF MonitorIInv, Sorted, Aside
<1> HIDE DEF m
<1>5. Once /\ Apart
  BY DEF MonitorIInv, Unique
<1>6. KernelOnce(pipe') /\ ToSet(pipe') = ToSet(pipe) \cup {m}
  BY <1>1, <1>2, <1>4, <1>5, OncePut, AppendSet DEF m, Once
<1>7. Once'
  BY <1>2, <1>5, <1>6 DEF Once
<1>8. Apart'
  BY <1>2, <1>4, <1>5, <1>6 DEF Apart
<1>9. InFlow' = InFlow \cup {m} /\ Aside' \subseteq Aside /\ Aside \subseteq Aside' \cup {m}
  BY <1>2, <1>3, <1>4, <1>6 DEF InFlow, Aside
<1>10. Sorted'
  BY <1>2, <1>9 DEF MonitorIInv, Sorted
<1>11. QED
  BY <1>2, <1>4, <1>7, <1>8, <1>9, <1>10, MovesInv

(* Messages of the air are lost. *)
LEMMA LosesInv ==
  ASSUME MonitorIInv, Typed', RouterEnds \/ \E i \in 1..Len(air) : Lose(i)
  PROVE  MonitorIInv'
<1>1. air \in Seq(Messages)
  BY DEF MonitorIInv, Typed
<1>2. /\ UNCHANGED <<buffer, pipe, hand, priority, resource, again>>
      /\ UNCHANGED <<setup, sent, phase, worker, dbm>>
      /\ UNCHANGED <<inserted, deferred, tries, ran, rows>>
  BY DEF RouterEnds, Lose, kernelVars, memVars
<1>3. /\ ToSet(air') \subseteq ToSet(air) /\ ToSet(air) \subseteq ToSet(air') \cup lost'
      /\ lost \subseteq lost' /\ lost' \subseteq lost \cup ToSet(air)
  <2>1. CASE RouterEnds
    BY <2>1 DEF RouterEnds, ToSet
  <2>2. CASE \E i \in 1..Len(air) : Lose(i)
    <3>1. PICK i \in 1..Len(air) : Lose(i)
      BY <2>2
    <3>2. air' = RemoveAt(air, i) /\ lost' = lost \cup {air[i]}
      BY <3>1 DEF Lose
    <3>3. ToSet(air) = ToSet(air') \cup {air[i]}
      BY <1>1, <3>2, RemoveSet
    <3>4. QED
      BY <3>2, <3>3
  <2>3. QED
    BY <2>1, <2>2
<1>4. Once' /\ Apart' /\ InFlow' = InFlow
  BY <1>2 DEF MonitorIInv, Unique, Once, Apart, InFlow
<1>5. Aside' \subseteq Aside /\ Aside \subseteq Aside' \cup lost'
  BY <1>2, <1>3 DEF Aside
<1>6. Sorted'
  BY <1>2, <1>5 DEF MonitorIInv, Sorted
<1>7. \A m \in lost' : KernelSends(m) => m \in lost
  BY <1>3 DEF MonitorIInv, Sorted, Aside
<1>8. QED
  BY <1>2, <1>3, <1>4, <1>5, <1>6, <1>7, MovesInv

(* The messages of some kinds. *)
LEMMA Kinds ==
  ASSUME NEW s \in Seq(Messages), NEW K
  PROVE  /\ OfKind(s, K) \in Seq(Messages)
         /\ ToSet(OfKind(s, K)) \subseteq Messages
         /\ \A m \in ToSet(s) : m[1] \in K <=> m \in ToSet(OfKind(s, K))
         /\ \A m \in ToSet(OfKind(s, K)) : m \in ToSet(s) /\ m[1] \in K
         /\ IsInjective(s) => IsInjective(OfKind(s, K))
<1> DEFINE o == OfKind(s, K)
<1>1. /\ o \in Seq(Messages) /\ ToSet(o) = ToSet(s) \cap (K \X (0..NumTries))
      /\ IsInjective(s) => IsInjective(o)
  BY AmongSet DEF OfKind
<1>2. ToSet(s) \subseteq Messages
  BY DEF ToSet
<1> HIDE DEF o
<1>3. ASSUME NEW m \in Messages PROVE m = <<m[1], m[2]>> /\ m[2] \in 0..NumTries
  BY <1>3, MessageKinds, MonitoringAssumption DEF Tries
<1>4. \A m \in ToSet(s) : m[1] \in K <=> m \in ToSet(o)
  BY <1>1, <1>2, <1>3
<1>5. \A m \in ToSet(o) : m \in ToSet(s) /\ m[1] \in K
  BY <1>1, <1>2, <1>3
<1>6. QED
  BY <1>1, <1>2, <1>4, <1>5 DEF o

(* The rows that a statement writes. *)
LEMMA WrittenRows ==
  ASSUME NEW s, NEW ok \in MayFail
  PROVE  /\ Written(s, ok) \subseteq ToSet(s)
         /\ Fault("statement") \/ (Insertable(s) => Written(s, ok) = ToSet(s))
BY DEF Written, MayFail

LEMMA WritePriorityInv ==
  ASSUME MonitorIInv, WritePriority
  PROVE  MonitorIInv'
<1>1. PICK okTask \in MayFail, okTry \in MayFail, okFlow \in MayFail :
        LET info == OfKind(priority, {"launched", "over"})
            flow == OfKind(priority, {"start", "end"})
            new == {TryOf(m) : m \in ToSet(info)} \ inserted
            taskRows == Written(info, okTask)
            flowRows == Written(flow, okFlow)
        IN /\ started' = (started \/ <<"start", 0>> \in ToSet(flow))
           /\ finished' = (finished \/ <<"end", 0>> \in ToSet(flow))
           /\ inserted' = inserted \cup new
           /\ deferred' = deferred \ NowKnown(new)
           /\ again' = SetToSeq({<<"first", t>> : t \in NowKnown(new)})
           /\ tries' = IF okTry THEN tries \cup new ELSE tries
           /\ workflow' = IF <<"end", 0>> \in flowRows THEN "completed"
                          ELSE IF <<"start", 0>> \in flowRows THEN "began" ELSE workflow
           /\ rows' = rows \cup taskRows \cup flowRows
           /\ lost' = lost \cup (ToSet(priority) \ rows')
  BY DEF WritePriority
<1> DEFINE info == OfKind(priority, {"launched", "over"})
           flow == OfKind(priority, {"start", "end"})
           new == {TryOf(m) : m \in ToSet(info)} \ inserted
           done == Written(info, okTask) \cup Written(flow, okFlow)
           A == {<<"first", t>> : t \in NowKnown(new)}
<1>2. /\ inserted' = inserted \cup new /\ deferred' = deferred \ (deferred \cap new)
      /\ again' = SetToSeq(A) /\ tries' = IF okTry THEN tries \cup new ELSE tries
      /\ rows' = rows \cup done /\ lost' = lost \cup (ToSet(priority) \ rows')
  BY <1>1 DEF NowKnown
<1>3. started' \in BOOLEAN /\ finished' \in BOOLEAN
      /\ workflow' \in {"completed", "began", workflow}
  BY <1>1 DEF MonitorIInv, Typed
<1>4. /\ dbm = "priority" /\ dbm' = "resource" /\ priority' = <<>>
      /\ UNCHANGED <<setup, sent, phase, buffer, worker, air, kept, router, pipe, migrating>>
      /\ UNCHANGED <<hand, resource, kill, ran>>
  BY DEF WritePriority, kernelVars, radioVars
<1>5. priority \in Seq(Messages) /\ ToSet(priority) \subseteq Messages /\ deferred \subseteq Tries
  BY DEF MonitorIInv, Typed, ToSet
<1>6. \A m \in ToSet(priority) : KernelSends(m) /\ m \notin rows /\ m \in KernelSent
  BY DEF MonitorIInv, Sorted, Unique, InFlow
<1>7. IsInjective(priority)
  BY <1>5, <1>6 DEF MonitorIInv, Unique, Once, KernelOnce, IsInjective, ToSet
<1>8. /\ ToSet(priority) = ToSet(info) \cup ToSet(flow)
      /\ \A m \in ToSet(info) : m[2] \in Tries
      /\ IsInjective(info) /\ IsInjective(flow)
  <2>1. /\ \A m \in ToSet(priority) : m[1] \in {"launched", "over"} <=> m \in ToSet(info)
        /\ \A m \in ToSet(info) : m \in ToSet(priority) /\ m[1] \in {"launched", "over"}
        /\ IsInjective(info)
    BY <1>5, <1>7, Kinds
  <2>2. /\ \A m \in ToSet(priority) : m[1] \in {"start", "end"} <=> m \in ToSet(flow)
        /\ \A m \in ToSet(flow) : m \in ToSet(priority)
        /\ IsInjective(flow)
    BY <1>5, <1>7, Kinds
  <2> HIDE DEF info, flow
  <2>3. ASSUME NEW m \in ToSet(priority)
        PROVE  \/ m[1] \in {"launched", "over"} /\ m[2] \in Tries
               \/ m[1] \in {"start", "end"}
    BY <1>5, <1>6, MessageKinds
  <2>4. QED
    BY <2>1, <2>2, <2>3
<1>9. done \subseteq ToSet(priority) /\ (Fault("statement") \/ done = ToSet(priority))
  <2>1. Insertable(info) /\ Insertable(flow)
    BY <1>6, <1>8 DEF Insertable
  <2>2. /\ Written(info, okTask) \subseteq ToSet(info) /\ Written(flow, okFlow) \subseteq ToSet(flow)
        /\ \/ Fault("statement")
           \/ Written(info, okTask) = ToSet(info) /\ Written(flow, okFlow) = ToSet(flow)
    BY <2>1, WrittenRows
  <2> HIDE DEF info, flow
  <2>3. QED
    BY <1>8, <2>2
<1>10. new \subseteq Tries
  BY <1>8 DEF TryOf
<1>11. Fault("statement") \/ okTry = TRUE
  BY DEF MayFail
<1> HIDE DEF info, flow, new, done
<1>12. again' \in Seq(Messages) /\ ToSet(again') = A
  <2>1. A \subseteq {"first"} \X Tries /\ {"first"} \X Tries \subseteq Messages
    BY <1>5 DEF NowKnown, Messages
  <2>2. IsFiniteSet({"first"} \X Tries)
    <3>1. IsFiniteSet({"first"})
      BY FS_Singleton
    <3>2. IsFiniteSet(Tries)
      <4>1. 1 \in Int /\ NumTries \in Int
        BY MonitoringAssumption
      <4>2. QED
        BY <4>1, FS_Interval DEF Tries
    <3>3. QED
      BY <3>1, <3>2, FS_Product
  <2>3. IsFiniteSet(A)
    BY <2>1, <2>2, FS_Subset
  <2> HIDE DEF A
  <2>4. SetToSeq(A) \in Seq(A) /\ ToSet(SetToSeq(A)) = A
    BY <2>3, ListedSet
  <2>5. QED
    BY <1>2, <2>1, <2>4
<1>13. \A m \in ToSet(again') : ~KernelSends(m) /\ m[1] = "first" /\ m[2] \in deferred \cap new
  BY <1>12 DEF NowKnown, KernelSends
<1>14. \A t \in deferred \cap new : <<"first", t>> \in ToSet(again')
  BY <1>12 DEF NowKnown
<1> HIDE DEF A
<1>15. Typed'
  <2>1. priority' \in Seq(Messages)
    BY <1>4
  <2>2. rows' \subseteq Messages /\ lost' \subseteq Messages /\ inserted' \subseteq Tries
        /\ deferred' \subseteq Tries /\ tries' \subseteq Tries
    BY <1>2, <1>5, <1>9, <1>10 DEF MonitorIInv, Typed
  <2>3. QED
    BY <1>3, <1>4, <1>12, <2>1, <2>2 DEF MonitorIInv, Typed
<1>16. ToSet(priority') = {} /\ ToSet(again) = {}
  BY <1>4 DEF MonitorIInv, Keyed, ToSet
<1>17. Sorted'
  BY <1>4, <1>13, <1>16 DEF MonitorIInv, Sorted, Aside
<1>18. Unique'
  <2>1. Once'
    BY <1>4 DEF MonitorIInv, Unique, Once, KernelOnce
  <2>2. Apart'
    BY <1>4, <1>16 DEF MonitorIInv, Unique, Apart
  <2>3. KernelSent' = KernelSent
    BY <1>4 DEF KernelSent
  <2>4. ASSUME NEW m \in InFlow', KernelSends(m) PROVE m \in KernelSent /\ m \notin rows'
    <3>1. m \in ToSet(hand) \cup ToSet(pipe) \cup ToSet(buffer)
      BY <1>4, <1>16, <2>4 DEF InFlow
    <3>2. m \in KernelSent /\ m \notin rows /\ m \notin ToSet(priority)
      BY <2>4, <3>1 DEF MonitorIInv, Unique, InFlow, Apart
    <3>3. QED
      BY <1>2, <1>9, <3>2
  <2>5. ASSUME NEW m \in rows', KernelSends(m) PROVE m \in KernelSent
    BY <1>2, <1>6, <1>9, <2>5 DEF MonitorIInv, Unique
  <2>6. QED
    BY <2>1, <2>2, <2>3, <2>4, <2>5 DEF Unique
<1>19. Keyed'
  <2>1. Fault("statement")' <=> Fault("statement")
    BY <1>4 DEF Fault
  <2>2. Fault("statement") \/ inserted' \subseteq tries'
    BY <1>2, <1>11 DEF MonitorIInv, Keyed
  <2>3. QED
    BY <1>2, <1>4, <1>13, <2>1, <2>2 DEF Keyed
<1>20. Placed'
  <2>1. Sent' = Sent
    BY <1>4 DEF Sent
  <2>2. InFlow \subseteq InFlow' \cup ToSet(priority) /\ ToSet(priority) \subseteq rows' \cup lost'
    BY <1>2, <1>4 DEF InFlow
  <2>3. Aside \subseteq Aside' /\ rows \subseteq rows' /\ lost \subseteq lost'
    BY <1>2, <1>4, <1>16 DEF Aside
  <2>4. Deferred \subseteq Deferred' \cup Aside'
    BY <1>2, <1>14 DEF Deferred, Aside
  <2>5. QED
    BY <2>1, <2>2, <2>3, <2>4 DEF MonitorIInv, Placed
<1>21. Explained'
  <2>1. Fault("statement")' <=> Fault("statement")
    BY <1>4 DEF Fault
  <2>2. \A m \in lost' : KernelSends(m) => Fault("statement")
    BY <1>2, <1>9 DEF MonitorIInv, Explained
  <2>3. inserted' \cap deferred' = {}
    BY <1>2 DEF MonitorIInv, Explained
  <2>4. \A t \in Tries : <<"first", t>> \in rows' => <<"first", t>> \in rows
    <3>1. \A t \in Tries : <<"first", t>> \notin ToSet(priority)
      BY <1>6 DEF KernelSends
    <3>2. QED
      BY <1>2, <1>9, <3>1
  <2>5. QED
    BY <1>4, <2>1, <2>2, <2>3, <2>4 DEF MonitorIInv, Explained
<1>22. QED
  BY <1>15, <1>17, <1>18, <1>19, <1>20, <1>21 DEF MonitorIInv

LEMMA WriteResourceInv ==
  ASSUME MonitorIInv, WriteResource
  PROVE  MonitorIInv'
<1>1. PICK okFirst \in MayFail, okRan \in MayFail, okLast \in MayFail, okUsage \in MayFail :
        LET first == OfKind(resource, {"first"})
            known == again \o Among(first, {"first"} \X (Tries \ Unknown(first)))
            ends == OfKind(resource, {"last"})
            usage == OfKind(resource, {"usage"})
            written == Written(known, okFirst) \cup Written(ends, okLast)
                         \cup Written(usage, okUsage)
        IN /\ deferred' = deferred \cup Unknown(first)
           /\ ran' = IF okRan THEN ran \cup ({TryOf(m) : m \in ToSet(known)} \cap tries)
                     ELSE ran
           /\ rows' = rows \cup written
           /\ lost' = lost \cup (ToSet(known \o ends \o usage) \ rows')
  BY DEF WriteResource
<1> DEFINE first == OfKind(resource, {"first"})
           now == Among(first, {"first"} \X (Tries \ Unknown(first)))
           known == again \o now
           ends == OfKind(resource, {"last"})
           usage == OfKind(resource, {"usage"})
           written == Written(known, okFirst) \cup Written(ends, okLast)
                        \cup Written(usage, okUsage)
           gone == ToSet(known \o ends \o usage)
<1>2. /\ deferred' = deferred \cup Unknown(first)
      /\ ran' = IF okRan THEN ran \cup ({TryOf(m) : m \in ToSet(known)} \cap tries) ELSE ran
      /\ rows' = rows \cup written /\ lost' = lost \cup (gone \ rows')
  BY <1>1
<1>3. /\ dbm = "resource" /\ dbm' = "end" /\ resource' = <<>> /\ again' = <<>>
      /\ UNCHANGED <<setup, sent, phase, buffer, worker, air, kept, router, pipe, migrating>>
      /\ UNCHANGED <<hand, priority, kill, started, finished, inserted, workflow, tries>>
  BY DEF WriteResource, kernelVars, radioVars
<1>4. /\ resource \in Seq(Messages) /\ again \in Seq(Messages)
      /\ ToSet(resource) \subseteq Messages /\ ToSet(again) \subseteq Messages
  BY DEF MonitorIInv, Typed, ToSet
<1>5. \A m \in ToSet(resource) \cup ToSet(again) : ~KernelSends(m)
  BY DEF MonitorIInv, Sorted, Aside
<1>6. \A m \in ToSet(again) : m[1] = "first" /\ m[2] \in inserted
  BY DEF MonitorIInv, Keyed
<1>7. /\ first \in Seq(Messages)
      /\ \A m \in ToSet(resource) : m[1] = "first" => m \in ToSet(first)
      /\ \A m \in ToSet(first) : m \in ToSet(resource) /\ m[1] = "first"
  BY <1>4, Kinds
<1>8. /\ ends \in Seq(Messages)
      /\ \A m \in ToSet(resource) : m[1] = "last" => m \in ToSet(ends)
      /\ \A m \in ToSet(ends) : m \in ToSet(resource) /\ m[1] = "last"
  BY <1>4, Kinds
<1>9. /\ usage \in Seq(Messages)
      /\ \A m \in ToSet(resource) : m[1] = "usage" => m \in ToSet(usage)
      /\ \A m \in ToSet(usage) : m \in ToSet(resource) /\ m[1] = "usage"
  BY <1>4, Kinds
<1>10. now \in Seq(Messages) /\ ToSet(now) = ToSet(first) \cap ({"first"} \X (Tries \ Unknown(first)))
  BY <1>7, AmongSet
<1> HIDE DEF first, now, ends, usage
<1>11. known \in Seq(Messages) /\ ToSet(known) = ToSet(again) \cup ToSet(now)
  BY <1>4, <1>10, ConcatSet
<1> HIDE DEF known
<1>12. gone = ToSet(known) \cup ToSet(ends) \cup ToSet(usage)
  <2> DEFINE two == known \o ends
  <2>1. two \in Seq(Messages) /\ ToSet(two) = ToSet(known) \cup ToSet(ends)
    BY <1>8, <1>11, ConcatSet
  <2>2. gone = ToSet(two \o usage)
    OBVIOUS
  <2> HIDE DEF two
  <2>3. ToSet(two \o usage) = ToSet(two) \cup ToSet(usage)
    BY <1>9, <2>1, ConcatSet
  <2>4. QED
    BY <2>1, <2>2, <2>3
<1>13. written \subseteq gone
  BY <1>12, WrittenRows
<1> HIDE DEF written, gone
<1>14. ASSUME NEW m \in ToSet(first)
       PROVE  /\ m[2] \in Tries /\ m = <<"first", m[2]>>
              /\ \/ m \in ToSet(now) /\ m[2] \in inserted
                 \/ m \notin ToSet(now) /\ m[2] \in Unknown(first)
  <2>1. m \in Messages /\ m[1] = "first"
    BY <1>4, <1>7, <1>14
  <2>2. m[2] \in Tries /\ m = <<"first", m[2]>>
    BY <2>1, MessageKinds
  <2>3. m \in ToSet(now) <=> m[2] \notin Unknown(first)
    BY <1>10, <1>14, <2>2
  <2>4. m[2] \in inserted \/ m[2] \in Unknown(first)
    BY <1>14 DEF Unknown, TryOf
  <2>5. m[2] \in inserted => m[2] \notin Unknown(first)
    BY DEF Unknown
  <2>6. QED
    BY <2>2, <2>3, <2>4, <2>5
<1>15. /\ Unknown(first) \subseteq Tries /\ Unknown(first) \cap inserted = {}
       /\ \A m \in ToSet(known) : m \in Messages /\ m[1] = "first" /\ m[2] \in inserted
       /\ ToSet(now) \subseteq ToSet(first)
  <2>1. Unknown(first) \subseteq Tries /\ Unknown(first) \cap inserted = {}
    BY <1>14 DEF Unknown, TryOf
  <2>2. ToSet(now) \subseteq ToSet(first)
    BY <1>10
  <2>3. \A m \in ToSet(known) : m \in Messages /\ m[1] = "first" /\ m[2] \in inserted
    BY <1>4, <1>6, <1>7, <1>11, <1>14, <2>2
  <2>4. QED
    BY <2>1, <2>2, <2>3
<1>16. gone \subseteq Messages /\ \A m \in gone : ~KernelSends(m)
  BY <1>4, <1>5, <1>7, <1>8, <1>9, <1>11, <1>12, <1>15
<1>17. \A t \in Tries : <<"first", t>> \in gone => <<"first", t>> \in ToSet(known)
  BY <1>8, <1>9, <1>12
<1>18. ASSUME NEW m \in ToSet(resource)
       PROVE  m \in gone \/ (m = <<"first", m[2]>> /\ m[2] \in Unknown(first))
  <2>1. m[1] \in {"first", "last", "usage"}
    BY <1>4, <1>5, <1>18, MessageKinds
  <2>2. QED
    BY <1>7, <1>8, <1>9, <1>11, <1>12, <1>14, <1>18, <2>1
<1>19. Typed'
  <2>1. resource' \in Seq(Messages) /\ again' \in Seq(Messages)
    BY <1>3
  <2>2. rows' \subseteq Messages /\ lost' \subseteq Messages
        /\ deferred' \subseteq Tries /\ ran' \subseteq Tries
    BY <1>2, <1>13, <1>15, <1>16 DEF MonitorIInv, Typed
  <2>3. QED
    BY <1>3, <2>1, <2>2 DEF MonitorIInv, Typed
<1>20. ToSet(resource') = {} /\ ToSet(again') = {}
  BY <1>3 DEF ToSet
<1>21. Sorted'
  BY <1>3, <1>20 DEF MonitorIInv, Sorted, Aside
<1>22. Unique'
  <2>1. Once' /\ Apart' /\ KernelSent' = KernelSent /\ InFlow' = InFlow
    BY <1>3 DEF MonitorIInv, Unique, Once, Apart, KernelSent, InFlow
  <2>2. \A m \in rows' : KernelSends(m) => m \in rows
    BY <1>2, <1>13, <1>16
  <2>3. QED
    BY <1>2, <2>1, <2>2 DEF MonitorIInv, Unique
<1>23. Keyed'
  BY <1>3, <1>20 DEF MonitorIInv, Keyed, Fault
<1>24. Placed'
  <2>1. Sent' = Sent /\ InFlow' = InFlow
    BY <1>3 DEF Sent, InFlow
  <2>2. Deferred' = Deferred \cup {<<"first", t>> : t \in Unknown(first)}
    BY <1>2 DEF Deferred
  <2>3. ToSet(again) \subseteq gone
    BY <1>11, <1>12
  <2>4. gone \subseteq rows' \cup lost' /\ rows \subseteq rows' /\ lost \subseteq lost'
    BY <1>2
  <2>5. ToSet(resource) \subseteq gone \cup Deferred'
    BY <1>18, <2>2
  <2>6. Aside \subseteq Aside' \cup gone \cup Deferred'
    BY <1>3, <2>3, <2>5 DEF Aside
  <2>7. QED
    BY <2>1, <2>2, <2>4, <2>6 DEF MonitorIInv, Placed
<1>25. Explained'
  <2>1. Fault("statement")' <=> Fault("statement")
    BY <1>3 DEF Fault
  <2>2. \A m \in lost' : KernelSends(m) => m \in lost
    BY <1>2, <1>16
  <2>3. inserted' \cap deferred' = {}
    BY <1>2, <1>3, <1>15 DEF MonitorIInv, Explained
  <2>4. ASSUME ~Fault("statement"), NEW t \in Tries, <<"first", t>> \in rows' PROVE t \in ran'
    <3>1. okRan = TRUE
      BY <2>4 DEF MayFail
    <3>2. CASE <<"first", t>> \in rows
      BY <1>2, <2>4, <3>2 DEF MonitorIInv, Explained
    <3>3. CASE <<"first", t>> \notin rows
      <4>1. <<"first", t>> \in ToSet(known)
        BY <1>2, <1>13, <1>17, <2>4, <3>3
      <4>2. t \in inserted /\ t \in {TryOf(m) : m \in ToSet(known)}
        BY <1>15, <4>1 DEF TryOf
      <4>3. t \in tries
        BY <2>4, <4>2 DEF MonitorIInv, Keyed
      <4>4. QED
        BY <1>2, <3>1, <4>2, <4>3
    <3>4. QED
      BY <3>2, <3>3
  <2>5. QED
    BY <2>1, <2>2, <2>3, <2>4 DEF MonitorIInv, Explained
<1>26. QED
  BY <1>19, <1>21, <1>22, <1>23, <1>24, <1>25 DEF MonitorIInv

-----------------------------------------------------------------------------
(* The kernel's steps. *)
LEMMA KernelInv ==
  ASSUME MonitorIInv, SendWorkflowStart \/ StartReceiver \/ SendTaskLogInfo
                 \/ ShutExecutorsDown \/ CloseHub \/ JoinManager \/ CloseQueue
  PROVE  MonitorIInv'
<1> DEFINE Others == UNCHANGED <<setup, air, pipe, hand, priority, resource, again, inserted,
                                 deferred, tries, ran, rows, lost>>
<1>1. Typed /\ buffer \in Seq(Messages) /\ NumTries \in Nat \ {0}
  BY MonitoringAssumption DEF MonitorIInv, Typed
<1>2. dbm \in {"resource", "killed"} \/ again = <<>>
  BY DEF MonitorIInv, Keyed
<1>3. ASSUME NEW n \in 1..(2 * NumTries + 1), n = sent + 1, sent' = n,
             buffer' = Append(buffer, KernelMessage(n)), phase \in {"starting", "run"},
             UNCHANGED <<setup, phase, worker, radioVars, pipe, migrating, hand, managerVars>>
      PROVE  MonitorIInv'
  <2> DEFINE m == KernelMessage(n)
  <2>1. /\ m \in Messages /\ KernelSends(m) /\ m # <<"end", 0>>
        /\ \A k \in 1..(2 * NumTries + 1) : KernelMessage(k) = m => k = n
    BY KernelMessages
  <2>2. 1..n = (1..sent) \cup {n} /\ n \notin 1..sent /\ 1..sent \subseteq 1..(2 * NumTries + 1)
    BY <1>1, <1>3 DEF Typed
  <2>3. buffer' \in Seq(Messages)
    BY <1>1, <1>3, <2>1, AppendSet
  <2> HIDE DEF m
  <2>4. Typed'
    BY <1>1, <1>3, <2>3 DEF Typed, radioVars, managerVars, memVars, dbVars
  <2>5. m \notin KernelSent
    BY <2>1, <2>2, <1>3 DEF KernelSent, m
  <2>6. KernelSent' = KernelSent \cup {m} /\ Sent' = Sent \cup {m}
    BY <1>3, <2>2 DEF KernelSent, Sent, m
  <2>7. Others /\ dbm' = dbm /\ buffer' = Append(buffer, m)
    BY <1>3 DEF radioVars, managerVars, memVars, dbVars, m
  <2>8. QED
    BY <2>1, <2>4, <2>5, <2>6, <2>7, KernelPuts
<1>4. CASE SendWorkflowStart
  <2>1. 1 \in 1..(2 * NumTries + 1)
    BY <1>1
  <2>2. QED
    BY <1>3, <1>4, <2>1 DEF SendWorkflowStart
<1>5. CASE SendTaskLogInfo
  <2>1. sent + 1 \in 1..(2 * NumTries + 1)
    BY <1>1, <1>5 DEF SendTaskLogInfo
  <2>2. QED
    BY <1>3, <1>5, <2>1 DEF SendTaskLogInfo
<1>6. CASE CloseHub
  <2> DEFINE m == <<"end", 0>>
  <2>1. /\ phase = "down" /\ phase' = "closing" /\ buffer' = Append(buffer, m)
        /\ UNCHANGED <<sent, worker, dbm>> /\ Others
    BY <1>6 DEF CloseHub, radioVars, managerVars, memVars, dbVars
  <2>2. m \in Messages /\ KernelSends(m)
    BY DEF Messages, KernelSends
  <2>3. buffer' \in Seq(Messages)
    BY <1>1, <2>1, <2>2, AppendSet
  <2>4. Typed'
    BY <1>1, <1>6, <2>1, <2>3 DEF Typed, CloseHub, radioVars, managerVars, memVars, dbVars
  <2>5. m \notin KernelSent
    <3>1. 1..sent \subseteq 1..(2 * NumTries + 1)
      BY <1>1 DEF Typed
    <3>2. \A n \in 1..sent : KernelMessage(n) # m
      BY <3>1, KernelMessages
    <3>3. QED
      BY <2>1, <3>2 DEF KernelSent
  <2>6. KernelSent' = KernelSent \cup {m} /\ Sent' = Sent \cup {m}
    BY <2>1 DEF KernelSent, Sent
  <2>7. QED
    BY <2>1, <2>2, <2>4, <2>5, <2>6, KernelPuts
<1>7. CASE StartReceiver
  <2>1. /\ phase = "starting" /\ phase' \in {"run", "failed"}
        /\ UNCHANGED <<sent, worker, dbm, buffer, kept, router, migrating, kill>>
        /\ UNCHANGED <<started, finished, workflow>> /\ Others
    BY <1>7 DEF StartReceiver, StartUdpReceiver, StartZmqReceiver, StartOtherReceiver,
                AddExecutor, radioVars, managerVars, memVars, dbVars
  <2>2. Typed'
    BY <1>1, <2>1 DEF Typed
  <2>3. QED
    BY <1>2, <2>1, <2>2, QuietInv
<1>8. CASE ShutExecutorsDown
  <2>1. /\ phase = "run" /\ phase' = "down" /\ router' = "draining"
        /\ UNCHANGED <<sent, dbm, buffer, kept, migrating, kill>>
        /\ UNCHANGED <<started, finished, workflow>> /\ Others
        /\ worker' = [t \in Tries |-> IF worker[t] = "none" THEN "none" ELSE "over"]
    BY <1>8 DEF ShutExecutorsDown, managerVars, memVars, dbVars
  <2>2. Typed'
    BY <1>1, <2>1 DEF Typed
  <2>3. \A t \in Tries : worker'[t] \notin {"running", "ended"}
    BY <2>1
  <2>4. QED
    BY <1>2, <2>1, <2>2, <2>3, QuietInv
<1>9. CASE JoinManager
  <2>1. /\ phase = "closing" /\ phase' = "joined" /\ dbm' \in {"ended", "killed"}
        /\ (dbm' = "ended" => dbm = "ended")
        /\ UNCHANGED <<sent, worker, buffer, kept, router, migrating, kill>>
        /\ UNCHANGED <<started, finished, workflow>> /\ Others
    BY <1>9 DEF JoinManager, radioVars, memVars, dbVars
  <2>2. Typed'
    BY <1>1, <2>1 DEF Typed
  <2>3. QED
    BY <1>2, <2>1, <2>2, QuietInv
<1>10. CASE CloseQueue
  <2>1. /\ phase = "joined" /\ phase' = "closed"
        /\ UNCHANGED <<sent, worker, dbm, buffer, kept, router, migrating, kill>>
        /\ UNCHANGED <<started, finished, workflow>> /\ Others
    BY <1>10 DEF CloseQueue, radioVars, managerVars, memVars, dbVars
  <2>2. Typed'
    BY <1>1, <2>1 DEF Typed
  <2>3. QED
    BY <1>2, <2>1, <2>2, QuietInv
<1>11. QED
  BY <1>4, <1>5, <1>6, <1>7, <1>8, <1>9, <1>10

(* The steps of a try. *)
LEMMA TryInv ==
  ASSUME MonitorIInv, NEW t \in Tries, LaunchTry(t) \/ Wrapper(t) \/ WorkerKilled(t)
  PROVE  MonitorIInv'
<1> DEFINE Others == UNCHANGED <<setup, sent, phase, pipe, hand, priority, resource, again, dbm,
                                 inserted, deferred, tries, ran, rows, lost>>
           Rest == UNCHANGED <<kept, router, migrating, kill, started, finished, workflow>>
           Seen(w) == {<<"first", u>> : u \in {v \in Tries : w[v] \in {"running", "ended"}}}
<1>1. /\ Typed /\ buffer \in Seq(Messages) /\ air \in Seq(Messages)
      /\ worker \in [Tries -> {"none", "queued", "running", "ended", "over"}]
  BY DEF MonitorIInv, Typed
<1>2. dbm \in {"resource", "killed"} \/ again = <<>>
  BY DEF MonitorIInv, Keyed
<1>3. Others => Fault("statement")' = Fault("statement") /\ KernelSent' = KernelSent
  BY DEF Fault, KernelSent
<1>4. ASSUME NEW k \in {"first", "usage", "last"},
             NEW to \in {"running", "ended", "over"},
             Others, Rest, worker' = [worker EXCEPT ![t] = to],
             worker[t] = "queued" => k = "first" /\ to = "running",
             worker[t] \in {"queued", "running", "ended"}, RadioSend(<<k, t>>)
      PROVE  MonitorIInv'
  <2> DEFINE m == <<k, t>>
  <2>1. m \in Messages /\ ~KernelSends(m)
    BY <1>4 DEF Messages, KernelSends
  <2>2. worker' \in [Tries -> {"none", "queued", "running", "ended", "over"}]
    BY <1>1, <1>4
  <2>3. buffer' \in Seq(Messages) /\ air' \in Seq(Messages)
    <3>1. Append(buffer, m) \in Seq(Messages) /\ Append(air, m) \in Seq(Messages)
      BY <1>1, <2>1, AppendSet
    <3>2. buffer' \in {buffer, Append(buffer, m)} /\ air' \in {air, Append(air, m)}
      BY <1>4 DEF RadioSend
    <3>3. QED
      BY <1>1, <3>1, <3>2
  <2>4. Typed'
    BY <1>1, <1>4, <2>2, <2>3 DEF Typed
  <2>5. Sent' \subseteq Sent \cup {m}
    <3>1. ASSUME NEW u \in Tries, worker'[u] \in {"running", "ended"}
          PROVE  worker[u] \in {"running", "ended"} \/ <<"first", u>> = m
      BY <1>1, <1>4, <3>1
    <3>2. QED
      BY <1>4, <3>1 DEF Sent
  <2>6. QED
    BY <1>3, <1>4, <2>1, <2>4, <2>5, RadioPuts
<1>5. ASSUME NEW to \in {"queued", "ended", "over"}, Others, Rest,
             worker' = [worker EXCEPT ![t] = to], UNCHANGED <<air, buffer>>,
             to = "ended" => worker[t] = "running"
      PROVE  MonitorIInv'
  <2>1. worker' \in [Tries -> {"none", "queued", "running", "ended", "over"}]
    BY <1>1, <1>5
  <2>2. Typed'
    BY <1>1, <1>5, <2>1 DEF Typed
  <2>3. \A u \in Tries : worker'[u] \in {"running", "ended"} => worker[u] \in {"running", "ended"}
    BY <1>1, <1>5
  <2>4. QED
    BY <1>2, <1>5, <2>2, <2>3, QuietInv
<1>6. CASE LaunchTry(t)
  <2>1. /\ Others /\ Rest /\ worker' = [worker EXCEPT ![t] = "queued"]
        /\ UNCHANGED <<air, buffer>>
    BY <1>6 DEF LaunchTry, kernelVars, radioVars, managerVars, memVars, dbVars
  <2>2. QED
    BY <1>5, <2>1
<1>7. ASSUME NEW from, NEW to, WorkerStep(t, from, to)
      PROVE  Others /\ Rest /\ worker[t] = from /\ worker' = [worker EXCEPT ![t] = to]
  BY <1>7 DEF WorkerStep, managerVars, memVars, dbVars
<1>8. CASE SendFirst(t)
  BY <1>4, <1>7, <1>8 DEF SendFirst
<1>9. CASE MonitorEnds(t)
  <2>1. Others /\ Rest /\ worker[t] = "running" /\ worker' = [worker EXCEPT ![t] = "ended"]
    BY <1>7, <1>9 DEF MonitorEnds
  <2>2. RadioSend(<<"usage", t>>) \/ UNCHANGED <<air, buffer>>
    BY <1>9 DEF MonitorEnds
  <2>3. QED
    BY <1>4, <1>5, <2>1, <2>2
<1>10. CASE SendLast(t)
  BY <1>4, <1>7, <1>10 DEF SendLast
<1>11. CASE WorkerKilled(t)
  <2>1. Others /\ Rest /\ worker' = [worker EXCEPT ![t] = "over"] /\ UNCHANGED <<air, buffer>>
    BY <1>7, <1>11 DEF WorkerKilled
  <2>2. QED
    BY <1>5, <2>1
<1>12. QED
  BY <1>6, <1>8, <1>9, <1>10, <1>11 DEF Wrapper

(* The steps that pass messages on keep the kinds of the variables.        *)
LEMMA MovesTyped ==
  ASSUME MonitorIInv,
         \/ Flush \/ MigrateGet \/ Dispatch \/ RouterEnds
         \/ \E i \in 1..Len(air) : Lose(i) \/ RouterKeeps(i) \/ RouterForwards(i)
  PROVE  Typed'
<1>1. /\ Typed /\ buffer \in Seq(Messages) /\ air \in Seq(Messages) /\ pipe \in Seq(Messages)
      /\ hand \in Seq(Messages) /\ priority \in Seq(Messages) /\ resource \in Seq(Messages)
  BY DEF MonitorIInv, Typed
<1>2. CASE Flush
  <2>1. buffer # <<>> /\ pipe' = Append(pipe, Head(buffer)) /\ buffer' = Tail(buffer)
    BY <1>2 DEF Flush
  <2>2. Head(buffer) \in Messages /\ buffer' \in Seq(Messages)
    BY <1>1, <2>1, HeadSet
  <2>3. pipe' \in Seq(Messages)
    BY <1>1, <2>1, <2>2, AppendSet
  <2>4. QED
    BY <1>1, <1>2, <2>2, <2>3 DEF Typed, Flush, radioVars, managerVars, memVars, dbVars
<1>3. CASE MigrateGet
  <2>1. pipe # <<>> /\ hand' = <<Head(pipe)>> /\ pipe' = Tail(pipe)
    BY <1>3 DEF MigrateGet
  <2>2. hand' \in Seq(Messages) /\ pipe' \in Seq(Messages)
    BY <1>1, <2>1, HeadSet
  <2>3. Len(hand') <= 1
    BY <2>1
  <2>4. QED
    BY <1>1, <1>3, <2>2, <2>3 DEF Typed, MigrateGet, kernelVars, radioVars, managerVars,
                                  memVars, dbVars
<1>4. CASE Dispatch
  <2>1. priority \o hand \in Seq(Messages) /\ resource \o hand \in Seq(Messages)
    BY <1>1, ConcatSet
  <2>2. priority' \in {priority, priority \o hand} /\ resource' \in {resource, resource \o hand}
    BY <1>4 DEF Dispatch
  <2>3. hand' = <<>> /\ hand' \in Seq(Messages) /\ Len(hand') <= 1
    BY <1>4 DEF Dispatch
  <2>4. priority' \in Seq(Messages) /\ resource' \in Seq(Messages)
    BY <1>1, <2>1, <2>2
  <2>5. QED
    BY <1>1, <1>4, <2>3, <2>4 DEF Typed, Dispatch, kernelVars, radioVars, memVars, dbVars
<1>5. CASE RouterEnds
  <2>1. air' \in Seq(Messages) /\ ToSet(air) \subseteq Messages
    BY <1>1, <1>5 DEF RouterEnds, ToSet
  <2>2. lost' \subseteq Messages
    BY <1>1, <1>5, <2>1 DEF Typed, RouterEnds
  <2>3. QED
    BY <1>1, <1>5, <2>1, <2>2 DEF Typed, RouterEnds, kernelVars, memVars
<1>6. CASE \E i \in 1..Len(air) : Lose(i) \/ RouterKeeps(i) \/ RouterForwards(i)
  <2>1. PICK i \in 1..Len(air) : Lose(i) \/ RouterKeeps(i) \/ RouterForwards(i)
    BY <1>6
  <2>2. air[i] \in Messages /\ RemoveAt(air, i) \in Seq(Messages)
    BY <1>1, RemoveSet
  <2>3. Append(pipe, air[i]) \in Seq(Messages)
    BY <1>1, <2>2, AppendSet
  <2>4. CASE Lose(i)
    <3>1. air' \in Seq(Messages) /\ lost' \subseteq Messages
      BY <1>1, <2>2, <2>4 DEF Typed, Lose
    <3>2. QED
      BY <1>1, <2>4, <3>1 DEF Typed, Lose, kernelVars, memVars
  <2>5. CASE RouterKeeps(i)
    <3>1. pipe' \in Seq(Messages) /\ kept' \subseteq Messages
      BY <1>1, <2>2, <2>3, <2>5 DEF Typed, RouterKeeps
    <3>2. QED
      BY <1>1, <2>5, <3>1 DEF Typed, RouterKeeps, kernelVars, managerVars, memVars, dbVars
  <2>6. CASE RouterForwards(i)
    <3>1. pipe' \in Seq(Messages) /\ air' \in Seq(Messages)
      BY <2>2, <2>3, <2>6 DEF RouterForwards
    <3>2. QED
      BY <1>1, <2>6, <3>1 DEF Typed, RouterForwards, kernelVars, managerVars, memVars, dbVars
  <2>7. QED
    BY <2>1, <2>4, <2>5, <2>6
<1>7. QED
  BY <1>2, <1>3, <1>4, <1>5, <1>6

(* The remaining steps of the router and of the manager move no message. *)
LEMMA IdleInv ==
  ASSUME MonitorIInv, RouterStarts \/ MigrateEnds \/ CheckPipe \/ EndTurn \/ UNCHANGED vars
  PROVE  MonitorIInv'
<1> DEFINE Rest == UNCHANGED <<setup, sent, buffer, air, pipe, hand, priority, resource, again,
                               inserted, deferred, tries, ran, rows, lost, phase, worker>>
<1>1. Typed /\ (dbm \in {"resource", "killed"} \/ again = <<>>)
  BY DEF MonitorIInv, Keyed
<1>2. CASE RouterStarts
  <2>1. Rest /\ router' \in {"up", "gone"} /\ UNCHANGED dbm
        /\ UNCHANGED <<kept, migrating, kill, started, finished, workflow>>
    BY <1>2 DEF RouterStarts, UdpRouterStarts, ZmqRouterStarts, FileRouterStarts,
                RouterReports, kernelVars, managerVars, memVars, dbVars
  <2>2. Typed'
    BY <1>1, <2>1 DEF Typed
  <2>3. QED
    BY <1>1, <2>1, <2>2, QuietInv
<1>3. CASE MigrateEnds
  <2>1. Rest /\ migrating' = FALSE /\ UNCHANGED dbm
        /\ UNCHANGED <<kept, router, kill, started, finished, workflow>>
    BY <1>3 DEF MigrateEnds, kernelVars, radioVars, managerVars, memVars, dbVars
  <2>2. migrating' \in BOOLEAN
    BY <2>1
  <2>3. Typed'
    BY <1>1, <2>1, <2>2 DEF Typed
  <2>4. QED
    BY <1>1, <2>1, <2>3, QuietInv
<1>4. CASE CheckPipe
  <2>1. Rest /\ dbm = "pipe" /\ dbm' \in {"ended", "priority"}
        /\ UNCHANGED <<kept, router, migrating, kill, started, finished, workflow>>
    BY <1>4 DEF CheckPipe, kernelVars, radioVars, memVars, dbVars
  <2>2. Typed'
    BY <1>1, <2>1 DEF Typed
  <2>3. QED
    BY <1>1, <2>1, <2>2, QuietInv
<1>5. CASE EndTurn
  <2>1. Rest /\ dbm = "end" /\ dbm' \in {"pipe", "priority"}
        /\ UNCHANGED <<kept, router, migrating, started, finished>>
        /\ kill' = (kill \/ phase \in {"closing", "joined"})
        /\ workflow' \in {"completed", workflow}
    BY <1>5 DEF EndTurn, kernelVars, radioVars, memVars
  <2>2. kill' \in BOOLEAN
    BY <2>1
  <2>3. /\ workflow' \in {"none", "began", "completed"}
        /\ dbm' \in {"pipe", "priority", "resource", "end", "ended", "killed"}
    BY <1>1, <2>1 DEF Typed
  <2>4. Typed'
    <3>1. /\ Rest /\ UNCHANGED <<kept, router, migrating, started, finished>>
      BY <2>1
    <3>2. QED
      BY <1>1, <2>2, <2>3, <3>1 DEF Typed
  <2>5. QED
    BY <1>1, <2>1, <2>4, QuietInv
<1>6. CASE UNCHANGED vars
  <2>1. Rest /\ UNCHANGED <<dbm, kept, router, migrating, kill, started, finished, workflow>>
    BY <1>6 DEF vars, kernelVars, radioVars, managerVars, memVars, dbVars
  <2>2. Typed'
    BY <1>1, <2>1 DEF Typed
  <2>3. QED
    BY <1>1, <2>1, <2>2, QuietInv
<1>7. QED
  BY <1>2, <1>3, <1>4, <1>5, <1>6

LEMMA MonitorNextInv == MonitorIInv /\ [Next]_vars => MonitorIInv'
<1> SUFFICES ASSUME MonitorIInv, [Next]_vars PROVE MonitorIInv'
  OBVIOUS
<1>1. CASE SendWorkflowStart \/ StartReceiver \/ SendTaskLogInfo
             \/ ShutExecutorsDown \/ CloseHub \/ JoinManager \/ CloseQueue
  BY <1>1, KernelInv
<1>2. CASE \E t \in Tries : LaunchTry(t) \/ Wrapper(t) \/ WorkerKilled(t)
  BY <1>2, TryInv
<1>3. CASE \E i \in 1..Len(air) : Lose(i) \/ RouterKeeps(i) \/ RouterForwards(i)
  <2>1. Typed'
    BY <1>3, MovesTyped
  <2>2. QED
    BY <1>3, <2>1, LosesInv, RouterPutsInv
<1>4. CASE Flush
  BY <1>4, MovesTyped, FlushInv
<1>5. CASE RouterEnds
  BY <1>5, MovesTyped, LosesInv
<1>6. CASE MigrateGet
  BY <1>6, MovesTyped, MigrateGetInv
<1>7. CASE Dispatch
  BY <1>7, MovesTyped, DispatchInv
<1>8. CASE WritePriority
  BY <1>8, WritePriorityInv
<1>9. CASE WriteResource
  BY <1>9, WriteResourceInv
<1>10. CASE RouterStarts \/ MigrateEnds \/ CheckPipe \/ EndTurn \/ UNCHANGED vars
  BY <1>10, IdleInv
<1>11. QED
  BY <1>1, <1>2, <1>3, <1>4, <1>5, <1>6, <1>7, <1>8, <1>9, <1>10
     DEF Next, RouterNext, Migrate, Manager

(* The invariant holds in every behaviour. *)
THEOREM MonitorInductive == Spec => []MonitorIInv
<1>1. QED
  BY MonitorInitInv, MonitorNextInv, PTL DEF Spec

(* What is on its way. *)
LEMMA Ways ==
  ASSUME Typed
  PROVE  /\ ToSet(buffer \o air \o pipe \o hand \o priority \o resource \o again)
              = InFlow \cup Aside
         /\ InFlow \cup Aside \subseteq Messages
<1>1. /\ buffer \in Seq(Messages) /\ air \in Seq(Messages) /\ pipe \in Seq(Messages)
      /\ hand \in Seq(Messages) /\ priority \in Seq(Messages) /\ resource \in Seq(Messages)
      /\ again \in Seq(Messages)
  BY DEF Typed
<1> DEFINE a == buffer \o air
           b == a \o pipe
           c == b \o hand
           d == c \o priority
           e == d \o resource
           f == e \o again
<1>2. a \in Seq(Messages) /\ ToSet(a) = ToSet(buffer) \cup ToSet(air)
  BY <1>1, ConcatSet
<1> HIDE DEF a
<1>3. b \in Seq(Messages) /\ ToSet(b) = ToSet(a) \cup ToSet(pipe)
  BY <1>1, <1>2, ConcatSet
<1> HIDE DEF b
<1>4. c \in Seq(Messages) /\ ToSet(c) = ToSet(b) \cup ToSet(hand)
  BY <1>1, <1>3, ConcatSet
<1> HIDE DEF c
<1>5. d \in Seq(Messages) /\ ToSet(d) = ToSet(c) \cup ToSet(priority)
  BY <1>1, <1>4, ConcatSet
<1> HIDE DEF d
<1>6. e \in Seq(Messages) /\ ToSet(e) = ToSet(d) \cup ToSet(resource)
  BY <1>1, <1>5, ConcatSet
<1> HIDE DEF e
<1>7. f \in Seq(Messages) /\ ToSet(f) = ToSet(e) \cup ToSet(again)
  BY <1>1, <1>6, ConcatSet
<1>8. f = buffer \o air \o pipe \o hand \o priority \o resource \o again
  BY DEF a, b, c, d, e
<1> HIDE DEF f
<1>9. ToSet(f) = InFlow \cup Aside
  BY <1>2, <1>3, <1>4, <1>5, <1>6, <1>7 DEF InFlow, Aside
<1>10. ToSet(f) \subseteq Messages
  BY <1>7 DEF ToSet
<1>11. QED
  BY <1>8, <1>9, <1>10

(* Every message that was sent is on its way, in the database, or was lost *)
(* in a way that has a name; what waits has a reason (the database manager *)
(* and the way to it, db_manager.py, radios, router).                      *)
THEOREM NothingVanishes == Spec => []Accounted
<1>1. ASSUME MonitorIInv PROVE Accounted
  <2>1. /\ ToSet(buffer \o air \o pipe \o hand \o priority \o resource \o again)
             = InFlow \cup Aside
        /\ InFlow \cup Aside \subseteq Messages
    BY <1>1, Ways DEF MonitorIInv
  <2>2. OnTheWay = InFlow \cup Aside \cup Deferred
    BY <2>1 DEF OnTheWay
  <2>3. TypeOK
    BY <1>1, <2>1 DEF MonitorIInv, Typed, TypeOK
  <2>4. Sent \subseteq OnTheWay \cup rows \cup lost
    BY <1>1, <2>2 DEF MonitorIInv, Placed
  <2>5. (\E m \in lost : KernelSends(m)) => Fault("statement")
    BY <1>1 DEF MonitorIInv, Explained
  <2>6. inserted \cap deferred = {}
        /\ (Fault("statement") \/ \A t \in Tries : <<"first", t>> \in rows => t \in ran)
    BY <1>1 DEF MonitorIInv, Explained
  <2>7. QED
    BY <2>3, <2>4, <2>5, <2>6 DEF Accounted
<1>2. QED
  BY <1>1, MonitorInductive, PTL

=============================================================================
