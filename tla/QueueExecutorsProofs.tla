------------------------ MODULE QueueExecutorsProofs ------------------------
(***************************************************************************)
(* Proofs about QueueExecutors for any number of tasks and any faults.     *)
(*                                                                         *)
(* A task that is sent travels through the queue, the hand of the submit   *)
(* process, Work Queue, the reports and the hand of the collector, and is  *)
(* in one of them; the entry of its future is in the table before that and *)
(* until its report is read.  So the reports that the collector reads find *)
(* their entries, and when it gives up the process is known to have ended: *)
(* from then on submit raises and nothing is sent any more but what was in *)
(* the table already.                                                      *)
(***************************************************************************)
EXTENDS QueueExecutors, SequenceTheorems, FiniteSetTheorems, TLAPS

IsReady(t) == \E i \in 1..Len(ready) : ready[i] = t
IsReported(t) == \E i \in 1..Len(reports) : reports[i].id = t /\ reports[i].known
Somewhere(t) == IsReady(t) \/ hand = t \/ t \in inside \/ IsReported(t) \/ current = t

(* The process has a task in hand only between taking and giving it, and   *)
(* the collector a future between the table and setting it. *)
Handling == (proc = "hand" <=> hand # 0) /\ (collector = "set" <=> current # 0)

(* A task is in no two places. *)
ReadyOnce == \A i, j \in 1..Len(ready) : ready[i] = ready[j] => i = j
ReportedOnce ==
  \A i, j \in 1..Len(reports) :
    reports[i].known /\ reports[j].known /\ reports[i].id = reports[j].id => i = j
Once ==
  /\ ReadyOnce /\ ReportedOnce
  /\ \A t \in Tasks :
       /\ IsReady(t) => hand # t /\ t \notin inside /\ ~IsReported(t)
       /\ hand = t => t \notin inside /\ ~IsReported(t)
       /\ t \in inside => ~IsReported(t)
       /\ current = t => ~IsReady(t) /\ hand # t /\ t \notin inside /\ ~IsReported(t)

(* What is on its way was sent, and its future waits in the table, or with *)
(* the collector. *)
Known ==
  \A t \in Tasks : Somewhere(t) =>
    stage[t] \in Sent /\ (collector # "ended" => fut[t] = "pending" /\ (t \in tasks <=> current # t))

(* So does the future of what is about to be sent. *)
Entered ==
  \A t \in Tasks :
    /\ stage[t] \in {"entered", "written", "alive"} =>
         t \in tasks /\ (collector # "ended" => fut[t] = "pending")
    /\ fut[t] = "pending" => t \in tasks \/ current = t
    /\ stage[t] = "none" => fut[t] = "none"

(* What was sent and waits is on its way, unless a process has ended. *)
Working == proc \notin {"leaving", "exited", "dead"}
Present ==
  Working /\ parent /\ ~Fault("refuse") =>
    \A t \in Tasks : stage[t] \in Sent /\ fut[t] = "pending" => Somewhere(t)

(* Only refused tasks are reported under an unknown key. *)
Keyed == ~Fault("refuse") => \A i \in 1..Len(reports) : reports[i].known

(* The collector gives up for a reason, and leaves nobody waiting. *)
Ending ==
  /\ collector \in {"failing", "ended"} => stop \/ ~ProcUp \/ Fault("refuse")
  /\ collector = "ended" /\ ~ProcUp /\ ~stop /\ ~Fault("refuse") =>
       \A t \in Tasks : stage[t] \in Sent \cup {"alive"} => fut[t] # "pending"

IInv ==
  TypeOK /\ Handling /\ Once /\ Known /\ Entered /\ Present /\ Keyed /\ Ending /\ CounterFollows

-----------------------------------------------------------------------------
(* What is put on a queue and taken from it. *)

LEMMA ReadyAppend ==
  ASSUME TypeOK, ReadyOnce, NEW t \in Tasks, ~IsReady(t), ready' = Append(ready, t)
  PROVE  /\ ready' \in Seq(Tasks) /\ ReadyOnce'
         /\ \A u \in Tasks : IsReady(u)' <=> IsReady(u) \/ u = t
<1>1. ready \in Seq(Tasks) /\ Len(ready) \in Nat
  BY LenProperties DEF TypeOK
<1>2. /\ ready' \in Seq(Tasks) /\ Len(ready') = Len(ready) + 1
      /\ \A i \in 1..Len(ready) : ready'[i] = ready[i]
      /\ ready'[Len(ready) + 1] = t
  BY <1>1, AppendProperties
<1>3. ReadyOnce'
  BY <1>1, <1>2 DEF ReadyOnce, IsReady
<1>4. ASSUME NEW u \in Tasks PROVE IsReady(u)' <=> IsReady(u) \/ u = t
  BY <1>1, <1>2 DEF IsReady
<1>5. QED
  BY <1>2, <1>3, <1>4

LEMMA ReadyTail ==
  ASSUME TypeOK, ReadyOnce, ready # <<>>, ready' = Tail(ready)
  PROVE  /\ ready' \in Seq(Tasks) /\ ReadyOnce' /\ Head(ready) \in Tasks
         /\ IsReady(Head(ready))
         /\ \A u \in Tasks : IsReady(u)' <=> IsReady(u) /\ u # Head(ready)
<1>1. ready \in Seq(Tasks) /\ Len(ready) \in Nat /\ Len(ready) # 0
  BY LenProperties, EmptySeq DEF TypeOK
<1>2. /\ ready' \in Seq(Tasks) /\ Len(ready') = Len(ready) - 1 /\ Head(ready) \in Tasks
      /\ \A i \in 1..Len(ready') : ready'[i] = ready[i + 1]
  BY <1>1, HeadTailProperties
<1>3. Head(ready) = ready[1]
  BY <1>1
<1>4. ReadyOnce'
  <2> SUFFICES ASSUME NEW i \in 1..Len(ready'), NEW j \in 1..Len(ready'), ready'[i] = ready'[j]
               PROVE  i = j
    BY DEF ReadyOnce
  <2>1. i + 1 \in 1..Len(ready) /\ j + 1 \in 1..Len(ready) /\ ready[i + 1] = ready[j + 1]
    BY <1>1, <1>2
  <2>2. QED
    BY <2>1 DEF ReadyOnce
<1>5. IsReady(Head(ready))
  BY <1>1, <1>3 DEF IsReady
<1>6. ASSUME NEW u \in Tasks PROVE IsReady(u)' <=> IsReady(u) /\ u # Head(ready)
  <2>1. ASSUME IsReady(u)' PROVE IsReady(u) /\ u # Head(ready)
    <3>1. PICK i \in 1..Len(ready') : ready'[i] = u
      BY <2>1 DEF IsReady
    <3>2. i + 1 \in 1..Len(ready) /\ ready[i + 1] = u /\ 1 \in 1..Len(ready) /\ i + 1 # 1
      BY <1>1, <1>2, <3>1
    <3>3. QED
      BY <1>3, <3>2 DEF IsReady, ReadyOnce
  <2>2. ASSUME IsReady(u), u # Head(ready) PROVE IsReady(u)'
    <3>1. PICK i \in 1..Len(ready) : ready[i] = u
      BY <2>2 DEF IsReady
    <3>2. i # 1
      BY <1>3, <2>2, <3>1
    <3>3. i - 1 \in 1..Len(ready') /\ ready'[i - 1] = u
      BY <1>1, <1>2, <3>1, <3>2
    <3>4. QED
      BY <3>3 DEF IsReady
  <2>3. QED
    BY <2>1, <2>2
<1>7. QED
  BY <1>2, <1>4, <1>5, <1>6

Reports == [id : Tasks, known : BOOLEAN]

LEMMA ReportsAppend ==
  ASSUME TypeOK, ReportedOnce, NEW r \in Reports, r.known => ~IsReported(r.id),
         reports' = Append(reports, r)
  PROVE  /\ reports' \in Seq(Reports) /\ ReportedOnce'
         /\ \A u \in Tasks : IsReported(u)' <=> IsReported(u) \/ (r.known /\ u = r.id)
         /\ (\A i \in 1..Len(reports) : reports[i].known) /\ r.known =>
              \A i \in 1..Len(reports') : reports'[i].known
<1>1. reports \in Seq(Reports) /\ Len(reports) \in Nat
  BY LenProperties DEF TypeOK, Reports
<1>2. /\ reports' \in Seq(Reports) /\ Len(reports') = Len(reports) + 1
      /\ \A i \in 1..Len(reports) : reports'[i] = reports[i]
      /\ reports'[Len(reports) + 1] = r
  BY <1>1, AppendProperties
<1>3. \A i \in 1..Len(reports') : i \in 1..Len(reports) \/ i = Len(reports) + 1
  BY <1>1, <1>2
<1>4. ReportedOnce'
  BY <1>1, <1>2, <1>3 DEF ReportedOnce, IsReported
<1>5. ASSUME NEW u \in Tasks
      PROVE  IsReported(u)' <=> IsReported(u) \/ (r.known /\ u = r.id)
  BY <1>1, <1>2, <1>3 DEF IsReported
<1>6. QED
  BY <1>2, <1>3, <1>4, <1>5

LEMMA ReportsTail ==
  ASSUME TypeOK, ReportedOnce, reports # <<>>, reports' = Tail(reports)
  PROVE  /\ reports' \in Seq(Reports) /\ ReportedOnce' /\ Head(reports) \in Reports
         /\ Head(reports).known => IsReported(Head(reports).id)
         /\ \A u \in Tasks :
              IsReported(u)' <=>
                IsReported(u) /\ ~(Head(reports).known /\ u = Head(reports).id)
         /\ (\A i \in 1..Len(reports) : reports[i].known) =>
              Head(reports).known /\ \A i \in 1..Len(reports') : reports'[i].known
<1>1. reports \in Seq(Reports) /\ Len(reports) \in Nat /\ Len(reports) # 0
  BY LenProperties, EmptySeq DEF TypeOK, Reports
<1>2. /\ reports' \in Seq(Reports) /\ Len(reports') = Len(reports) - 1
      /\ Head(reports) \in Reports
      /\ \A i \in 1..Len(reports') : reports'[i] = reports[i + 1]
  BY <1>1, HeadTailProperties
<1>3. Head(reports) = reports[1] /\ 1 \in 1..Len(reports)
  BY <1>1
<1>4. \A i \in 1..Len(reports') : i + 1 \in 1..Len(reports) /\ i + 1 # 1
  BY <1>1, <1>2
<1>5. ReportedOnce'
  <2> SUFFICES ASSUME NEW i \in 1..Len(reports'), NEW j \in 1..Len(reports'),
                      reports'[i].known, reports'[j].known, reports'[i].id = reports'[j].id
               PROVE  i = j
    BY DEF ReportedOnce
  <2>1. i + 1 = j + 1
    BY <1>2, <1>4 DEF ReportedOnce
  <2>2. QED
    BY <1>1, <1>2, <2>1
<1>6. ASSUME NEW u \in Tasks
      PROVE  IsReported(u)' <=>
               IsReported(u) /\ ~(Head(reports).known /\ u = Head(reports).id)
  <2>1. ASSUME IsReported(u)'
        PROVE  IsReported(u) /\ ~(Head(reports).known /\ u = Head(reports).id)
    <3>1. PICK i \in 1..Len(reports') : reports'[i].id = u /\ reports'[i].known
      BY <2>1 DEF IsReported
    <3>2. reports[i + 1].id = u /\ reports[i + 1].known
      BY <1>2, <3>1
    <3>3. QED
      BY <1>3, <1>4, <3>2 DEF IsReported, ReportedOnce
  <2>2. ASSUME IsReported(u), ~(Head(reports).known /\ u = Head(reports).id)
        PROVE  IsReported(u)'
    <3>1. PICK i \in 1..Len(reports) : reports[i].id = u /\ reports[i].known
      BY <2>2 DEF IsReported
    <3>2. i # 1
      BY <1>3, <2>2, <3>1
    <3>3. i - 1 \in 1..Len(reports') /\ (i - 1) + 1 = i
      BY <1>1, <1>2, <3>1, <3>2
    <3>4. reports'[i - 1] = reports[i]
      BY <1>2, <3>3
    <3>5. QED
      BY <3>1, <3>3, <3>4 DEF IsReported
  <2>3. QED
    BY <2>1, <2>2
<1>7. QED
  BY <1>2, <1>3, <1>4, <1>5, <1>6 DEF IsReported

LEMMA ReadyPrefix ==
  ASSUME TypeOK, ReadyOnce, NEW n \in 0..Len(ready), ready' = SubSeq(ready, 1, n)
  PROVE  /\ ready' \in Seq(Tasks) /\ ReadyOnce'
         /\ \A u \in Tasks : IsReady(u)' => IsReady(u)
<1>1. ready \in Seq(Tasks) /\ Len(ready) \in Nat /\ n \in Int /\ n >= 0
  BY LenProperties DEF TypeOK
<1>2. \A i \in 1..n : i \in 1..Len(ready) /\ ready[i] \in Tasks
  BY <1>1, ElementOfSeq
<1>3. /\ ready' \in Seq(Tasks) /\ Len(ready') = n
      /\ \A i \in 1..n : ready'[i] = ready[i]
  BY <1>1, <1>2, SubSeqProperties
<1>4. ReadyOnce' /\ \A u \in Tasks : IsReady(u)' => IsReady(u)
  BY <1>2, <1>3 DEF ReadyOnce, IsReady
<1>5. QED
  BY <1>3, <1>4

LEMMA ReportsPrefix ==
  ASSUME TypeOK, ReportedOnce, NEW n \in 0..Len(reports), reports' = SubSeq(reports, 1, n)
  PROVE  /\ reports' \in Seq(Reports) /\ ReportedOnce'
         /\ \A u \in Tasks : IsReported(u)' => IsReported(u)
         /\ (\A i \in 1..Len(reports) : reports[i].known) =>
              \A i \in 1..Len(reports') : reports'[i].known
<1>1. reports \in Seq(Reports) /\ Len(reports) \in Nat /\ n \in Int /\ n >= 0
  BY LenProperties DEF TypeOK, Reports
<1>2. \A i \in 1..n : i \in 1..Len(reports) /\ reports[i] \in Reports
  BY <1>1, ElementOfSeq
<1>3. /\ reports' \in Seq(Reports) /\ Len(reports') = n
      /\ \A i \in 1..n : reports'[i] = reports[i]
  BY <1>1, <1>2, SubSeqProperties
<1>4. ReportedOnce' /\ \A u \in Tasks : IsReported(u)' => IsReported(u)
  BY <1>2, <1>3 DEF ReportedOnce, IsReported
<1>5. QED
  BY <1>2, <1>3, <1>4

-----------------------------------------------------------------------------
(* The two sets that TaskVine's counter is compared with, and what is      *)
(* answered and not counted yet.                                           *)
Waiting == {t \in Tasks : stage[t] = "counted" /\ fut[t] = "pending"}
Early == {t \in Tasks : stage[t] = "sent" /\ fut[t] # "pending"}
Behind == IF collector = "count" THEN 1 ELSE 0

LEMMA TasksFinite == IsFiniteSet(Tasks) /\ IsFiniteSet(Waiting) /\ IsFiniteSet(Early)
<1>1. IsFiniteSet(Tasks)
  BY SetupsAssumption, FS_Interval DEF Tasks
<1>2. Waiting \subseteq Tasks /\ Early \subseteq Tasks
  BY DEF Waiting, Early
<1>3. QED
  BY <1>1, <1>2, FS_Subset

LEMMA CounterMeans ==
  /\ CounterFollows <=>
       (setup.vine /\ collector \notin {"failing", "ended"} =>
          outstanding = Cardinality(Waiting) - Cardinality(Early) + Behind)
  /\ CounterFollows' <=>
       (setup'.vine /\ collector' \notin {"failing", "ended"} =>
          outstanding' = Cardinality(Waiting') - Cardinality(Early') + Behind')
BY DEF CounterFollows, Waiting, Early, Behind

LEMMA CounterKept ==
  ASSUME CounterFollows, setup' = setup, outstanding' = outstanding,
         collector' \notin {"failing", "ended"} => collector \notin {"failing", "ended"},
         Waiting' = Waiting, Early' = Early, Behind' = Behind
  PROVE  CounterFollows'
BY CounterMeans

LEMMA InitInv == Init => IInv
<1> SUFFICES ASSUME Init PROVE IInv
  OBVIOUS
<1> USE DEF Init, InitSubmit, InitProc, InitFactory, InitEnds
<1>1. TypeOK
  <2>1. ready \in Seq(Tasks) /\ reports \in Seq([id : Tasks, known : BOOLEAN])
    BY EmptySeq
  <2>2. proc \in {"starting", "top"}
    OBVIOUS
  <2>3. factory \in {"none", "up"}
    OBVIOUS
  <2>4. /\ stage \in [Tasks -> {"none"}] /\ fut \in [Tasks -> {"none"}]
        /\ parent \in BOOLEAN /\ stop \in BOOLEAN /\ lost \in BOOLEAN
        /\ tasks \subseteq Tasks /\ inside \subseteq Tasks /\ hand \in Tasks \cup {0}
        /\ current \in Tasks \cup {0}
    OBVIOUS
  <2>5. outstanding \in Int /\ collector = "loop" /\ shutdown = "no"
    OBVIOUS
  <2> HIDE DEF Init, InitSubmit, InitProc, InitFactory, InitEnds
  <2>6. QED
    BY <2>1, <2>2, <2>3, <2>4, <2>5 DEF TypeOK
<1>2. Len(ready) = 0 /\ Len(reports) = 0
  OBVIOUS
<1>3. \A t \in Tasks : ~Somewhere(t)
  BY <1>2 DEF Somewhere, IsReady, IsReported, Tasks
<1>4. Handling /\ Once /\ Known /\ Entered /\ Present /\ Keyed /\ Ending
  BY <1>2, <1>3 DEF Handling, Once, ReadyOnce, ReportedOnce, Known, Entered, Present, Keyed,
       Ending, Somewhere, Sent, ProcUp
<1>5. Waiting = {} /\ Early = {} /\ Behind = 0
  BY DEF Waiting, Early, Behind
<1>6. CounterFollows
  BY <1>5, FS_EmptySet, CounterMeans
<1>7. QED
  BY <1>1, <1>4, <1>6 DEF IInv

-----------------------------------------------------------------------------
(* submit, before the task is put on the queue.                            *)
LEMMA EnterKeeps ==
  ASSUME IInv, NEW t \in Tasks,
         RejectSpec(t) \/ Enter(t) \/ Written(t) \/ CheckAlive(t) \/ (Put(t) /\ Closed)
  PROVE  IInv'
<1> USE DEF RejectSpec, Enter, Written, CheckAlive, Put, procVars, endVars
<1>1. /\ UNCHANGED <<setup, parent, outstanding, proc, factory, ready, lost, hand, inside, reports,
                     collector, current, stop, shutdown>>
      /\ stage[t] \in {"none", "entered", "written", "alive"}
      /\ stage'[t] \in {"entered", "written", "alive", "raised"}
      /\ \A u \in Tasks \ {t} : stage'[u] = stage[u] /\ fut'[u] = fut[u] /\ (u \in tasks' <=> u \in tasks)
      /\ tasks \subseteq tasks'
  BY DEF IInv, TypeOK
<1>2. TypeOK'
  <2>1. /\ stage' \in [Tasks -> {"none", "entered", "written", "alive", "sent", "counted", "raised"}]
        /\ tasks' \subseteq Tasks
        /\ fut' \in [Tasks -> {"none", "pending", "done", "failed"}]
    BY DEF IInv, TypeOK
  <2> HIDE DEF RejectSpec, Enter, Written, CheckAlive, Put
  <2>2. QED
    BY <1>1, <2>1 DEF IInv, TypeOK
<1>3. \A u \in Tasks : Somewhere(u)' <=> Somewhere(u)
  BY <1>1 DEF Somewhere, IsReady, IsReported
<1>4. ~Somewhere(t)
  BY <1>1 DEF IInv, Known, Sent
<1>5. Handling' /\ Once' /\ Keyed'
  BY <1>1 DEF IInv, Handling, Once, ReadyOnce, ReportedOnce, IsReady, IsReported, Keyed, Fault
<1>6. Known'
  BY <1>1, <1>3, <1>4 DEF IInv, Known
<1>7. Entered'
  BY DEF IInv, TypeOK, Entered
<1>8. Present'
  BY <1>1, <1>3 DEF IInv, Present, ProcUp, Working, Fault, Sent
<1>9. Ending'
  BY <1>1 DEF IInv, TypeOK, Ending, ProcUp, Fault, Sent
<1>10. Waiting' = Waiting /\ Early' = Early /\ Behind' = Behind
  BY <1>1 DEF Waiting, Early, Behind
<1>11. CounterFollows'
  BY <1>1, <1>10, CounterKept DEF IInv
<1>12. QED
  BY <1>2, <1>5, <1>6, <1>7, <1>8, <1>9, <1>11 DEF IInv

LEMMA PutKeeps ==
  ASSUME IInv, NEW t \in Tasks, Put(t), ~Closed
  PROVE  IInv'
<1> USE DEF Put, procVars, endVars
<1>1. /\ UNCHANGED <<setup, parent, tasks, fut, outstanding, proc, factory, lost, hand, inside,
                     reports, collector, current, stop, shutdown>>
      /\ stage[t] = "alive" /\ stage'[t] \in Sent
      /\ setup.vine => stage'[t] = "sent"
      /\ \A u \in Tasks \ {t} : stage'[u] = stage[u]
  BY DEF IInv, TypeOK, Sent
<1>2. t \in tasks /\ (collector # "ended" => fut[t] = "pending")
  BY <1>1 DEF IInv, Entered
<1>3. ~Somewhere(t)
  BY <1>1 DEF IInv, Known, Sent
<1>4. /\ ready' \in Seq(Tasks) /\ ReadyOnce'
      /\ \A u \in Tasks : IsReady(u)' <=> IsReady(u) \/ u = t
  BY <1>3, ReadyAppend DEF IInv, Once, Somewhere
<1>5. TypeOK'
  <2>1. stage' \in [Tasks -> {"none", "entered", "written", "alive", "sent", "counted", "raised"}]
    BY DEF IInv, TypeOK
  <2> HIDE DEF Put
  <2>2. QED
    BY <1>1, <1>4, <2>1 DEF IInv, TypeOK
<1>6. \A u \in Tasks : IsReported(u)' <=> IsReported(u)
  BY <1>1 DEF IsReported
<1>7. \A u \in Tasks : Somewhere(u)' <=> Somewhere(u) \/ u = t
  BY <1>1, <1>4, <1>6 DEF Somewhere
<1>8. Handling' /\ Keyed'
  BY <1>1 DEF IInv, Handling, Keyed, Fault
<1>9. Once'
  <2>1. ReportedOnce'
    BY <1>1 DEF IInv, Once, ReportedOnce
  <2>2. QED
    BY <1>1, <1>3, <1>4, <1>6, <2>1 DEF IInv, Once, Somewhere
<1>10. Known'
  <2>1. current # t
    BY <1>3 DEF Somewhere
  <2>2. QED
    BY <1>1, <1>2, <1>7, <2>1 DEF IInv, Known, Sent
<1>11. Entered'
  BY <1>1, <1>2 DEF IInv, TypeOK, Entered, Sent
<1>12. Present'
  BY <1>1, <1>7 DEF IInv, Present, ProcUp, Working, Fault, Sent
<1>13. Ending'
  BY <1>1 DEF IInv, Ending, ProcUp, Fault, Sent
<1>14. CounterFollows'
  <2>1. CASE setup.vine /\ collector # "ended"
    <3>1. Waiting' = Waiting /\ Early' = Early /\ Behind' = Behind
      BY <1>1, <1>2, <2>1 DEF Waiting, Early, Behind
    <3>2. QED
      BY <1>1, <3>1, CounterKept DEF IInv
  <2>2. CASE ~(setup.vine /\ collector # "ended")
    BY <1>1, <2>2 DEF CounterFollows
  <2>3. QED
    BY <2>1, <2>2
<1>15. QED
  BY <1>5, <1>8, <1>9, <1>10, <1>11, <1>12, <1>13, <1>14 DEF IInv

LEMMA CountKeeps ==
  ASSUME IInv, NEW t \in Tasks, Count(t)
  PROVE  IInv'
<1> USE DEF Count, procVars, endVars
<1>1. /\ UNCHANGED <<setup, parent, tasks, fut, proc, factory, ready, lost, hand, inside,
                     reports, collector, current, stop, shutdown>>
      /\ stage[t] = "sent" /\ stage'[t] = "counted" /\ outstanding' = outstanding + 1
      /\ \A u \in Tasks \ {t} : stage'[u] = stage[u]
  BY DEF IInv, TypeOK
<1>2. \A u \in Tasks : stage'[u] \in Sent <=> stage[u] \in Sent
  BY <1>1 DEF Sent
<1>3. TypeOK'
  BY DEF IInv, TypeOK
<1>4. \A u \in Tasks : Somewhere(u)' <=> Somewhere(u)
  BY <1>1 DEF Somewhere, IsReady, IsReported
<1>5. Handling' /\ Once' /\ Keyed'
  BY <1>1 DEF IInv, Handling, Once, ReadyOnce, ReportedOnce, IsReady, IsReported, Keyed, Fault
<1>6. Known'
  BY <1>1, <1>2, <1>4 DEF IInv, Known, Sent
<1>7. Entered'
  BY <1>1 DEF IInv, Entered
<1>8. Present' /\ Ending'
  BY <1>1, <1>2, <1>4 DEF IInv, Present, Ending, ProcUp, Working, Fault, Sent
<1>9. CounterFollows'
  <2>1. /\ IsFiniteSet(Waiting) /\ IsFiniteSet(Early)
        /\ Cardinality(Waiting) \in Int /\ Cardinality(Early) \in Int
        /\ outstanding \in Int /\ Behind \in Int /\ Behind' = Behind
    BY <1>1, TasksFinite, FS_CardinalityType DEF IInv, TypeOK, Behind
  <2>2. CASE fut[t] = "pending"
    <3>1. Waiting' = Waiting \cup {t} /\ t \notin Waiting /\ Early' = Early
      BY <1>1, <2>2 DEF Waiting, Early
    <3>2. Cardinality(Waiting') = Cardinality(Waiting) + 1
      BY <2>1, <3>1, FS_AddElement
    <3>3. QED
      BY <1>1, <2>1, <3>1, <3>2, CounterMeans DEF IInv
  <2>3. CASE fut[t] # "pending"
    <3>1. Early' = Early \ {t} /\ t \in Early /\ Waiting' = Waiting
      BY <1>1, <2>3 DEF Waiting, Early
    <3>2. Cardinality(Early') = Cardinality(Early) - 1
      BY <2>1, <3>1, FS_RemoveElement
    <3>3. QED
      BY <1>1, <2>1, <3>1, <3>2, CounterMeans DEF IInv
  <2>4. QED
    BY <2>2, <2>3
<1>10. QED
  BY <1>3, <1>5, <1>6, <1>7, <1>8, <1>9 DEF IInv

-----------------------------------------------------------------------------
(* The submit process.                                                     *)
ProcMoves == StartManager \/ Top \/ Leave \/ Filled \/ WaitEnds \/ PrepareRaises \/ Die

LEMMA ProcMovesKeep ==
  ASSUME IInv, ProcMoves
  PROVE  IInv'
<1> USE DEF ProcMoves, StartManager, Top, Leave, Filled, WaitEnds, PrepareRaises, Die, submitVars,
            endVars
<1>1. /\ UNCHANGED <<setup, parent, stage, tasks, fut, outstanding, factory, ready, lost, inside,
                     collector, current, stop, shutdown>>
      /\ proc' \in {"top", "fill", "drain", "leaving", "exited", "dead"}
      /\ hand' = 0 \/ (hand' = hand /\ proc # "hand")
      /\ ProcUp' => ProcUp
      /\ Working' => Working /\ hand' = hand /\ reports' = reports
  BY DEF ProcUp, Working
<1>2. hand' = 0
  BY <1>1 DEF IInv, Handling
<1>3. /\ reports' \in Seq(Reports) /\ ReportedOnce'
      /\ \A u \in Tasks : IsReported(u)' => IsReported(u)
      /\ (\A i \in 1..Len(reports) : reports[i].known) =>
           \A i \in 1..Len(reports') : reports'[i].known
  <2>1. CASE reports' = reports
    BY <2>1 DEF IInv, TypeOK, Once, ReportedOnce, IsReported, Reports
  <2>2. CASE Die
    <3>1. PICK n \in 0..Len(reports) : reports' = SubSeq(reports, 1, n)
      BY <2>2
    <3>2. QED
      BY <3>1, ReportsPrefix DEF IInv, Once
  <2>3. QED
    BY <2>1, <2>2
<1> HIDE DEF ProcMoves, StartManager, Top, Leave, Filled, WaitEnds, PrepareRaises, Die
<1>4. TypeOK'
  BY <1>1, <1>2, <1>3 DEF IInv, TypeOK, Reports
<1>5. \A u \in Tasks : (IsReady(u)' <=> IsReady(u)) /\ hand' # u
  BY <1>1, <1>2 DEF IsReady, Tasks
<1>6. \A u \in Tasks : Somewhere(u)' => Somewhere(u)
  BY <1>1, <1>3, <1>5 DEF Somewhere
<1>7. Handling' /\ Keyed'
  BY <1>1, <1>2, <1>3 DEF IInv, Handling, Keyed, Fault
<1>8. Once'
  <2>1. ReadyOnce'
    BY <1>1 DEF IInv, Once, ReadyOnce
  <2>2. QED
    BY <1>1, <1>3, <1>5, <2>1 DEF IInv, Once
<1>9. Known' /\ Entered'
  BY <1>1, <1>6 DEF IInv, Known, Entered
<1>10. Present'
  <2>1. Working' => \A u \in Tasks : Somewhere(u)' <=> Somewhere(u)
    BY <1>1 DEF Somewhere, IsReady, IsReported
  <2>2. QED
    BY <1>1, <2>1 DEF IInv, Present, Fault
<1>11. Ending'
  <2>1. collector \in {"failing", "ended"} => (stop \/ ~ProcUp' \/ Fault("refuse"))
    BY <1>1 DEF IInv, Ending
  <2>2. collector = "ended" /\ ~ProcUp /\ ~stop /\ ~Fault("refuse") =>
          \A t \in Tasks : stage[t] \in Sent \cup {"alive"} => fut[t] # "pending"
    BY DEF IInv, Ending
  <2>3. collector = "ended" /\ ~stop /\ ~Fault("refuse") => ~ProcUp
    BY DEF IInv, Ending
  <2>4. QED
    BY <1>1, <2>1, <2>2, <2>3 DEF Ending, Fault
<1>12. CounterFollows'
  BY <1>1 DEF IInv, CounterFollows
<1>13. QED
  BY <1>4, <1>7, <1>8, <1>9, <1>10, <1>11, <1>12 DEF IInv

LEMMA TakeKeeps ==
  ASSUME IInv, Take
  PROVE  IInv'
<1> USE DEF Take, submitVars, endVars
<1>1. /\ UNCHANGED <<setup, parent, stage, tasks, fut, outstanding, factory, lost, inside, reports,
                     collector, current, stop, shutdown>>
      /\ proc = "fill" /\ proc' = "hand" /\ hand' = Head(ready)
      /\ ready # <<>> /\ ready' = Tail(ready)
  OBVIOUS
<1>2. hand = 0 /\ ProcUp /\ ProcUp' /\ Working
  BY <1>1 DEF IInv, Handling, ProcUp, Working
<1>3. /\ ready' \in Seq(Tasks) /\ ReadyOnce' /\ Head(ready) \in Tasks
      /\ IsReady(Head(ready))
      /\ \A u \in Tasks : IsReady(u)' <=> IsReady(u) /\ u # Head(ready)
  BY <1>1, ReadyTail DEF IInv, Once
<1>4. TypeOK'
  BY <1>1, <1>3 DEF IInv, TypeOK
<1>5. \A u \in Tasks : IsReported(u)' <=> IsReported(u)
  BY <1>1 DEF IsReported
<1>6. \A u \in Tasks : hand # u
  BY <1>2 DEF Tasks
<1>7. \A u \in Tasks : Somewhere(u)' <=> Somewhere(u)
  BY <1>1, <1>3, <1>5, <1>6 DEF Somewhere
<1>8. Handling'
  BY <1>1, <1>3 DEF IInv, Handling, Tasks
<1>9. Once'
  <2>1. ReportedOnce'
    BY <1>1 DEF IInv, Once, ReportedOnce
  <2>2. QED
    BY <1>1, <1>3, <1>5, <2>1 DEF IInv, Once
<1>10. Keyed' /\ Known' /\ Entered' /\ Present'
  BY <1>1, <1>2, <1>7 DEF IInv, Keyed, Known, Entered, Present, Fault
<1>11. Ending' /\ CounterFollows'
  BY <1>1, <1>2 DEF IInv, Ending, CounterFollows, Fault
<1>12. QED
  BY <1>4, <1>8, <1>9, <1>10, <1>11 DEF IInv

LEMMA GiveKeeps ==
  ASSUME IInv, Give
  PROVE  IInv'
<1> USE DEF Give, submitVars, endVars
<1>1. /\ UNCHANGED <<setup, parent, stage, tasks, fut, outstanding, factory, ready, lost, reports,
                     collector, current, stop, shutdown>>
      /\ proc = "hand" /\ proc' = "fill" /\ hand' = 0 /\ inside' = inside \cup {hand}
  OBVIOUS
<1>2. hand \in Tasks /\ ProcUp /\ ProcUp' /\ Working
  BY <1>1 DEF IInv, TypeOK, Handling, ProcUp, Working
<1>3. TypeOK'
  BY <1>1, <1>2 DEF IInv, TypeOK
<1>4. \A u \in Tasks : (IsReported(u)' <=> IsReported(u)) /\ (IsReady(u)' <=> IsReady(u))
  BY <1>1 DEF IsReported, IsReady
<1>5. \A u \in Tasks : hand' # u
  BY <1>1 DEF Tasks
<1>6. \A u \in Tasks : Somewhere(u)' <=> Somewhere(u)
  BY <1>1, <1>4, <1>5 DEF Somewhere
<1>7. Handling'
  BY <1>1 DEF IInv, Handling
<1>8. Once'
  <2>1. ReportedOnce' /\ ReadyOnce'
    BY <1>1 DEF IInv, Once, ReportedOnce, ReadyOnce
  <2>2. QED
    BY <1>1, <1>2, <1>4, <1>5, <2>1 DEF IInv, Once
<1>9. Keyed' /\ Known' /\ Entered' /\ Present'
  BY <1>1, <1>2, <1>6 DEF IInv, Keyed, Known, Entered, Present, Fault
<1>10. Ending' /\ CounterFollows'
  BY <1>1, <1>2 DEF IInv, Ending, CounterFollows, Fault
<1>11. QED
  BY <1>3, <1>7, <1>8, <1>9, <1>10 DEF IInv

(* A task that is refused is reported under a key nobody knows.            *)
LEMMA RefuseKeeps ==
  ASSUME IInv, Refuse \/ RefuseAndGoOn
  PROVE  IInv'
<1> USE DEF Refuse, RefuseAndGoOn, submitVars, endVars
<1>1. /\ UNCHANGED <<setup, parent, stage, tasks, fut, outstanding, factory, ready, lost,
                     collector, current, stop, shutdown>>
      /\ proc = "hand" /\ proc' \in {"fill", "leaving"} /\ hand' = 0
      /\ reports' = Append(reports, Refusal(hand))
      /\ inside' = inside \/ inside' = inside \cup {hand}
      /\ Fault("refuse")
  OBVIOUS
<1>2. hand \in Tasks
  BY <1>1 DEF IInv, TypeOK, Handling
<1>3. Refusal(hand) \in Reports /\ ~Refusal(hand).known
  BY <1>2 DEF Refusal, Reports
<1>4. /\ reports' \in Seq(Reports) /\ ReportedOnce'
      /\ \A u \in Tasks : IsReported(u)' <=> IsReported(u)
  BY <1>1, <1>3, ReportsAppend DEF IInv, Once
<1>5. TypeOK'
  BY <1>1, <1>2, <1>4 DEF IInv, TypeOK, Reports
<1>6. \A u \in Tasks : (IsReady(u)' <=> IsReady(u)) /\ hand' # u
  BY <1>1 DEF IsReady, Tasks
<1>7. \A u \in Tasks : Somewhere(u)' => Somewhere(u)
  BY <1>1, <1>4, <1>6 DEF Somewhere
<1>8. Handling'
  BY <1>1 DEF IInv, Handling
<1>9. Once'
  <2>1. ReadyOnce'
    BY <1>1 DEF IInv, Once, ReadyOnce
  <2>2. QED
    BY <1>1, <1>2, <1>4, <1>6, <2>1 DEF IInv, Once
<1>10. Known' /\ Entered'
  BY <1>1, <1>7 DEF IInv, Known, Entered
<1>11. Keyed' /\ Present' /\ Ending'
  BY <1>1 DEF Keyed, Present, Ending, Fault
<1>12. CounterFollows'
  BY <1>1 DEF IInv, CounterFollows
<1>13. QED
  BY <1>5, <1>8, <1>9, <1>10, <1>11, <1>12 DEF IInv

LEMMA WaitFindsKeeps ==
  ASSUME IInv, NEW t \in Tasks, WaitFinds(t)
  PROVE  IInv'
<1> USE DEF WaitFinds, submitVars, endVars
<1>1. /\ UNCHANGED <<setup, parent, stage, tasks, fut, outstanding, proc, factory, ready, lost, hand,
                     collector, current, stop, shutdown>>
      /\ t \in inside /\ inside' = inside \ {t}
      /\ reports' = Append(reports, Report(t))
  OBVIOUS
<1>2. Report(t) \in Reports /\ Report(t).known /\ Report(t).id = t
  BY DEF Report, Reports
<1>3. ~IsReported(t)
  BY <1>1 DEF IInv, Once
<1>4. /\ reports' \in Seq(Reports) /\ ReportedOnce'
      /\ \A u \in Tasks : IsReported(u)' <=> IsReported(u) \/ u = t
      /\ (\A i \in 1..Len(reports) : reports[i].known) =>
           \A i \in 1..Len(reports') : reports'[i].known
  BY <1>1, <1>2, <1>3, ReportsAppend DEF IInv, Once
<1>5. TypeOK'
  BY <1>1, <1>4 DEF IInv, TypeOK, Reports
<1>6. \A u \in Tasks : IsReady(u)' <=> IsReady(u)
  BY <1>1 DEF IsReady
<1>7. \A u \in Tasks : Somewhere(u)' <=> Somewhere(u)
  BY <1>1, <1>4, <1>6 DEF Somewhere
<1>8. Handling'
  BY <1>1 DEF IInv, Handling
<1>9. Once'
  <2>1. ReadyOnce'
    BY <1>1 DEF IInv, Once, ReadyOnce
  <2>2. QED
    BY <1>1, <1>4, <1>6, <2>1 DEF IInv, Once
<1>10. Keyed'
  BY <1>1, <1>4 DEF IInv, Keyed, Fault
<1>11. Known' /\ Entered' /\ Present'
  BY <1>1, <1>7 DEF IInv, Known, Entered, Present, ProcUp, Working, Fault
<1>12. Ending' /\ CounterFollows'
  BY <1>1 DEF IInv, Ending, CounterFollows, ProcUp, Fault
<1>13. QED
  BY <1>5, <1>8, <1>9, <1>10, <1>11, <1>12 DEF IInv

-----------------------------------------------------------------------------
(* The collector.                                                          *)
LEMMA CollectorTurns ==
  ASSUME IInv, CollectorLooks \/ CollectorTimesOut
  PROVE  IInv'
<1> USE DEF CollectorLooks, CollectorTimesOut, submitVars, procVars
<1>1. /\ UNCHANGED <<setup, parent, stage, tasks, fut, outstanding, proc, factory, ready, lost, hand,
                     inside, reports, current, stop, shutdown>>
      /\ collector \in {"loop", "get"} /\ collector' \in {"loop", "get", "failing"}
      /\ collector' = "failing" => stop \/ ~ProcUp
  OBVIOUS
<1>2. TypeOK'
  BY <1>1 DEF IInv, TypeOK
<1>3. \A u \in Tasks : Somewhere(u)' <=> Somewhere(u)
  BY <1>1 DEF Somewhere, IsReady, IsReported
<1>4. Handling' /\ Once' /\ Keyed'
  BY <1>1 DEF IInv, Handling, Once, ReadyOnce, ReportedOnce, IsReady, IsReported, Keyed, Fault
<1>5. Known' /\ Entered' /\ Present'
  BY <1>1, <1>3 DEF IInv, Known, Entered, Present, ProcUp, Working, Fault
<1>6. Ending' /\ CounterFollows'
  BY <1>1 DEF IInv, Ending, CounterFollows, ProcUp, Fault
<1>7. QED
  BY <1>2, <1>4, <1>5, <1>6 DEF IInv

LEMMA FailAllKeeps ==
  ASSUME IInv, FailAll
  PROVE  IInv'
<1> USE DEF FailAll, submitVars, procVars
<1>0. \A u \in Tasks : current # u
  BY DEF IInv, Handling, Tasks
<1>1. /\ UNCHANGED <<setup, parent, stage, tasks, outstanding, proc, factory, ready, lost, hand,
                     inside, reports, current, stop, shutdown>>
      /\ collector = "failing" /\ collector' = "ended"
      /\ fut' \in [Tasks -> {"none", "pending", "done", "failed"}]
      /\ \A u \in Tasks : fut'[u] # "pending" /\ (fut'[u] = "none" <=> fut[u] = "none")
  BY <1>0 DEF IInv, TypeOK, Entered
<1>2. TypeOK'
  BY <1>1 DEF IInv, TypeOK
<1>3. \A u \in Tasks : Somewhere(u)' <=> Somewhere(u)
  BY <1>1 DEF Somewhere, IsReady, IsReported
<1>4. Handling' /\ Once' /\ Keyed'
  BY <1>1 DEF IInv, Handling, Once, ReadyOnce, ReportedOnce, IsReady, IsReported, Keyed, Fault
<1>5. Known' /\ Entered' /\ Present'
  BY <1>1, <1>3 DEF IInv, Known, Entered, Present
<1>6. Ending' /\ CounterFollows'
  BY <1>1 DEF IInv, Ending, CounterFollows, ProcUp, Fault
<1>7. QED
  BY <1>2, <1>4, <1>5, <1>6 DEF IInv

(* A report whose key is known finds its future, and no other does.        *)
LEMMA CollectFinds ==
  ASSUME IInv, Collect, Head(reports).known, Head(reports).id \in tasks
  PROVE  IInv'
<1> DEFINE t == Head(reports).id
<1>1. /\ UNCHANGED <<setup, parent, stage, fut, outstanding, proc, factory, ready, lost, hand,
                     inside, stop, shutdown>>
      /\ collector = "get" /\ collector' = "set"
      /\ reports # <<>> /\ reports' = Tail(reports)
      /\ tasks' = tasks \ {t} /\ current' = t
      /\ t \in Tasks
  BY DEF Collect, IInv, TypeOK, procVars
<1>2. /\ reports' \in Seq(Reports) /\ ReportedOnce'
      /\ IsReported(t)
      /\ \A u \in Tasks : IsReported(u)' <=> IsReported(u) /\ u # t
      /\ (\A i \in 1..Len(reports) : reports[i].known) =>
           \A i \in 1..Len(reports') : reports'[i].known
  BY <1>1, ReportsTail DEF IInv, Once
<1> HIDE DEF t
<1>3. current = 0 /\ \A u \in Tasks : current # u
  BY <1>1 DEF IInv, Handling, Tasks
<1>4. stage[t] \in Sent /\ fut[t] = "pending"
  BY <1>1, <1>2 DEF IInv, Known, Somewhere
<1>5. TypeOK'
  BY <1>1, <1>2 DEF IInv, TypeOK, Reports
<1>6. ~IsReady(t) /\ hand # t /\ t \notin inside
  BY <1>1, <1>2 DEF IInv, Once
<1>7. \A u \in Tasks : IsReady(u)' <=> IsReady(u)
  BY <1>1 DEF IsReady
<1>8. \A u \in Tasks : Somewhere(u)' <=> Somewhere(u)
  BY <1>1, <1>2, <1>3, <1>7 DEF Somewhere
<1>9. Handling' /\ Keyed'
  BY <1>1, <1>2 DEF IInv, Handling, Keyed, Fault, Tasks
<1>10. Once'
  <2>1. ReadyOnce'
    BY <1>1 DEF IInv, Once, ReadyOnce
  <2>2. QED
    BY <1>1, <1>2, <1>6, <1>7, <2>1 DEF IInv, Once
<1>11. Known'
  BY <1>1, <1>3, <1>8 DEF IInv, Known
<1>12. Entered'
  BY <1>1, <1>3, <1>4 DEF IInv, Entered, Sent
<1>13. Present'
  BY <1>1, <1>8 DEF IInv, Present, Working, Fault
<1>14. Ending'
  BY <1>1 DEF Ending
<1>15. CounterFollows'
  BY <1>1 DEF IInv, CounterFollows
<1>16. QED
  BY <1>5, <1>9, <1>10, <1>11, <1>12, <1>13, <1>14, <1>15 DEF IInv

(* The future that was taken is one that waits, and is set once.           *)
LEMMA SetKeeps ==
  ASSUME IInv, SetFuture
  PROVE  IInv'
<1> DEFINE t == current
<1>1. /\ UNCHANGED <<setup, parent, stage, tasks, outstanding, proc, factory, ready, lost, hand,
                     inside, reports, stop, shutdown>>
      /\ collector = "set" /\ collector' = IF setup.vine THEN "count" ELSE "loop"
      /\ current' = 0
      /\ t \in Tasks
  BY DEF SetFuture, IInv, TypeOK, Handling, procVars
<1>2. /\ fut' \in [Tasks -> {"none", "pending", "done", "failed"}]
      /\ fut'[t] \in {"done", "failed"}
      /\ \A u \in Tasks \ {t} : fut'[u] = fut[u]
  BY <1>1 DEF SetFuture, IInv, TypeOK
<1>3. t = current /\ \A u \in Tasks : current' # u
  BY <1>1 DEF Tasks
<1> HIDE DEF t
<1>4. stage[t] \in Sent /\ fut[t] = "pending" /\ t \notin tasks
  BY <1>1, <1>3 DEF IInv, Known, Somewhere
<1>5. TypeOK'
  BY <1>1, <1>2 DEF IInv, TypeOK
<1>6. ~IsReady(t) /\ hand # t /\ t \notin inside /\ ~IsReported(t)
  BY <1>1, <1>3 DEF IInv, Once
<1>7. \A u \in Tasks : (IsReady(u)' <=> IsReady(u)) /\ (IsReported(u)' <=> IsReported(u))
  BY <1>1 DEF IsReady, IsReported
<1>8. \A u \in Tasks : Somewhere(u)' <=> Somewhere(u) /\ u # t
  BY <1>1, <1>3, <1>6, <1>7 DEF Somewhere
<1>9. Handling' /\ Keyed'
  BY <1>1 DEF IInv, Handling, Keyed, Fault
<1>10. Once'
  <2>1. ReadyOnce' /\ ReportedOnce'
    BY <1>1 DEF IInv, Once, ReadyOnce, ReportedOnce
  <2>2. QED
    BY <1>1, <1>3, <1>7, <2>1 DEF IInv, Once
<1>11. Known'
  BY <1>1, <1>2, <1>3, <1>8 DEF IInv, Known
<1>12. Entered'
  BY <1>1, <1>2, <1>3, <1>4 DEF IInv, Entered, Sent
<1>13. Present'
  BY <1>1, <1>2, <1>8 DEF IInv, Present, Working, Fault
<1>14. Ending'
  BY <1>1 DEF Ending
<1>15. CounterFollows'
  <2>1. CASE ~setup.vine
    BY <1>1, <2>1 DEF CounterFollows
  <2>2. CASE setup.vine
    <3>1. /\ IsFiniteSet(Waiting) /\ IsFiniteSet(Early)
          /\ Cardinality(Waiting) \in Int /\ Cardinality(Early) \in Int
          /\ outstanding \in Int /\ outstanding' = outstanding
          /\ Behind = 0 /\ Behind' = 1
          /\ outstanding = Cardinality(Waiting) - Cardinality(Early) + Behind
      BY <1>1, <2>2, TasksFinite, FS_CardinalityType, CounterMeans DEF IInv, TypeOK, Behind
    <3>2. CASE stage[t] = "counted"
      <4>1. Waiting' = Waiting \ {t} /\ t \in Waiting /\ Early' = Early
        BY <1>1, <1>2, <1>4, <3>2 DEF Waiting, Early
      <4>2. Cardinality(Waiting') = Cardinality(Waiting) - 1
        BY <3>1, <4>1, FS_RemoveElement
      <4>3. QED
        BY <3>1, <4>1, <4>2, CounterMeans
    <3>3. CASE stage[t] = "sent"
      <4>1. Early' = Early \cup {t} /\ t \notin Early /\ Waiting' = Waiting
        BY <1>1, <1>2, <1>4, <3>3 DEF Waiting, Early
      <4>2. Cardinality(Early') = Cardinality(Early) + 1
        BY <3>1, <4>1, FS_AddElement
      <4>3. QED
        BY <3>1, <4>1, <4>2, CounterMeans
    <3>4. QED
      BY <1>4, <3>2, <3>3 DEF Sent
  <2>3. QED
    BY <2>1, <2>2
<1>16. QED
  BY <1>5, <1>9, <1>10, <1>11, <1>12, <1>13, <1>14, <1>15 DEF IInv

LEMMA CountDownKeeps ==
  ASSUME IInv, CountDown
  PROVE  IInv'
<1> USE DEF CountDown, procVars
<1>1. /\ UNCHANGED <<setup, parent, stage, tasks, fut, proc, factory, ready, lost, hand, inside,
                     reports, current, stop, shutdown>>
      /\ collector = "count" /\ collector' = "loop" /\ outstanding' = outstanding - 1
  OBVIOUS
<1>2. TypeOK'
  BY <1>1 DEF IInv, TypeOK
<1>3. \A u \in Tasks : Somewhere(u)' <=> Somewhere(u)
  BY <1>1 DEF Somewhere, IsReady, IsReported
<1>4. Handling' /\ Once' /\ Keyed'
  BY <1>1 DEF IInv, Handling, Once, ReadyOnce, ReportedOnce, IsReady, IsReported, Keyed, Fault
<1>5. Known' /\ Entered' /\ Present' /\ Ending'
  BY <1>1, <1>3 DEF IInv, Known, Entered, Present, Working, Ending, Fault
<1>6. CounterFollows'
  <2>1. Waiting' = Waiting /\ Early' = Early /\ Behind = 1 /\ Behind' = 0
    BY <1>1 DEF Waiting, Early, Behind
  <2>2. outstanding \in Int /\ Cardinality(Waiting) \in Int /\ Cardinality(Early) \in Int
    BY TasksFinite, FS_CardinalityType DEF IInv, TypeOK
  <2>3. QED
    BY <1>1, <2>1, <2>2, CounterMeans DEF IInv
<1>7. QED
  BY <1>2, <1>4, <1>5, <1>6 DEF IInv

(* Any other can only be that of a refused task.                           *)
LEMMA CollectRaises ==
  ASSUME IInv, Collect, ~(Head(reports).known /\ Head(reports).id \in tasks)
  PROVE  IInv'
<1>1. /\ UNCHANGED <<setup, parent, stage, tasks, fut, outstanding, proc, factory, ready, lost, hand,
                     inside, current, stop, shutdown>>
      /\ collector = "get" /\ collector' = "failing"
      /\ reports # <<>> /\ reports' = Tail(reports)
  BY DEF Collect, procVars
<1>2. /\ reports' \in Seq(Reports) /\ ReportedOnce' /\ Head(reports) \in Reports
      /\ Head(reports).known => IsReported(Head(reports).id)
      /\ \A u \in Tasks : IsReported(u)' => IsReported(u)
      /\ (\A i \in 1..Len(reports) : reports[i].known) => Head(reports).known
  BY <1>1, ReportsTail DEF IInv, Once
<1>3. ~Head(reports).known
  <2>1. \A u \in Tasks : current # u
    BY <1>1 DEF IInv, Handling, Tasks
  <2>2. QED
    BY <1>1, <1>2, <2>1 DEF IInv, Known, Somewhere, Reports
<1>4. Fault("refuse")
  BY <1>2, <1>3 DEF IInv, Keyed
<1>5. TypeOK'
  BY <1>1, <1>2 DEF IInv, TypeOK, Reports
<1>6. \A u \in Tasks : IsReady(u)' <=> IsReady(u)
  BY <1>1 DEF IsReady
<1>7. \A u \in Tasks : Somewhere(u)' => Somewhere(u)
  BY <1>1, <1>2, <1>6 DEF Somewhere
<1>8. Once'
  <2>1. ReadyOnce'
    BY <1>1 DEF IInv, Once, ReadyOnce
  <2>2. QED
    BY <1>1, <1>2, <1>6, <2>1 DEF IInv, Once
<1>9. Handling' /\ Known' /\ Entered'
  BY <1>1, <1>7 DEF IInv, Handling, Known, Entered
<1>10. Keyed' /\ Present' /\ Ending' /\ CounterFollows'
  BY <1>1, <1>4 DEF Keyed, Present, Ending, CounterFollows, Fault
<1>11. QED
  BY <1>5, <1>8, <1>9, <1>10 DEF IInv

-----------------------------------------------------------------------------
(* shutdown, the factory and a parent that goes away.                      *)
LEMMA EndsKeep ==
  ASSUME IInv, Shutdown \/ Factory
  PROVE  IInv'
<1> USE DEF Shutdown, StopExecutor, JoinProcess, JoinCollector, JoinFactory, JoinQueues, Factory,
            submitVars, procVars, endVars
<1>1. /\ UNCHANGED <<setup, parent, stage, tasks, fut, outstanding, proc, ready, lost, hand, inside,
                     reports, collector, current>>
      /\ stop' = stop \/ stop' = TRUE
  OBVIOUS
<1>2. TypeOK'
  <2>1. shutdown' = shutdown \/ shutdown' \in {"process", "collector", "factory", "queues", "done"}
    OBVIOUS
  <2>2. factory' = factory \/ factory' = "ended"
    OBVIOUS
  <2>3. stop' \in BOOLEAN
    BY <1>1 DEF IInv, TypeOK
  <2> HIDE DEF Shutdown, StopExecutor, JoinProcess, JoinCollector, JoinFactory, JoinQueues, Factory
  <2>4. QED
    BY <1>1, <2>1, <2>2, <2>3 DEF IInv, TypeOK
<1>3. \A u \in Tasks : Somewhere(u)' <=> Somewhere(u)
  BY <1>1 DEF Somewhere, IsReady, IsReported
<1>4. Handling' /\ Once' /\ Keyed'
  BY <1>1 DEF IInv, Handling, Once, ReadyOnce, ReportedOnce, IsReady, IsReported, Keyed, Fault
<1>5. Known' /\ Entered' /\ Present'
  BY <1>1, <1>3 DEF IInv, Known, Entered, Present, Working, Fault
<1>6. Ending' /\ CounterFollows'
  BY <1>1 DEF IInv, Ending, CounterFollows, ProcUp, Fault
<1>7. QED
  BY <1>2, <1>4, <1>5, <1>6 DEF IInv

LEMMA ParentGoesKeeps ==
  ASSUME IInv, ParentGoes
  PROVE  IInv'
<1> USE DEF ParentGoes, submitVars, endVars
<1>1. /\ UNCHANGED <<setup, stage, tasks, fut, outstanding, proc, factory, hand, inside, reports,
                     collector, current, stop, shutdown>>
      /\ parent' = FALSE
  OBVIOUS
<1>2. /\ ready' \in Seq(Tasks) /\ ReadyOnce'
      /\ \A u \in Tasks : IsReady(u)' => IsReady(u)
  <2>1. CASE ready' = ready
    BY <2>1 DEF IInv, TypeOK, Once, ReadyOnce, IsReady
  <2>2. CASE ready' # ready
    <3>1. PICK n \in 0..(Len(ready) - 1) : ready' = SubSeq(ready, 1, n)
      BY <2>2
    <3>2. n \in 0..Len(ready)
      BY <3>1, LenProperties DEF IInv, TypeOK
    <3>3. QED
      BY <3>1, <3>2, ReadyPrefix DEF IInv, Once
  <2>3. QED
    BY <2>1, <2>2
<1>3. TypeOK'
  <2>1. lost' = lost \/ lost' = TRUE
    OBVIOUS
  <2>2. lost' \in BOOLEAN
    BY <2>1 DEF IInv, TypeOK
  <2>3. parent' \in BOOLEAN
    BY <1>1
  <2> HIDE DEF ParentGoes
  <2>4. QED
    BY <1>1, <1>2, <2>2, <2>3 DEF IInv, TypeOK
<1> HIDE DEF ParentGoes
<1>4. \A u \in Tasks : IsReported(u)' <=> IsReported(u)
  BY <1>1 DEF IsReported
<1>5. \A u \in Tasks : Somewhere(u)' => Somewhere(u)
  BY <1>1, <1>2, <1>4 DEF Somewhere
<1>6. Handling' /\ Keyed'
  BY <1>1 DEF IInv, Handling, Keyed, Fault
<1>7. Once'
  <2>1. ReportedOnce'
    BY <1>1 DEF IInv, Once, ReportedOnce
  <2>2. QED
    BY <1>1, <1>2, <1>4, <2>1 DEF IInv, Once
<1>8. Known' /\ Entered'
  BY <1>1, <1>5 DEF IInv, Known, Entered
<1>9. Present' /\ Ending' /\ CounterFollows'
  BY <1>1 DEF IInv, Present, Ending, CounterFollows, ProcUp, Fault
<1>10. QED
  BY <1>3, <1>6, <1>7, <1>8, <1>9 DEF IInv

LEMMA IdleKeeps ==
  ASSUME IInv, UNCHANGED vars
  PROVE  IInv'
<1>1. /\ UNCHANGED <<setup, parent, stage, tasks, fut, outstanding, proc, factory, ready, lost, hand>>
      /\ UNCHANGED <<inside, reports, collector, current, stop, shutdown>>
  BY DEF vars, submitVars, procVars, endVars
<1>2. TypeOK'
  BY <1>1 DEF IInv, TypeOK
<1>3. \A u \in Tasks : Somewhere(u)' <=> Somewhere(u)
  BY <1>1 DEF Somewhere, IsReady, IsReported
<1>4. Handling' /\ Once' /\ Keyed'
  BY <1>1 DEF IInv, Handling, Once, ReadyOnce, ReportedOnce, IsReady, IsReported, Keyed, Fault
<1>5. Known' /\ Entered' /\ Present'
  BY <1>1, <1>3 DEF IInv, Known, Entered, Present, Working, Fault
<1>6. Ending' /\ CounterFollows'
  BY <1>1 DEF IInv, Ending, CounterFollows, ProcUp, Fault
<1>7. QED
  BY <1>2, <1>4, <1>5, <1>6 DEF IInv

LEMMA NextInv == IInv /\ [Next]_vars => IInv'
<1> SUFFICES ASSUME IInv, [Next]_vars PROVE IInv'
  OBVIOUS
<1>1. ASSUME NEW t \in Tasks, Submit(t) PROVE IInv'
  BY <1>1, EnterKeeps, PutKeeps, CountKeeps DEF Submit, WorkQueueWrites, TaskVineWrites
<1>2. CASE ProcNext
  BY <1>2, ProcMovesKeep, TakeKeeps, GiveKeeps, RefuseKeeps, WaitFindsKeeps
     DEF ProcNext, ProcMoves, WorkQueueSubmits, TaskVineSubmits
<1>3. CASE Die
  BY <1>3, ProcMovesKeep DEF ProcMoves
<1>4. CASE CollectorNext
  BY <1>4, CollectorTurns, FailAllKeeps, CollectFinds, CollectRaises, SetKeeps, CountDownKeeps
     DEF CollectorNext
<1>5. CASE Shutdown \/ Factory \/ ParentGoes
  BY <1>5, EndsKeep, ParentGoesKeeps
<1>6. CASE UNCHANGED vars
  BY <1>6, IdleKeeps
<1>7. QED
  BY <1>1, <1>2, <1>3, <1>4, <1>5, <1>6 DEF Next

-----------------------------------------------------------------------------
(* The invariant holds for any number of tasks and any faults.             *)
THEOREM Inductive == Spec => []IInv
<1>1. QED
  BY InitInv, NextInv, PTL DEF Spec

(* A set with no two elements has at most one.                             *)
LEMMA AtMostOne ==
  ASSUME NEW S, \A x, y \in S : x = y
  PROVE  Cardinality(S) \in {0, 1} /\ (Cardinality(S) = 1 <=> S # {})
<1>1. CASE S = {}
  BY <1>1, FS_EmptySet
<1>2. CASE S # {}
  <2>1. PICK x \in S : TRUE
    BY <1>2
  <2>2. S = {x}
    BY <2>1
  <2>3. Cardinality(S) = 1
    BY <2>2, FS_Singleton
  <2>4. QED
    BY <1>2, <2>3
<1>3. QED
  BY <1>1, <1>2

LEMMA PlacesOnce ==
  ASSUME IInv, NEW t \in Tasks
  PROVE  Places(t) \in {0, 1} /\ (Places(t) = 1 <=> Somewhere(t))
<1> DEFINE R == {i \in 1..Len(ready) : ready[i] = t}
           P == {i \in 1..Len(reports) : reports[i].id = t /\ reports[i].known}
<1>1. Cardinality(R) \in {0, 1} /\ (Cardinality(R) = 1 <=> IsReady(t))
  <2>1. \A i, j \in R : i = j
    BY DEF IInv, Once, ReadyOnce
  <2>2. R # {} <=> IsReady(t)
    BY DEF IsReady
  <2> HIDE DEF R
  <2>3. QED
    BY <2>1, <2>2, AtMostOne
<1>2. Cardinality(P) \in {0, 1} /\ (Cardinality(P) = 1 <=> IsReported(t))
  <2>1. \A i, j \in P : i = j
    BY DEF IInv, Once, ReportedOnce
  <2>2. P # {} <=> IsReported(t)
    BY DEF IsReported
  <2> HIDE DEF P
  <2>3. QED
    BY <2>1, <2>2, AtMostOne
<1>3. Places(t) = Cardinality(R) + (IF hand = t THEN 1 ELSE 0) + (IF t \in inside THEN 1 ELSE 0)
                    + Cardinality(P) + (IF current = t THEN 1 ELSE 0)
  BY DEF Places
<1> HIDE DEF R, P
<1>4. /\ IsReady(t) => hand # t /\ t \notin inside /\ ~IsReported(t)
      /\ hand = t => t \notin inside /\ ~IsReported(t)
      /\ t \in inside => ~IsReported(t)
      /\ current = t => ~IsReady(t) /\ hand # t /\ t \notin inside /\ ~IsReported(t)
      /\ Somewhere(t) <=> IsReady(t) \/ hand = t \/ t \in inside \/ IsReported(t) \/ current = t
  BY DEF IInv, Once, Somewhere
<1>5. QED
  BY <1>1, <1>2, <1>3, <1>4

(* A task on its way is in one place, its future waits and is in the table *)
(* or with the collector, and TaskVine's counter of outstanding tasks      *)
(* follows, but for the steps between: submit, the submit process, its two *)
(* queues and the collector (InOnePlace).                                  *)
THEOREM Whereabouts == Spec => []InOnePlace
<1>1. IInv => InOnePlace
  <2> SUFFICES ASSUME IInv PROVE InOnePlace
    OBVIOUS
  <2>1. ASSUME NEW t \in Tasks
        PROVE  /\ Places(t) <= 1
               /\ Places(t) = 1 /\ collector # "ended" =>
                    fut[t] = "pending" /\ (t \in tasks <=> current # t)
               /\ stage[t] \in Sent /\ fut[t] = "pending" /\ parent /\ ~Fault("refuse")
                    /\ proc \notin {"leaving", "exited", "dead"} => Places(t) = 1
    BY PlacesOnce DEF IInv, Known, Present, Working
  <2>2. QED
    BY <2>1 DEF IInv, InOnePlace
<1>2. QED
  BY <1>1, Inductive, PTL

(* The collector gives up for a reason, and no future of a task that was   *)
(* sent waits when it has, since the table had it before submit looked at  *)
(* the process (NoneLeftWaiting).                                          *)
THEOREM Answering == Spec => []NoneLeftWaiting
<1>1. IInv => NoneLeftWaiting
  BY DEF IInv, Ending, NoneLeftWaiting
<1>2. QED
  BY <1>1, Inductive, PTL

=============================================================================
