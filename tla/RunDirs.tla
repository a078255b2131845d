------------------------------- MODULE RunDirs ------------------------------
(***************************************************************************)
(* make_rundir of the repaired code (solution/rundirs.py): launcher        *)
(* processes that share Config.run_dir allocate numbered run directories.  *)
(*                                                                         *)
(* An entry of the run root matters in two ways.  A directory whose name   *)
(* is all ASCII digits counts, whatever its zero padding, and is in        *)
(* counted under its number; any entry, also a file, that has the name     *)
(* "%03d" of a number blocks mkdir, and its number is in taken.            *)
(***************************************************************************)
EXTENDS Naturals

CONSTANTS
  Launchers,   \* the processes
  OldCounted,  \* numbers counted when the first of them starts
  OldTaken     \* names taken by then

ASSUME OldAssumption == OldCounted \subseteq Nat /\ OldTaken \subseteq Nat

VARIABLES
  counted, taken,
  stage,      \* stage[p]: "new", "scanning", "making", "done"
  start,   \* start[p]: counted when the scan of p began
  next,    \* next[p]: next_id
  older    \* history: launchers that were done when p called make_rundir

rdVars == <<counted, taken, stage, start, next, older>>

Done == {p \in Launchers : stage[p] = "done"}

DirsInit ==
  /\ counted = OldCounted
  /\ taken = OldTaken
  /\ stage = [p \in Launchers |-> "new"]
  /\ start = [p \in Launchers |-> {}]
  /\ next = [p \in Launchers |-> 0]
  /\ older = [p \in Launchers |-> {}]

(* os.scandir is opened. *)
Scan(p) ==
  /\ stage[p] = "new"
  /\ stage' = [stage EXCEPT ![p] = "scanning"]
  /\ start' = [start EXCEPT ![p] = counted]
  /\ older' = [older EXCEPT ![p] = Done]
  /\ UNCHANGED <<counted, taken, next>>

(* n is max(S, default=-1) + 1. *)
IsNextId(n, S) ==
  /\ n \in Nat
  /\ \A i \in S : i < n
  /\ n = 0 \/ \E i \in S : n = i + 1

(* Mutant: the number after whichever entry scandir yielded last. *)
NextAfterLastEntry(p) ==
  /\ stage[p] = "scanning"
  /\ \E n \in {0} \cup {i + 1 : i \in counted} : next' = [next EXCEPT ![p] = n]
  /\ stage' = [stage EXCEPT ![p] = "making"]
  /\ UNCHANGED <<counted, taken, start, older>>

(* The scan ends: it has certainly met what was there when it began, and   *)
(* any part of what was made since.                                        *)
ChooseNext(p) ==
  /\ stage[p] = "scanning"
  /\ \E S \in {start[p] \cup X : X \in SUBSET (counted \ start[p])} :
       \E n \in {0} \cup {i + 1 : i \in S} :
         /\ IsNextId(n, S)
         /\ next' = [next EXCEPT ![p] = n]
  /\ stage' = [stage EXCEPT ![p] = "making"]
  /\ UNCHANGED <<counted, taken, start, older>>

(* os.mkdir succeeds. *)
Make(p) ==
  /\ stage[p] = "making"
  /\ next[p] \notin taken
  /\ taken' = taken \cup {next[p]}
  /\ counted' = counted \cup {next[p]}
  /\ stage' = [stage EXCEPT ![p] = "done"]
  /\ UNCHANGED <<start, next, older>>

(* Mutant: FileExistsError is not caught. *)
CollideAndFail(p) ==
  /\ stage[p] = "making"
  /\ next[p] \in taken
  /\ stage' = [stage EXCEPT ![p] = "failed"]
  /\ UNCHANGED <<counted, taken, start, next, older>>

(* os.mkdir raises FileExistsError: try the next number. *)
Collide(p) ==
  /\ stage[p] = "making"
  /\ next[p] \in taken
  /\ next' = [next EXCEPT ![p] = @ + 1]
  /\ UNCHANGED <<counted, taken, stage, start, older>>

Step(p) == Scan(p) \/ ChooseNext(p) \/ Make(p) \/ Collide(p)
DirsNext == \E p \in Launchers : Step(p)

DirsSpec == DirsInit /\ [][DirsNext]_rdVars
DirsFairSpec == DirsSpec /\ \A p \in Launchers : WF_rdVars(Step(p))

-----------------------------------------------------------------------------
DirsTypeOK ==
  /\ counted \subseteq Nat
  /\ taken \subseteq Nat
  /\ stage \in [Launchers -> {"new", "scanning", "making", "done"}]
  /\ start \in [Launchers -> SUBSET Nat]
  /\ next \in [Launchers -> Nat]
  /\ older \in [Launchers -> SUBSET Launchers]

(* No two launchers are given the same run directory, however their scans  *)
(* and mkdirs interleave.                                                  *)
DistinctRunDirs ==
  \A p, q \in Done : p # q => next[p] # next[q]

(* Run numbers follow time: a launcher that starts after another one has   *)
(* its directory gets a larger number.  Recovery relies on it: the newest  *)
(* numbered run wins.                                                      *)
NumbersFollowTime ==
  \A q \in Done : \A p \in older[q] : next[p] < next[q]

(* A directory handed out was not there before: neither an older run's     *)
(* directory nor any other entry is reused.                                *)
NeverReuses == \A p \in Done : next[p] \notin OldTaken \cup OldCounted

(* The directories of a root: one owner each, numbered in the order of     *)
(* time, and no old one taken over.                                        *)
DirectoriesOwned ==
  DirsTypeOK /\ DistinctRunDirs /\ NumbersFollowTime /\ NeverReuses

(* Every launcher ends up with a directory of its own, whoever it collides *)
(* with.                                                                   *)
EveryLauncherStarts == \A p \in Launchers : <>(stage[p] = "done")

=============================================================================
