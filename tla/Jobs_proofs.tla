----------------------------- MODULE Jobs_proofs -----------------------------
(***************************************************************************)
(* JobSchedule: build_schedule is correct and tight for any number of      *)
(* jobs, components and orders, and the caches are never stale.            *)
(*                                                                         *)
(* JobTick: whatever the thread executor does, the bodies of two stages    *)
(* never overlap, dirty marks are merged after the bodies that made them,  *)
(* and an exception stops the tick; for any tasks, any stages and any      *)
(* number of calls in flight.                                              *)
(***************************************************************************)
EXTENDS JobSchedule, JobTick, FiniteSetTheorems, TLAPS

(* The loop visits the jobs in canonical order. *)
InOrder == \A i \in DOMAIN stages, k \in remaining : Before(i, k)

(* The recorded stages are upper bounds of the stages of the jobs placed. *)
Recorded ==
    \A i \in DOMAIN stages :
        /\ jobs[i].structural => stages[i] <= barrier
        /\ ~jobs[i].structural => /\ \A c \in jobs[i].reads : stages[i] <= last_reader[c]
                                  /\ \A c \in jobs[i].writes : stages[i] <= last_writer[c]

(* Every recorded stage is the stage of a job that was placed. *)
Reached ==
    /\ latest > 0 => \E i \in DOMAIN stages : stages[i] = latest
    /\ barrier > 0 => \E i \in DOMAIN stages : jobs[i].structural /\ stages[i] = barrier
    /\ \A c \in Component :
        /\ last_reader[c] > 0 =>
               \E i \in DOMAIN stages : c \in jobs[i].reads /\ stages[i] = last_reader[c]
        /\ last_writer[c] > 0 =>
               \E i \in DOMAIN stages : c \in jobs[i].writes /\ stages[i] = last_writer[c]

(* What the loop has not visited yet, and what is left between two calls. *)
Complete ==
    /\ building = "no" => DOMAIN stages = {} /\ remaining = {}
    /\ building \in {"schedule", "graph"} => DOMAIN stages \cup remaining = DOMAIN jobs
    /\ ordered_valid => ordered = DOMAIN jobs

IInv == /\ TypeOK /\ ConflictsKeepOrder /\ NoNeedlessWaiting /\ CachesCurrent
        /\ InOrder /\ Recorded /\ Reached /\ Complete

LEMMA InitIInv == Init => IInv
<1> SUFFICES ASSUME Init PROVE IInv
  OBVIOUS
<1> USE DEF Init, NoStages, Unset
<1>1. DOMAIN stages = {} /\ DOMAIN jobs = {}
  OBVIOUS
<1>2. TypeOK
  <2>1. /\ latest \in Nat /\ barrier \in 0 .. latest
        /\ last_reader \in [Component -> 0 .. latest]
        /\ last_writer \in [Component -> 0 .. latest]
    OBVIOUS
  <2>2. jobs \in Seq(JobRecord)
    OBVIOUS
  <2>3. {ordered_valid, schedule_valid, graph_valid} \subseteq BOOLEAN
    OBVIOUS
  <2> QED
    BY <1>1, <2>1, <2>2, <2>3 DEF TypeOK
<1>3. ConflictsKeepOrder /\ NoNeedlessWaiting /\ CachesCurrent
  BY <1>1 DEF ConflictsKeepOrder, NoNeedlessWaiting, CachesCurrent
<1>4. InOrder /\ Recorded /\ Reached /\ Complete
  BY <1>1 DEF InOrder, Recorded, Reached, Complete
<1> QED
  BY <1>2, <1>3, <1>4 DEF IInv

(* The canonical order is strict. *)
LEMMA BeforeIsStrict ==
    ASSUME TypeOK, NEW i \in DOMAIN jobs, NEW j \in DOMAIN jobs, Before(i, j)
    PROVE  ~Before(j, i)
<1>1. jobs[i] \in JobRecord /\ jobs[j] \in JobRecord /\ i \in Int /\ j \in Int
  BY DEF TypeOK
<1>2. jobs[i].order \in Int /\ jobs[j].order \in Int
  BY <1>1 DEF JobRecord
<1> QED
  BY <1>1, <1>2 DEF Before

(* Whatever keeps the jobs and the locals of the loop keeps what is said of
   them. *)
LEMMA LocalsKept ==
    ASSUME IInv, UNCHANGED <<jobs, stages, remaining, last_reader, last_writer, latest, barrier>>
    PROVE  /\ ConflictsKeepOrder' /\ NoNeedlessWaiting'
           /\ InOrder' /\ Recorded' /\ Reached'
BY DEF IInv, ConflictsKeepOrder, NoNeedlessWaiting, InOrder, Recorded, Reached,
       Before, Conflict

(* With no job placed, nothing is to be shown of the stages. *)
LEMMA NothingPlaced ==
    ASSUME DOMAIN stages' = {}, latest' = 0, barrier' = 0,
           last_reader' = Unset, last_writer' = Unset
    PROVE  /\ ConflictsKeepOrder' /\ NoNeedlessWaiting'
           /\ InOrder' /\ Recorded' /\ Reached'
BY DEF ConflictsKeepOrder, NoNeedlessWaiting, InOrder, Recorded, Reached, Unset

(* add_job: the old jobs stay, and every cache is dropped. *)
LEMMA AddJobStep ==
    ASSUME IInv, NEW order \in Int, NEW reads \in SUBSET Component,
           NEW writes \in SUBSET Component, NEW structural \in BOOLEAN,
           AddJob(order, reads, writes, structural)
    PROVE  IInv'
<1> USE DEF AddJob, locals
<1>1. TypeOK /\ building = "no" /\ DOMAIN stages = {} /\ remaining = {}
  BY DEF IInv, Complete
<1>2. jobs' \in Seq(JobRecord)
  BY <1>1 DEF TypeOK, JobRecord
<1>3. DOMAIN jobs \subseteq DOMAIN jobs'
  BY <1>1 DEF TypeOK
<1>4. TypeOK'
  BY <1>1, <1>2, <1>3 DEF TypeOK
<1>5. ConflictsKeepOrder' /\ NoNeedlessWaiting' /\ InOrder' /\ Recorded'
  BY <1>1 DEF ConflictsKeepOrder, NoNeedlessWaiting, InOrder, Recorded
<1>6. Reached'
  BY <1>1 DEF IInv, Reached
<1>7. CachesCurrent' /\ Complete'
  BY <1>1 DEF CachesCurrent, Complete
<1> QED
  BY <1>4, <1>5, <1>6, <1>7 DEF IInv

LEMMA BuildAllStep ==
    ASSUME IInv, NEW caller \in {"schedule", "graph"}, BuildAll(caller)
    PROVE  IInv'
<1> USE DEF BuildAll, Start
<1>1. TypeOK /\ building = "no" /\ DOMAIN stages = {} /\ ordered' = DOMAIN jobs
  BY DEF IInv, Complete
<1>2. TypeOK'
  BY <1>1 DEF TypeOK
<1>3. ConflictsKeepOrder' /\ NoNeedlessWaiting' /\ InOrder' /\ Recorded'
  BY <1>1 DEF ConflictsKeepOrder, NoNeedlessWaiting, InOrder, Recorded
<1>4. Reached'
  BY <1>1 DEF IInv, Reached
<1>5. CachesCurrent' /\ Complete'
  BY <1>1 DEF IInv, CachesCurrent, Complete, Schedules, Before, Conflict
<1> QED
  BY <1>2, <1>3, <1>4, <1>5 DEF IInv

LEMMA BuildForStep ==
    ASSUME IInv, NEW selected \in SUBSET DOMAIN jobs, BuildFor(selected)
    PROVE  IInv'
<1> USE DEF BuildFor, Start, registry
<1>1. TypeOK /\ building = "no" /\ DOMAIN stages = {}
  BY DEF IInv, Complete
<1>2. TypeOK'
  BY <1>1 DEF TypeOK
<1>3. ConflictsKeepOrder' /\ NoNeedlessWaiting' /\ InOrder' /\ Recorded'
  BY <1>1 DEF ConflictsKeepOrder, NoNeedlessWaiting, InOrder, Recorded
<1>4. Reached'
  BY <1>1 DEF IInv, Reached
<1>5. CachesCurrent' /\ Complete'
  BY <1>1 DEF IInv, CachesCurrent, Complete, Schedules, Before, Conflict
<1> QED
  BY <1>2, <1>3, <1>4, <1>5 DEF IInv

(* An iteration of the loop puts job j after all it conflicts with. *)
LEMMA PlacedAfterConflicts ==
    ASSUME IInv, NEW j \in remaining, NEW s \in Nat, Place(j, s),
           NEW i \in DOMAIN stages, Conflict(i, j)
    PROVE  stages[i] < s
<1> USE DEF Place, IsNextAfter, Bounds
<1>1. /\ stages[i] \in 1 .. latest /\ latest \in Nat /\ barrier \in Nat
      /\ i \in DOMAIN jobs /\ j \in DOMAIN jobs
      /\ last_reader \in [Component -> 0 .. latest]
      /\ last_writer \in [Component -> 0 .. latest]
      /\ jobs[i] \in JobRecord /\ jobs[j] \in JobRecord
  BY DEF IInv, TypeOK
<1>2. CASE jobs[j].structural
  BY <1>1, <1>2
<1>3. CASE ~jobs[j].structural /\ jobs[i].structural
  BY <1>1, <1>3 DEF IInv, Recorded
<1>4. CASE ~jobs[j].structural /\ ~jobs[i].structural
  <2>1. CASE jobs[i].writes \cap (jobs[j].reads \cup jobs[j].writes) # {}
    <3>1. PICK c \in Component : c \in jobs[i].writes
                                 /\ c \in jobs[j].reads \cup jobs[j].writes
      BY <1>1, <2>1 DEF JobRecord
    <3>2. stages[i] <= last_writer[c] /\ last_writer[c] < s
      BY <1>4, <3>1 DEF IInv, Recorded
    <3> QED
      BY <1>1, <3>2
  <2>2. CASE jobs[i].reads \cap jobs[j].writes # {}
    <3>1. PICK c \in Component : c \in jobs[i].reads /\ c \in jobs[j].writes
      BY <1>1, <2>2 DEF JobRecord
    <3>2. stages[i] <= last_reader[c] /\ last_reader[c] < s
      BY <1>4, <3>1 DEF IInv, Recorded
    <3> QED
      BY <1>1, <3>2
  <2> QED
    BY <1>4, <2>1, <2>2 DEF Conflict
<1> QED
  BY <1>2, <1>3, <1>4

(* ... and right after one of them, unless it goes to the first stage. *)
LEMMA PlacedNextToConflict ==
    ASSUME IInv, NEW j \in remaining, NEW s \in Nat, Place(j, s), s > 1
    PROVE  \E i \in DOMAIN stages : Conflict(i, j) /\ stages[i] = s - 1
<1> USE DEF Place, IsNextAfter, Bounds, Conflict
<1>1. /\ TypeOK /\ Reached /\ j \in DOMAIN jobs /\ jobs[j] \in JobRecord
      /\ s - 1 > 0 /\ s - 1 \in Bounds(j)
  BY DEF IInv, TypeOK
<1>2. CASE jobs[j].structural
  BY <1>1, <1>2 DEF Reached
<1>3. CASE ~jobs[j].structural
  <2>1. CASE s - 1 = barrier
    BY <1>1, <2>1 DEF Reached
  <2>2. CASE \E c \in jobs[j].reads \cup jobs[j].writes : s - 1 = last_writer[c]
    <3>1. PICK c \in Component : /\ c \in jobs[j].reads \cup jobs[j].writes
                                 /\ s - 1 = last_writer[c]
      BY <1>1, <2>2 DEF JobRecord
    <3>2. PICK i \in DOMAIN stages : c \in jobs[i].writes /\ stages[i] = s - 1
      BY <1>1, <3>1 DEF Reached
    <3> QED
      BY <3>1, <3>2
  <2>3. CASE \E c \in jobs[j].writes : s - 1 = last_reader[c]
    <3>1. PICK c \in Component : c \in jobs[j].writes /\ s - 1 = last_reader[c]
      BY <1>1, <2>3 DEF JobRecord
    <3>2. PICK i \in DOMAIN stages : c \in jobs[i].reads /\ stages[i] = s - 1
      BY <1>1, <3>1 DEF Reached
    <3> QED
      BY <3>1, <3>2
  <2> QED
    BY <1>1, <1>3, <2>1, <2>2, <2>3
<1> QED
  BY <1>2, <1>3

LEMMA PlaceStep ==
    ASSUME IInv, NEW j \in remaining, NEW s \in Nat, Place(j, s)
    PROVE  IInv'
<1> USE DEF Place, registry
<1>0. /\ TypeOK /\ ConflictsKeepOrder /\ NoNeedlessWaiting /\ InOrder /\ Recorded
      /\ Reached /\ Complete /\ CachesCurrent
  BY DEF IInv
<1>1. /\ j \in DOMAIN jobs /\ j \notin DOMAIN stages /\ jobs[j] \in JobRecord
      /\ DOMAIN stages' = DOMAIN stages \cup {j} /\ stages'[j] = s
      /\ \A i \in DOMAIN stages : stages'[i] = stages[i] /\ i # j /\ i \in DOMAIN jobs
  BY <1>0 DEF TypeOK
<1>2. s >= 1
  BY <1>0, <1>1 DEF IsNextAfter, Bounds, TypeOK
<1>3. /\ latest' \in Nat /\ latest <= latest' /\ s <= latest'
      /\ latest' = latest \/ latest' = s
  BY <1>0 DEF LatestWith, Larger, TypeOK
<1>4. /\ barrier' = IF jobs[j].structural THEN s ELSE barrier
      /\ barrier <= barrier'
  BY <1>0, <1>1 DEF IsNextAfter, Bounds, TypeOK
<1>5. /\ last_reader' \in [Component -> 0 .. latest']
      /\ \A c \in Component :
            /\ last_reader[c] <= last_reader'[c]
            /\ ~jobs[j].structural /\ c \in jobs[j].reads => s <= last_reader'[c]
            /\ \/ last_reader'[c] = last_reader[c]
               \/ ~jobs[j].structural /\ c \in jobs[j].reads /\ last_reader'[c] = s
  <2>1. latest \in Nat /\ last_reader \in [Component -> 0 .. latest]
    BY <1>0 DEF TypeOK
  <2>2. \A c \in Component :
            /\ last_reader[c] \in 0 .. latest
            /\ \/ last_reader'[c] = last_reader[c]
               \/ ~jobs[j].structural /\ c \in jobs[j].reads /\ last_reader'[c] = s
            /\ last_reader[c] <= last_reader'[c]
            /\ ~jobs[j].structural /\ c \in jobs[j].reads => s <= last_reader'[c]
    BY <2>1 DEF Larger
  <2>3. \A c \in Component : last_reader'[c] \in 0 .. latest'
    BY <1>3, <2>1, <2>2
  <2> QED
    BY <2>2, <2>3
<1>6. \A c \in Component : ~jobs[j].structural /\ c \in jobs[j].writes => last_writer[c] < s
  BY <1>1 DEF IsNextAfter, Bounds
<1>7. /\ last_writer' \in [Component -> 0 .. latest']
      /\ \A c \in Component :
            /\ last_writer[c] <= last_writer'[c]
            /\ ~jobs[j].structural /\ c \in jobs[j].writes => s <= last_writer'[c]
            /\ \/ last_writer'[c] = last_writer[c]
               \/ ~jobs[j].structural /\ c \in jobs[j].writes /\ last_writer'[c] = s
  <2>1. latest \in Nat /\ last_writer \in [Component -> 0 .. latest]
    BY <1>0 DEF TypeOK
  <2>2. \A c \in Component :
            /\ last_writer[c] \in 0 .. latest
            /\ \/ last_writer'[c] = last_writer[c]
               \/ ~jobs[j].structural /\ c \in jobs[j].writes /\ last_writer'[c] = s
            /\ last_writer[c] <= last_writer'[c]
            /\ ~jobs[j].structural /\ c \in jobs[j].writes => s <= last_writer'[c]
    BY <2>1, <1>6
  <2>3. \A c \in Component : last_writer'[c] \in 0 .. latest'
    BY <1>3, <2>1, <2>2
  <2> QED
    BY <2>2, <2>3
<1>8. TypeOK'
  <2>1. barrier' \in 0 .. latest'
    BY <1>0, <1>3, <1>4 DEF TypeOK
  <2>2. \A i \in DOMAIN stages' : stages'[i] \in 1 .. latest'
    BY <1>0, <1>1, <1>2, <1>3 DEF TypeOK
  <2>3. DOMAIN stages' \subseteq DOMAIN jobs' \ remaining'
    BY <1>0, <1>1 DEF TypeOK
  <2> QED
    BY <1>0, <1>3, <1>5, <1>7, <2>1, <2>2, <2>3 DEF TypeOK
<1>9. /\ \A i, k : (Before(i, k))' <=> Before(i, k)
      /\ \A i, k : (Conflict(i, k))' <=> Conflict(i, k)
  BY DEF Before, Conflict
<1>10. \A i \in DOMAIN stages : Before(i, j) /\ ~Before(j, i)
  BY <1>0, <1>1, BeforeIsStrict DEF InOrder
<1>11. ~Before(j, j)
  BY <1>0, <1>1, BeforeIsStrict
<1>12. ConflictsKeepOrder'
  BY <1>0, <1>1, <1>9, <1>10, <1>11, PlacedAfterConflicts DEF ConflictsKeepOrder
<1>13. NoNeedlessWaiting'
  <2> SUFFICES ASSUME NEW k \in DOMAIN stages', stages'[k] > 1
               PROVE  \E i \in DOMAIN stages' : /\ Before(i, k)' /\ Conflict(i, k)'
                                               /\ stages'[i] = stages'[k] - 1
    BY DEF NoNeedlessWaiting
  <2>1. CASE k = j
    <3>1. PICK i \in DOMAIN stages : Conflict(i, j) /\ stages[i] = s - 1
      BY <1>1, <2>1, PlacedNextToConflict
    <3> QED
      BY <1>1, <1>9, <1>10, <2>1, <3>1
  <2>2. CASE k \in DOMAIN stages
    <3>1. PICK i \in DOMAIN stages : /\ Before(i, k) /\ Conflict(i, k)
                                    /\ stages[i] = stages[k] - 1
      BY <1>0, <1>1, <2>2 DEF NoNeedlessWaiting
    <3> QED
      BY <1>1, <1>9, <2>2, <3>1
  <2> QED
    BY <1>1, <2>1, <2>2
<1>14. InOrder'
  BY <1>0, <1>1, <1>9 DEF InOrder
<1>15. Recorded'
  <2> SUFFICES ASSUME NEW i \in DOMAIN stages'
               PROVE  /\ jobs[i].structural => stages'[i] <= barrier'
                      /\ ~jobs[i].structural =>
                            /\ \A c \in jobs[i].reads : stages'[i] <= last_reader'[c]
                            /\ \A c \in jobs[i].writes : stages'[i] <= last_writer'[c]
    BY DEF Recorded
  <2>0. i \in DOMAIN jobs
    BY <1>1
  <2>1. /\ i \in DOMAIN jobs /\ jobs[i].reads \subseteq Component
        /\ jobs[i].writes \subseteq Component
    <3>1. jobs[i] \in JobRecord
      BY <1>0, <2>0 DEF TypeOK
    <3> QED
      BY <2>0, <3>1 DEF JobRecord
  <2>2. CASE i = j
    BY <1>1, <1>4, <1>5, <1>7, <2>1, <2>2
  <2>3. CASE i \in DOMAIN stages
    <3>1. stages'[i] = stages[i] /\ stages[i] \in Int
      BY <1>0, <1>1, <2>3 DEF TypeOK
    <3>2. jobs[i].structural => stages[i] <= barrier'
      BY <1>0, <1>4, <2>3, <3>1 DEF Recorded, TypeOK
    <3>3. ASSUME ~jobs[i].structural, NEW c \in jobs[i].reads PROVE stages[i] <= last_reader'[c]
      BY <1>0, <1>3, <1>5, <2>1, <2>3, <3>1, <3>3 DEF Recorded, TypeOK
    <3>4. ASSUME ~jobs[i].structural, NEW c \in jobs[i].writes PROVE stages[i] <= last_writer'[c]
      BY <1>0, <1>3, <1>7, <2>1, <2>3, <3>1, <3>4 DEF Recorded, TypeOK
    <3> QED
      BY <3>1, <3>2, <3>3, <3>4
  <2> QED
    BY <1>1, <2>2, <2>3
<1>16. Reached'
  <2>1. latest' > 0 => \E i \in DOMAIN stages' : stages'[i] = latest'
    BY <1>0, <1>1, <1>3 DEF Reached
  <2>2. barrier' > 0 => \E i \in DOMAIN stages' : jobs'[i].structural /\ stages'[i] = barrier'
    BY <1>0, <1>1, <1>4 DEF Reached
  <2>3. ASSUME NEW c \in Component, last_reader'[c] > 0
        PROVE  \E i \in DOMAIN stages' : c \in jobs'[i].reads /\ stages'[i] = last_reader'[c]
    BY <1>0, <1>1, <1>5, <2>3 DEF Reached
  <2>4. ASSUME NEW c \in Component, last_writer'[c] > 0
        PROVE  \E i \in DOMAIN stages' : c \in jobs'[i].writes /\ stages'[i] = last_writer'[c]
    BY <1>0, <1>1, <1>7, <2>4 DEF Reached
  <2> QED
    BY <2>1, <2>2, <2>3, <2>4 DEF Reached
<1>17. Complete'
  BY <1>0, <1>1 DEF Complete
<1>18. CachesCurrent'
  BY <1>0, <1>9 DEF CachesCurrent, Schedules
<1> QED
  BY <1>8, <1>12, <1>13, <1>14, <1>15, <1>16, <1>17, <1>18 DEF IInv

(* What the loop has built when it ends is a schedule of every job. *)
LEMMA ReturnStep ==
    ASSUME IInv, Return
    PROVE  IInv'
<1> USE DEF Return, NoStages
<1>1. TypeOK /\ ConflictsKeepOrder /\ Complete /\ CachesCurrent
  BY DEF IInv
<1>2. DOMAIN stages' = {} /\ remaining' = {}
  OBVIOUS
<1>3. TypeOK'
  <2>1. {ordered_valid, schedule_valid, graph_valid}' \subseteq BOOLEAN
    BY <1>1 DEF TypeOK
  <2>2. /\ latest' \in Nat /\ barrier' \in 0 .. latest'
        /\ last_reader' \in [Component -> 0 .. latest']
        /\ last_writer' \in [Component -> 0 .. latest']
    BY DEF Unset
  <2> QED
    BY <1>1, <1>2, <2>1, <2>2 DEF TypeOK
<1>4. /\ ConflictsKeepOrder' /\ NoNeedlessWaiting'
      /\ InOrder' /\ Recorded' /\ Reached'
  BY <1>2, NothingPlaced
<1>5. Complete'
  BY <1>1, <1>2 DEF Complete
<1>6. building \in {"schedule", "graph"} => Schedules(stages)
  BY <1>1 DEF Complete, Schedules, ConflictsKeepOrder
<1>7. CachesCurrent'
  BY <1>1, <1>6 DEF CachesCurrent, Schedules, Before, Conflict, TypeOK
<1> QED
  BY <1>3, <1>4, <1>5, <1>7 DEF IInv

LEMMA GraphFromCachedScheduleStep ==
    ASSUME IInv, GraphFromCachedSchedule
    PROVE  IInv'
<1> USE DEF GraphFromCachedSchedule, locals
<1>1. TypeOK'
  BY DEF IInv, TypeOK
<1>2. CachesCurrent'
  BY DEF IInv, CachesCurrent, Schedules, Before, Conflict
<1>3. Complete'
  BY DEF IInv, Complete
<1> QED
  BY <1>1, <1>2, <1>3, LocalsKept DEF IInv

LEMMA NextIInv == IInv /\ [Next]_vars => IInv'
<1> SUFFICES ASSUME IInv, [Next]_vars PROVE IInv'
  OBVIOUS
<1>1. ASSUME NEW order \in Int, NEW reads \in SUBSET Component,
             NEW writes \in SUBSET Component, NEW structural \in BOOLEAN,
             AddJob(order, reads, writes, structural)
      PROVE  IInv'
  BY <1>1, AddJobStep
<1>2. ASSUME NEW caller \in {"schedule", "graph"}, BuildAll(caller) PROVE IInv'
  BY <1>2, BuildAllStep
<1>3. ASSUME NEW selected \in SUBSET DOMAIN jobs, BuildFor(selected) PROVE IInv'
  BY <1>3, BuildForStep
<1>4. ASSUME NEW j \in remaining, NEW s \in Nat, Place(j, s) PROVE IInv'
  BY <1>4, PlaceStep
<1>5. CASE Return
  BY <1>5, ReturnStep
<1>6. CASE GraphFromCachedSchedule
  BY <1>6, GraphFromCachedScheduleStep
<1>7. CASE UNCHANGED vars
  <2> USE <1>7 DEF vars, registry, locals
  <2>1. TypeOK' /\ Complete'
    BY DEF IInv, TypeOK, Complete
  <2>2. CachesCurrent'
    BY DEF IInv, CachesCurrent, Schedules, Before, Conflict
  <2> QED
    BY <2>1, <2>2, LocalsKept DEF IInv
<1> QED
  BY <1>1, <1>2, <1>3, <1>4, <1>5, <1>6, <1>7 DEF Next

THEOREM IInvHolds == Spec => []IInv
BY InitIInv, NextIInv, PTL DEF Spec

(* build_schedule separates conflicting jobs and keeps their canonical
   order, structural jobs included: a tick can run each stage in parallel. *)
THEOREM ConflictsSeparated == Spec => []ConflictsKeepOrder
<1>1. IInv => ConflictsKeepOrder
  BY DEF IInv
<1> QED
  BY <1>1, IInvHolds, PTL

(* build_schedule delays no job without a conflict that forces it. *)
THEOREM SchedulesTight == Spec => []NoNeedlessWaiting
<1>1. IInv => NoNeedlessWaiting
  BY DEF IInv
<1> QED
  BY <1>1, IInvHolds, PTL

(* The cached schedule and the cached graph are never stale: run_jobs()
   runs every registered job, in an order its conflicts allow. *)
THEOREM CachesFresh == Spec => []CachesCurrent
<1>1. IInv => CachesCurrent
  BY DEF IInv
<1> QED
  BY <1>1, IInvHolds, PTL

(* The types, and the bounds of the loop's local stages. *)
THEOREM TypeCorrect == Spec => []TypeOK
<1>1. IInv => TypeOK
  BY DEF IInv
<1> QED
  BY <1>1, IInvHolds, PTL
-----------------------------------------------------------------------------

(* The counters of a batch count its tasks. *)
StartedIn(s)  == {t \in Batch(s) : phase[t] \in Begun}
FinishedIn(s) == {t \in Batch(s) : phase[t] = "finished"}

Counted == \A s \in Stage : /\ started[s] = Cardinality(StartedIn(s))
                            /\ finished[s] = Cardinality(FinishedIn(s))

(* The tick has validated the batch of stage s. *)
Validated(s) == \/ s < stage
                \/ s = stage /\ tick \in {"merging", "merged"}
                \/ s = stage /\ outcome \in {"returned", "job exception"}

(* The heart of it: the tasks of a validated batch have all finished, and
   those of a batch the executor has not been given have not begun. *)
Past   == \A t \in Task : Validated(StageOf[t]) => phase[t] = "finished"
Future == \A t \in Task : ~Handed(t) => entering[t] = 0 /\ phase[t] = "ready"

Outcome == /\ tick = "over" <=> outcome # "none"
           /\ outcome = "returned" => stage = LastStage /\ ~exception

Merged == \A t \in Task :
            t \in merged <=> Validated(StageOf[t]) /\ ~(StageOf[t] = stage /\ tick = "merging")

Failures == /\ exception <=> failed # {}
            /\ \A t \in failed : phase[t] \in {"ended", "finished"} /\ StageOf[t] >= stage

Types ==
    /\ tick \in {"handing", "executor", "closing", "closed", "contract kept",
                 "all started", "merging", "merged", "over"}
    /\ stage \in Stage
    /\ outcome \in {"none", "returned", "contract", "executor exception", "job exception"}
    /\ closed \in [Stage -> BOOLEAN] /\ violated \in [Stage -> BOOLEAN]
    /\ entering \in [Task -> Nat]
    /\ phase \in [Task -> {"ready", "claimed", "running", "ended", "finished"}]
    /\ exception \in BOOLEAN
    /\ failed \subseteq Task /\ merged \subseteq Task
    /\ started \in [Stage -> Nat] /\ finished \in [Stage -> Nat]

TickInv == Types /\ Counted /\ Past /\ Future /\ Outcome /\ Merged /\ Failures
----------------------------------------------------------------------------
LEMMA NotBelowItself == \A s \in Nat : ~(s < s)
OBVIOUS

LEMMA StageFacts ==
    /\ LastStage \in Nat /\ Stage \subseteq Nat
    /\ \A t \in Task : StageOf[t] \in Stage /\ StageOf[t] \in Nat /\ StageOf[t] <= LastStage
BY StageAssumption DEF Stage

LEMMA TypeFacts ==
    ASSUME Types
    PROVE  /\ stage \in Nat /\ stage \in Stage
           /\ violated \in [Stage -> BOOLEAN] /\ entering \in [Task -> Nat]
           /\ started \in [Stage -> Nat] /\ finished \in [Stage -> Nat]
           /\ \A t \in Task : StageOf[t] \in Nat /\ StageOf[t] <= LastStage
<1>1. /\ stage \in Stage
      /\ violated \in [Stage -> BOOLEAN] /\ entering \in [Task -> Nat]
      /\ started \in [Stage -> Nat] /\ finished \in [Stage -> Nat]
  BY DEF Types
<1>2. \A s \in Stage : s \in Nat /\ s <= LastStage
  BY StageAssumption DEF Stage
<1> QED
  BY <1>1, <1>2, StageFacts

LEMMA BatchFinite ==
    ASSUME NEW s \in Stage
    PROVE  /\ IsFiniteSet(Batch(s)) /\ IsFiniteSet(StartedIn(s)) /\ IsFiniteSet(FinishedIn(s))
           /\ Cardinality(Batch(s)) \in Nat
           /\ Cardinality(StartedIn(s)) \in Nat /\ Cardinality(FinishedIn(s)) \in Nat
           /\ Cardinality(StartedIn(s)) <= Cardinality(Batch(s))
           /\ Cardinality(FinishedIn(s)) <= Cardinality(StartedIn(s))
           /\ Cardinality(FinishedIn(s)) = Cardinality(Batch(s)) => FinishedIn(s) = Batch(s)
<1>1. Batch(s) \subseteq Task
  BY DEF Batch
<1>2. IsFiniteSet(Batch(s))
  BY <1>1, TaskAssumption, FS_Subset
<1>3. StartedIn(s) \subseteq Batch(s) /\ FinishedIn(s) \subseteq StartedIn(s)
      /\ FinishedIn(s) \subseteq Batch(s)
  BY DEF StartedIn, FinishedIn, Begun
<1>4. IsFiniteSet(StartedIn(s)) /\ IsFiniteSet(FinishedIn(s))
  BY <1>2, <1>3, FS_Subset
<1>5. /\ Cardinality(StartedIn(s)) <= Cardinality(Batch(s))
      /\ Cardinality(FinishedIn(s)) <= Cardinality(StartedIn(s))
      /\ Cardinality(Batch(s)) = Cardinality(FinishedIn(s)) => Batch(s) = FinishedIn(s)
  BY <1>2, <1>3, <1>4, FS_Subset
<1> QED
  BY <1>2, <1>4, <1>5, FS_CardinalityType

(* The types with the bounds that follow from counting. *)
LEMMA TypesGiveTickTypeOK == TickInv => TickTypeOK
BY BatchFinite DEF TickInv, Types, Counted, TickTypeOK, expected

LEMMA InitTickInv == TickInit => TickInv
<1> SUFFICES ASSUME TickInit PROVE TickInv
  OBVIOUS
<1> USE StageFacts DEF TickInit
<1>0. 1 \in Stage
  BY StageAssumption DEF Stage
<1>1. Types
  BY <1>0 DEF Types
<1>2. \A s \in Stage : StartedIn(s) = {} /\ FinishedIn(s) = {}
  BY DEF StartedIn, FinishedIn, Batch, Begun
<1>3. Counted
  BY <1>2, FS_EmptySet DEF Counted
<1>4. Past /\ Merged
  BY DEF Past, Merged, Validated, Stage
<1>5. Future /\ Outcome /\ Failures
  BY DEF Future, Outcome, Failures
<1> QED
  BY <1>1, <1>3, <1>4, <1>5 DEF TickInv

(* A step of the executor or of a task leaves the tick where it is. *)
TickStays == UNCHANGED <<tick, stage, outcome, merged>>

LEMMA TickStaysFacts ==
    ASSUME TickStays
    PROVE  /\ \A s : Validated(s)' <=> Validated(s)
           /\ \A t : Handed(t)' <=> Handed(t)
           /\ Merged => Merged'
BY DEF TickStays, Validated, Handed, Merged

(* A call that has not claimed its task changes no phase. *)
LEMMA EnterStep ==
    ASSUME TickInv, NEW t \in Task, Enter(t)
    PROVE  TickInv'
<1> USE StageFacts DEF Enter, Blame
<1>1. TickStays
  BY DEF TickStays
<1>2. Types'
  <2>1. violated' \in [Stage -> BOOLEAN] /\ entering' \in [Task -> Nat]
    <3>1. violated \in [Stage -> BOOLEAN] /\ entering \in [Task -> Nat]
      BY TypeFacts DEF TickInv
    <3>2. CASE closed[StageOf[t]]
      BY <3>1, <3>2
    <3>3. CASE ~closed[StageOf[t]]
      BY <3>1, <3>3
    <3> QED
      BY <3>2, <3>3
  <2> QED
    BY <2>1 DEF TickInv, Types
<1>3. UNCHANGED <<phase, started, finished, exception, failed>>
  OBVIOUS
<1>4. Counted'
  BY <1>3 DEF TickInv, Counted, StartedIn, FinishedIn
<1>5. Past' /\ Merged'
  BY <1>1, <1>3, TickStaysFacts DEF TickInv, Past
<1>6. \A u \in Task : ~Handed(u) => entering'[u] = entering[u]
  BY DEF TickInv, Types
<1>7. Future'
  BY <1>1, <1>3, <1>6, TickStaysFacts DEF TickInv, Future
<1>8. Outcome' /\ Failures'
  BY <1>3 DEF TickInv, Outcome, Failures
<1> QED
  BY <1>2, <1>4, <1>5, <1>7, <1>8 DEF TickInv

LEMMA ClaimStep ==
    ASSUME TickInv, NEW t \in Task, Claim(t)
    PROVE  TickInv'
<1> USE StageFacts DEF Claim, Blame
<1>0. Types /\ Past /\ Future /\ Outcome /\ Merged /\ Failures /\ Counted
  BY DEF TickInv
<1>1. TickStays
  BY DEF TickStays
<1>2. entering[t] \in Nat /\ entering[t] > 0
  BY <1>0 DEF Types
<1>3. Types'
  <2>1. violated' \in [Stage -> BOOLEAN] /\ entering' \in [Task -> Nat]
    <3>1. violated \in [Stage -> BOOLEAN] /\ entering \in [Task -> Nat]
      BY <1>0, TypeFacts
    <3>2. entering[t] - 1 \in Nat
      BY <1>2
    <3> QED
      BY <3>1, <3>2
  <2>2. phase' \in [Task -> {"ready", "claimed", "running", "ended", "finished"}]
    BY <1>0 DEF Types
  <2> QED
    BY <1>0, <2>1, <2>2 DEF Types
<1>4. Handed(t)
  BY <1>0, <1>2 DEF Future
<1>5. \/ phase' = phase
      \/ phase[t] = "ready" /\ phase' = [phase EXCEPT ![t] = "claimed"]
  OBVIOUS
<1>6. /\ \A u \in Task : phase'[u] \in Begun <=> phase[u] \in Begun
      /\ \A u \in Task : phase'[u] = "finished" <=> phase[u] = "finished"
      /\ \A u \in Task : phase'[u] = "ended" <=> phase[u] = "ended"
  BY <1>0, <1>5 DEF Types, Begun
<1>7. \A s \in Stage : StartedIn(s)' = StartedIn(s) /\ FinishedIn(s)' = FinishedIn(s)
  BY <1>6 DEF StartedIn, FinishedIn, Batch
<1>8. Counted'
  BY <1>0, <1>7 DEF Counted
<1>9. Past' /\ Merged'
  BY <1>0, <1>1, <1>6, TickStaysFacts DEF Past
<1>10. \A u \in Task : u # t => entering'[u] = entering[u] /\ phase'[u] = phase[u]
  BY <1>0, <1>5 DEF Types
<1>11. Future'
  BY <1>0, <1>1, <1>4, <1>10, TickStaysFacts DEF Future
<1>12. Outcome' /\ Failures'
  BY <1>0, <1>6 DEF Outcome, Failures, Types
<1> QED
  BY <1>3, <1>8, <1>9, <1>11, <1>12 DEF TickInv

(* What the three steps of a claimed task have in common: the task was
   handed and its batch is not validated, so only its own batch changes. *)
LEMMA ClaimedTask ==
    ASSUME TickInv, NEW t \in Task, phase[t] \in {"claimed", "running", "ended"}, TickStays,
           phase' = [phase EXCEPT ![t] = phase'[t]], UNCHANGED entering
    PROVE  /\ ~Validated(StageOf[t]) /\ Handed(t)
           /\ Past' /\ Future' /\ Merged'
<1> USE StageFacts
<1>1. Types /\ Past /\ Future /\ Merged
  BY DEF TickInv
<1>2. ~Validated(StageOf[t]) /\ Handed(t)
  BY <1>1 DEF Past, Future
<1>3. \A u \in Task : u # t => phase'[u] = phase[u]
  BY <1>1 DEF Types
<1>4. Past'
  BY <1>1, <1>2, <1>3, TickStaysFacts DEF Past
<1>5. Future'
  BY <1>1, <1>2, <1>3, TickStaysFacts DEF Future
<1> QED
  BY <1>1, <1>2, <1>4, <1>5, TickStaysFacts

LEMMA BeginBodyStep ==
    ASSUME TickInv, NEW t \in Task, BeginBody(t)
    PROVE  TickInv'
<1> USE StageFacts DEF BeginBody
<1>0. Types /\ Counted /\ Outcome /\ Failures
  BY DEF TickInv
<1>1. phase'[t] = "running" /\ phase' = [phase EXCEPT ![t] = phase'[t]]
      /\ \A u \in Task : u # t => phase'[u] = phase[u]
  BY <1>0 DEF Types
<1>2. Types'
  <2>1. started' \in [Stage -> Nat]
    BY <1>0, TypeFacts
  <2>2. phase' \in [Task -> {"ready", "claimed", "running", "ended", "finished"}]
    BY <1>0 DEF Types
  <2> QED
    BY <1>0, <2>1, <2>2 DEF Types
<1>3. Past' /\ Future' /\ Merged'
  BY <1>1, ClaimedTask DEF TickStays
<1>4. ASSUME NEW s \in Stage
      PROVE  /\ started'[s] = Cardinality(StartedIn(s)')
             /\ finished'[s] = Cardinality(FinishedIn(s)')
  <2>1. FinishedIn(s)' = FinishedIn(s)
    BY <1>1 DEF FinishedIn, Batch
  <2>2. CASE s = StageOf[t]
    <3>1. StartedIn(s)' = StartedIn(s) \cup {t} /\ t \notin StartedIn(s)
      BY <1>1, <2>2 DEF StartedIn, Batch, Begun
    <3>2. started'[s] = started[s] + 1
      BY <1>0, <2>2 DEF Types
    <3>3. IsFiniteSet(StartedIn(s))
      BY BatchFinite
    <3>4. Cardinality(StartedIn(s) \cup {t}) = Cardinality(StartedIn(s)) + 1
      BY <3>1, <3>3, FS_AddElement
    <3> QED
      BY <1>0, <2>1, <3>1, <3>2, <3>4 DEF Counted
  <2>3. CASE s # StageOf[t]
    <3>1. StartedIn(s)' = StartedIn(s)
      BY <1>1, <2>3 DEF StartedIn, Batch
    <3>2. started'[s] = started[s]
      BY <1>0, <2>3 DEF Types
    <3> QED
      BY <1>0, <2>1, <3>1, <3>2 DEF Counted
  <2> QED
    BY <2>2, <2>3
<1>5. Counted'
  BY <1>4 DEF Counted
<1>6. Outcome' /\ Failures'
  BY <1>0, <1>1 DEF Outcome, Failures, Types
<1> QED
  BY <1>2, <1>3, <1>5, <1>6 DEF TickInv

LEMMA EndBodyStep ==
    ASSUME TickInv, NEW t \in Task, NEW throws \in BOOLEAN, EndBody(t, throws)
    PROVE  TickInv'
<1> USE StageFacts DEF EndBody, batches
<1>0. Types /\ Counted /\ Outcome /\ Failures
  BY DEF TickInv
<1>1. phase'[t] = "ended" /\ phase' = [phase EXCEPT ![t] = phase'[t]]
      /\ \A u \in Task : u # t => phase'[u] = phase[u]
  BY <1>0 DEF Types
<1>2. Types'
  BY <1>0 DEF Types
<1>3. Past' /\ Future' /\ Merged' /\ ~Validated(StageOf[t])
  BY <1>1, ClaimedTask DEF TickStays
<1>4. \A s \in Stage : StartedIn(s)' = StartedIn(s) /\ FinishedIn(s)' = FinishedIn(s)
  BY <1>1 DEF StartedIn, FinishedIn, Batch, Begun
<1>5. Counted'
  BY <1>0, <1>4 DEF Counted
<1>6. StageOf[t] >= stage /\ outcome # "returned"
  <2>1. stage \in Nat /\ StageOf[t] \in Nat /\ StageOf[t] <= LastStage
    BY <1>0, TypeFacts
  <2>2. StageOf[t] >= stage
    <3>1. ~(StageOf[t] < stage)
      BY <1>3 DEF Validated
    <3> HIDE DEF EndBody
    <3> QED
      BY <2>1, <3>1
  <2>3. ASSUME outcome = "returned" PROVE FALSE
    <3>1. stage = LastStage
      BY <1>0, <2>3 DEF Outcome
    <3> QED
      BY <1>3, <2>1, <2>2, <2>3, <3>1 DEF Validated
  <2> QED
    BY <2>2, <2>3
<1>7. Outcome'
  BY <1>0, <1>6 DEF Outcome
<1>8. Failures'
  <2>1. CASE throws
    <3>1. exception' = TRUE /\ failed' = failed \cup {t}
      BY <2>1
    <3>2. \A u \in failed' : phase'[u] \in {"ended", "finished"} /\ StageOf[u] >= stage'
      BY <1>0, <1>1, <1>6, <3>1 DEF Failures, Types
    <3> QED
      BY <3>1, <3>2 DEF Failures
  <2>2. CASE ~throws
    <3>1. UNCHANGED <<exception, failed>>
      BY <2>2
    <3>2. \A u \in failed' : phase'[u] \in {"ended", "finished"} /\ StageOf[u] >= stage'
      BY <1>0, <1>1, <3>1 DEF Failures, Types
    <3> QED
      BY <1>0, <3>1, <3>2 DEF Failures
  <2> QED
    BY <2>1, <2>2
<1> QED
  BY <1>2, <1>3, <1>5, <1>7, <1>8 DEF TickInv

LEMMA CountFinishedStep ==
    ASSUME TickInv, NEW t \in Task, CountFinished(t)
    PROVE  TickInv'
<1> USE StageFacts DEF CountFinished
<1>0. Types /\ Counted /\ Outcome /\ Failures
  BY DEF TickInv
<1>1. phase'[t] = "finished" /\ phase' = [phase EXCEPT ![t] = phase'[t]]
      /\ \A u \in Task : u # t => phase'[u] = phase[u]
  BY <1>0 DEF Types
<1>2. Types'
  <2>1. finished' \in [Stage -> Nat]
    BY <1>0, TypeFacts
  <2>2. phase' \in [Task -> {"ready", "claimed", "running", "ended", "finished"}]
    BY <1>0 DEF Types
  <2> QED
    BY <1>0, <2>1, <2>2 DEF Types
<1>3. Past' /\ Future' /\ Merged'
  BY <1>1, ClaimedTask DEF TickStays
<1>4. ASSUME NEW s \in Stage
      PROVE  /\ started'[s] = Cardinality(StartedIn(s)')
             /\ finished'[s] = Cardinality(FinishedIn(s)')
  <2>1. StartedIn(s)' = StartedIn(s)
    BY <1>1 DEF StartedIn, Batch, Begun
  <2>2. CASE s = StageOf[t]
    <3>1. FinishedIn(s)' = FinishedIn(s) \cup {t} /\ t \notin FinishedIn(s)
      BY <1>1, <2>2 DEF FinishedIn, Batch
    <3>2. finished'[s] = finished[s] + 1
      BY <1>0, <2>2 DEF Types
    <3>3. IsFiniteSet(FinishedIn(s))
      BY BatchFinite
    <3>4. Cardinality(FinishedIn(s) \cup {t}) = Cardinality(FinishedIn(s)) + 1
      BY <3>1, <3>3, FS_AddElement
    <3> QED
      BY <1>0, <2>1, <3>1, <3>2, <3>4 DEF Counted
  <2>3. CASE s # StageOf[t]
    <3>1. FinishedIn(s)' = FinishedIn(s)
      BY <1>1, <2>3 DEF FinishedIn, Batch
    <3>2. finished'[s] = finished[s]
      BY <1>0, <2>3 DEF Types
    <3> QED
      BY <1>0, <2>1, <3>1, <3>2 DEF Counted
  <2> QED
    BY <2>2, <2>3
<1>5. Counted'
  BY <1>4 DEF Counted
<1>6. Outcome' /\ Failures'
  BY <1>0, <1>1 DEF Outcome, Failures, Types
<1> QED
  BY <1>2, <1>3, <1>5, <1>6 DEF TickInv

(* A step of the tick leaves the tasks where they are. *)
LEMMA TasksStay ==
    ASSUME TickInv, UNCHANGED <<started, finished, phase>>
    PROVE  Counted'
BY DEF TickInv, Counted, StartedIn, FinishedIn

(* A move of the tick within a stage that neither validates the batch nor
   hands it over twice. *)
LEMMA TickMoves ==
    ASSUME TickInv, UNCHANGED <<stage, started, finished, taskvars, merged>>,
           tick \notin {"merging", "merged", "over"},
           tick' \notin {"handing", "merging", "merged"},
           \/ tick' # "over" /\ UNCHANGED outcome
           \/ tick' = "over" /\ outcome' \in {"contract", "executor exception"},
           Types'
    PROVE  TickInv'
<1> USE DEF taskvars
<1>0. Types /\ Past /\ Future /\ Outcome /\ Merged /\ Failures
  BY DEF TickInv
<1>1. outcome = "none" /\ outcome' \notin {"returned", "job exception"}
  BY <1>0 DEF Outcome
<1>2. \A s : Validated(s)' <=> Validated(s)
  BY <1>1 DEF Validated
<1>3. \A t : Handed(t) => Handed(t)'
  BY DEF Handed
<1>4. Past' /\ Future' /\ Merged'
  BY <1>0, <1>2, <1>3 DEF Past, Future, Merged
<1>5. Outcome' /\ Failures'
  BY <1>0, <1>1 DEF Outcome, Failures
<1> QED
  BY <1>4, <1>5, TasksStay DEF TickInv

LEMMA HandingSteps ==
    ASSUME TickInv, CallExecutor \/ ExecutorReturns \/ ExecutorThrows \/ Close
    PROVE  TickInv'
<1> USE DEF CallExecutor, ExecutorReturns, ExecutorThrows, Close, EndTick, batches
<1>1. Types'
  BY DEF TickInv, Types, taskvars
<1> QED
  BY <1>1, TickMoves

LEMMA ValidateStep ==
    ASSUME TickInv, ValidateContract \/ ValidateStarted
    PROVE  TickInv'
<1> USE DEF ValidateContract, ValidateStarted, Validate, EndTick, batches
<1>1. Types'
  BY DEF TickInv, Types, taskvars
<1> QED
  BY <1>1, TickMoves

(* finished == expected: every task of the batch has finished. *)
LEMMA ValidateFinishedStep ==
    ASSUME TickInv, ValidateFinished
    PROVE  TickInv'
<1> USE StageFacts DEF ValidateFinished, Validate, EndTick, batches
<1>0. Types /\ Past /\ Future /\ Outcome /\ Merged /\ Failures /\ Counted
  BY DEF TickInv
<1>1. Types'
  BY <1>0 DEF Types, taskvars
<1>2. CASE tick' = "over"
  BY <1>1, <1>2, TickMoves
<1>3. CASE finished[stage] = expected(stage) /\ tick' = "merging" /\ UNCHANGED outcome
  <2> USE <1>3 DEF taskvars
  <2>1. outcome = "none"
    BY <1>0 DEF Outcome
  <2>2. FinishedIn(stage) = Batch(stage)
    BY <1>0, BatchFinite DEF Counted, expected, Types
  <2>3. \A t \in Task : StageOf[t] = stage => phase[t] = "finished"
    BY <2>2 DEF FinishedIn, Batch
  <2>4. \A s \in Stage : Validated(s)' <=> Validated(s) \/ s = stage
    BY <2>1 DEF Validated
  <2>5. Past'
    BY <1>0, <2>3, <2>4 DEF Past
  <2>6. Merged'
    <3>1. \A s : Validated(s) <=> s < stage
      BY <2>1 DEF Validated
    <3>2. \A t \in Task : t \in merged' <=> StageOf[t] < stage
      BY <1>0, <3>1 DEF Merged
    <3>3. \A t \in Task : StageOf[t] = stage => ~(StageOf[t] < stage)
      <4>1. stage \in Nat
        BY <1>0, TypeFacts
      <4> QED
        BY <4>1, NotBelowItself, Zenon
    <3> QED
      BY <2>4, <3>1, <3>2, <3>3 DEF Merged
  <2>7. Future'
    BY <1>0 DEF Future, Handed
  <2>8. Outcome' /\ Failures'
    BY <1>0, <2>1 DEF Outcome, Failures
  <2> QED
    BY <1>1, <2>5, <2>6, <2>7, <2>8, TasksStay DEF TickInv
<1> QED
  BY <1>2, <1>3

LEMMA MergeDirtyStep ==
    ASSUME TickInv, MergeDirty
    PROVE  TickInv'
<1> USE StageFacts DEF MergeDirty, batches, taskvars
<1>0. Types /\ Past /\ Future /\ Outcome /\ Merged /\ Failures
  BY DEF TickInv
<1>1. Types'
  BY <1>0 DEF Types, Batch
<1>2. \A s : Validated(s)' <=> Validated(s)
  BY DEF Validated
<1>3. Past' /\ Future'
  BY <1>0, <1>2 DEF Past, Future, Handed
<1>4. Merged'
  BY <1>0, <1>2 DEF Merged, Validated, Batch
<1>5. Outcome' /\ Failures'
  BY <1>0 DEF Outcome, Failures
<1> QED
  BY <1>1, <1>3, <1>4, <1>5, TasksStay DEF TickInv

LEMMA AdvanceStep ==
    ASSUME TickInv, Advance
    PROVE  TickInv'
<1> USE StageFacts DEF Advance, EndTick, batches, taskvars
<1>0. Types /\ Past /\ Future /\ Outcome /\ Merged /\ Failures
  BY DEF TickInv
<1>1. tick = "merged" /\ outcome = "none" /\ stage \in Stage /\ stage \in Nat
  BY <1>0 DEF Outcome, Types
<1>2. CASE stage' = stage /\ tick' = "over"
           /\ \/ exception /\ outcome' = "job exception"
              \/ ~exception /\ stage = LastStage /\ outcome' = "returned"
  <2> USE <1>2
  <2>1. Types'
    BY <1>0 DEF Types
  <2>2. \A s : Validated(s)' <=> Validated(s)
    BY <1>1 DEF Validated
  <2>3. Past' /\ Future' /\ Merged'
    BY <1>0, <1>1, <2>2 DEF Past, Future, Merged, Handed
  <2>4. Outcome' /\ Failures'
    BY <1>0 DEF Outcome, Failures
  <2> QED
    BY <2>1, <2>3, <2>4, TasksStay DEF TickInv
<1>3. CASE ~exception /\ stage < LastStage /\ stage' = stage + 1 /\ tick' = "handing"
           /\ UNCHANGED outcome
  <2> USE <1>3
  <2>1. stage' \in Stage
    BY <1>1 DEF Stage
  <2>2. Types'
    BY <1>0, <2>1 DEF Types
  <2>3. \A s \in Stage : Validated(s)' <=> Validated(s)
    BY <1>1 DEF Validated
  <2>4. Past'
    BY <1>0, <2>3 DEF Past
  <2>5. Merged'
    BY <1>0, <1>1, <2>3 DEF Merged
  <2>6. \A t \in Task : Handed(t)' <=> Handed(t)
    BY <1>1 DEF Handed
  <2>7. Future'
    BY <1>0, <2>6 DEF Future
  <2>8. Outcome' /\ Failures'
    BY <1>0, <1>1 DEF Outcome, Failures
  <2> QED
    BY <2>2, <2>4, <2>5, <2>7, <2>8, TasksStay DEF TickInv
<1> QED
  BY <1>2, <1>3

LEMMA NextTickInv == TickInv /\ [TickNext]_tickVars => TickInv'
<1> SUFFICES ASSUME TickInv, [TickNext]_tickVars PROVE TickInv'
  OBVIOUS
<1>1. CASE TickStep
  BY <1>1, HandingSteps, ValidateStep, ValidateFinishedStep, MergeDirtyStep, AdvanceStep
     DEF TickStep
<1>2. CASE ExecutorReturns \/ ExecutorThrows
  BY <1>2, HandingSteps
<1>3. ASSUME NEW t \in Task, Enter(t) \/ Claim(t) \/ BodyStep(t) PROVE TickInv'
  BY <1>3, EnterStep, ClaimStep, BeginBodyStep, EndBodyStep, CountFinishedStep DEF BodyStep
<1>4. CASE UNCHANGED tickVars
  <2> USE <1>4 DEF tickVars, batches, taskvars
  <2>1. Types' /\ Outcome' /\ Failures'
    BY DEF TickInv, Types, Outcome, Failures
  <2>2. Past' /\ Future' /\ Merged'
    BY DEF TickInv, Past, Future, Merged, Validated, Handed
  <2> QED
    BY <2>1, <2>2, TasksStay DEF TickInv
<1> QED
  BY <1>1, <1>2, <1>3, <1>4 DEF TickNext

THEOREM TickInvHolds == TickSpec => []TickInv
BY InitTickInv, NextTickInv, PTL DEF TickSpec
----------------------------------------------------------------------------
(* The types, and the counters that count no task twice. *)
THEOREM TickTypeCorrect == TickSpec => []TickTypeOK
BY TickInvHolds, TypesGiveTickTypeOK, PTL

(* Dirty marks are merged only from tasks that ended, and none is lost when
   the tick returns or rethrows a job's exception. *)
THEOREM MarksComplete == TickSpec => []MarksMerged
<1>1. TickInv => MarksMerged
  <2> SUFFICES ASSUME TickInv PROVE MarksMerged
    OBVIOUS
  <2> USE StageFacts
  <2>1. \A t \in merged : phase[t] \in {"ended", "finished"}
    BY DEF TickInv, Merged, Past, Types
  <2>2. ASSUME outcome \in {"returned", "job exception"}, NEW t \in Task, phase[t] \in Begun
        PROVE  t \in merged
    <3>1. tick = "over" /\ Handed(t) /\ stage \in Stage
      BY <2>2 DEF TickInv, Outcome, Future, Types, Begun
    <3>2. Validated(StageOf[t])
      BY <2>2, <3>1 DEF Validated, Handed
    <3> QED
      BY <3>1, <3>2 DEF TickInv, Merged
  <2> QED
    BY <2>1, <2>2 DEF MarksMerged
<1> QED
  BY <1>1, TickInvHolds, PTL

(* A job's exception ends the tick after its stage. *)
THEOREM ExceptionsStop == TickSpec => []ExceptionStopsTick
<1>1. TickInv => ExceptionStopsTick
  <2> SUFFICES ASSUME TickInv PROVE ExceptionStopsTick
    OBVIOUS
  <2> USE StageFacts
  <2>1. failed # {} => outcome # "returned"
    BY DEF TickInv, Failures, Outcome
  <2>2. ASSUME NEW t \in failed, NEW u \in Task, StageOf[t] < StageOf[u]
        PROVE  phase[u] = "ready"
    <3>1. t \in Task /\ StageOf[t] >= stage /\ stage \in Nat
      BY DEF TickInv, Failures, Types
    <3>2. ~Handed(u)
      BY <2>2, <3>1 DEF Handed
    <3> QED
      BY <3>2 DEF TickInv, Future
  <2> QED
    BY <2>1, <2>2 DEF ExceptionStopsTick
<1> QED
  BY <1>1, TickInvHolds, PTL

(* A step of the tick's model is a step of JobOrder or changes no status. *)
LEMMA StatusStep ==
    ASSUME TickInv, [TickNext]_tickVars
    PROVE  [Order!Next]_status
<1> USE StageFacts
<1>0. Types /\ Past /\ Future
  BY DEF TickInv
<1>1. ASSUME UNCHANGED phase PROVE UNCHANGED status
  BY <1>1 DEF status
<1>2. ASSUME NEW t \in Task, BeginBody(t) PROVE Order!Begin(t)
  <2>1. /\ phase[t] = "claimed" /\ phase' = [phase EXCEPT ![t] = "running"]
        /\ UNCHANGED stage
    BY <1>2 DEF BeginBody
  <2>2. Handed(t)
    BY <1>0, <2>1 DEF Future
  <2>3. \A u \in Task : StageOf[u] < StageOf[t] => phase[u] = "finished"
    <3>1. stage \in Nat /\ StageOf[t] \in Nat /\ StageOf[t] <= stage
      BY <1>0, <2>2, TypeFacts DEF Handed
    <3>2. \A u \in Task : StageOf[u] < StageOf[t] => StageOf[u] < stage
      BY <3>1
    <3> QED
      BY <1>0, <3>2 DEF Past, Validated
  <2>4. status[t] = "waiting"
    BY <2>1 DEF status
  <2>5. \A u \in Task : StageOf[u] < StageOf[t] => status[u] = "done"
    BY <2>3 DEF status
  <2>6. status' = [status EXCEPT ![t] = "running"]
    BY <1>0, <2>1 DEF status, Types
  <2> QED
    BY <2>4, <2>5, <2>6 DEF Order!Begin, Precedes
<1>3. ASSUME NEW t \in Task, NEW throws \in BOOLEAN, EndBody(t, throws) PROVE Order!End(t)
  <2>1. phase[t] = "running" /\ phase' = [phase EXCEPT ![t] = "ended"]
    BY <1>3 DEF EndBody
  <2>2. status[t] = "running"
    BY <2>1 DEF status
  <2>3. status' = [status EXCEPT ![t] = "done"]
    BY <1>0, <2>1 DEF status, Types
  <2> QED
    BY <2>2, <2>3 DEF Order!End
<1>4. ASSUME NEW t \in Task, CountFinished(t) PROVE UNCHANGED status
  BY <1>0, <1>4 DEF CountFinished, status, Types
<1>5. ASSUME NEW t \in Task, Claim(t) PROVE UNCHANGED status
  BY <1>0, <1>5 DEF Claim, status, Types
<1>6. ASSUME NEW t \in Task, Enter(t) PROVE UNCHANGED status
  BY <1>1, <1>6 DEF Enter
<1>7. ASSUME TickStep \/ ExecutorReturns \/ ExecutorThrows \/ UNCHANGED tickVars
      PROVE  UNCHANGED status
  BY <1>1, <1>7 DEF TickStep, CallExecutor, Close, ValidateContract, ValidateStarted,
     ValidateFinished, Validate, MergeDirty, Advance, ExecutorReturns, ExecutorThrows,
     tickVars, taskvars
<1> QED
  BY <1>2, <1>3, <1>4, <1>5, <1>6, <1>7 DEF TickNext, BodyStep, Order!Next

(* With any executor at all, a body runs at most once and only after every
   body of the earlier stages has ended. *)
THEOREM BodiesInOrder == TickSpec => ImplementsJobOrder
<1>1. TickInit => Order!Init
  BY DEF TickInit, Order!Init, status
<1>2. TickInv /\ [TickNext]_tickVars => [Order!Next]_status
  BY StatusStep
<1> QED
  BY <1>1, <1>2, TickInvHolds, PTL DEF TickSpec, ImplementsJobOrder, Order!Spec
=============================================================================
