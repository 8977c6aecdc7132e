---------------------------- MODULE JobSchedule ----------------------------
(***************************************************************************)
(* Job registration and Orchestrator::build_schedule: the jobs are visited *)
(* in canonical order and each is put in the earliest stage its component  *)
(* accesses allow.  One step is one iteration of the loop of               *)
(* build_schedule.  The three caches between a registration and the next   *)
(* run (ordered indices, schedule, graph) are part of the state.           *)
(*                                                                         *)
(* A job is named by its position in JobRegistry::jobs, which is also the  *)
(* order of the sequence numbers.  Stages count from 1 and 0 stands for    *)
(* "not found" and "no previous job", which the code keeps in separate     *)
(* flags; JobSchedule::stages, a vector of vectors, is a function here.    *)
(***************************************************************************)
EXTENDS Integers, Sequences

CONSTANT Component

VARIABLES
    jobs,               \* JobRegistry::jobs: order, reads, writes, structural
    ordered,            \* ordered_indices_cache, as the set of jobs in it
    ordered_valid,      \* ordered_indices_cache_valid
    cached_schedule,    \* cached_schedule
    schedule_valid,     \* schedule_cache_valid
    cached_graph,       \* cached_graph
    graph_valid,        \* graph_cache_valid
    building,           \* who called build_schedule: "schedule", "graph",
                        \*   "subset" (schedule_for_jobs), or "no"
    remaining,          \* the jobs the loop has not visited yet
    stages,             \* result: the stage of every job visited
    last_reader,        \* last_reader_stage
    last_writer,        \* last_writer_stage
    latest,             \* latest_stage
    barrier             \* structural_barrier_stage

registry == <<jobs, ordered, ordered_valid, cached_schedule, schedule_valid,
              cached_graph, graph_valid>>
locals   == <<building, remaining, stages, last_reader, last_writer, latest, barrier>>
vars     == <<registry, locals>>

NoStages == <<>>
Unset    == [c \in Component |-> 0]

(* The comparison of ordered_job_indices and schedule_for_jobs. *)
Before(i, j) == \/ jobs[i].order < jobs[j].order
                \/ jobs[i].order = jobs[j].order /\ i < j

(* Two jobs that must not run in the same stage. *)
Conflict(i, j) ==
    \/ jobs[i].structural
    \/ jobs[j].structural
    \/ jobs[i].writes \cap (jobs[j].reads \cup jobs[j].writes) # {}
    \/ jobs[i].reads \cap jobs[j].writes # {}

(* s is the stage build_schedule gives to job j. *)
IsNextAfter(s, bounds) == /\ \A b \in bounds : b < s
                          /\ s - 1 \in bounds

(* Mistake: a writer does not wait for the readers before it. *)
BoundsWithoutReaders(j) ==
    IF jobs[j].structural
    THEN {latest}
    ELSE {barrier} \cup {last_writer[c] : c \in jobs[j].reads \cup jobs[j].writes}

(* Mistake: every job waits for the latest stage. *)
BoundsAfterLatest(j) == {latest}

(* The stages job j must come after: apply_read_dependencies and
   apply_write_dependencies, or all of them for a structural job. *)
Bounds(j) ==
    IF jobs[j].structural
    THEN {latest}
    ELSE {barrier}
         \cup {last_writer[c] : c \in jobs[j].reads \cup jobs[j].writes}
         \cup {last_reader[c] : c \in jobs[j].writes}

Larger(a, b) == IF a > b THEN a ELSE b

LatestWith(s) == Larger(latest, s)
----------------------------------------------------------------------------
Init == /\ jobs = <<>>
        /\ ordered = {} /\ ordered_valid = FALSE
        /\ cached_schedule = NoStages /\ schedule_valid = FALSE
        /\ cached_graph = NoStages /\ graph_valid = FALSE
        /\ building = "no" /\ remaining = {} /\ stages = NoStages
        /\ last_reader = Unset /\ last_writer = Unset
        /\ latest = 0 /\ barrier = 0

(* Mistake: add_job leaves the schedule cache alone. *)
AddJobKeepsSchedule(order, reads, writes, structural) ==
    /\ building = "no"
    /\ jobs' = Append(jobs, [order |-> order, reads |-> reads \ writes,
                             writes |-> writes, structural |-> structural])
    /\ graph_valid' = FALSE
    /\ ordered_valid' = FALSE
    /\ UNCHANGED <<ordered, cached_schedule, schedule_valid, cached_graph, locals>>

(* Registry::add_job: what is written is no longer listed as read. *)
AddJob(order, reads, writes, structural) ==
    /\ building = "no"
    /\ jobs' = Append(jobs, [order |-> order, reads |-> reads \ writes,
                             writes |-> writes, structural |-> structural])
    /\ schedule_valid' = FALSE
    /\ graph_valid' = FALSE
    /\ ordered_valid' = FALSE
    /\ UNCHANGED <<ordered, cached_schedule, cached_graph, locals>>

Start(caller, selected) ==
    /\ building = "no"
    /\ building' = caller
    /\ remaining' = selected
    /\ UNCHANGED <<stages, last_reader, last_writer, latest, barrier>>

(* Orchestrator::schedule() with no valid cache, on its own or under
   cached_all_jobs_graph(). *)
BuildAll(caller) ==
    /\ caller = "graph" => ~graph_valid
    /\ ~schedule_valid
    /\ ordered' = IF ordered_valid THEN ordered ELSE DOMAIN jobs
    /\ ordered_valid' = TRUE
    /\ Start(caller, ordered')
    /\ UNCHANGED <<jobs, cached_schedule, schedule_valid, cached_graph, graph_valid>>

(* Orchestrator::schedule_for_jobs() *)
BuildFor(selected) == /\ Start("subset", selected)
                      /\ UNCHANGED registry

(* One iteration: the next job in canonical order goes to stage s. *)
Place(j, s) ==
    /\ building # "no"
    /\ j \in remaining
    /\ \A k \in remaining \ {j} : Before(j, k)
    /\ IsNextAfter(s, Bounds(j))
    /\ remaining' = remaining \ {j}
    /\ stages' = [k \in DOMAIN stages \cup {j} |-> IF k = j THEN s ELSE stages[k]]
    /\ latest' = LatestWith(s)
    /\ barrier' = IF jobs[j].structural THEN s ELSE barrier
    /\ last_reader' = [c \in Component |->
            IF ~jobs[j].structural /\ c \in jobs[j].reads
            THEN Larger(last_reader[c], s) ELSE last_reader[c]]
    /\ last_writer' = [c \in Component |->
            IF ~jobs[j].structural /\ c \in jobs[j].writes
            THEN s ELSE last_writer[c]]
    /\ UNCHANGED <<registry, building>>

(* build_schedule returns: schedule() and then cached_all_jobs_graph() keep
   the result; schedule_for_jobs() hands it to its caller only. *)
Return ==
    /\ building # "no"
    /\ remaining = {}
    /\ IF building = "subset"
       THEN UNCHANGED <<cached_schedule, schedule_valid>>
       ELSE cached_schedule' = stages /\ schedule_valid' = TRUE
    /\ IF building = "graph"
       THEN cached_graph' = stages /\ graph_valid' = TRUE
       ELSE UNCHANGED <<cached_graph, graph_valid>>
    /\ UNCHANGED <<jobs, ordered, ordered_valid>>
    /\ building' = "no"
    /\ stages' = NoStages
    /\ last_reader' = Unset /\ last_writer' = Unset
    /\ latest' = 0 /\ barrier' = 0
    /\ UNCHANGED remaining

(* cached_all_jobs_graph() when schedule() answers from its cache. *)
GraphFromCachedSchedule ==
    /\ building = "no"
    /\ ~graph_valid /\ schedule_valid
    /\ cached_graph' = cached_schedule
    /\ graph_valid' = TRUE
    /\ UNCHANGED <<jobs, ordered, ordered_valid, cached_schedule, schedule_valid, locals>>

Next ==
    \/ \E order \in Int, reads, writes \in SUBSET Component, structural \in BOOLEAN :
            AddJob(order, reads, writes, structural)
    \/ \E caller \in {"schedule", "graph"} : BuildAll(caller)
    \/ \E selected \in SUBSET DOMAIN jobs : BuildFor(selected)
    \/ \E j \in remaining, s \in Nat : Place(j, s)
    \/ Return
    \/ GraphFromCachedSchedule

Spec == Init /\ [][Next]_vars
----------------------------------------------------------------------------
JobRecord == [order : Int, reads : SUBSET Component, writes : SUBSET Component,
              structural : BOOLEAN]

(* Types, and the locals of the loop: the stages found so far run from 1 to
   latest, and no recorded stage lies beyond it. *)
TypeOK ==
    /\ jobs \in Seq(JobRecord)
    /\ {ordered_valid, schedule_valid, graph_valid} \subseteq BOOLEAN
    /\ ordered \subseteq DOMAIN jobs
    /\ building \in {"no", "schedule", "graph", "subset"}
    /\ remaining \subseteq DOMAIN jobs
    /\ DOMAIN stages \subseteq DOMAIN jobs \ remaining
    /\ latest \in Nat /\ barrier \in 0 .. latest
    /\ \A j \in DOMAIN stages : stages[j] \in 1 .. latest
    /\ last_reader \in [Component -> 0 .. latest]
    /\ last_writer \in [Component -> 0 .. latest]

(* Two conflicting jobs are never in the same stage, and the one that is
   earlier in canonical order has the earlier stage: a structural job has a
   stage of its own, between everything before it and everything after. *)
ConflictsKeepOrder ==
    \A i, j \in DOMAIN stages : Before(i, j) /\ Conflict(i, j) => stages[i] < stages[j]

(* A job waits only for a job it conflicts with: whoever is not in the
   first stage has an earlier conflicting job in the stage just before. *)
NoNeedlessWaiting ==
    \A j \in DOMAIN stages : stages[j] > 1 =>
        \E i \in DOMAIN stages : /\ Before(i, j) /\ Conflict(i, j)
                                /\ stages[i] = stages[j] - 1

(* A complete schedule: every job of the registry has a stage, and
   conflicting jobs keep their order. *)
Schedules(s) ==
    /\ DOMAIN s = DOMAIN jobs
    /\ \A i, j \in DOMAIN s : Before(i, j) /\ Conflict(i, j) => s[i] < s[j]

(* What run_jobs() and schedule() answer from a cache is a schedule of the
   jobs registered now, whatever was registered and scheduled in between. *)
CachesCurrent == /\ schedule_valid => Schedules(cached_schedule)
                 /\ graph_valid => Schedules(cached_graph)
=============================================================================
