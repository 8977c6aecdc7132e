------------------------------ MODULE JobTick ------------------------------
(***************************************************************************)
(* JobGraph::tick (and tick_for_entities, which differs only in the tasks  *)
(* it builds) with a thread executor: one tick over the stages of a        *)
(* schedule.  Each stage is a batch of guarded tasks handed to the         *)
(* executor; when it returns, the tick closes the batch, validates it,     *)
(* merges the dirty marks of the tasks and rethrows a job's exception.     *)
(*                                                                         *)
(* The executor belongs to the program: it may call any task it was handed *)
(* at any time from any thread, twice or never, return early or throw.     *)
(* Every atomic access of the guard and of the tick is a step of its own.  *)
(* A call is entering[t] between its load of closed and its exchange of    *)
(* started; the call that wins the exchange is from then on phase[t].      *)
(***************************************************************************)
EXTENDS Naturals, FiniteSets

CONSTANTS Task,      \* the tasks built for all the stages
          LastStage, \* JobSchedule::stages.size()
          StageOf    \* the stage of each task's job

ASSUME TaskAssumption  == IsFiniteSet(Task)
ASSUME StageAssumption == LastStage \in Nat \ {0} /\ StageOf \in [Task -> 1 .. LastStage]

VARIABLES
    tick,       \* where the tick is
    stage,      \* the stage it is at
    outcome,    \* how it ended
    closed,     \* JobTaskBatchState::closed, for the batch of every stage
    violated,   \* JobTaskBatchState::contract_violated
    started,    \* JobTaskBatchState::started
    finished,   \* JobTaskBatchState::finished
    entering,   \* calls of a task that found the batch open
    phase,      \* the call that claimed JobTaskRunState::started
    exception,  \* first_exception is set
    failed,     \* history: the tasks whose body threw
    merged      \* the tasks whose dirty marks reached the storages

batches  == <<closed, violated, started, finished>>
taskvars == <<entering, phase, exception, failed>>
tickVars == <<tick, stage, outcome, batches, taskvars, merged>>

Stage == 1 .. LastStage

Batch(s) == {t \in Task : StageOf[t] = s}

expected(s) == Cardinality(Batch(s))

(* The executor has been given task t. *)
Handed(t) == \/ StageOf[t] < stage
             \/ StageOf[t] = stage /\ tick # "handing"
----------------------------------------------------------------------------
TickInit == /\ tick = "handing" /\ stage = 1 /\ outcome = "none"
            /\ closed = [s \in Stage |-> FALSE]
            /\ violated = [s \in Stage |-> FALSE]
            /\ started = [s \in Stage |-> 0]
            /\ finished = [s \in Stage |-> 0]
            /\ entering = [t \in Task |-> 0]
            /\ phase = [t \in Task |-> "ready"]
            /\ exception = FALSE
            /\ failed = {}
            /\ merged = {}

Blame(s) == violated' = [violated EXCEPT ![s] = TRUE]

(* The executor calls a task: the guard loads closed. *)
Enter(t) ==
    /\ Handed(t)
    /\ IF closed[StageOf[t]]
       THEN Blame(StageOf[t]) /\ UNCHANGED entering
       ELSE entering' = [entering EXCEPT ![t] = @ + 1] /\ UNCHANGED violated
    /\ UNCHANGED <<tick, stage, outcome, closed, started, finished, phase,
                   exception, failed, merged>>

(* started.compare_exchange_strong: one call wins. *)
Claim(t) ==
    /\ entering[t] > 0
    /\ entering' = [entering EXCEPT ![t] = @ - 1]
    /\ IF phase[t] = "ready"
       THEN phase' = [phase EXCEPT ![t] = "claimed"] /\ UNCHANGED violated
       ELSE Blame(StageOf[t]) /\ UNCHANGED phase
    /\ UNCHANGED <<tick, stage, outcome, closed, started, finished,
                   exception, failed, merged>>

(* batch->started.fetch_add, and the job's body begins. *)
BeginBody(t) ==
    /\ phase[t] = "claimed"
    /\ phase' = [phase EXCEPT ![t] = "running"]
    /\ started' = [started EXCEPT ![StageOf[t]] = @ + 1]
    /\ UNCHANGED <<tick, stage, outcome, closed, violated, finished,
                   entering, exception, failed, merged>>

(* Mistake: the exception is swallowed. *)
EndBodySwallows(t, throws) ==
    /\ phase[t] = "running"
    /\ phase' = [phase EXCEPT ![t] = "ended"]
    /\ UNCHANGED exception
    /\ failed' = IF throws THEN failed \cup {t} ELSE failed
    /\ UNCHANGED <<tick, stage, outcome, batches, entering, merged>>

(* The body returns, or throws and the exception is recorded. *)
EndBody(t, throws) ==
    /\ phase[t] = "running"
    /\ phase' = [phase EXCEPT ![t] = "ended"]
    /\ IF throws THEN exception' = TRUE /\ failed' = failed \cup {t}
                 ELSE UNCHANGED <<exception, failed>>
    /\ UNCHANGED <<tick, stage, outcome, batches, entering, merged>>

(* batch->finished.fetch_add, and the call returns to the executor. *)
CountFinished(t) ==
    /\ phase[t] = "ended"
    /\ phase' = [phase EXCEPT ![t] = "finished"]
    /\ finished' = [finished EXCEPT ![StageOf[t]] = @ + 1]
    /\ UNCHANGED <<tick, stage, outcome, closed, violated, started,
                   entering, exception, failed, merged>>
----------------------------------------------------------------------------
(* The tick makes the batch and calls the executor. *)
CallExecutor == /\ tick = "handing"
                /\ tick' = "executor"
                /\ UNCHANGED <<stage, outcome, batches, taskvars, merged>>

ExecutorReturns == /\ tick = "executor"
                   /\ tick' = "closing"
                   /\ UNCHANGED <<stage, outcome, batches, taskvars, merged>>

EndTick(why) == tick' = "over" /\ outcome' = why

(* The executor's own exception leaves the tick: nothing is closed,
   validated or merged. *)
ExecutorThrows == /\ tick = "executor"
                  /\ EndTick("executor exception")
                  /\ UNCHANGED <<stage, batches, taskvars, merged>>

Close == /\ tick = "closing"
         /\ closed' = [closed EXCEPT ![stage] = TRUE]
         /\ tick' = "closed"
         /\ UNCHANGED <<stage, outcome, violated, started, finished, taskvars, merged>>

(* Mistake: the batch is compared with all the tasks of the tick. *)
ExpectAll == /\ tick = "contract kept"
             /\ IF started[stage] = Cardinality(Task)
                THEN tick' = "all started" /\ UNCHANGED outcome ELSE EndTick("contract")
             /\ UNCHANGED <<stage, batches, taskvars, merged>>

(* One of the three loads of close_and_validate_job_task_batch. *)
Validate(at, holds, next) ==
    /\ tick = at
    /\ IF holds THEN tick' = next /\ UNCHANGED outcome ELSE EndTick("contract")
    /\ UNCHANGED <<stage, batches, taskvars, merged>>

ValidateContract == Validate("closed", ~violated[stage], "contract kept")
ValidateStarted  == Validate("contract kept", started[stage] = expected(stage), "all started")

(* Mistake: started tasks count as finished. *)
TrustStarted == Validate("all started", TRUE, "merging")

ValidateFinished == Validate("all started", finished[stage] = expected(stage), "merging")

(* Mistake: an exception is rethrown before the marks are merged. *)
MergeUnlessException ==
    /\ tick = "merging"
    /\ merged' = IF exception THEN merged ELSE merged \cup Batch(stage)
    /\ tick' = "merged"
    /\ UNCHANGED <<stage, outcome, batches, taskvars>>

(* mark_component_dirty_range and merge_deferred_dirty_writes *)
MergeDirty == /\ tick = "merging"
              /\ merged' = merged \cup Batch(stage)
              /\ tick' = "merged"
              /\ UNCHANGED <<stage, outcome, batches, taskvars>>

(* Mistake: the last stage is not run. *)
AdvanceSkipsLast ==
    /\ tick = "merged"
    /\ \/ exception /\ EndTick("job exception") /\ UNCHANGED stage
       \/ ~exception /\ stage >= LastStage - 1 /\ EndTick("returned") /\ UNCHANGED stage
       \/ ~exception /\ stage < LastStage - 1 /\ stage' = stage + 1 /\ tick' = "handing"
          /\ UNCHANGED outcome
    /\ UNCHANGED <<batches, taskvars, merged>>

(* Rethrow, go on to the next stage, or return. *)
Advance ==
    /\ tick = "merged"
    /\ \/ exception /\ EndTick("job exception") /\ UNCHANGED stage
       \/ ~exception /\ stage = LastStage /\ EndTick("returned") /\ UNCHANGED stage
       \/ ~exception /\ stage < LastStage /\ stage' = stage + 1 /\ tick' = "handing"
          /\ UNCHANGED outcome
    /\ UNCHANGED <<batches, taskvars, merged>>

TickStep == \/ CallExecutor \/ Close
            \/ ValidateContract \/ ValidateStarted \/ ValidateFinished
            \/ MergeDirty \/ Advance

BodyStep(t) == \/ BeginBody(t)
               \/ \E throws \in BOOLEAN : EndBody(t, throws)
               \/ CountFinished(t)

(* Any executor. *)
TickNext == \/ TickStep \/ ExecutorReturns \/ ExecutorThrows
            \/ \E t \in Task : Enter(t) \/ Claim(t) \/ BodyStep(t)

TickSpec == TickInit /\ [][TickNext]_tickVars
----------------------------------------------------------------------------
(* The executor the README asks for: it calls every task once, and returns
   only after all of them have finished. *)
CallOnce(t)    == entering[t] = 0 /\ phase[t] = "ready" /\ tick = "executor"
                  /\ StageOf[t] = stage /\ Enter(t)
ReturnWhenDone == (\A t \in Batch(stage) : phase[t] = "finished") /\ ExecutorReturns

ContractNext == \/ TickStep \/ ReturnWhenDone
                \/ \E t \in Task : CallOnce(t) \/ Claim(t) \/ BodyStep(t)

(* The tick and the executor keep going, and job bodies come to an end. *)
Fairness == /\ WF_tickVars(TickStep) /\ WF_tickVars(ReturnWhenDone)
            /\ \A t \in Task : WF_tickVars(CallOnce(t)) /\ WF_tickVars(Claim(t)) /\ WF_tickVars(BodyStep(t))

ContractSpec == TickInit /\ [][ContractNext]_tickVars /\ Fairness
----------------------------------------------------------------------------
Begun == {"running", "ended", "finished"}

(* Types, and the counters of a batch, which count each task once. *)
TickTypeOK ==
    /\ tick \in {"handing", "executor", "closing", "closed", "contract kept",
                 "all started", "merging", "merged", "over"}
    /\ stage \in Stage
    /\ outcome \in {"none", "returned", "contract", "executor exception", "job exception"}
    /\ closed \in [Stage -> BOOLEAN] /\ violated \in [Stage -> BOOLEAN]
    /\ entering \in [Task -> Nat]
    /\ phase \in [Task -> {"ready", "claimed", "running", "ended", "finished"}]
    /\ exception \in BOOLEAN
    /\ failed \subseteq Task /\ merged \subseteq Task
    /\ started \in [Stage -> Nat] /\ finished \in [Stage -> Nat]
    /\ \A s \in Stage : finished[s] <= started[s] /\ started[s] <= expected(s)

status == [t \in Task |-> CASE phase[t] \in {"ready", "claimed"} -> "waiting"
                            [] phase[t] = "running" -> "running"
                            [] OTHER -> "done"]

Precedes == {p \in Task \X Task : StageOf[p[1]] < StageOf[p[2]]}

Order == INSTANCE JobOrder

(* Whatever the executor does, no body runs twice, and none begins before
   every body of the earlier stages has ended. *)
ImplementsJobOrder == Order!Spec

(* No mark is merged while the task may still be adding to its list, and a
   tick that returns or rethrows a job's exception has merged the marks of
   every body that began. *)
MarksMerged ==
    /\ \A t \in merged : phase[t] \in {"ended", "finished"}
    /\ outcome \in {"returned", "job exception"} =>
          \A t \in Task : phase[t] \in Begun => t \in merged

(* A body's exception is never lost: the tick does not return normally, and
   no job of a later stage runs. *)
ExceptionStopsTick ==
    /\ failed # {} => outcome # "returned"
    /\ \A t \in failed, u \in Task : StageOf[t] < StageOf[u] => phase[u] = "ready"

(* An executor that keeps the contract is never reported to violate it. *)
ContractNeverBlamed == outcome # "contract" /\ \A s \in Stage : ~violated[s]

(* ... and the tick ends, with every task of every stage run unless a body
   threw. *)
TickCompletes ==
    <>(/\ tick = "over"
       /\ failed = {} => \A t \in Task : phase[t] = "finished")
=============================================================================
