------------------------------- MODULE MCJobs -------------------------------
(***************************************************************************)
(* JobSchedule and JobTick for TLC.  They share no variable, so each is    *)
(* explored by itself: scene, chosen at the start, says what moves.        *)
(*                                                                         *)
(* "schedule": up to MaxJobs jobs, each one of a menu of access patterns   *)
(* over two components.  Some have order 1, so that a job added later can  *)
(* come first.  Four jobs are what it takes for a reader to be staged      *)
(* before an earlier reader of the same component.                         *)
(*                                                                         *)
(* "honest" and "any": a tick of two stages of two tasks, with an executor *)
(* that keeps the contract, or with any executor, and at most MaxEntering  *)
(* calls of one task between the two checks of its guard.                  *)
(***************************************************************************)
EXTENDS JobSchedule, JobTick, TLC

CONSTANTS Position, Velocity, MaxJobs, t1, t2, t3, t4, MaxEntering

VARIABLE scene

Menu == { [order |-> 0, reads |-> {Position}, writes |-> {}, structural |-> FALSE],
          [order |-> 1, reads |-> {Position}, writes |-> {}, structural |-> FALSE],
          [order |-> 0, reads |-> {Position}, writes |-> {Position}, structural |-> FALSE],
          [order |-> 1, reads |-> {}, writes |-> {Position}, structural |-> FALSE],
          [order |-> 0, reads |-> {Position}, writes |-> {Velocity}, structural |-> FALSE],
          [order |-> 0, reads |-> {Position, Velocity}, writes |-> {}, structural |-> FALSE],
          [order |-> 0, reads |-> {}, writes |-> {Velocity}, structural |-> TRUE] }

ScheduleNext ==
    \/ /\ Len(jobs) < MaxJobs
       /\ \E m \in Menu : AddJob(m.order, m.reads, m.writes, m.structural)
    \/ \E caller \in {"schedule", "graph"} : BuildAll(caller)
    \/ \E selected \in SUBSET DOMAIN jobs : BuildFor(selected)
    \/ \E j \in remaining, s \in 1 .. MaxJobs : Place(j, s)
    \/ Return
    \/ GraphFromCachedSchedule

MCStageOf == t1 :> 1 @@ t2 :> 1 @@ t3 :> 2 @@ t4 :> 2

AnyNext == \/ TickStep \/ ExecutorReturns \/ ExecutorThrows
           \/ \E t \in Task : \/ entering[t] < MaxEntering /\ Enter(t)
                              \/ Claim(t) \/ BodyStep(t)

now == <<scene, vars, tickVars>>

MCInit == Init /\ TickInit /\ scene \in {"schedule", "honest", "any"}

MCNext == /\ UNCHANGED scene
          /\ \/ scene = "schedule" /\ ScheduleNext /\ UNCHANGED tickVars
             \/ scene = "honest" /\ ContractNext /\ UNCHANGED vars
             \/ scene = "any" /\ AnyNext /\ UNCHANGED vars

Honest(step) == scene = "honest" /\ step /\ UNCHANGED <<scene, vars>>

(* JobTick's Fairness, for the honest executor only. *)
MCSpec ==
    /\ MCInit /\ [][MCNext]_now
    /\ WF_now(Honest(TickStep)) /\ WF_now(Honest(ReturnWhenDone))
    /\ \A t \in Task : /\ WF_now(Honest(CallOnce(t)))
                       /\ WF_now(Honest(Claim(t)))
                       /\ WF_now(Honest(BodyStep(t)))

(* An executor that calls every task once and returns when all have        *)
(* finished is never reported to violate its contract, and the tick comes  *)
(* to its end with every task run unless a body threw (JobGraph::tick).    *)
HonestTickCompletes == scene = "honest" => []ContractNeverBlamed /\ TickCompletes
=============================================================================
