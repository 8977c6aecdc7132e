------------------------------ MODULE JobOrder ------------------------------
(***************************************************************************)
(* What a tick promises about the job bodies it runs: each task runs at    *)
(* most once, and begins only when every task it depends on has ended.     *)
(***************************************************************************)
CONSTANTS Task, Precedes

VARIABLE status

Init == status = [t \in Task |-> "waiting"]

Begin(t) == /\ status[t] = "waiting"
            /\ \A u \in Task : <<u, t>> \in Precedes => status[u] = "done"
            /\ status' = [status EXCEPT ![t] = "running"]

End(t) == /\ status[t] = "running"
          /\ status' = [status EXCEPT ![t] = "done"]

Next == \E t \in Task : Begin(t) \/ End(t)

Spec == Init /\ [][Next]_status
=============================================================================
