--------------------------- MODULE MCChangeReport ---------------------------
(***************************************************************************)
(* The change report of one component, in two scenes of which a behaviour  *)
(* plays one: a consumer that clears the report itself (DirtyTracking, on  *)
(* two indices), and a broadcaster with MaxSubscriptions listeners that    *)
(* nest MaxDepth broadcasts (DirtyBroadcast, on one index).                *)
(*                                                                         *)
(* A consumer's indices are destroyed twice, the broadcaster's never: the  *)
(* report is DirtyTracking's concern there.                                *)
(***************************************************************************)
EXTENDS DirtyBroadcast

CONSTANTS v1, MaxSubscriptions, MaxDepth

VARIABLE scene

MCInit == BroadcastInit /\ scene \in {"consumer", "broadcast"}

Consumer ==
    /\ UNCHANGED broadcast
    /\ \/ AcknowledgeAll
       \/ \E i \in {0, 1} : Arrive(i) \/ Acknowledge(i) \/ (Change(i) /\ gen'[i] <= 3)

Broadcaster ==
    \/ CreateHere(0)
    \/ ChangeHere(0) /\ gen'[0] = 1 /\ val'[0] \in {Missing, v1}
    \/ Clear
    \/ next_id <= MaxSubscriptions /\ Subscribe
    \/ \E id \in Issued : Reset(id)
    \/ broadcast_depth < MaxDepth /\ BeginBroadcast
    \/ Read \/ CallNext \/ ListenerReturns
    \/ EndBroadcast \/ ListenerThrows

MCNext ==
    /\ UNCHANGED scene
    /\ \/ scene = "consumer" /\ Consumer
       \/ scene = "broadcast" /\ Broadcaster

MCSpec == MCInit /\ [][MCNext]_<<scene, vars, broadcast>>
=============================================================================
