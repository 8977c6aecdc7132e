--------------------------- MODULE DirtyTracking ---------------------------
(***************************************************************************)
(* A consumer of one component's change report: a dirty-frame listener, a  *)
(* delta snapshot or a replica.  base is the table as the consumer last    *)
(* knew it, taken whenever it clears the report; acked are the indices it  *)
(* cleared one by one, with clear_dirty, since it last cleared everything. *)
(* Both are history: no operation of the registry reads them.              *)
(***************************************************************************)
EXTENDS ComponentTable

VARIABLES base, acked

vars == <<table, base, acked>>

Absent == [gen |-> 0, val |-> Missing]

(* Index i as a consumer sees it. *)
Now(i) == IF Has(i) THEN [gen |-> gen[i], val |-> val[i]] ELSE Absent

TrackInit == /\ Init
             /\ base = [i \in Index |-> Now(i)]
             /\ acked = {}

Arrive(i) == Create(i) /\ UNCHANGED <<base, acked>>

Change(i) == /\ Remove(i) \/ Destroy(i) \/ \E v \in Value : Put(i, v)
             /\ UNCHANGED <<base, acked>>

Acknowledge(i) == /\ ClearDirty(i)
                  /\ base' = [base EXCEPT ![i] = Now(i)]
                  /\ acked' = acked \cup {i}

AcknowledgeAll == /\ ClearAllDirty
                  /\ base' = [i \in Index |-> Now(i)]
                  /\ acked' = {}

TrackNext == AcknowledgeAll \/ \E i \in Index : Arrive(i) \/ Change(i) \/ Acknowledge(i)

TrackSpec == TrackInit /\ [][TrackNext]_vars
----------------------------------------------------------------------------
TrackTypeOK ==
    /\ TypeOK
    /\ base \in [Index -> {Absent} \cup [gen : Nat, val : Value]]
    /\ acked \subseteq Index

(* is_dirty answers true for every live entity whose index differs from    *)
(* what the consumer last acknowledged, through any sequence of create,    *)
(* add, write, remove, destroy, index reuse and partial clears.  Once the  *)
(* entity is gone is_dirty answers false to every handle, so that a        *)
(* consumer learns of the loss from each_removed, which reports it until   *)
(* it is cleared or the index gets the component again.                    *)
EveryChangeIsDirty ==
    \A i \in Index :
        Now(i) # base[i] => IF i \in alive THEN IsDirty(i) ELSE Removed(i)

(* each_added reports every entity that got the component since the        *)
(* consumer last looked, an entity on a recycled index included.           *)
AdditionsReported ==
    \A i \in Index : Has(i) /\ base[i].gen # gen[i] => i \in added

(* Dropping what each_removed reports and then storing what each_dirty     *)
(* reports turns the table at the last clear into the current one.         *)
ReportReplays ==
    \A i \in Index \ acked :
        Now(i) = IF i \in dirty THEN [gen |-> gen[i], val |-> val[i]]
                 ELSE IF Removed(i) THEN Absent ELSE base[i]
=============================================================================
