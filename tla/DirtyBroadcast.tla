--------------------------- MODULE DirtyBroadcast ---------------------------
(***************************************************************************)
(* RegistryDirtyFrameBroadcaster: the listeners that share one change      *)
(* report.  A broadcast calls them one after the other and clears the      *)
(* report at its end; a listener may change the registry, subscribe,       *)
(* unsubscribe, broadcast again or throw while it is called.               *)
(*                                                                         *)
(* A subscription is named by its id.  entry.listener is nullptr or not:   *)
(* live.  Each subscriber keeps a copy of the component table that it      *)
(* brings up to date from every report it reads, as a replica does.        *)
(***************************************************************************)
EXTENDS DirtyTracking, Sequences, FiniteSets

VARIABLES
    consumers,  \* State::consumers: records id, live
    waiting,    \* State::pending_consumers
    next_id,    \* State::next_id
    stack,      \* the broadcasts under way, innermost last: the position the
                \*   loop goes to next, the listener it is calling (or 0), and
                \*   whether that one has read the report
    copy,       \* the table as each subscriber knows it, or Lost when it was
                \*   reset or could not be told of some change
    ended       \* history: the subscriptions that were reset

state     == <<consumers, waiting, next_id>>
history   == <<copy, ended>>
broadcast == <<state, stack, history>>

broadcast_depth == Len(stack)
Innermost       == stack[broadcast_depth]
Nobody          == 0

Issued == 1 .. next_id - 1

Lost == <<>>

Losing(ids) == [id \in DOMAIN copy |-> IF id \in ids THEN Lost ELSE copy[id]]

(* Somebody outside the broadcaster is running: the program, or a listener *)
(* that is being called.                                                   *)
CallerRuns == IF stack = <<>> THEN TRUE ELSE Innermost.running # Nobody

(* The subscriptions whose turn in the innermost broadcast is still to     *)
(* come, with the one that is called and has not read yet.                 *)
ToCome ==
    IF stack = <<>> THEN Issued
    ELSE {consumers[k].id : k \in Innermost.at .. Len(consumers)}
         \cup (IF Innermost.read THEN {} ELSE {Innermost.running})

(* A copy that drops what each_removed reports, unless it knows a later    *)
(* entity on the index, and then stores what each_dirty reports.           *)
Replayed(known) ==
    [i \in Index |->
        IF i \in dirty THEN Now(i)
        ELSE IF Removed(i) /\ removal[i].gen >= known[i].gen THEN Absent
        ELSE known[i]]

BroadcastInit == /\ TrackInit
                 /\ consumers = <<>> /\ waiting = <<>> /\ next_id = 1
                 /\ stack = <<>>
                 /\ copy = <<>> /\ ended = {}

-----------------------------------------------------------------------------
(* The program, or the listener that is being called.                      *)

(* create(): the entity has no components yet, so that there is nothing to *)
(* report.                                                                 *)
CreateHere(i) == CallerRuns /\ Arrive(i) /\ UNCHANGED broadcast

(* A change in the middle of a broadcast is seen only by those whose turn  *)
(* is still to come: the end of the broadcast clears it for all.           *)
ChangeHere(i) ==
    /\ CallerRuns
    /\ Change(i)
    /\ copy' = Losing(Issued \ ToCome)
    /\ UNCHANGED <<state, stack, ended>>

(* clear_dirty and clear_all_dirty behind the back of the subscribers. *)
Clear == /\ stack = <<>>
         /\ AcknowledgeAll \/ \E i \in Index : Acknowledge(i)
         /\ copy' = Losing(Issued)
         /\ UNCHANGED <<state, stack, ended>>

(* subscribe(): a vector that is being walked is not appended to. *)
Subscribe ==
    /\ CallerRuns
    /\ next_id' = next_id + 1
    /\ LET entry == [id |-> next_id, live |-> TRUE]
       IN  IF broadcast_depth = 0
           THEN consumers' = Append(consumers, entry) /\ UNCHANGED waiting
           ELSE waiting' = Append(waiting, entry) /\ UNCHANGED consumers
    /\ copy' = Append(copy, [i \in Index |-> Now(i)])
    /\ UNCHANGED <<vars, stack, ended>>

Without(q, id) ==
    [k \in DOMAIN q |-> IF q[k].id = id THEN [q[k] EXCEPT !.live = FALSE] ELSE q[k]]

(* Mistakes: an entry that waits is not looked for; the entry is erased    *)
(* from the vector that is being walked.                                   *)
ResetListedOnly(id) ==
    /\ CallerRuns /\ id \in Issued \ ended
    /\ consumers' = Without(consumers, id) /\ UNCHANGED waiting
    /\ ended' = ended \cup {id} /\ copy' = Losing({id})
    /\ UNCHANGED <<vars, next_id, stack>>

ResetErases(id) ==
    /\ CallerRuns /\ id \in Issued \ ended
    /\ consumers' = SelectSeq(consumers, LAMBDA e : e.id # id)
    /\ waiting' = SelectSeq(waiting, LAMBDA e : e.id # id)
    /\ ended' = ended \cup {id} /\ copy' = Losing({id})
    /\ UNCHANGED <<vars, next_id, stack>>

(* RegistryDirtyFrameBroadcastSubscription::reset(), its destructor and    *)
(* the assignment of another subscription.                                 *)
Reset(id) ==
    /\ CallerRuns /\ id \in Issued \ ended
    /\ consumers' = Without(consumers, id)
    /\ waiting' = Without(waiting, id)
    /\ ended' = ended \cup {id} /\ copy' = Losing({id})
    /\ UNCHANGED <<vars, next_id, stack>>

BeginBroadcast ==
    /\ CallerRuns
    /\ stack' = Append(stack, [at |-> 1, running |-> Nobody, read |-> FALSE])
    /\ UNCHANGED <<vars, state, history>>

(* The listener reads the report. *)
Read == /\ stack # <<>> /\ CallerRuns
        /\ ~Innermost.read
        /\ copy' = [copy EXCEPT ![Innermost.running] =
                                IF @ = Lost THEN Lost ELSE Replayed(@)]
        /\ stack' = [stack EXCEPT ![broadcast_depth].read = TRUE]
        /\ UNCHANGED <<vars, state, ended>>

-----------------------------------------------------------------------------
(* RegistryDirtyFrameBroadcaster::broadcast.                               *)

(* One iteration of the loop over the consumers. *)
CallNext ==
    /\ stack # <<>> /\ ~CallerRuns
    /\ Innermost.at <= Len(consumers)
    /\ LET entry == consumers[Innermost.at]
       IN  stack' = [stack EXCEPT ![broadcast_depth] =
                        [at      |-> @.at + 1,
                         running |-> IF entry.live THEN entry.id ELSE Nobody,
                         read    |-> FALSE]]
    /\ UNCHANGED <<vars, state, history>>

ListenerReturns ==
    /\ stack # <<>> /\ CallerRuns
    /\ Innermost.read
    /\ stack' = [stack EXCEPT ![broadcast_depth].running = Nobody]
    /\ UNCHANGED <<vars, state, history>>

(* remove_unsubscribed: the live entries stay, in their order. *)
Live(q) ==
    LET live  == {k \in DOMAIN q : q[k].live}
        order == CHOOSE f \in [1 .. Cardinality(live) -> live] :
                    \A j, k \in DOMAIN f : j < k => f[j] < f[k]
    IN  [k \in 1 .. Cardinality(live) |-> q[order[k]]]

(* finish_broadcast, and the destructor of the dirty scope, which clears   *)
(* the report of every component.                                          *)
Finish ==
    /\ stack' = SubSeq(stack, 1, broadcast_depth - 1)
    /\ IF broadcast_depth = 1
       THEN consumers' = Live(consumers) \o Live(waiting) /\ waiting' = <<>>
       ELSE UNCHANGED <<consumers, waiting>>
    /\ AcknowledgeAll
    /\ UNCHANGED <<next_id, ended>>

EndBroadcast ==
    /\ stack # <<>> /\ ~CallerRuns
    /\ Innermost.at > Len(consumers)
    /\ Finish
    /\ UNCHANGED copy

(* The exception of a listener leaves the broadcast, which clears the      *)
(* report before those behind it have seen it.  It reaches the listener    *)
(* that called broadcast(), if one did, which may throw in its turn.       *)
ListenerThrows ==
    /\ stack # <<>> /\ CallerRuns
    /\ copy' = Losing(ToCome)
    /\ Finish

BroadcastNext ==
    \/ \E i \in Index : CreateHere(i) \/ ChangeHere(i)
    \/ Clear
    \/ Subscribe \/ \E id \in Issued : Reset(id)
    \/ BeginBroadcast \/ Read \/ CallNext \/ ListenerReturns
    \/ EndBroadcast \/ ListenerThrows

BroadcastSpec == BroadcastInit /\ [][BroadcastNext]_<<vars, broadcast>>

-----------------------------------------------------------------------------
(* A subscriber that reads every report it is called with knows the table, *)
(* up to what it will be told next: listeners that come, go, broadcast     *)
(* again or throw take nothing from it.  Lost are those whose turn in the  *)
(* broadcast had passed at a change, or was still to come when a listener  *)
(* threw, and what was cleared by hand.                                         *)
NoneMissed ==
    \A id \in Issued :
        copy[id] # Lost => Replayed(copy[id]) = [i \in Index |-> Now(i)]

(* A subscription is listed once until it is reset and is never called     *)
(* after that, in whatever broadcast it was made or reset; outside of      *)
(* broadcasts nobody is left waiting.                                      *)
ListedWhileSubscribed ==
    /\ \A id \in Issued :
          LET entries(q) == {k \in DOMAIN q : q[k].id = id /\ q[k].live}
          IN  Cardinality(entries(consumers)) + Cardinality(entries(waiting))
                 = IF id \in ended THEN 0 ELSE 1
    /\ stack = <<>> => waiting = <<>>
=============================================================================
