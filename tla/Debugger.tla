------------------------------ MODULE Debugger ------------------------------
(***************************************************************************)
(* The debugger tool: what the user has selected, the refresh that runs on *)
(* another thread over a copy of it, and the edits.  A refresh probes      *)
(* every port, reads the detail of what was selected when it began, and is *)
(* merged (PollRefresh) into what is selected when it ends; meanwhile the  *)
(* user goes on clicking and the servers go on changing.                   *)
(*                                                                         *)
(* world[p] is the registry behind port p (see DebugProtocol), or Down.    *)
(* Each request finds it as it is at some moment or fails: no connection,  *)
(* a timeout, an answer that was cut off and does not parse.  A mutation   *)
(* whose answer is lost may have been done.                                *)
(*                                                                         *)
(* Clicks, failures and changes of the world are disturbances, MaxTrouble  *)
(* in all.                                                                 *)
(***************************************************************************)
EXTENDS DebugProtocol

CONSTANTS
    Port,           \* base_port and the ones after it
    FirstWorld,     \* the registry behind each port when its program starts
    Text,           \* what the user types into fields, written without exponent
    MaxTrouble,
    Down, NoId, Clean

(* What is edited is the fields of one component. *)
Edited == "Data"

FieldType == Info[Edited].fields

(* A table of components' values. *)
IsRegistry(r) ==
    /\ r = [alive |-> r.alive, table |-> r.table]
    /\ r.alive \subseteq Entity
    /\ r.table = [c \in Component |-> r.table[c]]
    /\ \A c \in Component :
          r.table[c] \in [Entity \cup {Holder} -> [DOMAIN Info[c].fields -> Nat] \cup {Missing}]

(* Ports are numbers, and programs start with a registry. *)
ASSUME PortAssumption ==
    /\ Port \subseteq Nat
    /\ NoId \notin Port
    /\ FirstWorld = [p \in Port |-> FirstWorld[p]]
    /\ \A p \in Port : IsRegistry(FirstWorld[p])

(* What is edited is a component with a value of its own, and Missing is   *)
(* no value.                                                               *)
ASSUME FieldAssumption ==
    /\ Edited \in Component
    /\ Info[Edited].kind = "value"
    /\ \A c \in Component : Missing \notin [DOMAIN Info[c].fields -> Nat]

(* long long has more digits than a double and a double more than a float, *)
(* and what a field can take of a text is a number.                        *)
ASSUME NumberAssumption ==
    /\ {One, StringSize, Largest["f64"], 2 ^ FloatMantissa, 2 ^ Mantissa, 2 ^ LongDigits}
          \subseteq Nat \ {0}
    /\ 2 ^ FloatMantissa <= 2 ^ Mantissa
    /\ 2 ^ Mantissa < 2 ^ LongDigits
    /\ 2 ^ Mantissa <= Largest["f64"]
    /\ Text \subseteq Nat
    /\ Clean \notin Text
    /\ \A f \in DOMAIN FieldType : \A text \in Text :
          LET json == Typed(FieldType[f], text)
          IN FieldFits(FieldType[f], json) => FieldValue(FieldType[f], json) \in Nat

VARIABLES
    world,     \* the servers
    data,      \* DebuggerState
    auto,      \* DebuggerAppState::auto_refresh
    tabs,      \* whether the tab bar of the entity list is at its singletons
    loading,   \* DebuggerAppState::loading
    task,      \* the refresh: its copy of data, how far it is, its result
    edits,     \* edits[e][f]: the text typed over a field of e, or Clean
    trouble    \* how many disturbances there were

toolVars == <<world, data, auto, tabs, loading, task, edits, trouble>>

Unasked == [part |-> "unasked"]
Dead    == [part |-> "dead"]

Bother == trouble < MaxTrouble /\ trouble' = trouble + 1

FrontOf(S) == IF S = {} THEN NoId ELSE CHOOSE x \in S : TRUE

(* Entities are listed in the order of their indices. *)
FrontEntity(S) == IF S = {} THEN NoId ELSE CHOOSE e \in S : \A x \in S : e.index <= x.index

Ok(found, p) == p \in Port /\ found[p].part = "ok"

Live(found) == {p \in Port : Ok(found, p)}

FirstPort(S) == IF S = {} THEN NoId ELSE CHOOSE p \in S : \A q \in S : p <= q

(* Mistake: what was selected stays selected when it is gone. *)
KeepGone(selected, list, front) == IF selected = NoId THEN front ELSE selected

Keep(selected, list, front) == IF selected \in list THEN selected ELSE front

(* reconcile_selection: what is selected stays selected while it exists,   *)
(* and a detail goes with its selection.                                   *)
Reconciled(d, found) ==
    IF Live(found) = {}
    THEN [d EXCEPT !.found = found, !.port = NoId, !.entity = NoId, !.singleton = NoId,
                   !.job = NoId, !.entityDetail = NoId, !.jobDetail = NoId]
    ELSE LET same  == Ok(found, d.port)
             port  == IF same THEN d.port ELSE FirstPort(Live(found))
             list  == found[port]
             lone  == Keep(d.singleton, list.singletons, FrontOf(list.singletons))
         IN [d EXCEPT
               !.found = found, !.port = port,
               !.entity = Keep(d.entity, list.entities, FrontEntity(list.entities)),
               !.entityDetail = IF same /\ d.entity \in list.entities THEN @ ELSE NoId,
               !.singleton = lone,
               !.job = Keep(d.job, list.jobs, FrontOf(list.jobs)),
               !.jobDetail = IF same /\ d.job \in list.jobs THEN @ ELSE NoId,
               !.tab = @ /\ lone # NoId]
----------------------------------------------------------------------------
NoTask == [part |-> "none"]

Begun(d) == [part |-> "probe", base |-> d, found |-> [p \in Port |-> Unasked],
             port |-> NoId, entity |-> NoId, job |-> NoId,
             entityDetail |-> NoId, jobDetail |-> NoId, failed |-> FALSE]

(* start_refresh: nothing happens while a refresh is under way. *)
StartRefresh(d) ==
    /\ loading' = TRUE
    /\ task' = IF loading THEN task ELSE Begun(d)

ToolInit ==
    /\ world = FirstWorld
    /\ data = [found |-> [p \in Port |-> Dead], port |-> NoId, tab |-> FALSE,
               entity |-> NoId, singleton |-> NoId, job |-> NoId,
               entityDetail |-> NoId, jobDetail |-> NoId]
    /\ auto = TRUE
    /\ tabs = FALSE
    /\ loading = TRUE
    /\ task = Begun(data)
    /\ edits = [e \in Entity |-> [f \in DOMAIN FieldType |-> Clean]]
    /\ trouble = 0
----------------------------------------------------------------------------
(* The refresh thread. *)

Probing(p, part) == task.part = "probe" /\ task.found[p].part = part

(* A request that is not answered: the server is down or it takes too long. *)
Fails(p) == IF world[p] = Down THEN UNCHANGED trouble ELSE Bother

(* fetch_snapshot's requests come one after another: the entities first,   *)
(* without which the server counts as dead ...                             *)
ProbeEntities(p) ==
    /\ Probing(p, "unasked")
    /\ \/ /\ world[p] # Down
          /\ task' = [task EXCEPT !.found[p] =
                        [part |-> "entities", entities |-> world[p].alive]]
          /\ UNCHANGED trouble
       \/ /\ Fails(p)
          /\ task' = [task EXCEPT !.found[p] = Dead]
    /\ UNCHANGED <<world, data, auto, tabs, loading, edits>>

(* ... then the rest: no jobs means dead too, no singletons just none. *)
ProbeRest(p) ==
    /\ Probing(p, "entities")
    /\ \/ /\ world[p] # Down
          /\ \E answered \in BOOLEAN :
               /\ IF answered THEN UNCHANGED trouble ELSE Bother
               /\ task' = [task EXCEPT !.found[p] =
                    [part |-> "ok", entities |-> task.found[p].entities,
                     singletons |-> IF answered
                                    THEN SingletonsAnswer(world[p]).components ELSE {},
                     jobs |-> DOMAIN JobsAnswer(world[p]).matches]]
       \/ /\ Fails(p)
          /\ task' = [task EXCEPT !.found[p] = Dead]
    /\ UNCHANGED <<world, data, auto, tabs, loading, edits>>

(* refresh_data reconciles its own copy to know which details to ask for. *)
Discovered ==
    /\ task.part = "probe"
    /\ \A p \in Port : task.found[p].part \in {"ok", "dead"}
    /\ LET next == Reconciled(task.base, task.found)
       IN task' = [task EXCEPT !.part = "entity", !.port = next.port, !.job = next.job,
                               !.entity = IF next.tab THEN NoId ELSE next.entity]
    /\ UNCHANGED <<world, data, auto, tabs, loading, edits, trouble>>

Detail(p, answer) == IF answer.kind = "null" THEN NoId
                     ELSE [port |-> p, id |-> answer.id]

FetchEntity ==
    /\ task.part = "entity"
    /\ \/ /\ task.entity = NoId
          /\ task' = [task EXCEPT !.part = "job"]
          /\ UNCHANGED trouble
       \/ /\ task.entity # NoId
          /\ world[task.port] # Down
          /\ task' = [task EXCEPT !.part = "job", !.entityDetail =
                        Detail(task.port, EntityAnswer(world[task.port], task.entity))]
          /\ UNCHANGED trouble
       \/ /\ task.entity # NoId
          /\ Fails(task.port)
          /\ task' = [task EXCEPT !.part = "done", !.failed = TRUE]
    /\ UNCHANGED <<world, data, auto, tabs, loading, edits>>

FetchJob ==
    /\ task.part = "job"
    /\ \/ /\ task.job = NoId
          /\ task' = [task EXCEPT !.part = "done"]
          /\ UNCHANGED trouble
       \/ /\ task.job # NoId
          /\ world[task.port] # Down
          /\ task' = [task EXCEPT !.part = "done", !.jobDetail =
                        Detail(task.port, JobAnswer(world[task.port], task.job))]
          /\ UNCHANGED trouble
       \/ /\ task.job # NoId
          /\ Fails(task.port)
          /\ task' = [task EXCEPT !.part = "done", !.failed = TRUE]
    /\ UNCHANGED <<world, data, auto, tabs, loading, edits>>
----------------------------------------------------------------------------
(* The user interface's thread. *)

(* Mistake: the selection the refresh worked with comes back with it. *)
PollRefreshOverwrites ==
    /\ loading
    /\ task.part = "done"
    /\ loading' = FALSE
    /\ task' = NoTask
    /\ data' = IF task.failed THEN data
               ELSE [Reconciled(task.base, task.found) EXCEPT
                       !.entityDetail = task.entityDetail, !.jobDetail = task.jobDetail]
    /\ UNCHANGED <<world, auto, tabs, edits, trouble>>

(* poll_refresh: a failed refresh changes nothing; otherwise the details   *)
(* are taken over if they are of what is selected by now, and if not,      *)
(* another refresh follows.                                                *)
PollRefresh ==
    /\ loading
    /\ task.part = "done"
    /\ IF task.failed
       THEN /\ loading' = FALSE
            /\ task' = NoTask
            /\ UNCHANGED data
       ELSE LET next       == Reconciled(data, task.found)
                lateEntity == ~next.tab /\ next.entity # NoId /\ task.entity # next.entity
                lateJob    == next.job # NoId /\ task.job # next.job
                merged     == [next EXCEPT
                                 !.entityDetail = IF lateEntity THEN @ ELSE task.entityDetail,
                                 !.jobDetail = IF lateJob THEN @ ELSE task.jobDetail]
            IN /\ data' = merged
               /\ loading' = (lateEntity \/ lateJob)
               /\ task' = IF lateEntity \/ lateJob THEN Begun(merged) ELSE NoTask
    /\ UNCHANGED <<world, auto, tabs, edits, trouble>>

(* draw_app, every 1.5 seconds while Auto is ticked *)
AutoRefresh ==
    /\ auto
    /\ ~loading
    /\ StartRefresh(data)
    /\ UNCHANGED <<world, data, auto, tabs, edits, trouble>>

(* The box "Auto", and the button that is enabled without it; pressing it  *)
(* disturbs nothing.                                                       *)
ToggleAuto ==
    /\ Bother
    /\ auto' = ~auto
    /\ UNCHANGED <<world, data, tabs, loading, task, edits>>

RefreshButton ==
    /\ ~auto
    /\ StartRefresh(data)
    /\ UNCHANGED <<world, data, auto, tabs, edits, trouble>>

(* A click on another server drops what is on show and asks the new one. *)
SelectServer(p) ==
    /\ Ok(data.found, p)
    /\ Bother
    /\ data' = [data EXCEPT !.port = p, !.entityDetail = NoId, !.jobDetail = NoId]
    /\ StartRefresh(data')
    /\ UNCHANGED <<world, auto, tabs, edits>>

Listed == IF Ok(data.found, data.port) THEN data.found[data.port]
          ELSE [entities |-> {}, singletons |-> {}, jobs |-> {}]

(* A row of the entity list, or of the entities that match a job. *)
SelectEntity(e) ==
    /\ e \in Listed.entities
    /\ Bother
    /\ data' = [data EXCEPT !.entity = e, !.tab = FALSE, !.entityDetail = NoId]
    /\ StartRefresh(data')
    /\ UNCHANGED <<world, auto, tabs, edits>>

SelectJob(j) ==
    /\ j \in Listed.jobs
    /\ Bother
    /\ data' = [data EXCEPT !.job = j, !.jobDetail = NoId]
    /\ StartRefresh(data')
    /\ UNCHANGED <<world, auto, tabs, edits>>

(* The tabs of the entity list; changing them asks for nothing. *)
ShowTab(singletons) ==
    /\ Ok(data.found, data.port)
    /\ tabs # singletons
    /\ Bother
    /\ tabs' = singletons
    /\ data' = [data EXCEPT !.tab = singletons]
    /\ UNCHANGED <<world, auto, loading, task, edits>>

(* draw_entity_list: each frame the tab bar decides, whatever a refresh or *)
(* a click in the list of a job has made of singleton_tab.                 *)
DrawTabs ==
    /\ Ok(data.found, data.port)
    /\ data.tab # tabs
    /\ data' = [data EXCEPT !.tab = tabs]
    /\ UNCHANGED <<world, auto, tabs, loading, task, edits, trouble>>
----------------------------------------------------------------------------
(* Edits and mutations.  They are of the detail on show, which is drawn    *)
(* after the tabs.                                                         *)

EntityShown == /\ ~tabs
               /\ ~data.tab
               /\ data.entity # NoId
               /\ data.entityDetail # NoId
               /\ data.entityDetail.id = data.entity

JobShown == data.job # NoId /\ data.jobDetail # NoId /\ data.jobDetail.id = data.job

(* draw_component_field: typing makes the buffer dirty, Reset clean. *)
Edit(f, text) ==
    /\ EntityShown
    /\ edits[data.entity][f] # text
    /\ Bother
    /\ edits' = [edits EXCEPT ![data.entity][f] = text]
    /\ UNCHANGED <<world, data, auto, tabs, loading, task>>

(* What may become of a mutation sent to the selected server. *)
Outcomes(request) ==
    IF world[data.port] = Down THEN {[world |-> world, kind |-> "failed"]}
    ELSE LET result == HandleGraphql(world[data.port], request)
             done   == [world EXCEPT ![data.port] = result.reg]
         IN {[world |-> done, kind |-> result.answer.kind],
             [world |-> done, kind |-> "failed"], [world |-> world, kind |-> "failed"]}

SetRequest(e, f, text) ==
    [words |-> {"setComponent"}, id |-> e, component |-> Edited,
     values |-> [g \in {f} |-> Typed(FieldType[g], text)]]

RemoveRequest(e) ==
    [words |-> {"removeComponent"}, id |-> e, component |-> Edited]

(* Mistake: the buffer counts as saved once the request is sent. *)
SaveHopeful(f) ==
    /\ EntityShown
    /\ edits[data.entity][f] # Clean
    /\ Bother
    /\ \E o \in Outcomes(SetRequest(data.entity, f, edits[data.entity][f])) :
         /\ world' = o.world
         /\ edits' = [edits EXCEPT ![data.entity][f] = Clean]
         /\ StartRefresh(data)
    /\ UNCHANGED <<data, auto, tabs>>

(* save_field: the buffer stays dirty unless the server answered "set". *)
Save(f) ==
    /\ EntityShown
    /\ edits[data.entity][f] # Clean
    /\ Bother
    /\ \E o \in Outcomes(SetRequest(data.entity, f, edits[data.entity][f])) :
         /\ world' = o.world
         /\ IF o.kind = "set"
            THEN /\ edits' = [edits EXCEPT ![data.entity][f] = Clean]
                 /\ StartRefresh(data)
            ELSE UNCHANGED <<edits, loading, task>>
    /\ UNCHANGED <<data, auto, tabs>>

(* remove_entity_component; adding a tag differs in the request only. *)
RemoveShown ==
    /\ EntityShown
    /\ Bother
    /\ \E o \in Outcomes(RemoveRequest(data.entity)) :
         /\ world' = o.world
         /\ IF o.kind = "removed" THEN StartRefresh(data) ELSE UNCHANGED <<loading, task>>
    /\ UNCHANGED <<data, auto, tabs, edits>>
----------------------------------------------------------------------------
(* The programs behind the ports. *)

ServerStops(p) ==
    /\ world[p] # Down
    /\ Bother
    /\ world' = [world EXCEPT ![p] = Down]
    /\ UNCHANGED <<data, auto, tabs, loading, task, edits>>

ServerStarts(p) ==
    /\ world[p] = Down
    /\ Bother
    /\ world' = [world EXCEPT ![p] = FirstWorld[p]]
    /\ UNCHANGED <<data, auto, tabs, loading, task, edits>>

EntityDies(p, e) ==
    /\ world[p] # Down
    /\ e \in world[p].alive
    /\ Bother
    /\ world' = [world EXCEPT ![p] =
                   [alive |-> @.alive \ {e},
                    table |-> [c \in Component |-> [@.table[c] EXCEPT ![e] = Missing]]]]
    /\ UNCHANGED <<data, auto, tabs, loading, task, edits>>
----------------------------------------------------------------------------
RefreshStep == \/ \E p \in Port : ProbeEntities(p) \/ ProbeRest(p)
               \/ Discovered
               \/ FetchEntity
               \/ FetchJob

Click == \/ \E p \in Port : SelectServer(p)
         \/ \E e \in Entity : SelectEntity(e)
         \/ \E j \in Job : SelectJob(j)
         \/ \E singletons \in BOOLEAN : ShowTab(singletons)
         \/ ToggleAuto
         \/ RefreshButton
         \/ \E f \in DOMAIN FieldType : Save(f) \/ \E text \in Text \cup {Clean} : Edit(f, text)
         \/ RemoveShown

Change == \E p \in Port : \/ ServerStops(p)
                          \/ ServerStarts(p)
                          \/ \E e \in Entity : EntityDies(p, e)

ToolNext == RefreshStep \/ PollRefresh \/ AutoRefresh \/ DrawTabs \/ Click \/ Change

(* A request ends within its timeout, a frame is drawn and the clock goes. *)
ToolFairness == /\ WF_toolVars(RefreshStep)
                /\ WF_toolVars(PollRefresh)
                /\ WF_toolVars(AutoRefresh)
                /\ WF_toolVars(DrawTabs)

ToolSpec == ToolInit /\ [][ToolNext]_toolVars /\ ToolFairness
----------------------------------------------------------------------------
(* A detail is kept that is not of the selected server.  It is on show if  *)
(* its id is that of the selection, an entity's under the entities' tab.   *)
Foreign == \/ data.entityDetail # NoId /\ data.entityDetail.port # data.port
           \/ data.jobDetail # NoId /\ data.jobDetail.port # data.port

(* A refresh that ends leaves alone what the user did since it began: the  *)
(* selected entity only goes when the selected server no longer lists it   *)
(* or is gone; and the one way the detail of another server comes into the *)
(* tool, on show or under the tab that is not, is a refresh that was under *)
(* way when the user switched servers.                                     *)
SelectionStands ==
    [][/\ data'.entity # data.entity /\ PollRefresh =>
             \/ ~Ok(task.found, data.port)
             \/ data.entity \notin task.found[data.port].entities
       /\ ~Foreign /\ Foreign' => /\ PollRefresh
                                  /\ task.base.port # data.port]_toolVars

(* What is on show is of the selected server and there is something to     *)
(* show for each selection that exists.                                    *)
Settled ==
    IF \A p \in Port : world[p] = Down THEN data.port = NoId
    ELSE /\ data.port # NoId
         /\ world[data.port] # Down
         /\ ~Foreign
         /\ data.entity \in world[data.port].alive \/ world[data.port].alive = {}
         /\ (~tabs /\ world[data.port].alive # {}) => EntityShown
         /\ JobShown

(* Once the user, the servers and the network leave it alone with Auto     *)
(* ticked, the tool comes to show what is selected, and goes on showing    *)
(* it: no sequence of clicks during refreshes leaves a stale, foreign or   *)
(* missing detail for good.                                                *)
EventuallySettled == <>[]auto => <>[]Settled

(* A text that a field of the type can store digit for digit: an integer   *)
(* that is no longer than a double, a fraction no longer than the field    *)
(* and not so small or large that it is sent with an exponent, a string    *)
(* with room for its end.                                                  *)
Faithful(type, text) ==
    CASE type = "bool"       -> text <= 1
      [] type = "string"     -> text < StringSize
      [] type = "f32"        -> text <= 2 ^ FloatMantissa /\ Plain(text)
      [] type = "f64"        -> text <= 2 ^ Mantissa /\ Plain(text)
      [] OTHER -> \E n \in 0 .. 2 ^ Mantissa : text = n * One

(* A text typed over a field is only cleared by the user's Reset or when   *)
(* it is saved, and then it is in that component of the entity it was      *)
(* typed over, on the selected server, digit for digit if the field can    *)
(* store it so: one whose save failed, or may have, stays.                 *)
SavedMeansStored ==
    [][\A e \in Entity : \A f \in DOMAIN FieldType :
         (edits[e][f] # Clean /\ edits'[e][f] = Clean) =>
            \/ Edit(f, Clean)
            \/ LET stored == world'[data.port].table[Edited][e]
               IN /\ world[data.port] # Down
                  /\ stored # Missing
                  /\ Faithful(FieldType[f], edits[e][f]) => stored[f] = edits[e][f]]_toolVars
=============================================================================
