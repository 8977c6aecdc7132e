-------------------------- MODULE SnapshotFormats --------------------------
(***************************************************************************)
(* The frames of DeltaReplication written to a stream and read back, in    *)
(* the native format or in the persistent one, by the write function of    *)
(* the tracker and by the process that keeps the replica.                  *)
(*                                                                         *)
(* A component stands for its name and for the index of its entity, which  *)
(* the catalog pairs; system components, bits, string lengths and field    *)
(* lists are left out.  What serialization traits do with a value is       *)
(* Rounded, quantizing and back; what relative ones make of a payload that *)
(* was coded against another previous value is Garbage.                    *)
(*                                                                         *)
(* The group, where there is one, owns all components: a registry's view   *)
(* of all of them shows its prefix.                                        *)
(***************************************************************************)
EXTENDS DeltaReplication

CONSTANTS Rounded(_), Garbage,
          Setups        \* how writer and reader may be set up, see setup

ASSUME RoundingAssumption ==
    \A v \in Value : /\ Rounded(Rounded(v)) = Rounded(v)
                     /\ Rounded(v) \notin {Missing, Garbage}

VARIABLES
    setup,      \* format; relative: whether traits code against the previous value;
                \* include, exclude: SnapshotComponentOptions;
                \* writable: trivially copyable, or registered for serialization;
                \* readable: the same for the reader, under the same metadata;
                \* taken: indices of component entities of the reader's schema;
                \* grouped: whether both sides declare the group
    added,      \* the added entries of the source, as dirty
    pools,      \* the components the source has made storages for
    base,       \* the storages of the snapshot the reader last read, its baseline
                \* for deltas, if its traits need one
    copy,       \* the replica's change report as a full snapshot left it, and its group
    missed      \* history: a frame was not written, or a full one did not reach a
                \* replica with an earlier one, and no token shows it

fileVars   == <<base, copy, missed>>
formatVars == <<vars, setup, added, pools, fileVars>>

Matches(v) == {i \in Index : \A c \in Component : v[c][i] # Missing}

NoReport == [c \in Component |-> [dirty |-> {}, added |-> {},
                                  tombs |-> [i \in Index |-> NoRemoval]]]

FormatInit ==
    /\ Init
    /\ setup \in Setups
    /\ added = [c \in Component |-> {}] /\ pools = {}
    /\ base = <<>>
    /\ copy = [report |-> NoReport, group |-> {}]
    /\ missed = FALSE

-----------------------------------------------------------------------------
(* The source. *)

PutHere(c, i, v) ==
    /\ Put(c, i, v)
    /\ added' = IF Has(c, i) THEN added ELSE [added EXCEPT ![c] = @ \cup {i}]
    /\ pools' = pools \cup {c}
    /\ UNCHANGED <<setup, fileVars>>

Loses(i, components) ==
    /\ added' = [c \in Component |-> IF c \in components THEN added[c] \ {i} ELSE added[c]]
    /\ UNCHANGED <<setup, pools, fileVars>>

CreateHere(i)    == Create(i)    /\ Loses(i, {})
RemoveHere(c, i) == Remove(c, i) /\ Loses(i, {c})
DestroyHere(i)   == Destroy(i)   /\ Loses(i, Component)

-----------------------------------------------------------------------------
(* Snapshot objects.  A pool is what they keep of a storage.  The copy     *)
(* that clone_compact_filtered makes has no lookup from indices to cells.  *)

Pool(c, indices) ==
    [lookup |-> FALSE,
     cells |-> [i \in indices |-> [value |-> val[c][i], dirty |-> i \in dirty[c],
                                   added |-> i \in added[c]]],
     tombs |-> removal[c]]

Reported == {c \in Component : dirty[c] # {} \/ \E i \in Index : removal[c][i] # NoRemoval}

FullObject ==
    [kind |-> "full", token |-> SourceToken, baseline |-> NoToken,
     entities |-> slots, components |-> Component,
     pools |-> [c \in pools |-> Pool(c, {i \in Index : Has(c, i)})],
     group |-> Matches(val)]

DeltaObject ==
    [kind |-> "delta", token |-> Delta.token, baseline |-> Delta.baseline,
     entities |-> Delta.entities, components |-> Reported,
     pools |-> [c \in Reported |-> Pool(c, dirty[c])],
     group |-> {}]

-----------------------------------------------------------------------------
(* Writing. *)

Native == setup.format = "native"

(* snapshot_component_selected *)
Selected(c) ==
    /\ setup.include = {} \/ c \in setup.include
    /\ c \notin setup.exclude

(* Native frames hold all component records, persistent ones the names of  *)
(* those with a storage.                                                   *)
Written(s) == {c \in IF Native THEN s.components ELSE DOMAIN s.pools : Selected(c)}

(* validate_serializable_component, persistent_serialization_for *)
CanWrite(s) == Written(s) \subseteq setup.writable

(* contains_index, is_dirty.  Without a lookup is_dirty asks for the       *)
(* removal record whose position is the index, and there are fewer of them *)
(* than system entities, which have the first indices.                     *)
Contains(pool, i) == pool.lookup /\ i \in DOMAIN pool.cells
IsDirty(pool, i)  == Contains(pool, i) /\ pool.cells[i].dirty

(* baseline_quantized, for one cell of an object. *)
Previous(s, baseline, c, i) ==
    IF s.kind = "delta" /\ c \in DOMAIN baseline /\ Contains(baseline[c], i)
    THEN Rounded(baseline[c].cells[i].value) ELSE Missing

(* The serialize and deserialize of the traits. *)
Coded(previous, value)     == [against |-> previous, value |-> value]
Decoded(previous, payload) ==
    IF setup.relative /\ payload.against # previous THEN Garbage ELSE payload.value

LastFull == [c \in Component |-> Pool(c, {})]

(* write_persistent_storages: the added bits are not in the frame.  The    *)
(* writer's baseline is last_full_, where no lookup finds anything.        *)
PersistentPool(s, c) ==
    [cells |-> [i \in DOMAIN s.pools[c].cells |->
                   [dirty   |-> IsDirty(s.pools[c], i),
                    payload |-> Coded(Previous(s, LastFull, c, i),
                                      Rounded(s.pools[c].cells[i].value))]],
     tombs |-> s.pools[c].tombs]

(* Mistake: the selection is applied to the records and not to storages. *)
NativeFileOfAll(s) == [s EXCEPT !.components = Written(s)]

(* write_snapshot_common: the groups whole, whatever is selected. *)
NativeFile(s) ==
    [s EXCEPT !.components = Written(s),
              !.pools = [c \in Written(s) \cap DOMAIN s.pools |-> s.pools[c]]]

(* write_persistent_snapshot, write_persistent_delta_snapshot *)
PersistentFile(s) ==
    [s EXCEPT !.components = Written(s),
              !.pools = [c \in Written(s) |-> PersistentPool(s, c)],
              !.group = {}]

File(s) == IF Native THEN NativeFile(s) ELSE PersistentFile(s)

-----------------------------------------------------------------------------
(* Reading. *)

(* emplace_or_replace_* in the storage that is built: a new entry. *)
Emplaced(v) == [value |-> v, dirty |-> TRUE, added |-> TRUE]
Cleared(cell) == [cell EXCEPT !.dirty = FALSE, !.added = FALSE]

(* Mistake: the added bit is never cleared alone. *)
ReadCellAdded(x) == IF x.dirty THEN Emplaced(x.value) ELSE Cleared(Emplaced(x.value))

(* read_storage *)
ReadCell(x) ==
    IF ~x.dirty THEN Cleared(Emplaced(x.value))
    ELSE IF ~x.added THEN [Emplaced(x.value) EXCEPT !.added = FALSE]
    ELSE Emplaced(x.value)

(* read_persistent_storage *)
ReadPersistentCell(f, c, i) ==
    LET x == f.pools[c].cells[i]
        v == Emplaced(Decoded(Previous(f, base, c, i), x.payload))
    IN  IF x.dirty THEN v ELSE Cleared(v)

(* rebuild_lookup; what is emplaced one by one has its lookup anyway. *)
ReadPool(f, c) ==
    [lookup |-> TRUE,
     cells |-> [i \in DOMAIN f.pools[c].cells |->
                   IF Native THEN ReadCell(f.pools[c].cells[i])
                   ELSE ReadPersistentCell(f, c, i)],
     tombs |-> f.pools[c].tombs]

(* The names, the metadata and the serialization a persistent frame needs. *)
CanRead(f) == Native \/ f.components \subseteq setup.readable

(* A full persistent frame is read over a snapshot of the schema: its      *)
(* entities keep their slots, its components are all there, and its groups *)
(* have the size they have in it, which has none of the entities.          *)
ReadObject(f) ==
    LET own == f.kind = "full" /\ ~Native
        read == [f EXCEPT !.pools = [c \in DOMAIN f.pools |-> ReadPool(f, c)]]
    IN  IF ~own THEN read
        ELSE [read EXCEPT
                 !.entities = [i \in Index |-> IF i \in setup.taken
                                               THEN [live |-> TRUE, version |-> 1] ELSE @[i]],
                 !.components = Component,
                 !.group = {}]

-----------------------------------------------------------------------------
(* Restoring what was read. *)

CellsOf(s, c)   == IF c \in DOMAIN s.pools THEN s.pools[c].cells ELSE <<>>
TombsOf(s, c)   == IF c \in DOMAIN s.pools THEN s.pools[c].tombs ELSE NoReport[c].tombs
Marked(s, c, b) == {i \in DOMAIN CellsOf(s, c) : CellsOf(s, c)[i][b]}

ValuesOf(s) ==
    [c \in Component |-> [i \in Index |->
        IF i \in DOMAIN CellsOf(s, c) THEN CellsOf(s, c)[i].value ELSE Missing]]

ReportOf(s) ==
    [c \in Component |-> [dirty |-> Marked(s, c, "dirty"), added |-> Marked(s, c, "added"),
                          tombs |-> TombsOf(s, c)]]

(* rebind_typed_components_by_registered_names: a typed component of this  *)
(* process with other metadata than the restored one of its name.          *)
Misbound(s) == Native /\ ~(s.components \subseteq setup.readable)

(* Mistake: the groups stay those of the registry. *)
RestoreFullKeepingGroups(s) ==
    /\ replica' = [slots |-> s.entities, val |-> ValuesOf(s),
                   token |-> IF Misbound(s) THEN replica.token ELSE s.token]
    /\ copy' = [report |-> ReportOf(s), group |-> copy.group]
    /\ status' = IF Misbound(s) THEN "broken" ELSE "restored"
    /\ origin' = IF Misbound(s) THEN origin ELSE "full"

(* restore_snapshot.  When rebinding throws, the entities, the records and *)
(* the storages are new, and the groups and the token are not.             *)
RestoreFull(s) ==
    /\ replica' = [slots |-> s.entities, val |-> ValuesOf(s),
                   token |-> IF Misbound(s) THEN replica.token ELSE s.token]
    /\ copy' = [report |-> ReportOf(s), group |-> IF Misbound(s) THEN copy.group ELSE s.group]
    /\ status' = IF Misbound(s) THEN "broken" ELSE "restored"
    /\ origin' = IF Misbound(s) THEN origin ELSE "full"

AsDelta(s) ==
    [baseline |-> s.baseline, token |-> s.token, entities |-> s.entities,
     values  |-> [c \in Component |->
                     [i \in DOMAIN CellsOf(s, c) |-> CellsOf(s, c)[i].value]],
     removal |-> [c \in Component |-> TombsOf(s, c)]]

(* remove_from_groups_before_component_removal, refresh_group_after_add *)
Regrouped(d) ==
    LET left    == Destroyed(d) \cup UNION {RemovedIn(d, c) : c \in Component}
        touched == UNION {DOMAIN d.values[c] : c \in Component}
    IN  {i \in Matches(replica'.val) : i \in (copy.group \ left) \cup touched}

RestoreDeltaObject(s) ==
    /\ RestoreDelta(AsDelta(s))
    /\ IF status' = "restored"
       THEN copy' = [report |-> NoReport, group |-> Regrouped(AsDelta(s))]
       ELSE IF status' = "broken"
       THEN \E g \in SUBSET Matches(replica'.val) : copy' = [report |-> NoReport, group |-> g]
       ELSE UNCHANGED copy

Restore(s) == IF s.kind = "full" THEN RestoreFull(s) ELSE RestoreDeltaObject(s)

-----------------------------------------------------------------------------
(* A broadcast: the tracker makes the object and its write function the    *)
(* file, which is lost or read and restored.                               *)

Unread == status' = "unread" /\ UNCHANGED <<replica, origin, base, copy>>

Deliver(f) ==
    IF ~CanRead(f) THEN Unread
    ELSE /\ Restore(ReadObject(f))
         /\ base' = IF f.kind = "full" /\ setup.relative THEN ReadObject(f).pools ELSE base

(* The faults of DeltaReplication. *)
MayLose(s) == \/ s.kind = "delta" /\ "delta" \in Faults
              \/ s.kind = "full" /\ (IF AtFull THEN "refull" ELSE "full") \in Faults

(* Mistake: a full frame does not reset last_delta_. *)
SendKeepingDelta(s) ==
    /\ CanWrite(s)
    /\ \/ Deliver(File(s))
       \/ MayLose(s) /\ Lose /\ UNCHANGED <<base, copy>>
    /\ last' = IF s.kind = "full" /\ last.token > SourceToken THEN last
               ELSE [token |-> s.token, entities |-> s.entities]
    /\ missed' = IF s.kind = "delta" THEN missed
                 ELSE status' # "restored" /\ (missed \/ AtFull)

Send(s) ==
    /\ CanWrite(s)
    /\ \/ Deliver(File(s))
       \/ MayLose(s) /\ Lose /\ UNCHANGED <<base, copy>>
    /\ last' = [token |-> s.token, entities |-> s.entities]
    /\ missed' = IF s.kind = "delta" THEN missed
                 ELSE status' # "restored" /\ (missed \/ AtFull)

(* write throws: last_full_ and last_delta_ stay what they were. *)
FailToWrite(s) ==
    /\ ~CanWrite(s)
    /\ status' = "unwritten" /\ missed' = TRUE
    /\ UNCHANGED <<last, replica, origin, base, copy>>

FileBroadcast ==
    /\ LET s == IF FullIsDue THEN FullObject ELSE DeltaObject
       IN  /\ Send(s) \/ FailToWrite(s)
           /\ issued' = IF FullIsDue THEN issued ELSE issued + 1
    /\ frames' = (frames + 1) % Interval
    /\ dirty' = [c \in Component |-> {}] /\ added' = [c \in Component |-> {}]
    /\ removal' = [c \in Component |-> [i \in Index |-> NoRemoval]]
    /\ sent' = [slots |-> slots, val |-> val]
    /\ brief' = FALSE
    /\ UNCHANGED <<slots, val, setup, pools>>

FormatNext ==
    \/ \E i \in Index :
          \/ CreateHere(i) \/ DestroyHere(i)
          \/ \E c \in Component : RemoveHere(c, i) \/ \E v \in Value : PutHere(c, i, v)
    \/ FileBroadcast

FormatSpec == FormatInit /\ [][FormatNext]_formatVars

-----------------------------------------------------------------------------
(* What a component's values are once they have been through the format. *)
Shown(v) ==
    [c \in Component |-> [i \in Index |->
        IF Native \/ v[c][i] = Missing THEN v[c][i] ELSE Rounded(v[c][i])]]

(* What a view of all components visits. *)
Visited == IF setup.grouped THEN copy.group ELSE Matches(replica.val)

(* A frame that came through restores, of the components that were         *)
(* selected and nowhere else, the values the source had, quantized where   *)
(* the format quantizes, under the same handles: whatever was filtered,    *)
(* lost or refused before, and whichever baseline each side coded against. *)
(* Not where the schema has entities of its own, not after a frame that    *)
(* was missed until the next full one, and not once a delta has fitted a   *)
(* replica that no full frame had reached, until one does.  "After         *)
(* declaration, matching views automatically use the owned group prefix"   *)
(* (README), which holds all matches: so a view of the replica visits      *)
(* every entity that has the components.                                   *)
RestoredExact ==
    status = "restored" /\ ~missed /\ origin # "chance" =>
        /\ \A i \in Index \ setup.taken : replica.slots[i] = sent.slots[i]
        /\ \A c \in Component :
              replica.val[c] = IF Selected(c) THEN Shown(sent.val)[c] ELSE Nowhere[c]
        /\ Visited = Matches(replica.val)

(* "ComponentSerializationTraits<T> ... to quantize and serialize present  *)
(* component values" (README), and the test of persistent deltas reads     *)
(* back the value it wrote with traits that code against the previous one: *)
(* what was coded can be decoded.                                          *)
NothingGarbled ==
    \A c \in Component, i \in Index : replica.val[c][i] # Garbage

(* A full native frame carries the change report: what was added, dirty    *)
(* and removed in the source is so in the replica; of a persistent one the *)
(* removals are.                                                           *)
ReportRestored ==
    [][FileBroadcast /\ issued' = issued /\ status' = "restored" =>
          \A c \in {x \in Component : Selected(x)} :
             /\ copy'.report[c].tombs = removal[c]
             /\ Native => /\ copy'.report[c].dirty = dirty[c]
                          /\ copy'.report[c].added = added[c]]_formatVars

(* With everything selected, written and read, files are transparent: the  *)
(* replica does what DeltaReplication says of frames handed over in        *)
(* memory, of the values as the format shows them.                         *)
Memory == INSTANCE DeltaReplication WITH
             Value <- Value \cup {Rounded(v) : v \in Value},
             val   <- Shown(val),
             sent  <- [slots |-> sent.slots, val |-> Shown(sent.val)]

Transparent == /\ setup.include = {} /\ setup.exclude = {} /\ setup.taken = {}
               /\ setup.writable = Component /\ setup.readable = Component

ImplementsReplication == [][Transparent => [Memory!Next]_(Memory!vars)]_formatVars
=============================================================================
