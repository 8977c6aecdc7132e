-------------------------- MODULE ComponentCatalog --------------------------
(***************************************************************************)
(* What the registry knows about component types, and the views that       *)
(* remember it.  A component is itself an entity with a record; a record   *)
(* is found by its name or by its type's key.  A C++ type is known by a    *)
(* token (an address, one per module that uses the type) and a key (its    *)
(* name, the same in all modules); the typed bindings cache which          *)
(* component and which storage a token stands for.  All registries of the  *)
(* process share a list of the types that were ever registered, which      *)
(* restore_snapshot uses to bind them again.  A view keeps the storages    *)
(* and the group it found until the topology token moves.                  *)
(*                                                                         *)
(* Values, fields, hooks, dirty marks and the order inside a storage or a  *)
(* group are left out, as are singletons and the built-in components.      *)
(* Types with the same key have the same metadata.                         *)
(***************************************************************************)
EXTENDS EntityStore, FiniteSets

CONSTANTS
    Token, Name, None,
    KeyOf(_),   \* the key of a token's type
    InfoOf(_),  \* the metadata of the type with a key
    Setups      \* what the programs looked at do

(* A setup says which names each token is registered with, the names and   *)
(* metadata of runtime components, the <<token, name>> pairs registered in *)
(* other registries of the process, the types of the view and of the owned *)
(* groups, and (for the runs) which other operations the program uses.     *)
ASSUME SetupAssumption ==
    \A u \in Setups : /\ u.names \in [Token -> SUBSET Name]
                      /\ u.elsewhere \subseteq Token \X Name
                      /\ u.owned \subseteq Seq(Token)
                      /\ u.types \in Seq(Token)

(* None is no key, no index and no entity.                                 *)
ASSUME NoneAssumption ==
    /\ \A t \in Token : KeyOf(t) # None
    /\ None \notin Nat
    /\ \A i, v \in Index \cup Version : None # [index |-> i, version |-> v]

VARIABLES
    setup,
    catalog,    \* component_catalog_: records, names, type_keys
    bindings,   \* typed_bindings, typed_bindings_by_token, .._by_type_key
    recorded,   \* typed_component_bindings(), shared by all registries
    storages,   \* storages: the object and the entities at each component's index
    stamp,      \* how often a storage was made or a snapshot restored
    groups,     \* group_index_.groups, each its owned component indices
    deferring,  \* defer_enters_depth # 0
    topology,   \* view_topology_token
    jobs,       \* the entities of the registered jobs
    view,       \* a view the program keeps
    saved,      \* a snapshot the program keeps
    gone,       \* history: the storages and groups unregistering destroyed
    failed      \* history: restore_snapshot threw half way

catalogVars == <<setup, catalog, bindings, recorded, storages, stamp, groups,
                 deferring, topology, jobs, view, saved, gone, failed>>

storeVars == vars

allVars == <<storeVars, catalogVars>>

Without(f, S) == [x \in DOMAIN f \ S |-> f[x]]
With(f, x, v) == [y \in DOMAIN f \cup {x} |-> IF y = x THEN v ELSE f[y]]

(* The least index of S, or the null link. *)
Least(S) == IF S = {} THEN InvalidIndex ELSE CHOOSE i \in S : \A j \in S : i <= j

Handle(i) == [index |-> i, version |-> Slot(i).version]

(* The handle the next create() returns. *)
NextHandle == IF free_head # InvalidIndex
              THEN Handle(free_head) ELSE [index |-> Len(slots), version |-> 1]

Create == Recycle \/ Grow
-----------------------------------------------------------------------------
(* Bindings.  A binding that was reset has no component. *)

NoBindings == [list |-> <<>>, tokens |-> <<>>, keys |-> <<>>]

Unbound == [token |-> None, key |-> None, component |-> None, storage |-> None]

(* find_typed_binding: the component the token is bound to. *)
BoundTo(b, t) == IF t \in DOMAIN b.tokens THEN b.list[b.tokens[t]].component ELSE None

(* bind_typed_component throws when the key stands for another component. *)
Clashes(b, k, c) == k \in DOMAIN b.keys /\ b.list[b.keys[k]].component # c

Bound(b, t, k, c, object) ==
    IF k \in DOMAIN b.keys
    THEN [b EXCEPT !.tokens = With(@, t, b.keys[k])]
    ELSE [list |-> Append(b.list, [token |-> t, key |-> k, component |-> c,
                                   storage |-> object]),
          tokens |-> With(b.tokens, t, Len(b.list) + 1),
          keys |-> With(b.keys, k, Len(b.list) + 1)]

(* unregister_component_entity on the bindings; tokens of other modules    *)
(* keep the position of the binding that was reset.                        *)
Released(b, c) ==
    LET held == {n \in DOMAIN b.list : b.list[n].component = c}
    IN [list |-> [n \in DOMAIN b.list |-> IF n \in held THEN Unbound ELSE b.list[n]],
        tokens |-> Without(b.tokens, {b.list[n].token : n \in held}),
        keys |-> Without(b.keys, {b.list[n].key : n \in held})]
-----------------------------------------------------------------------------
(* Lookup. *)

(* find_component_record *)
Registered(h) == /\ Alive(h) /\ h.index \in DOMAIN catalog.records
                 /\ catalog.records[h.index].entity = h

(* find_storage: the object for a component's index. *)
Object(i) == IF i \in DOMAIN storages THEN storages[i].object ELSE None

(* registered_component<T>: the token's binding, else the binding of its   *)
(* key, else the record of its key; None where it throws.                  *)
Resolve(b, t) ==
    LET k == KeyOf(t)
    IN IF BoundTo(b, t) # None THEN BoundTo(b, t)
       ELSE IF k \in DOMAIN b.keys THEN b.list[b.keys[k]].component
       ELSE IF k \in DOMAIN catalog.type_keys
            THEN catalog.records[catalog.type_keys[k]].entity
       ELSE None

(* It binds what it has found, in a registry that is const. *)
Cached(b, t) ==
    IF BoundTo(b, t) # None \/ Resolve(b, t) = None THEN b
    ELSE Bound(b, t, KeyOf(t), Resolve(b, t), Object(Resolve(b, t).index))

(* The bindings after looking up some types: the first failure ends it. *)
CachedAll(ts) ==
    LET c[n \in 0 .. Len(ts)] ==
          IF n = 0 THEN bindings
          ELSE IF \E m \in 1 .. n : Resolve(bindings, ts[m]) = None THEN c[n - 1]
          ELSE Cached(c[n - 1], ts[n])
    IN c[Len(ts)]

Known(ts) == \A n \in DOMAIN ts : Resolve(bindings, ts[n]) # None

Key(ts) == {Resolve(bindings, ts[n]).index : n \in DOMAIN ts}
-----------------------------------------------------------------------------
Nothing == [storages |-> {}, groups |-> {}]

CatalogInit ==
    /\ Init
    /\ setup \in Setups
    /\ catalog = [records |-> <<>>, names |-> <<>>, type_keys |-> <<>>]
    /\ bindings = NoBindings
    /\ recorded = <<>>
    /\ storages = <<>> /\ stamp = 0
    /\ groups = {} /\ deferring = FALSE /\ topology = 1
    /\ jobs = {} /\ view = None /\ saved = None
    /\ gone = Nothing /\ failed = FALSE

(* What an operation that changes the catalog alone leaves as it is. *)
Elsewhere == UNCHANGED <<setup, storages, stamp, groups, deferring, topology,
                         jobs, view, saved, gone, failed>>

(* record_typed_component_binding: one entry for a key, the last token and *)
(* name win.                                                               *)
Recorded(t, n) ==
    LET entry == [token |-> t, name |-> n]
        same == {p \in DOMAIN recorded : KeyOf(recorded[p].token) = KeyOf(t)}
    IN IF same = {} THEN Append(recorded, entry)
       ELSE [p \in DOMAIN recorded |-> IF p \in same THEN entry ELSE recorded[p]]

(* How register_component<T> ends once there is a component with a record: *)
(* the process remembers the type, then the token is bound, which may      *)
(* throw.                                                                  *)
Finish(t, c, n) ==
    /\ recorded' = Recorded(t, n)
    /\ bindings' = IF Clashes(bindings, KeyOf(t), c) THEN bindings
                   ELSE Bound(bindings, t, KeyOf(t), c, Object(c.index))

(* The token is bound already: its component is returned. *)
RegisterAgain(t) ==
    /\ BoundTo(bindings, t) # None
    /\ UNCHANGED allVars

(* Mistake: the key is not entered. *)
AdoptedByName(i, k) == [catalog EXCEPT !.records[i].key = k]

(* The component at index i becomes the one of the type with key k. *)
Adopted(i, k) == [catalog EXCEPT !.records[i].key = k, !.type_keys = With(@, k, i)]

(* A component has the name.  It becomes the type's own, if its metadata   *)
(* agree and it is not another type's.                                     *)
RegisterNamed(t, n) ==
    /\ BoundTo(bindings, t) = None
    /\ n \in DOMAIN catalog.names
    /\ LET i == catalog.names[n]
           r == catalog.records[i]
       IN IF r.info # InfoOf(KeyOf(t)) \/ r.key \notin {None, KeyOf(t)}
          THEN UNCHANGED <<catalog, recorded, bindings>>
          ELSE /\ catalog' = Adopted(i, KeyOf(t))
               /\ Finish(t, r.entity, n)
    /\ UNCHANGED storeVars /\ Elsewhere

(* The type has a component under another name, and keeps it. *)
RegisterKeyed(t, n) ==
    /\ BoundTo(bindings, t) = None
    /\ n \notin DOMAIN catalog.names /\ KeyOf(t) \in DOMAIN catalog.type_keys
    /\ LET r == catalog.records[catalog.type_keys[KeyOf(t)]]
       IN Finish(t, r.entity, r.name)
    /\ UNCHANGED <<storeVars, catalog>> /\ Elsewhere

(* The catalog with a new component; k is None for a runtime component. *)
WithRecord(n, k, info) ==
    LET i == NextHandle.index
    IN [records |-> With(catalog.records, i,
                         [entity |-> NextHandle, name |-> n, key |-> k, info |-> info]),
        names |-> With(catalog.names, n, i),
        type_keys |-> IF k = None THEN catalog.type_keys
                      ELSE With(catalog.type_keys, k, i)]

RegisterNew(t, n) ==
    /\ BoundTo(bindings, t) = None
    /\ n \notin DOMAIN catalog.names /\ KeyOf(t) \notin DOMAIN catalog.type_keys
    /\ Create
    /\ catalog' = WithRecord(n, KeyOf(t), InfoOf(KeyOf(t)))
    /\ Finish(t, NextHandle, n)
    /\ Elsewhere

Register(t, n) == \/ RegisterAgain(t) \/ RegisterNamed(t, n)
                  \/ RegisterKeyed(t, n) \/ RegisterNew(t, n)

(* register_component(desc) and register_tag: a name that is taken returns *)
(* its component or throws.                                                *)
RegisterRuntime(n, info) ==
    /\ n \notin DOMAIN catalog.names
    /\ Create
    /\ catalog' = WithRecord(n, None, info)
    /\ UNCHANGED <<bindings, recorded>> /\ Elsewhere

(* Another registry of the process registers the type. *)
RegisterElsewhere(t, n) ==
    /\ recorded' = Recorded(t, n)
    /\ UNCHANGED <<storeVars, catalog, bindings>> /\ Elsewhere

(* registered_component<T> by itself. *)
Lookup(t) ==
    /\ bindings' = Cached(bindings, t)
    /\ UNCHANGED <<storeVars, catalog, recorded>> /\ Elsewhere
-----------------------------------------------------------------------------
(* Entities, components on them, and jobs. *)

CreateUser ==
    /\ Create
    /\ UNCHANGED <<catalog, bindings, recorded>> /\ Elsewhere

(* add_job: the entity carries the system and the job tag. *)
AddJob ==
    /\ Create
    /\ jobs' = jobs \cup {NextHandle}
    /\ UNCHANGED <<setup, catalog, bindings, recorded, storages, stamp, groups,
                   deferring, topology, view, saved, gone, failed>>

(* Mistake: storages are made without moving the topology token. *)
SameTopology(S) == topology

(* storage_for makes the storages of the components in S, which have none  *)
(* yet.  It moves the topology token for each of them.                     *)
StorageTopology(S) == topology + Cardinality(S)

WithStorages(S) ==
    [i \in DOMAIN storages \cup {c.index : c \in S} |->
        IF i \in DOMAIN storages THEN storages[i]
        ELSE [object |-> <<stamp + 1, i>>, entities |-> {}]]

(* Mistake: the storage a binding remembers is not refreshed. *)
ReboundNever(b, S) == b

(* refresh_typed_storage_bindings *)
Rebound(b, S) ==
    [b EXCEPT !.list = [n \in DOMAIN b.list |->
        LET c == b.list[n].component
        IN IF c \in S THEN [b.list[n] EXCEPT !.storage = <<stamp + 1, c.index>>]
           ELSE b.list[n]]]

New(S) == {c \in S : c.index \notin DOMAIN storages}

(* add<T>(h): it throws when the component's entity is dead, and makes the *)
(* storage the first time.                                                 *)
Add(t, h) ==
    /\ Alive(h) /\ Resolve(bindings, t) # None
    /\ LET c == Resolve(bindings, t)
           made == New({c})
       IN IF ~Registered(c)
          THEN bindings' = Cached(bindings, t) /\ UNCHANGED <<storages, stamp, topology>>
          ELSE /\ bindings' = Rebound(Cached(bindings, t), made)
               /\ storages' = [WithStorages(made) EXCEPT ![c.index].entities = @ \cup {h.index}]
               /\ stamp' = stamp + Cardinality(made)
               /\ topology' = StorageTopology(made)
    /\ UNCHANGED <<storeVars, setup, catalog, recorded, groups, deferring,
                   jobs, view, saved, gone, failed>>

(* destroy(h) of an entity that is no component. *)
DestroyUser(h) ==
    /\ Alive(h) /\ ~Registered(h)
    /\ Retire(h)
    /\ storages' = [c \in DOMAIN storages |-> [storages[c] EXCEPT !.entities = @ \ {h.index}]]
    /\ UNCHANGED <<setup, catalog, bindings, recorded, stamp, groups, deferring,
                   topology, jobs, view, saved, gone, failed>>

(* destroy(c) of a component's entity, with unregister_component_entity.   *)
(* Its groups, its storage, its names and its bindings go; the topology    *)
(* token stays.                                                            *)
DestroyComponent(c) ==
    /\ Registered(c)
    /\ Retire(c)
    /\ LET r == catalog.records[c.index]
           left == {g \in groups : c.index \notin g}
       IN /\ catalog' = [records |-> Without(catalog.records, {c.index}),
                         names |-> Without(catalog.names, {r.name}),
                         type_keys |-> Without(catalog.type_keys, {r.key})]
          /\ groups' = left
          /\ gone' = [storages |-> gone.storages \cup ({Object(c.index)} \ {None}),
                       groups |-> gone.groups \cup (groups \ left)]
    /\ storages' = [i \in DOMAIN storages \ {c.index} |->
                       [storages[i] EXCEPT !.entities = @ \ {c.index}]]
    /\ bindings' = Released(bindings, c)
    /\ UNCHANGED <<setup, recorded, stamp, deferring, topology, jobs, view, saved, failed>>
-----------------------------------------------------------------------------
(* Owned groups and views. *)

(* The types up to the first whose lookup or storage_for throws. *)
Reached(ts) ==
    LET fails == {n \in DOMAIN ts : \/ Resolve(bindings, ts[n]) = None
                                    \/ ~Registered(Resolve(bindings, ts[n]))}
    IN SubSeq(ts, 1, Least(fails \cup {Len(ts)}))

(* declare_owned_group: a storage for each type, then group_for_key of the *)
(* components' indices.  A group that exists is returned; a component of   *)
(* another group makes it throw.                                           *)
DeclareGroup(ts) ==
    LET some == {Resolve(bindings, Reached(ts)[n]) : n \in DOMAIN Reached(ts)} \ {None}
        made == New({c \in some : Registered(c)})
        whole == Known(ts) /\ \A c \in some : Registered(c)
    IN /\ bindings' = Rebound(CachedAll(Reached(ts)), made)
       /\ storages' = WithStorages(made)
       /\ stamp' = IF made = {} THEN stamp ELSE stamp + 1
       /\ IF whole /\ \A g \in groups : g \cap Key(ts) = {}
          THEN groups' = groups \cup {Key(ts)} /\ topology' = StorageTopology(made) + 1
          ELSE topology' = StorageTopology(made) /\ UNCHANGED groups
       /\ UNCHANGED <<storeVars, setup, catalog, recorded,
                      deferring, jobs, view, saved, gone, failed>>

(* begin_deferred_group_enters and end_deferred_group_enters. *)
Defer ==
    /\ deferring' = ~deferring
    /\ topology' = IF groups = {} THEN topology ELSE topology + 1
    /\ UNCHANGED <<storeVars, setup, catalog, bindings, recorded, storages, stamp,
                   groups, jobs, view, saved, gone, failed>>

(* best_group_for_view: the groups of the most owned components among the  *)
(* view's; the smaller group wins between equals.                          *)
Best(key) ==
    LET fits == {g \in groups : g \subseteq key}
    IN IF deferring \/ fits = {} THEN {None}
       ELSE {g \in fits : \A f \in fits : Cardinality(f) <= Cardinality(g)}

(* What a view finds: resolve_query_storage of each type, and the group. *)
Resolved(ts) ==
    {[types |-> ts, token |-> topology, group |-> g,
      storages |-> [n \in DOMAIN ts |-> Object(Resolve(bindings, ts[n]).index)]]
       : g \in Best(Key(ts))}

(* registry.view<...>(); it throws when a type is not registered. *)
MakeView(ts) ==
    /\ bindings' = CachedAll(ts)
    /\ IF Known(ts) THEN view' \in Resolved(ts) ELSE UNCHANGED view
    /\ UNCHANGED <<storeVars, setup, catalog, recorded, storages, stamp, groups,
                   deferring, topology, jobs, saved, gone, failed>>

(* refresh_query_state, at every use of the view: nothing happens while    *)
(* the token is the one the view has seen.                                 *)
UseView ==
    /\ view # None
    /\ IF view.token = topology
       THEN UNCHANGED <<bindings, view>>
       ELSE /\ bindings' = CachedAll(view.types)
            /\ IF Known(view.types) THEN view' \in Resolved(view.types)
               ELSE UNCHANGED view
    /\ UNCHANGED <<storeVars, setup, catalog, recorded, storages, stamp, groups,
                   deferring, topology, jobs, saved, gone, failed>>
-----------------------------------------------------------------------------
(* Snapshots. *)

Held(cells, i) == cells[i + 1].link = i /\ cells[i + 1].version # 0

Dead(cells) == {i \in 0 .. Len(cells) - 1 : ~Held(cells, i)}

(* Mistake: the links are made lowest first, each to the one before. *)
RelinkedUpwards(cells) ==
    [p \in DOMAIN cells |->
        IF Held(cells, p - 1) THEN cells[p]
        ELSE [link |-> Least({i \in Dead(cells) : i < p - 1}),
              version |-> IF cells[p].version = 0 THEN 1 ELSE cells[p].version]]

(* rebuild_free_list: the dead slots, the lowest first. *)
Relinked(cells) ==
    [p \in DOMAIN cells |->
        IF Held(cells, p - 1) THEN cells[p]
        ELSE [link |-> Least({i \in Dead(cells) : i >= p}),
              version |-> IF cells[p].version = 0 THEN 1 ELSE cells[p].version]]

(* The free list of a restored registry, for the history of freed indices. *)
Descending(S) == [n \in 1 .. Cardinality(S) |->
                     CHOOSE i \in S : Cardinality({j \in S : j > i}) = n - 1]

Blank == [link |-> 0, version |-> 0]

(* is_snapshot_excluded_index, for the jobs' entities: a component's index *)
(* is never left out.                                                      *)
Excluded == {h.index : h \in {j \in jobs : Alive(j)}} \ DOMAIN catalog.records

(* create_snapshot *)
Snapshot ==
    /\ saved' = [slots |-> Relinked([p \in DOMAIN slots |->
                              IF p - 1 \in Excluded THEN Blank ELSE slots[p]]),
                 records |-> catalog.records, names |-> catalog.names,
                 entities |-> [c \in DOMAIN storages |-> storages[c].entities \ Excluded],
                 groups |-> groups]
    /\ UNCHANGED <<storeVars, setup, catalog, bindings, recorded, storages, stamp,
                   groups, deferring, topology, jobs, view, gone, failed>>

(* Mistake: the jobs' entities are not put back. *)
Forgotten(cells) == cells

(* Mistake: slots the snapshot does not have stay as they are. *)
MergedOver(cells) ==
    LET kept == {j \in jobs : Alive(j)}
    IN [p \in 1 .. Len(slots) |->
          IF (\E h \in kept : h.index = p - 1) \/ p > Len(cells)
          THEN slots[p] ELSE cells[p]]

(* merge_current_system_entities: the jobs' entities take their indices    *)
(* back, whatever the snapshot has there.                                  *)
Merged(cells) ==
    LET kept == {j \in jobs : Alive(j)}
        most == {h.index + 1 : h \in kept} \cup {Len(cells)}
    IN [p \in 1 .. CHOOSE m \in most : \A n \in most : n <= m |->
          IF \E h \in kept : h.index = p - 1
          THEN slots[p]
          ELSE IF p <= Len(cells) THEN cells[p] ELSE Blank]

(* Where rebind_typed_components_by_registered_names looks for the         *)
(* component of a remembered type: its key, then its name.                 *)
Found(entry, c) ==
    IF KeyOf(entry.token) \in DOMAIN c.type_keys THEN c.type_keys[KeyOf(entry.token)]
    ELSE IF entry.name \in DOMAIN c.names THEN c.names[entry.name]
    ELSE None

Mismatch(entry, c) ==
    /\ Found(entry, c) # None
    /\ c.records[Found(entry, c)].info # InfoOf(KeyOf(entry.token))

(* The bindings it makes; it throws at the first mismatch. *)
Rebinding(c, objects) ==
    LET b[n \in 0 .. Len(recorded)] ==
          IF n = 0 THEN NoBindings
          ELSE IF \/ \E m \in 1 .. n : Mismatch(recorded[m], c)
                  \/ Found(recorded[n], c) = None
          THEN b[n - 1]
          ELSE LET i == Found(recorded[n], c)
               IN Bound(b[n - 1], recorded[n].token, KeyOf(recorded[n].token),
                        c.records[i].entity,
                        IF i \in DOMAIN objects THEN objects[i].object ELSE None)
    IN b[Len(recorded)]

Keys(records) == {records[i].key : i \in DOMAIN records} \ {None}

(* restore_snapshot.  When binding the types again throws, the slots, the  *)
(* catalog and the storages are the snapshot's already, the groups are     *)
(* not, and the topology token has not moved.                              *)
Restore ==
    /\ saved # None /\ ~failed
    /\ slots' = Relinked(Merged(saved.slots))
    /\ free_head' = Least(Dead(slots'))
    /\ freed' = Descending(Dead(slots'))
    /\ \E key_index \in [Keys(saved.records) -> DOMAIN saved.records] :
          /\ \A k \in DOMAIN key_index : saved.records[key_index[k]].key = k
          /\ catalog' = [records |-> saved.records, names |-> saved.names,
                         type_keys |-> key_index]
    /\ storages' = [i \in DOMAIN saved.entities |->
                       [object |-> <<stamp + 1, i>>, entities |-> saved.entities[i]]]
    /\ stamp' = stamp + 1
    /\ bindings' = Rebinding(catalog', storages')
    /\ IF \E n \in DOMAIN recorded : Mismatch(recorded[n], catalog')
       THEN failed' = TRUE /\ UNCHANGED <<groups, topology>>
       ELSE groups' = saved.groups /\ topology' = topology + 1 /\ UNCHANGED failed
    /\ gone' = Nothing
    /\ UNCHANGED <<epoch, issued, peak, setup, recorded, deferring, jobs,
                   view, saved>>
-----------------------------------------------------------------------------
(* What the program does; add<T> and destroy are called with live handles, *)
(* destroy not with a job's entity.                                        *)
CatalogNext ==
    \/ \E t \in Token : Lookup(t) \/ \E n \in setup.names[t] : Register(t, n)
    \/ \E pair \in setup.runtime : RegisterRuntime(pair[1], pair[2])
    \/ \E pair \in setup.elsewhere : RegisterElsewhere(pair[1], pair[2])
    \/ CreateUser \/ AddJob
    \/ \E h \in LiveHandles :
          \/ \E t \in Token : Add(t, h)
          \/ h \notin jobs /\ (DestroyUser(h) \/ DestroyComponent(h))
    \/ \E ts \in setup.owned : DeclareGroup(ts)
    \/ Defer \/ MakeView(setup.types) \/ UseView
    \/ Snapshot \/ Restore

CatalogSpec == CatalogInit /\ [][CatalogNext]_allVars

(* The names the type with key k is registered with, here or elsewhere.    *)
KnownAs(u, k) ==
    {x \in Name : \/ \E t \in Token : KeyOf(t) = k /\ x \in u.names[t]
                  \/ \E pair \in u.elsewhere : KeyOf(pair[1]) = k /\ pair[2] = x}

RuntimeNames(u) == {pair[1] : pair \in u.runtime}

TypeKey == {KeyOf(t) : t \in Token}

(* The program uses names in an orderly way: a type with more than one     *)
(* name has none that a runtime component has too, and two types of equal  *)
(* metadata share no name.                                                 *)
Orderly(u) ==
    \A k \in TypeKey :
        /\ \A x, y \in KnownAs(u, k) : x # y => x \notin RuntimeNames(u)
        /\ \A l \in TypeKey : k # l /\ InfoOf(k) = InfoOf(l)
                                 => KnownAs(u, k) \cap KnownAs(u, l) = {}
-----------------------------------------------------------------------------
TakenByJob(i) == \E j \in jobs : j.index = i

(* Names, keys and records agree: every name and every key leads to the    *)
(* record that carries it, no record has lost its name or its key, and a   *)
(* record's entity is alive on the record's index, unless a job took the   *)
(* index in a restore (register_component_impl, unregister_component_      *)
(* entity, restore_snapshot).                                              *)
CatalogAgrees ==
    /\ \A n \in DOMAIN catalog.names :
          /\ catalog.names[n] \in DOMAIN catalog.records
          /\ catalog.records[catalog.names[n]].name = n
    /\ \A k \in DOMAIN catalog.type_keys :
          /\ catalog.type_keys[k] \in DOMAIN catalog.records
          /\ catalog.records[catalog.type_keys[k]].key = k
    /\ \A i \in DOMAIN catalog.records :
          LET r == catalog.records[i]
          IN /\ r.name \in DOMAIN catalog.names
             /\ r.key # None => r.key \in DOMAIN catalog.type_keys
             /\ r.entity.index = i
             /\ Alive(r.entity) \/ TakenByJob(i)

(* A bound type reaches the component registered for it, never another     *)
(* type's, and the storage its binding remembers is the one the registry   *)
(* has: typed get, write, contains and remove use that pointer unchecked   *)
(* (typed_storage).                                                        *)
BindingsAgree ==
    \A n \in DOMAIN bindings.list :
        LET b == bindings.list[n]
        IN b.component # None =>
              /\ b.component.index \in DOMAIN catalog.records
              /\ catalog.records[b.component.index].entity = b.component
              /\ catalog.records[b.component.index].key \in {None, b.key}
              /\ b.key \in DOMAIN catalog.type_keys
                    => catalog.type_keys[b.key] = b.component.index
              /\ b.storage = Object(b.component.index)
              /\ b.key \in DOMAIN bindings.keys /\ bindings.keys[b.key] = n

(* While the token is the one it has seen, a view's storages and group are *)
(* those it would find now, whatever was registered, added, declared or    *)
(* restored since, and no group is used while entries into groups are put  *)
(* off.  Only what unregistering a component destroyed may be out of date  *)
(* (refresh_query_state, bump_view_topology_token).                        *)
ViewIsCurrent ==
    view = None \/ failed \/ view.token # topology \/
        /\ \A n \in DOMAIN view.types :
              LET c == Resolve(bindings, view.types[n])
              IN \/ view.storages[n] \in gone.storages
                 \/ view.storages[n] = IF c = None THEN None ELSE Object(c.index)
        /\ deferring => view.group \in {None} \cup gone.groups
        /\ Known(view.types) => view.group \in Best(Key(view.types)) \cup gone.groups

(* A job's entity outlives every restore, and the free list that is built  *)
(* anew around it hands out no index that is taken and loses none that is  *)
(* free (rebuild_free_list, merge_current_system_entities).                *)
JobsKeepTheirEntity == FreeListIsStack /\ \A j \in jobs : Alive(j)

AliveIn(cells) == 0 .. Len(cells) - 1 \ Dead(cells)

(* A restore that does not throw makes alive exactly the entities of the   *)
(* snapshot, under the same handles, and besides them the jobs, and leaves *)
(* no component on a dead index.  A job that has since taken an index of   *)
(* the snapshot keeps it (restore_snapshot, merge_current_system_entities).*)
RestoreReturnsSnapshot ==
    [][(Restore /\ ~failed') =>
          /\ \A i \in AliveIn(saved.slots) :
                \/ i \in AliveIn(slots') /\ slots'[i + 1] = saved.slots[i + 1]
                \/ TakenByJob(i)
          /\ \A i \in AliveIn(slots') : i \in AliveIn(saved.slots) \/ TakenByJob(i)
          /\ \A c \in DOMAIN storages' : storages'[c].entities \subseteq AliveIn(slots')
      ]_allVars

(* restore_snapshot of the registry's own snapshot brings every entity of  *)
(* the snapshot back.  It does not: see the run that refutes it.           *)
RestoreBringsBack ==
    [][Restore => /\ ~failed'
                  /\ \A i \in AliveIn(saved.slots) :
                        slots'[i + 1] = saved.slots[i + 1]]_allVars
=============================================================================
