# TLA+ verification of ashiato

ashiato is an entity-component registry in C++: entities are recycled 64-bit
handles, each component type has a type-erased sparse set, and on top of the
storages there are a change report (dirty, added and removed entries), owned
groups, cached views, jobs that an orchestrator orders into stages and a
program-supplied executor runs in parallel, snapshots and deltas, a broadcaster
of dirty frames, a bit buffer for serialization, and a debug server. The modules
here are translated from the source (paths below are relative to `src/`); the
line of every definition is in `PROJECT.json` under `map`.

## 1. Inventory

| component | source | state it keeps | operations | must hold |
|---|---|---|---|---|
| Entity store | `include/ashiato/ashiato.hpp` 1116-1185, 3039 | slot array, head of the free list threaded through dead slots | `create`, `destroy`, `alive` | a stale handle is never alive; the free list loses and repeats nothing; indices are reused before the array grows |
| Lifecycle hooks | `src/ashiato.cpp` 200-380 | per component the lists of add and remove hooks | subscribe, unsubscribe, dispatch within `add`, `remove`, `destroy` | a listener knows what is so, and what it is told is so while it is told |
| Component storage | `src/storage.cpp` | dense indices, values, dirty and added bits, sparse array, tombstones with their own index, three counters | insert, replace, erase, swap, clear, copy and rebuild | the arrays stay inverse to each other; the counters are exact; no operation on one entity changes another |
| Component membership and change report | `src/ashiato.cpp` 248-437 | (the storages) | `add`, `ensure`, `write`, `remove`, `destroy`, `is_dirty`, `clear_dirty`, `clear_all_dirty`, `each_dirty/added/removed` | everything that changed since a consumer looked is in the report; replaying the report rebuilds the table |
| Dirty frame broadcaster | `src/snapshot.cpp` 1000-1075 | consumers, those waiting, depth | subscribe, reset, broadcast (nested, throwing) | nobody whose turn was still to come misses a change; each subscription is listed once and never called after its end |
| Snapshot tracker | `src/snapshot.cpp` 1075-1140 | frame counter, baseline | write a full or delta frame | a delta fits the frame before it |
| In-memory snapshots and deltas | `src/snapshot.cpp` 1142-1380, `src/ashiato.cpp` 600-720, 1276 | copies of slots, catalog, storages, groups; state token | create, restore, delta create and restore | baseline plus delta is the registry the delta was taken from |
| Native and persistent formats | `src/snapshot.cpp` 1-950 | none | write, read, select components, quantize | what is restored is what was selected |
| Bit buffer | `include/ashiato/bit_buffer.hpp` | bytes, number of bits, read cursor | write, overwrite, cut, copy, read | a sequence of bits read in the order written |
| Component catalog, typed bindings | `src/ashiato.cpp` 500-1010, `include/ashiato/ashiato.hpp` 2840-2900 | records by component entity, names, keys; per registry the bindings, per process the types ever registered | register, register at run time, unregister, look up, rebind after a restore | name, key and record lead to each other; a type reaches its own component and its storage |
| Views and query cache | `include/ashiato/ashiato.hpp` 2930 ff. | storage pointers and group, keyed by a topology token | build, use, refresh | a cached pointer is what a fresh lookup would give |
| Owned groups | `src/groups.cpp` | per group: owned set, size of the shared prefix; deferral depth and deferred entries | declare and build, enter, leave, defer, drain | the owned storages begin with the same entities in the same order, and those are exactly the ones that have all owned components |
| Structural jobs | `include/ashiato/ashiato.hpp` 3546 ff. | position in the driver storage | reverse visit with add and remove inside the callback | each match is visited once whatever the callback does |
| Job registration and orchestrator | `src/jobs.cpp` 100-230, `src/ashiato.cpp` 1150-1260 | job list, ordered indices, cached schedule, cached graph | `add_job`, `schedule`, `schedule_for_jobs`, `run_jobs` | conflicting jobs are in different stages in canonical order, no job waits for nothing, caches are current |
| Job graph tick | `src/jobs.cpp` 20-100, 249-420 | per batch: closed, violated, started, finished; per task: claimed; first exception | tick over an executor that belongs to the program | bodies run once and stage by stage; marks are merged; exceptions are not lost; contract breaches are detected |
| Debug server | `src/debug_server.cpp` | listening socket, clients with their buffers | `poll`: accept, read, answer, drop | every client is looked at; a request that has arrived is answered; what is answered is what was done |
| Debugger tool | `tools/debugger/` | what is selected and on show, a refresh on another thread, edits | refresh, click, edit, save | a refresh undoes no click; saved means stored; the tool settles on what is selected |
| Serialization registry and trace | `include/ashiato/ashiato.hpp` | callbacks per component | register, trace | data only |
| Access checks | `include/ashiato/ashiato.hpp` | thread-local scope | check on each access | a callback touches only what its job declares |
| Examples, benchmarks | `examples/`, `benchmarks/` | - | clients of the library | - |

How they interact:

* **Calls.** `Registry` drives everything. `destroy` removes each component
  through the group (`leave_group`) and then the storage (`remove_for_destroy`)
  before it frees the slot. `add` inserts into the storage and then lets the
  group take the entity in.
* **Shared state.** A group has no storage of its own: it is a prefix that the
  owned storages share, so every insert, erase and swap can break it. Views,
  the change report, snapshots and deltas read the same arrays.
* **Callbacks.** Lifecycle hooks run inside `add`, `remove` and `destroy`;
  structural job callbacks change the storages being iterated; dirty-frame
  listeners run inside a broadcast that clears the report at its end.
* **Process-wide state.** The registries of a process share the list of types
  that were ever registered; `restore_snapshot` binds from it.
* **Messages.** Snapshot frames go to another process as files or streams, and
  may be lost or refused. The debugger tool talks to debug servers over
  sockets, a request at a time, and any of them may not be answered.
* **Threads.** The registry is single-threaded except for the job tick, whose
  tasks run on threads of the program's executor. What they share with the tick
  are the four fields of the batch, one claim flag per task, the exception slot
  and the dirty lists merged after the batch. The debug server has no thread:
  the program calls `poll()`. The debugger tool has one for its refresh, which
  works on a copy.

Hard behaviours: swap-with-last in several parallel arrays at once; recycled
indices under every per-index table; callbacks in the middle of operations;
iteration under structural change; an executor the code does not trust; caches
that outlive what they were computed from; clearing a report that others still
have to read; frames that do not arrive; answers that come after the user has
moved on; a restore that fails half way. Each place is listed
under `hazards` in `PROJECT.json`, with the property that watches it.

## 2. Modules

```
EntityHandles  <-implements-  EntityStore  <-extends-  Lifecycle           MCLifecycle
                              EntityStore  <-extends-  ComponentCatalog    MCComponentCatalog
ComponentTable <-implements-  ComponentStorage                             MCStorages
ComponentTable <-extends----  DirtyTracking  <-extends-  DirtyBroadcast    MCChangeReport
                              DeltaReplication                             MCDeltaReplication
DeltaReplication <-extends, implements-  SnapshotFormats, BitBuffer        MCSnapshotFormats
                              OwnedGroups                                  MCStorages
                              JobSchedule                                  MCJobs
JobOrder       <-implements-  JobTick                                      MCJobs
DebugProtocol  <-extends----  DebugServer, Debugger                        MCDebug
```

A module `X_proofs` holds the theorems about `X` (`Lifecycle_proofs` also those
about `EntityStore` and `DirtyBroadcast_proofs` those about `DirtyTracking`,
which they build on, `Jobs_proofs` those about
`JobSchedule` and `JobTick`, `Replication_proofs` those about `DeltaReplication`
and `SnapshotFormats`, `Debug_proofs` those about `DebugServer` and `Debugger`); `MCX` bounds its unbounded
counters for TLC. A definition introduced by the comment "Mistake:" is a mutated
form of the definition after it, which `PROJECT.json` uses to show that each
property can fail; no specification uses it.

**EntityHandles, EntityStore.** The slot array with its implicit free list: a
slot is `[link, version]`, it is off the list when its link names itself.
`Recycle`, `Grow` and `CreateThrows` are the three ways through `create`,
`Destroy` (`Retire` of a handle that is alive) and `DestroyReturnsFalse` the two
through `destroy`. `freed`, `epoch`, `issued` and `peak` are history. The version
is counted modulo `VersionModulus` and skips 0, as the 32-bit field does.
`EntityHandles` is the promise: at most one live handle per index, `create`
returns one nobody holds, `destroy` retires the one it is given.

**Lifecycle.** Components and their hooks over the entity store. An operation
that is under way is a frame of `stack`; `dispatch` copies the list of hooks into
it, and `Notify` calls the next one, which may call the registry again, to depth
`MaxDepth`. `add` stores and then tells, `remove` tells and then takes away,
`destroy` collects the components and then tells and drops them one by one
(`DestroyNext`, `DestroyDrops`) in any order, because a hash map decides it, and
retires the slot last. `Careful` says that callbacks leave alone the entity that
is being destroyed and the component that is being removed; without it the code
fails (section 5). A listener keeps a `mirror` of who has its component: this is
what a program uses hooks for, and what the properties are about.

**ComponentTable, ComponentStorage.** `ComponentTable` is one component type as
the registry's callers see it, with the change report; `alive` holds the indices
that somebody has created and not destroyed since, and no other has a handle that
`alive()` accepts, so `is_dirty` is false there. `ComponentStorage` is
`TypeErasedStorage`: the four parallel dense arrays as one sequence of records,
`sparse`, the tombstones with their index list and positions, the counters. Each
public operation of the class that changes state is an action; `CopyAndRestore`
is the compact copy a snapshot keeps followed by the rebuild of the lookup
arrays. Its refinement mapping reads the accessors `get`, `each_dirty`,
`each_added`, `each_removed` off the arrays.

**DirtyTracking, DirtyBroadcast.** `DirtyTracking` is `ComponentTable` with a
consumer that remembers the table as it was when it last cleared the report,
entry by entry or as a whole. What differs from that memory is dirty if its
entity lives and in the report's removals if it does not. `DirtyBroadcast` puts the listeners of
`RegistryDirtyFrameBroadcaster` in its place. `consumers`, `waiting` and
`next_id` are the fields of its shared state, `stack` the broadcasts under way,
each with the position of its loop. Between two steps the program or the listener
that is being called may change the registry, subscribe, reset any subscription,
broadcast again or throw. Each subscriber keeps a `copy` of the table, brought up
to date from the reports it reads; `Lost` marks the copies the code gives up on:
a change made after their turn in the broadcast, an exception before it, a manual
clear (section 5). `NoneMissed` says these are all there are.

**DeltaReplication.** A source registry with several components, the tracker
(`FullIsDue`, `WriteFull`, `WriteDelta` are the three parts of
`on_registry_dirty_frame`) and a replica that restores each frame unless it is
lost. `RestoreDelta` has the three outcomes of `restore_delta_snapshot`: refused
by the token, restored, or broken, the exception in the middle of the replay
after which part of the registry is changed (`Interrupted`, in whatever order the
hash map yields the storages). A component's storage is reduced to what a delta
reads: values, dirty entries and tombstones. Left out: the links of the free
list, which every copy makes anew (so `has_entities_` may be true in the code
where it is false here, with the same result), entities excluded from snapshots,
groups, and the replica's own report. The replica is a registry that registered
the source's components in the same order. It begins with a token of its own:
`NoToken`, which is none of the source's, as in one process, or any of
`FirstTokens`, because each process counts its tokens from 1
(`src/ashiato.cpp:636`). A delta may then fit a replica that no full frame has
reached (`origin` "chance"). `status`, `sent`, `brief` and `origin` are history.

**SnapshotFormats.** The same source and replica with files in between. A `setup`
says which format, which components are included and excluded, which of them the
writer can serialize and the reader knows, whether traits code against the
previous value, which indices the reader's schema has taken, and whether a group
is declared. `FullObject` and `DeltaObject` are the snapshot objects with their
compact pools; `File` is what `write_native` or `write_persistent_snapshot` put
in the stream, `ReadObject` what the reader makes of it, `RestoreFull` and
`RestoreDeltaObject` what restoring it does, the change report and the group
included. A write that throws (`FailToWrite`) leaves the tracker as it was while
the broadcast clears the report all the same. Values are abstract; `Rounded` is
quantizing, `Coded` and `Decoded` the traits.

**BitBuffer.** The two buffers persistent frames copy into each other. A byte is
the set of its bits, so that shifts and masks are operations on sets; each
operator has the branches of the function it is named after: the aligned bytes,
the window of one machine word with the byte behind it, the loop over bits, and
byte swapping on a big-endian host. The reference is a sequence of bits and a
position (`Content`, `Digits`, `Ahead`), against which every operator is tried
with all its arguments in every state that a sequence of calls reaches.

**OwnedGroups.** One group and the storages it owns, as dense arrays, with one
more component outside it. `Enter`, `Left`/`Leave`, `RefreshAfterAdd` and
`DrainNext` are `enter_group`, `leave_group`, `refresh_group_after_add` and
`end_deferred_group_enters`; `indices` are the `dense_indices_` of each storage,
which is all a group goes by. Declaring walks the smallest owned storage, one
iteration per step (`BuildNext`). A structural job is `BeginVisits`, one
`VisitNext` per iteration and `EndVisits`; between two iterations its callback
may add any component to the current entity or remove one from it. A view of a
structural job is never iterated over the group, because deferral is on.

**ComponentCatalog.** What the registry knows about component types. A component
is an entity of `EntityStore`; `catalog` holds its record and the two maps to it;
a C++ type is a token (per module of the program) with a key (its name);
`bindings` is the registry's typed cache with the storage pointers, `recorded`
the list all registries of the process share. `Register`, `RegisterRuntime`,
`Lookup` (the binding that `registered_component` makes on first use, const as it
is), `DestroyComponent` (`unregister_component_entity`), `DeclareGroup`, `Defer`,
`MakeView`/`UseView`, `AddJob`, `Snapshot` and `Restore` are the operations. A
storage or group is named by when it was made, so that a stale pointer can be
told from a current one. Storages hold sets of entities here. `CatalogNext` is
what any program may do; `MCNext` takes its steps within the run's bounds and
one of the `Setups` at a time. `Orderly` says of a setup that it uses names as
three of the theorems suppose (section 6).

**JobSchedule.** `add_job`, the three caches and one step per iteration of the
loop of `build_schedule`, with the two maps and two running maxima it keeps.

**JobOrder, JobTick.** One tick. Every access of an atomic is a step of its own:
the guard's load of `closed` (`Enter`), the exchange of the claim flag
(`Claim`), the two counters, the executor's return, the store of `closed` and
the three loads of the validation. The executor is the environment. Steps
interleave, so the model is sequentially consistent; the code uses acquire and
release on these atomics, and the order it relies on between them comes from
the release of `finished` and the acquire that reads it and from the executor's
own return.

**DebugProtocol, DebugServer, Debugger.** `DebugProtocol` is what
`handle_graphql` does to a registry and answers, with the conversions of texts
into fields that both ends make: `Typed` is the tool's (`strtoll` saturates and
stops at the point, `strtod` rounds, a JSON number gets an exponent below 1e-4 and
from 1e15 on), `Parsed` the server's reading of it, which ends at the exponent,
`FieldFits` and `FieldValue` what `write_field_value` takes and stores. Numbers
are counted in units of `1/One`, in the registry too, and are not negative; a text
is a number written without exponent, to the nearest unit (one without any number
is refused before anything is sent). `DebugServer` is `poll()`, one
step per accept loop and per iteration over the clients, between peers that
connect, send a request in pieces, stop in the middle and hang up. `Debugger` is
the tool: `task` is the refresh on the other thread, a request at a time over a
copy of the data (`ProbeEntities`, `ProbeRest`, `Discovered`, `FetchEntity`,
`FetchJob`); `PollRefresh` merges its result into what the user has meanwhile
made of the selection. Servers stop, start and change between any two requests,
and a mutation whose answer is lost may have been carried out. `auto` is the box
Auto, without which only the button `Refresh` and other clicks start a refresh.
`tabs` is the tab ImGui has open, from which each frame sets `singleton_tab`
again (`DrawTabs`), whatever a refresh or a click in a job's list made of it. Left
out: another base port, the selection among singletons, filters.

## 3. Runs

A run may play several *scenes*: modules that share no behaviour but one subject
are explored side by side, a behaviour being in one scene throughout. The state
space is the sum of theirs and each property speaks of its own scene. In
`MCJobs` the tick has two scenes, one with an executor that keeps its contract
("honest") and one with any executor; fairness is stated for the first only.

| run | question | bounds and why they are enough |
|---|---|---|
| MCLifecycle (175,555 states) | Is the free list a stack, does the array grow only when nothing is free, is a stale handle rejected until its versions are used up, are the handles those of `EntityHandles`; with hooks in between, do listeners know what is so, and does no component outlive its entity? | 2 indices, 3 values of the version field of which 2 are used, and `MaxRecycles` 2: each index wraps around; 2 components, 2 listeners of the same one (interchangeable), so that one can unsubscribe the other; `MaxDepth` 2: a hook's own operation inside another |
| MCLifecycleReentrant | The free list when hooks are not careful (violated, see 5) | as above |
| MCChangeReport (205,588) | Does the report contain every change, every addition, and enough to rebuild the table; does no listener miss a frame? | consumer: 2 indices (entries are independent of each other), 2 values, three entities after another on an index. Broadcaster: changes on 1 index, `MaxSubscriptions` 3 (one that has had its turn, one whose turn it is, one to come) and `MaxDepth` 2 |
| MCStorages (495,177) | storage: Do the arrays that keep the report stay consistent and implement the table? group: Is the group a prefix of exactly the matching entities; does a structural job visit each match once; does its callback's `add` return its own value? | 3 indices, symmetric in both scenes because only their equality is used. storage: the erased element, the one that is moved and one untouched; 2 values, each index reused once with a tombstone pending. group: a member, one that enters, one outside; 2 owned components and 1 other, `MaxPending` 2 entries put off, the same one twice included |
| MCJobs (2,202,337) | schedule: Are conflicting jobs ordered, does nobody wait without need, are the caches current? tick: Under any executor, bodies once and stage after stage, marks merged, exceptions kept? Is one that keeps its contract never blamed, and does the tick end? | schedule: all sequences of up to 4 jobs from a menu of 7 access patterns over 2 components, two orders, one structural; 4 is what it takes for a reader to be staged before an earlier reader. tick (105,360 of the states): 2 stages of 2 tasks, two tasks to race with each other and a next stage to start too early; `MaxEntering` 2 calls of one task between the two checks of its guard |
| MCDeltaReplication (605,932) | Is a restored frame the source as it was at that frame, whatever happened to earlier frames; does a delta throw on its own baseline only over brief components? | 1 index (entries of an index are read and written by index only; the entity list is compared as a whole, and one entity makes it equal or different), 2 components (one throws while the other was or was not replayed), 2 values, `MaxVersion` 3: the index is reused twice, `Interval` 3 and `MaxIssued` 4: a full frame, two deltas in a chain, a full frame and deltas again; `FirstTokens` 0 to 2: the replica begins with a token of its own or with either of those the source issues while it sends its first delta |
| MCDeltaReplicationProcesses | "Delta snapshots validate against a baseline snapshot token", with the replica in another process (violated, see 5) | as above, the replica's first token being the source's first |
| MCSnapshotFormats (1,005,412) | The same through files of both formats, with selection, unknown components, failing writes and groups; is the change report restored; do files with everything in them do what frames in memory do? And do the bit buffers carry what was put in? | frames: 1 index, 2 components (one in the file and one left out), one value that quantizing changes and one it does not, 9 setups, `MaxVersion` 2, `MaxIssued` 3. Buffers: bytes of 2 bits and words of 2 bytes, so that a value spans 1 to 3 bytes and the byte behind the word is needed; contents of up to 6 and 2 bits, one more than the widest unaligned value |
| MCSnapshotFormatsGarbled | "to quantize and serialize present component values" with traits that code differences (violated, see 5) | the persistent setup with such traits |
| MCDebug (156,124) | server: Is every client looked at, every request that has arrived answered, nothing done that is not answered? tool: Does a refresh leave clicks alone, is what is saved stored, does the tool settle? | server: 3 peers for 2 slots, one request per poll, requests at and over the limit of 3 pieces, one that fails in its second field, one for an entity that dies. tool: 2 servers with an entity in common and one not, `MaxTrouble` 3 clicks, failures or changes, in any order with a refresh; an integer field of 4 bits and a float of 2, doubles of 3 bits, and three texts: one that both fields store, one that has an exponent when it is sent and is cut to a whole by the integer, one too large for it |
| MCComponentCatalog (538,885) | Do names, keys and records agree, do bindings reach their own component and storage, is a view current under its token, do jobs and the free list survive a restore, does a restore bring back the snapshot? | 3 tokens of 2 types (one type from two modules), 2 names, indices up to 3, `MaxStamp` 2 (storages and restores), 1 user entity, 1 job; 7 setups of operations used together, named in the module, because all at once are out of reach |
| MCComponentCatalogRestore | "applied with `restore_snapshot()`" (violated, see 5) | two of the setups |

`MCJobs` switches deadlock checking off, because a tick ends, and so do the
two catalog runs, because their bounds end.

Fairness is weak everywhere and stated per part of the system. In `MCJobs`
the tick's own thread goes on (`TickStep`); the honest executor calls each task it
was handed and returns when all have finished (`CallOnce`, `ReturnWhenDone`),
which is what `README.md` asks of it; a call that has begun goes on and a job's
body ends (`Claim`, `BodyStep`), which `tick` cannot do without either. In
`MCDebug` the program calls `poll()` again and again and each call ends
(`PollStep`: nothing in it blocks), and the tool's request ends within its
timeout, frames are drawn and its clock goes (`RefreshStep`, `PollRefresh`,
`DrawTabs` and, while Auto is ticked, `AutoRefresh`); peers, users and servers are
assumed to do nothing at all. `ToolSettles` is for users who leave Auto ticked in
the end.

## 4. What the properties say together

* *Handles and components.* A handle that `alive` accepts is the one that was
  issued last for its index; everything that is attached to it, in storages,
  hooks' mirrors and free slots, is its own (`HandleAliveIffCurrent`,
  `FreeListIsStack`, `NoComponentOutlivesEntity`, `HooksFaithful`).
* *Changes.* From `add` to a replica on another machine: the report is complete
  (`EveryChangeIsDirty`, `AdditionsReported`, `ReportReplays`), the arrays that
  keep it lose nothing (`ArraysConsistent`, `ImplementsTable`), no listener
  misses it (`NoneMissed`, `ListedWhileSubscribed`), frames made of it restore
  the source (`ReplicaExact`, `OnlyBriefComponentsBreak`), also through files
  (`RestoredExact`, `ReportRestored`, `ImplementsReplication`, `BitsKept`).
* *Access.* Views, groups, bindings and names lead to the storage that is there
  now (`GroupIsPrefix`, `EachMatchVisitedOnce`, `StructuralAddReturnsOwnValue`,
  `ViewIsCurrent`, `BindingsAgree`, `CatalogAgrees`), after a restore too
  (`RestoreReturnsSnapshot`, `JobsKeepTheirEntity`).
* *Parallel work.* `ConflictsKeepOrder`, `NoNeedlessWaiting`, `CachesCurrent` for
  the schedule; `ImplementsJobOrder`, `MarksMerged`, `ExceptionStopsTick`,
  `HonestTickCompletes` for its execution.
* *Debugging.* `EveryClientExamined`, `RequestsAnswered`, `OnlyAnsweredMutations`
  for the server, `SelectionStands`, `SavedMeansStored`, `ToolSettles` for the
  tool.

## 5. Where the code and its documents differ, and where properties stop

Refuted by a run:

* **A hook may destroy the entity it is called for**
  (`include/ashiato/ashiato.hpp:1170`). `destroy` does not look at `alive` again
  after the hooks, so the slot is retired twice; the list then ends in a slot
  that links to itself and the same handle is handed out for ever
  (`MCLifecycleReentrant`). A hook of `destroy` that adds a component to the
  entity leaves it on the recycled index.
* **Differences are coded against values only one side has**
  (`src/snapshot.cpp:636`). The writer of a persistent delta looks the previous
  value up in a compact clone, which has no lookup arrays, and finds none; the
  reader finds it in what it has read (`MCSnapshotFormatsGarbled`).
* **A token does not tell processes apart** (`src/ashiato.cpp:636`). Every
  process counts its tokens from 1, and a replica is asked for nothing else. One
  in another process that missed the source's full frame may have the number a
  delta asks for; it replays the delta over what it has and is then not the
  source, or throws half way (`MCDeltaReplicationProcesses`).
* **`restore_snapshot` may throw half way** (`src/ashiato.cpp:709`), because it
  binds types by name from the list of the whole process, and a job registered
  since keeps an index the snapshot wants (`src/ashiato.cpp:1276`)
  (`MCComponentCatalogRestore`).

Left out by a property, which holds around it:

* An added value may be swapped away before its address is returned:
  `add_component` takes the address and then lets the group take the entity in
  (`include/ashiato/ashiato.hpp:2120`). With a group over A and B: x gets A, y
  gets A, y gets B, the group moves y before x. In a structural job's callback
  the entry is put off, and only this is claimed (`StructuralAddReturnsOwnValue`).
* A removal is kept per index, so that of the next entity on the index replaces
  it (`src/storage.cpp:718`); the test "removals preserve entity generation
  across index reuse" has one removal per index. The report still rebuilds the
  table by index (`ReportReplays`).
* A delta may not be restorable on its own baseline (`src/snapshot.cpp:1358`). A
  component added and removed within a frame leaves a dirty tombstone, and
  `restore_delta_snapshot` throws because the baseline never had the component;
  so does an entity that loses one component by `remove` and another by its
  destruction in one frame. The replica is left half changed with its old token.
  `OnlyBriefComponentsBreak` says there is no third case.
* Full snapshots of a registry share one token (`src/snapshot.cpp:1289`). A
  replica that missed a full frame and still holds an earlier one accepts the
  delta made from the one it missed. `ReplicaExact` and the theorems exclude this
  loss (`"refull"` in `Faults`), `RestoredExact` the frames until the next full
  one (`missed`). Between registries of one process the token catches every other
  loss (`BaselineValidated`, `OneProcessExact`). Across processes it does not
  catch the loss of the first full frame, as above: `ReplicaExact`,
  `OnlyBriefComponentsBreak` and `RestoredExact` leave out a replica that a delta
  has fitted by chance, until a full frame reaches it. A source that is started
  again counts anew and may so issue a token its replica still holds: the model
  has one source.
* A write function that throws keeps the tracker's baseline, but the broadcast
  clears the report (`src/snapshot.cpp:1133`): the next delta misses a frame
  (`missed` again).
* The end of a broadcast clears what a listener has changed during it, so those
  called before never hear of it (`include/ashiato/ashiato.hpp:1647`); an
  exception of a listener clears the report under those behind it
  (`src/snapshot.cpp:1055`). `NoneMissed` counts exactly these as `Lost`.
* A persistent full frame is read over a snapshot of the schema registry
  (`src/snapshot.cpp:880`). Its groups have the size they have there, so a view
  over an owned group visits none of the restored entities, and a component
  entity of the schema replaces the file's entity on its index. No setup has a
  group in a persistent file; `RestoredExact` leaves the taken indices out.
* A native file that leaves components out keeps the groups whole; a later
  removal then looks for a storage that is not there and throws "ashiato
  component entity is not registered". No setup combines the two.
* Persistent frames ask a clone without lookup arrays which values are dirty, so
  full frames carry no dirty bits; only the removals are claimed
  (`ReportRestored`).
* Restoring binds a type to the component of the same name even if another type's
  key was registered for it (`src/ashiato.cpp:697`). And a type that is bound
  already and that another module registers under the name of a runtime component
  with the same metadata has its key entered in that record
  (`src/ashiato.cpp:848`) before the registration throws, because the key is
  bound to another component (`src/ashiato.cpp:764`). The setups do not mix these
  and `Orderly` (section 6) leaves them out. (With other metadata the
  registration throws before it changes anything, `src/ashiato.cpp:840`.)
* `unregister_component_entity` (`src/ashiato.cpp:1005`) does not move the
  topology token, so a view kept over it holds pointers to a destroyed storage
  and group. `ViewIsCurrent` leaves out what was unregistered (`gone`).
* `registered_component() const` binds a type on first use
  (`include/ashiato/ashiato.hpp:2862`), so two concurrent reads of a registry may
  race there. Threads inside jobs are `JobTick`'s only concurrency here.
* `BitBuffer::assign_bytes` keeps bytes beyond those the bits take
  (`include/ashiato/bit_buffer.hpp:107`): aligned writes then go behind them and
  read back something else. The library assigns exact sizes only, and so does
  `Assign`.
* A call of a task that is late by one step is not caught: the guard tests
  `closed` and claims the task in two steps, so its body may run after the batch
  was closed. Only an executor that breaks its contract reaches it; the tick then
  reports that, and nothing of the next stage starts (`ImplementsJobOrder`).
* The debug server has no timeout: silent clients hold their slots for ever, and
  a connection over the limit is closed unread. A peer that closes its sending
  side after a whole request is dropped unanswered. An answer that does not fit
  in the socket's buffer is cut off. `RequestsAnswered` is about clients that
  have a slot and stay.
* The tool's numbers pass through a double and through JSON. Integers over 2^53
  are rounded, and so are fractions in a float. A double below 1e-4 or from 1e15 on
  is sent with an exponent, at which the server's parser stops
  (`src/debug_server.cpp:206`): 0.00001 typed over a float is stored as 1, is
  answered well and shown as saved, and 1e39, which no float can hold, is stored
  as 1 instead of being refused. `SavedMeansStored` claims the digits of what is
  `Faithful` only, which these are not.
* With Auto unticked nothing repeats a refresh that failed or brought the detail
  of the server left: it stays until `Refresh` is pressed or something is clicked
  (`tools/debugger/debugger_app.cpp:77`). An entity that is clicked in the list of
  a job while the singletons' tab is open is selected and not shown.
* Lists and details name an entity differently
  when two versions of it appear. A refresh that is under way when the user
  switches servers may bring the detail of the server left, if the new one has an
  entity or job of the same id; `SelectionStands` says this is the only way, and
  `ToolSettles` that it does not stay. The detail may come in under the tab that
  is not shown and be on show only after a click on the other, so the property
  is about the details the tool keeps and not those it draws.

## 6. Proofs

TLAPS proves, for every value of the constants:

| module | theorems | assumptions | argument |
|---|---|---|---|
| Lifecycle_proofs (`EntityStore`) | `TypeCorrect`, `FreeListCorrect`, `SlotsTight`, `StaleHandlesRejected`, `StoreImplementsHandles` | `IndexAssumption`, `VersionAssumption` | `IInv` is `TypeOK`, `FreeListIsStack`, `NoSlotWasted` and `VersionFollowsEpoch`. The last is the strengthening `HandleAliveIffCurrent` needs: how far a slot's version has advanced from a handle's is the number of destroys in between, counted around the wrap; alone, the property says nothing about a handle that has been stale for long and is about to match again |
| (`Lifecycle`) | `StoragesHoldTheLiving`, `HooksCorrect`, `LifecycleImplementsStore`, `LifecycleImplementsHandles` | the store's; `MirrorsAssumption`, `ComponentAssumption`; `Careful` | over the whole stack of operations: each is `Good` (its entity is alive and has the component its hooks are told of; a destroy has on its list whatever the entity has), they are `Apart` (no two concern one component of an entity, a destroy is the first of its entity) and the mirrors `Follow` (what a listener believes is what is so, but for components that a pending hook will still tell of and those about to be removed). `HooksFaithful` looks at an empty stack and at the frame on top only, and says nothing about what the others will do when it is their turn |
| ComponentStorage_proofs | `TypeCorrect`, `ArraysCorrect`, `StorageImplementsTable` | `Missing` not a value | `AInv`: the dense array and `sparse` are inverse (`Found`), tombstones and their index list too (`Indexed`), and each counter is the `Cardinality` of a set of indices, not of positions. A swap-erase and the moves of a group permute the positions, so each operation changes those sets at one index or not at all, and the counters and the table follow |
| DirtyBroadcast_proofs | `ChangesDirty`, `AdditionsComplete`, `ReportComplete` | `MissingAssumption` | (`DirtyTracking`) the three properties and the type invariant are inductive together; each is a property of one index (`Complete`), so a step is examined at the index it changes and `CompleteElsewhere` settles the others |
| | `SubscribersMissNothing`, `SubscriptionsListed` | `MissingAssumption` | `BInv`: each subscription has one entry in one of the lists (`OneEntry`); the report would bring every copy that is not `Lost` up to date (`Catches`), and whoever has had his turn in the innermost broadcast is up to date already (`Follows`), so that clearing the report at its end takes nothing from anybody; `RemovalOlder`: a removal that is still reported is of an earlier entity than the one on its index |
| OwnedGroups_proofs | `TypeCorrect`, `GroupCorrect`, `VisitsCorrect`, `AddReturns` | `OwnedAssumption` | `IInv`: the owned arrays share a prefix of matching entities (`Prefix`); one that matches outside of it is at the cursor or behind it while the group is built (`BuildingCatchesUp`), is pending otherwise (`PutOff`); of the entities that the loop of a structural job has before it, those match that matched when the job began, and the current one is not among them (`VisitsAhead`) |
| Replication_proofs (`DeltaReplication`) | `TypeCorrect`, `RestoredIsExact`, `OnlyBriefBreak`, `OneProcessExact` | `IndexAssumption`, `ValueAssumption`, `IntervalAssumption`, `FirstTokensAssumption` (tokens are numbers); `"refull"` not in `Faults`; the last: `FirstTokens` has at most `NoToken`, the replica in the source's process | `Tracked`: what is not dirty is as it was sent or reported removed, and outlived no destroyed entity; `Matched`: a reported removal finds its component at the baseline unless something was brief; `Versions` ties the two to destructions on the index; `AtBaseline`: a replica with the tracker's token is in the state sent; `Tokens`: tokens are never ahead of the counter, so after a lost frame none matches, but for a replica with its first token, which says nothing about its state (`origin`): the invariant takes those a delta has fitted by chance out until a full frame resets them, and with a token of its own (`Distinct`) there are none. `ReplicaExact` alone says nothing about a replica that missed a frame |
| (`SnapshotFormats`) | `FilesRestoreExact` | the same and `RoundingAssumption`, but nothing of `Faults`; `Carried` of every setup: no traits that code differences in the persistent format (they garble, `MCSnapshotFormatsGarbled`), a group only where all of its components are in a native file | the source part of the invariant is shared. `FullRead` and `DeltaRead` say what the reader makes of a file: the selected components, each value as `Seen` through the format; `FileAtBaseline` is `AtBaseline` of those values and of the group, for a replica no frame of which was missed without a token showing it (`missed`) |
| | `FilesRestoreReport`, `FilesImplementMemory` | the second: no differences in the persistent format | step by step: `ReportRestored` from `FullRead`; for the refinement `MemorySource`, `MemoryFull` and `MemoryDelta` map each operation and each kind of frame, for files with everything in them, to `DeltaReplication`'s |
| Debug_proofs (`DebugServer`) | `ClientsExamined`, `MutationsAnswered` | `PeerAssumption` (finitely many peers), `ClientsAssumption` | `Slots`: the clients are the connections that are there, each in one slot; `DueFromIndex`: what the poll has yet to look at is what lies from its index on, which an erasure shifts down under the index and a client that stays moves behind it. The number of slots is then that of the connections by the bijection between them. For the mutations, `Effect` says of each operation of `handle_graphql` which entry it may change and that its answer says so, over a registry that is a table of all components and entities (`Shaped`) |
| (`Debugger`) | `EditsSaved`, `SelectionsStand` | `PortAssumption` (ports are numbers, programs start with a registry), `FieldAssumption` (what is edited is a component with a value), `NumberAssumption` (a `long long` has more digits than a double and that at least as many as a float, said of the powers, of which the provers know nothing; what a field takes of a text is a number, which TLC evaluates and the provers cannot, `Significand` being recursive) | `TInv`. `TaskOK`: once a refresh has probed, its port is the one `reconcile_selection` gives for its copy of the data, and its details are of that port; so a foreign detail needs a port that differs from the copy's. `DataOK`: an entity is selected with a server only. `WorldOK`: what is behind each port is a table of values, which every operation of the protocol keeps (`EntryOfRegistry`), so a save that answers well has found the component there. `ReconciledParts` says once what the merge keeps of selection and details, `SetMeans` what the server makes of a text, `FaithfulExact` when that is the text, `EditsStay` that nothing else clears one |
| ComponentCatalog_proofs | `JobsKept`, `RestoreIsSnapshot` | `IndexAssumption`, `VersionAssumption`, `SetupAssumption` (types of a setup's fields), `NoneAssumption` (`None` is no key, index or entity) | `SInv`: the free list is the stack of free indices, in the registry and as `rebuild_free_list` makes it of a snapshot's slots and the jobs' (`RelinkedFacts`, `RebuiltStore`); jobs are alive; storages, present and saved, hold living indices only |
| | `CatalogsAgree`, `BindingsReachComponents` | the same and `Orderly` of every setup | `RInv`, said alike of the registry and of a snapshot. The properties say that a binding has no other type's record; this does not survive `Restore`, which binds by name. What does: a record with a key has one of the names of that key's type and its metadata, and whatever a type is bound to `Belongs` to it, key or no key (`BindOK`); what the process remembers of a type has one of its names (`RecordedOK`). In an orderly program at most one record `Belongs` to a type (`OneRecord`, `OneOwner`), so however it is found, by token, key, name or the process's list, it is the same |
| | `ViewsAreCurrent` | as above | `ViewOK`: a view whose token is the registry's remembers of each type the storage of its home, the record that `Belongs` to it or would (`Remembered`), a type that was never looked up has no storage (`Unused`), and its group is the best for those homes. `ViewIsCurrent` speaks of bindings, which a lookup may make between two uses of the view without moving the token; homes do not change then |
| Jobs_proofs (schedule) | `TypeCorrect`, `ConflictsSeparated`, `SchedulesTight`, `CachesFresh` | none (any set of components, any jobs) | `InOrder` (what is placed precedes what remains), `Recorded` (the maps and maxima bound the placed jobs), `Reached` (each of those bounds is the stage of a job that conflicts), `Complete` (a whole schedule covers all jobs). Correctness needs `Recorded`, tightness needs `Reached` |
| Jobs_proofs (tick) | `TickTypeCorrect`, `BodiesInOrder`, `MarksComplete`, `ExceptionsStop` | `TaskAssumption`, `StageAssumption` | `Counted`: `started` and `finished` are the numbers of tasks in those phases, so equality with the size of the batch means all of them (finite cardinality); `Past`: all tasks of earlier stages are done; `Future`: tasks not handed out are untouched; `Merged` and `Failures` relate the marks and the exception to the phases |

Where a module's constants carry assumptions, they are the weakest the proof uses: an
index space that is not empty, an interval of at least one frame (the code's 0 means what 1 does), at least one version besides 0, `Missing` not a
value, finitely many tasks with a stage each, finitely many peers.

The inductive invariants were checked by TLC on the runs' instances before they
were proved. `Lifecycle`'s theorems need `Careful`, which the run
`MCLifecycleReentrant` shows to be needed, and hold for any depth of nesting.
`LifecycleImplementsStore` carries what is proved of `EntityStore` over to the
registry with hooks.

No theorem relies on induction over data, which the provers cannot instantiate.
Where an argument needs it, it goes by the least counterexample: `LeastNat`
(from the library's facts about well-founded relations) gives the least number
with a property that is written as a set.

`Orderly` says that a type registered under several names shares none of them
with a runtime component, and that two types of equal metadata share no name.
Without either, `BindingsAgree` fails in the code. A type that has a component
and registers again under the name of a runtime component with the same metadata
gets that one too (`src/ashiato.cpp:848`): two records have its key, the key
leads to the later one and the binding to the earlier. And two types whose
metadata are the same, as those of two tags are, become one component when a
restore binds them by name (section 5). `MCComponentCatalog` evaluates `Orderly`
for its setups (`OrderlyAssumption`), those of the violated run among them.

Model-checked only: `BitsKept` of `BitBuffer`, `RestoreBringsBack` and the
others that a run refutes, and what is about liveness. Out of the prover's reach: liveness under fairness
(`HonestTickCompletes`, `RequestsAnswered`, `ToolSettles`), ENABLED, and facts by
induction over data (the loops of `BitBuffer`, hence `BitsKept`). Every other
property of a passing run is a theorem.

## 7. Not modelled

Values and their construction, relocation and alignment, the memory behind
iterators and pointers; access checks, which only throw (they are the guard
`MayMutate` in `OwnedGroups`); thread limits, the split of a job into ranges and
tag exclusion, which only decide the list of tasks of a stage; the
single-threaded form of the tick; the byte layout of the formats and the checks
of malformed input, which reject without changing anything; schema evolution of a
component's fields; the serialization trace; singletons and built-in components
in the catalog; the text of debug queries and answers, sockets' setup, drawing;
examples and benchmarks. `structural_any` and the range form of jobs for chosen
entities differ from what is modelled in which entities they go through.

## 8. Plan

Not modelled so far and within reach: several groups at the level of positions,
and deltas while job entities are excluded.
