------------------------- MODULE MCComponentCatalog -------------------------
(***************************************************************************)
(* ComponentCatalog for TLC.  The types P and Q have the tokens p, p2 (of  *)
(* another module) and q.  A setup is a way to use the registry; with all  *)
(* operations in one setup the state space would be out of reach.          *)
(***************************************************************************)
EXTENDS ComponentCatalog, Functions, TLC

CONSTANTS p, p2, q, n, m, P, Q, small, large,
    MaxUsers, MaxJobs, MaxStamp, MaxTopology

MCKeyOf(t) == IF t = q THEN Q ELSE P

MCInfoOf(k) == IF k = Q THEN large ELSE small

(* destroys bounds how many entities the run destroys. *)
Setup(names, runtime, elsewhere, types, owned, uses, destroys) ==
    [names |-> names, runtime |-> runtime, elsewhere |-> elsewhere,
     types |-> types, owned |-> owned, uses |-> uses,
     destroys |-> destroys]

NamesOf(forP, forP2, forQ) == p :> forP @@ p2 :> forP2 @@ q :> forQ

(* Two modules register one type under two names, another type wants one   *)
(* of them.                                                                *)
TwoModules == Setup(NamesOf({n}, {n, m}, {m}), {}, {}, <<>>, {}, {}, 3)

(* Types meet runtime components of their name, with the same metadata or  *)
(* with others.                                                            *)
MetByName == Setup(NamesOf({n}, {}, {m}), {<<n, small>>, <<m, small>>}, {}, <<p>>, {}, {"user"}, 2)

Grouped == Setup(NamesOf({n}, {}, {m}), {}, {}, <<p, q>>, {<<p>>, <<p, q>>},
                 {"user", "defer"}, 1)

WithJobs == Setup(NamesOf({n}, {}, {}), {}, {}, <<>>, {},
                  {"user", "job", "snapshot"}, 2)

GroupedSnapshot == Setup(NamesOf({n}, {}, {}), {}, {}, <<p>>, {<<p>>},
                         {"user", "snapshot"}, 2)

(* A type registered elsewhere finds a runtime component of its name. *)
BoundByName == Setup(NamesOf({}, {n}, {}), {<<n, small>>}, {<<p, n>>}, <<>>, {},
                     {"user", "snapshot"}, 2)

(* Another registry of the process uses the name for another type. *)
NameElsewhere == Setup(NamesOf({n}, {}, {}), {}, {<<q, n>>}, <<p>>, {},
                       {"user", "snapshot"}, 1)

MCSetups == {TwoModules, MetByName, Grouped, WithJobs, GroupedSnapshot,
             BoundByName, NameElsewhere}

BrokenSetups == {WithJobs, NameElsewhere}

(* The theorems of ComponentCatalog_proofs suppose this of the programs.   *)
ASSUME OrderlyAssumption == \A u \in MCSetups : Orderly(u)

Users == {h \in {Handle(i) : i \in Holding} : ~Registered(h) /\ h \notin jobs}

MayDestroy == FoldFunction(+, 0, epoch) < setup.destroys

MCNext ==
    \/ \E t \in Token : \E x \in setup.names[t] : Register(t, x)
    \/ \E pair \in setup.runtime : RegisterRuntime(pair[1], pair[2])
    \/ \E pair \in setup.elsewhere : RegisterElsewhere(pair[1], pair[2])
    \/ \E t \in Token : Lookup(t)
    \/ "user" \in setup.uses /\ Cardinality(Users) < MaxUsers /\ CreateUser
    \/ "job" \in setup.uses /\ Cardinality(jobs) < MaxJobs /\ AddJob
    \/ stamp < MaxStamp /\ \E t \in Token : \E h \in Users : Add(t, h)
    \/ MayDestroy /\ \E h \in Users : DestroyUser(h)
    \/ /\ MayDestroy
       /\ \E h \in {catalog.records[i].entity : i \in DOMAIN catalog.records} \ jobs :
              DestroyComponent(h)
    \/ topology < MaxTopology /\ \E ts \in setup.owned : DeclareGroup(ts)
    \/ "defer" \in setup.uses /\ topology < MaxTopology /\ Defer
    \/ setup.types # <<>> /\ view = None /\ MakeView(setup.types)
    \/ UseView
    \/ "snapshot" \in setup.uses /\ saved = None /\ Snapshot
    \/ stamp < MaxStamp /\ Restore

MCSpec == CatalogInit /\ [][MCNext]_allVars
=============================================================================
