----------------------------- MODULE Lifecycle -----------------------------
(***************************************************************************)
(* Components, and the add and remove hooks, over the entity store.  A     *)
(* hook is called in the middle of add, remove or destroy and may itself   *)
(* call the registry, so the operations under way are a stack of frames.   *)
(* A listener subscribes both hooks of one component to mirror which       *)
(* entities have it.  Components are registered from the start; their      *)
(* values are left out.                                                    *)
(***************************************************************************)
EXTENDS EntityStore, FiniteSets

CONSTANTS
    Component, Listener,
    Mirrors,    \* Mirrors[l]: the component listener l subscribes to
    MaxDepth,   \* operations that may be under way at once
    Careful     \* callbacks leave alone what MayAdd, MayRemove, MayDestroy say

ASSUME MirrorsAssumption   == Mirrors \in [Listener -> Component]
ASSUME ComponentAssumption == "none" \notin Component

VARIABLES
    has,        \* has[c]: the indices in the storage of component c
    hooks,      \* hooks[c]: the listeners subscribed, in order of subscription
    stack,      \* the operations under way, the innermost last
    mirror      \* mirror[l]: the entities listener l believes to have Mirrors[l]

lifeVars == <<has, hooks, stack, mirror>>

storeVars == vars

LifeInit == /\ Init
            /\ has = [c \in Component |-> {}]
            /\ hooks = [c \in Component |-> <<>>]
            /\ stack = <<>>
            /\ mirror = [l \in Listener |-> {}]

Handle(i) == [index |-> i, version |-> Slot(i).version]

Name(h) == [index |-> h.index, version |-> h.version]

Contents(c) == {Handle(i) : i \in has[c]}

Top == stack[Len(stack)]

(* The program itself or a callback is running, and may call the registry. *)
Running == IF stack = <<>> THEN TRUE ELSE Top.running

(* A frame: the operation, its entity, the component whose hooks are being *)
(* called, the callbacks still to be called (a copy, made by dispatch) and *)
(* the components destroy() has collected and not yet removed.             *)
Frame(op, h, c, calls, todo) ==
    [op |-> op, entity |-> Name(h), component |-> c, calls |-> calls,
     todo |-> todo, running |-> FALSE]

Push(frame) == stack' = Append(stack, frame)

Pop == stack' = SubSeq(stack, 1, Len(stack) - 1)

SetTop(frame) == stack' = [stack EXCEPT ![Len(stack)] = frame]

Under(op, h) == \E n \in DOMAIN stack : /\ stack[n].op = op
                                         /\ stack[n].entity.index = h.index

At(h, c) == \E n \in DOMAIN stack : /\ stack[n].entity.index = h.index
                                    /\ stack[n].component = c

MayAdd(h)       == Careful => ~Under("destroy", h)
MayRemove(h, c) == Careful => ~At(h, c)
MayDestroy(h)   == Careful => \A n \in DOMAIN stack : stack[n].entity.index # h.index
----------------------------------------------------------------------------
(* Calls. *)

Creates == /\ Running
           /\ Recycle \/ Grow \/ CreateThrows
           /\ UNCHANGED lifeVars

(* add, ensure and add_tag store first and then tell the hooks, unless the *)
(* entity had the component already.                                       *)
Add(h, c) ==
    /\ Running
    /\ MayAdd(h)
    /\ Alive(h)
    /\ has' = [has EXCEPT ![c] = @ \cup {h.index}]
    /\ IF h.index \in has[c] \/ hooks[c] = <<>> THEN UNCHANGED stack
       ELSE /\ Len(stack) < MaxDepth
            /\ Push(Frame("add", h, c, hooks[c], {}))
    /\ UNCHANGED <<storeVars, hooks, mirror>>

(* Mistake: the component goes before the hooks are told. *)
RemoveFirst(h, c) ==
    /\ Running
    /\ MayRemove(h, c)
    /\ Alive(h)
    /\ h.index \in has[c]
    /\ Len(stack) < MaxDepth
    /\ Push(Frame("remove", h, c, hooks[c], {}))
    /\ has' = [has EXCEPT ![c] = @ \ {h.index}]
    /\ UNCHANGED <<storeVars, hooks, mirror>>

(* remove and remove_tag tell the hooks and then take the component away. *)
Remove(h, c) ==
    /\ Running
    /\ MayRemove(h, c)
    /\ Alive(h)
    /\ h.index \in has[c]
    /\ Len(stack) < MaxDepth
    /\ Push(Frame("remove", h, c, hooks[c], {}))
    /\ UNCHANGED <<storeVars, has, hooks, mirror>>

Held(h) == {c \in Component : h.index \in has[c]}

(* Mistake: only components that have hooks are collected. *)
BeginDestroyHooked(h) ==
    /\ Running
    /\ MayDestroy(h)
    /\ Alive(h)
    /\ Len(stack) < MaxDepth
    /\ Push(Frame("destroy", h, "none", <<>>, {c \in Held(h) : hooks[c] # <<>>}))
    /\ UNCHANGED <<storeVars, has, hooks, mirror>>

(* destroy collects the components the entity has, then removes them in    *)
(* the order of the hash map, which no one knows.                          *)
BeginDestroy(h) ==
    /\ Running
    /\ MayDestroy(h)
    /\ Alive(h)
    /\ Len(stack) < MaxDepth
    /\ Push(Frame("destroy", h, "none", <<>>, Held(h)))
    /\ UNCHANGED <<storeVars, has, hooks, mirror>>

(* on a handle that is not alive, and remove without the component. *)
NothingToDo(h) == Running /\ DestroyReturnsFalse(h) /\ UNCHANGED lifeVars

Subscribed(l) == \E n \in DOMAIN hooks[Mirrors[l]] : hooks[Mirrors[l]][n] = l

(* on_component_add and on_component_remove, then a look at who has the    *)
(* component; not within a removal of it, of which nobody would tell l.    *)
Attach(l) ==
    /\ Running
    /\ ~Subscribed(l)
    /\ \A n \in DOMAIN stack : stack[n].op = "add" \/ stack[n].component # Mirrors[l]
    /\ hooks' = [hooks EXCEPT ![Mirrors[l]] = Append(@, l)]
    /\ mirror' = [mirror EXCEPT ![l] = Contents(Mirrors[l])]
    /\ UNCHANGED <<storeVars, has, stack>>

(* reset() of the two subscriptions, or their destructors. *)
Detach(l) ==
    /\ Running
    /\ \E n \in DOMAIN hooks[Mirrors[l]] :
          /\ hooks[Mirrors[l]][n] = l
          /\ hooks' = [hooks EXCEPT ![Mirrors[l]] =
                          SubSeq(@, 1, n - 1) \o SubSeq(@, n + 1, Len(@))]
    /\ UNCHANGED <<storeVars, has, stack, mirror>>
----------------------------------------------------------------------------
(* What a frame does when no callback is running. *)

Waiting == stack # <<>> /\ ~Top.running

(* The next callback of the copy, even if it was unsubscribed meanwhile. *)
Notify ==
    /\ Waiting
    /\ Top.calls # <<>>
    /\ LET l == Head(Top.calls)
       IN /\ SetTop([Top EXCEPT !.calls = Tail(@), !.running = TRUE])
          /\ mirror' = [mirror EXCEPT ![l] = IF Top.op = "add" THEN @ \cup {Top.entity}
                                             ELSE @ \ {Top.entity}]
    /\ UNCHANGED <<storeVars, has, hooks>>

Return == /\ stack # <<>>
          /\ Top.running
          /\ SetTop([Top EXCEPT !.running = FALSE])
          /\ UNCHANGED <<storeVars, has, hooks, mirror>>

Notified(op) == Waiting /\ Top.op = op /\ Top.calls = <<>>

EndAdd == Notified("add") /\ Pop /\ UNCHANGED <<storeVars, has, hooks, mirror>>

Without(c, i) == has' = [has EXCEPT ![c] = @ \ {i}]

EndRemove == /\ Notified("remove")
             /\ Without(Top.component, Top.entity.index)
             /\ Pop
             /\ UNCHANGED <<storeVars, hooks, mirror>>

(* Mistake: the hooks are not told. *)
DestroyNextSilently(c) ==
    /\ Notified("destroy")
    /\ Top.component = "none"
    /\ c \in Top.todo
    /\ SetTop([Top EXCEPT !.todo = @ \ {c}, !.component = c])
    /\ UNCHANGED <<storeVars, has, hooks, mirror>>

(* The next component collected; it may be gone by now. *)
DestroyNext(c) ==
    /\ Notified("destroy")
    /\ Top.component = "none"
    /\ c \in Top.todo
    /\ IF Top.entity.index \in has[c]
       THEN SetTop([Top EXCEPT !.todo = @ \ {c}, !.component = c, !.calls = hooks[c]])
       ELSE SetTop([Top EXCEPT !.todo = @ \ {c}])
    /\ UNCHANGED <<storeVars, has, hooks, mirror>>

(* remove_for_destroy, after the hooks of the component. *)
DestroyDrops ==
    /\ Notified("destroy")
    /\ Top.component # "none"
    /\ Without(Top.component, Top.entity.index)
    /\ SetTop([Top EXCEPT !.component = "none"])
    /\ UNCHANGED <<storeVars, hooks, mirror>>

(* The slot is retired without another look at it. *)
EndDestroy ==
    /\ Notified("destroy")
    /\ Top.component = "none"
    /\ Top.todo = {}
    /\ Retire(Top.entity)
    /\ Pop
    /\ UNCHANGED <<has, hooks, mirror>>
----------------------------------------------------------------------------
Frames == \/ Notify \/ Return \/ EndAdd \/ EndRemove
          \/ (\E c \in Component : DestroyNext(c))
          \/ DestroyDrops \/ EndDestroy

LifeNext ==
    \/ Creates
    \/ \E h \in issued : \/ \E c \in Component : Add(h, c) \/ Remove(h, c)
                         \/ BeginDestroy(h)
                         \/ NothingToDo(h)
    \/ \E l \in Listener : Attach(l) \/ Detach(l)
    \/ Frames

LifeSpec == LifeInit /\ [][LifeNext]_<<storeVars, lifeVars>>
----------------------------------------------------------------------------
(* Between operations a listener that is subscribed believes exactly what  *)
(* is so, whatever the callbacks, its own among them, did to other         *)
(* entities and components while operations were under way, and whoever    *)
(* subscribed or unsubscribed from within a callback.                      *)
MirrorExact ==
    stack = <<>> =>
        \A l \in Listener : Subscribed(l) => mirror[l] = Contents(Mirrors[l])

(* A callback finds what it is told of: the entity is alive and has the    *)
(* component, after it was added as well as before it is removed, and a    *)
(* component that a callback has removed during a destroy is not removed   *)
(* again.                                                                  *)
HookSeesComponent ==
    [][Notify => /\ Alive(Top.entity)
                 /\ Top.entity.index \in has[Top.component]]_<<storeVars, lifeVars>>

(* Hooks are told of every change, and of nothing that is not so. *)
HooksFaithful == []MirrorExact /\ HookSeesComponent

(* "Destroying an entity removes all of its components"                    *)
(* (ashiato_registry.test.cpp): no storage holds an index that is free.    *)
NoComponentOutlivesEntity == \A c \in Component : has[c] \subseteq Holding
=============================================================================
