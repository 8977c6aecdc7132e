--------------------------- MODULE EntityHandles ---------------------------
(***************************************************************************)
(* What the registry promises about entity handles, independently of slot  *)
(* arrays and free lists: a handle is an <<index, version>> pair, at any   *)
(* time at most one live handle names an index, create() returns a handle  *)
(* on an index nobody holds, and destroy() retires exactly the handle it   *)
(* was given.                                                              *)
(***************************************************************************)
EXTENDS Naturals

CONSTANTS InvalidIndex,     \* indices are 0 .. InvalidIndex - 1
          VersionModulus    \* versions are counted modulo this number

VARIABLE live               \* the handles for which alive() is true

Handle == [index : 0 .. InvalidIndex - 1, version : 1 .. VersionModulus - 1]

Init == live = {}

Create == \E h \in Handle :
            /\ \A l \in live : l.index # h.index
            /\ live' = live \cup {h}

Destroy == \E h \in live : live' = live \ {h}

Next == Create \/ Destroy

Spec == Init /\ [][Next]_live
=============================================================================
