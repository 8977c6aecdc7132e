------------------------------ MODULE MCDebug ------------------------------
(***************************************************************************)
(* The two ends of the debug connection for TLC.  They share no variable,  *)
(* so each is explored by itself: scene, chosen at the start, says which   *)
(* end moves.                                                              *)
(***************************************************************************)
EXTENDS DebugServer, Debugger

VARIABLE scene

E01 == [index |-> 0, version |-> 1]
E11 == [index |-> 1, version |-> 1]

MCEntity == {E01, E11}
MCComponent == {"DebugName", "Data", "Flag", "Global"}
MCInfo == [c \in MCComponent |->
             CASE c = "DebugName" -> [kind |-> "value", fields |-> [name |-> "string"]]
               [] c = "Data" -> [kind |-> "value", fields |-> [level |-> "u8", scale |-> "f32"]]
               [] c = "Global" -> [kind |-> "singleton", fields |-> [on |-> "bool"]]
               [] c = "Flag" -> [kind |-> "tag", fields |-> <<>>]]
MCLasting == {E01}
MCNeeds == [mover |-> {"Data"}]
MCPort == 1 .. 2

Registry(alive, having, lone) ==
    [alive |-> alive,
     table |-> [c \in MCComponent |-> [x \in MCEntity \cup {Holder} |->
                  IF \/ c = "Data" /\ x \in having
                     \/ c = "Global" /\ x = Holder /\ lone
                  THEN [f \in DOMAIN MCInfo[c].fields |-> 0] ELSE Missing]]]

MCFirstWorld == <<Registry({E01, E11}, {E01}, TRUE), Registry({E01}, {E01}, FALSE)>>

(* In quarters: 0.25 is written with an exponent and 1 is plain; what is   *)
(* not whole becomes whole in level, and 16 is more than a field takes.    *)
MCText == {1, 4, 64}

MCDigits == [u8 |-> 4]

MCLargest == [f32 |-> 48, f64 |-> 128]

Post(op, e, c, values, header, length, size) ==
    [words |-> {op}, id |-> e, component |-> c, values |-> values,
     method |-> "POST", header |-> header, length |-> length, size |-> size]

SetOneBad == Post("setComponent", E01, "Data",
                  [level |-> Typed("u8", 64), scale |-> Typed("f32", 4)], 1, 0, 1)
SetName(e) == Post("setComponent", e, "DebugName", [name |-> Typed("string", 9)], 1, 0, 1)
List == Post("entities", E01, "Data", <<>>, 1, 0, 1)
TooLong == [List EXCEPT !.length = 3, !.size = 2]
AtLimit == [List EXCEPT !.length = 2, !.size = 3]

MCPeer == {"editor", "namer", "stranger"}
MCRequestOf == [p \in MCPeer |->
                  CASE p = "editor" -> {SetOneBad}
                    [] p = "namer" -> {SetName(E11)}
                    [] p = "stranger" -> {TooLong, AtLimit}]
vars == <<scene, serverVars, toolVars>>

MCInit == scene \in {"server", "tool"} /\ ServerInit /\ ToolInit

MCNext == /\ UNCHANGED scene
          /\ \/ scene = "server" /\ ServerNext /\ UNCHANGED toolVars
             \/ scene = "tool" /\ ToolNext /\ UNCHANGED serverVars

MCSpec == /\ MCInit /\ [][MCNext]_vars
          /\ WF_vars(scene = "server" /\ PollStep /\ UNCHANGED <<scene, toolVars>>)
          /\ WF_vars(scene = "tool" /\ RefreshStep /\ UNCHANGED <<scene, serverVars>>)
          /\ WF_vars(scene = "tool" /\ PollRefresh /\ UNCHANGED <<scene, serverVars>>)
          /\ WF_vars(scene = "tool" /\ AutoRefresh /\ UNCHANGED <<scene, serverVars>>)
          /\ WF_vars(scene = "tool" /\ DrawTabs /\ UNCHANGED <<scene, serverVars>>)

ToolSettles == scene = "tool" => EventuallySettled
=============================================================================
