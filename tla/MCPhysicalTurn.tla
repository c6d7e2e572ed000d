---------------------------- MODULE MCPhysicalTurn ----------------------------
(* A window and a lamp, and the patches the turns are made of. *)
EXTENDS PhysicalTurn

CONSTANTS window, lamp

MCDevice == {window, lamp}
MCWindow == {window}

Single(o, d) == {[op |-> o, at |-> {d}, value |-> v] : v \in Pct}
Undo == {[op |-> "UNDO", id |-> i] : i \in 1..MaxCommands}

\* Slots of both devices, a set, an undo and the protection of the window.
SetPatch == Single("SET", window)
            \cup {[op |-> "SET", at |-> MCDevice, value |-> 0],
                  [op |-> "PROTECT_ALL", at |-> {window}, value |-> 0]}
            \cup Undo

\* Devices that come and go as well.
MCPatch == SetPatch
           \cup {[op |-> "ADD", at |-> {lamp}, value |-> 1],
                 [op |-> "REMOVE", at |-> {lamp}, value |-> 0],
                 [op |-> "REPLACE", at |-> {lamp}, value |-> 1],
                 [op |-> "PROTECT", at |-> {lamp}, value |-> 0]}
=============================================================================
