-------------------------- MODULE MCExecutionRuntime --------------------------
(* A window and a lamp; one call at a time, or two that overlap. *)
EXTENDS ExecutionRuntime

CONSTANTS window, lamp, c1, c2, i1, i2

MCDevice == {window, lamp}
MCWindow == {window}
OneCall == {c1}
TwoCalls == {c1, c2}
MCAuthId == {i1, i2}
==============================================================================
