----------------------------- MODULE MCTelemetry -----------------------------
\* Instances of Telemetry: episode 0 is the native one, states are the
\* sequences of at most four turns.
EXTENDS Telemetry

T1 == CHOOSE t \in Tabs : TRUE

MCIds == 1..4
MCStates == UNION {[1..n -> MCIds] : n \in 0..4}

None == [spoken |-> 0, marks |-> 0, resets |-> 0, reloads |-> 0, imports |-> 0,
         native |-> 0, closings |-> 0, reviews |-> 0, exports |-> 0, replays |-> 0,
         faults |-> 0, drain |-> FALSE, tabs |-> Tabs]

\* Each budget aims at a few hazards together; TLC explores their union.
MCBudgets ==
    { \* a session restored from its last turns only
     [None EXCEPT !.spoken = 4, !.reloads = 1, !.marks = 1, !.tabs = {T1}],
      \* two tabs of one session, a collector that dies
     [None EXCEPT !.spoken = 3, !.reloads = 1, !.faults = 1],
      \* an import that races with the uploads it repeats
     [None EXCEPT !.spoken = 2, !.reloads = 1, !.imports = 1, !.marks = 1, !.tabs = {T1}],
      \* the end of an episode after refused and lost uploads
     [None EXCEPT !.spoken = 3, !.marks = 1, !.resets = 1],
     [None EXCEPT !.spoken = 2, !.reloads = 1, !.resets = 1, !.faults = 1],
      \* the native episode rated, closed from two sides and exported
     [None EXCEPT !.native = 2, !.reviews = 2, !.closings = 1, !.exports = 2, !.faults = 1],
      \* two replays that overlap and fail
     [None EXCEPT !.native = 2, !.replays = 1, !.faults = 1, !.drain = TRUE],
     [None EXCEPT !.native = 1, !.reviews = 1, !.replays = 1, !.faults = 2, !.drain = TRUE],
     [None EXCEPT !.spoken = 1, !.marks = 1, !.faults = 1, !.drain = TRUE]}

=============================================================================
