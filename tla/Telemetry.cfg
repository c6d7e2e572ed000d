SPECIFICATION Spec
CONSTANTS
    Tabs = {t1, t2}
    Window = 2
    MaxEvents = 2
    Episodes = {0, 1, 2}
    Ids <- MCIds
    States <- MCStates
    Budgets <- MCBudgets
INVARIANTS
    AckedIsKept
    PhoenixHasIt
    TrainingRowsHold
PROPERTIES
    EpisodesAreSound
    ExportedInTheEnd
CHECK_DEADLOCK FALSE
