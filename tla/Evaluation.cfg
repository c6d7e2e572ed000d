SPECIFICATION Spec
CONSTANTS
    None = None
    living = living  master = master  study = study  ac = ac  win = win
    c1 = c1  c2 = c2  t1 = t1  t2 = t2  t3 = t3  t4 = t4
    lamp = lamp  sash = sash
    Rooms <- MCRooms
    Entities <- MCEntities
    PairAllow <- MCPairAllow
    InitialLevel <- MCInitialLevel
    RelativeDelta <- MCRelative
    Values <- MCValues
    Lengths = {2, 3}
    Count = 60
    Limit = 2
    Packs <- MCPacks
    Answers <- MCAnswers
    MaxReceipts = 1
    MaxRewrites = 1
    Dialogues = 2
    TurnsPerDialogue = 3
    SealedRows = {1}
    Shapes <- MCShapes
    Scores = {1, 2}
    Epochs = 3
    TargetNum = 2
    TargetDen = 3
    TrainSets <- MCTrainSets
    HoldoutSets <- MCHoldoutSets
    Orders <- MCOrders
    Provenances <- MCProvenances
    Covered = {"co2", "airflow"}
    Places <- MCPlaces
    Words = {1, 2, 3}
    Suites <- MCSuites
    Mistakes <- MCMistakes
    Thresholds <- MCThresholds
    Snapshots <- MCSnapshots
    MaxRevision = 4
    CaseFiles <- MCCaseFiles
    Replies <- MCReplies
    Upstreams <- MCUpstreams
    Inventories <- MCInventories
INVARIANTS
    TaughtPatchIsTheOracle
    BackgroundDecides
    CommitmentFixesScore
    GateIsSound
    EvidenceIsSound
    WordingHasOneLabel
    VerdictsAreEarned
    NothingUpgraded
PROPERTY
    TreeHolds
CHECK_DEADLOCK FALSE
