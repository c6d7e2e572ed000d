SPECIFICATION RunSpec
CONSTANTS
  Texts <- MCTexts
  StableRepeats = 2
  Commands <- MCCommands
  Recordings = {"human", "tts", "stereo"}
  Usable = {"human", "tts"}
  Swapping = {"idle", "build"}
  MaxChunks = 3
  MaxFiles = 2
INVARIANTS
  OneFinalPerUtterance
  ProbeAccountable
  FixtureHeld
PROPERTIES
  RunEnds
CHECK_DEADLOCK FALSE
