SPECIFICATION ApplicationSpec
CONSTANTS
    NULL = NULL
    NUM_HAZ = 4
    FlashesDetect = 2
    FlashesCancel = 3
    SampleDelay = 2
    TimeoutOff = 4
    TimeoutCancel = 9
    TurnSignals = TRUE
    MaxFlashes = 4
    NumInts = 3
    Half = 16
    Values <- ItemValues
    Factory <- FactoryItems
    NONE = NONE
INVARIANTS SumMatchesWindow EventsTellMode HazardModeIsTimed FlashTypeOK SavedIsRestored
PROPERTIES EntryNeedsTwoBursts RestoresWholeSaves
