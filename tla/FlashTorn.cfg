SPECIFICATION FlashSpec
CONSTANTS
    NumInts = 3
    Half = 16
    Values <- ItemValues
    Factory <- FactoryItems
    NONE = NONE
PROPERTY TornPagesAreRejected
