SPECIFICATION PartSpec
CONSTANTS
    Items = {1, 2, 3, 4}
    Hashes <- HashesOf
    LgStart = 1
    LgMax = 2
    Capacity <- CapacityOf
    SampleSize = 2
    Others <- OtherSketches
    MaxWeight = 4
    NumPeriods = 3
    Fields = 3
    MaxWindows = 5
INVARIANTS
    ListingNeverThrows
    LastingAreListed
    RowsMoveForward
    SketchesSound
    WrittenAsCounted
    AnswersAreWhole
    SettingsTakeEffect
PROPERTIES
    PurgeIsUniform
CHECK_DEADLOCK FALSE
