SPECIFICATION FairSpec
CONSTANTS
    Ids = {1, 2, 3}
    Contents = {1}
    BatchSize = 2
    MaxEdits = 0
    CanFail = FALSE
PROPERTIES
    ReEmbedEnds
CHECK_DEADLOCK FALSE
