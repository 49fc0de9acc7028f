SPECIFICATION FairSpec
CONSTANTS
    Fd = {1, 2}
    ByteValues = 16
    SQ_MAX_NUM = 2
    StartValue = 5
    YxNum = {0, 3}
    YcNum = {4}
    CharSigned = TRUE
    Kinds = {"TESTFR", "GI", "CS"}
    MaxFrame = 3
    MaxConn = 2
INVARIANTS TypeOK FramesWhole StreamKept NoFrameWaits NumbersRight PointsAnnounced
PROPERTIES FrameAnalysed IsOutstation
CHECK_DEADLOCK FALSE
