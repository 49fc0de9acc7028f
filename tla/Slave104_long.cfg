SPECIFICATION Spec
CONSTANTS
    Fd = {1}
    ByteValues = 16
    SQ_MAX_NUM = 2
    StartValue = 5
    YxNum = {3}
    YcNum = {4}
    CharSigned = TRUE
    Kinds = {"GI", "LONG"}
    MaxFrame = 2
    MaxConn = 1
INVARIANT LongFramesWhole
CHECK_DEADLOCK FALSE
