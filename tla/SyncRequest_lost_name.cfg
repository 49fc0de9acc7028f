SPECIFICATION AnsweringSpec
CONSTANTS
    c1 = c1  c2 = c2
    d1 = d1  d2 = d2
    m1 = m1
    Caller = {c1, c2}
    Poller = {c1}
    Device = {d1, d2}
    Mutex = {m1}
    mutexOf <- OneMutex
    NoName = NoName
    NoCaller = NoCaller
    Torn = Torn
    AnswerLen = 2
    MinLen = 2
    Framing = "framed"
    MayTimeOut = FALSE
    MaxRequest = 2
PROPERTY AnsweredCallReturns
