SPECIFICATION FairSpec
CONSTANTS
    a = a  b = b  d = d  s = s
    x = x  y = y  z = z
    modbus = modbus  meter = meter
    broken = broken  slave = slave
    Configs <- All
    Loadable = {modbus, meter, slave}
    NoPlug = NoPlug
    NoKey = NoKey
    Fd = {f1}
INVARIANTS TypeOK SoundStarts PollReady ChannelLock ClientsKnown
PROPERTIES CommandArrives EveryDevicePolled
CHECK_DEADLOCK FALSE
