SPECIFICATION Spec
CONSTANTS
    a = a  b = b  d = d  s = s
    x = x  y = y  z = z
    modbus = modbus  meter = meter
    broken = broken  slave = slave
    Configs <- Switched
    Loadable = {modbus, meter, slave}
    NoPlug = NoPlug
    NoKey = NoKey
    Fd = {f1}
INVARIANT DisabledTaskStarts
CHECK_DEADLOCK FALSE
