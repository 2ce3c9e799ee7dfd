SPECIFICATION UdpFairSpec
CONSTANTS
    Clients = {k1}
    Sessions = {s1, s2}
    Nil = Nil
INVARIANT OpenSocketHasOwner
PROPERTY StopEndsEveryGoroutine
