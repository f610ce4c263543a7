CONSTANTS
    c1 = c1
    c2 = c2
    p1 = p1
    p2 = p2
    Channels = {c1, c2}
    Processes = {p1, p2}
    Payloads <- OneByte
    Sizes = {1}
    kDefaultCapacity = 2
    MaxSize = 1
    NoAddr = NoAddr

SPECIFICATION Spec
INVARIANT HandlesArePrivate
