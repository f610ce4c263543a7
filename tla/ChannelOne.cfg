CONSTANTS
    c1 = c1
    c2 = c2
    p1 = p1
    p2 = p2
    Channels = {c1}
    Processes = {p1, p2}
    Payloads <- TwoBytes
    Sizes = {0, 1, 2}
    kDefaultCapacity = 2
    MaxSize = 3
    NoAddr = NoAddr
SYMMETRY Swap
SPECIFICATION Spec
INVARIANTS BufferHoldsContents BuffersAreOwned ChannelsAreRemoved
PROPERTY ImplementsPrivateChannels
