SPECIFICATION MCSpec
CONSTANTS
    Pid = {p1, p2}
    FrameCount = 2
    FrameSize = 2
    VirtualBytes = 4
    MemorySize = {0, 1, 4, 5}
    Value = {258}
    NoPage = NoPage
    MaxLoads = 4
SYMMETRY Symmetry
INVARIANTS TypeOK ResidencyConsistent QueueExact NeverThrows NothingLeaks PagingCounters RetrySettles
PROPERTIES EvictsOldestFirst ImplementsFlatMemory
