SPECIFICATION FairSpec
CONSTANTS
    highest_ = 3
    unit_magnitude_ = 0
    sub_bucket_count_magnitude_ = 1
    Modes = {"http"}
    Interval = 1
    Warmup = 1
    Duration = 2
    Timeout = 1
    max_inflight = 2
    connections = 2
    MaxBurst = 2
    batch_recv = 1
    Horizon = 3
    MaxSends = 3
    MaxFaults = 1
    Others <- OtherThreads
INVARIANT LossesAreCounted
