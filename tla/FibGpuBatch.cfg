INIT MCInit
NEXT MCNext
CONSTANTS
    Parts = {"codec"}
    Quantizers <- MCQuantizers
    Vectors <- MCVectors
    MaxVectors = 3
    Orthogonal <- MCOrthogonal
    HadamardSigns <- MCHadamardSigns
    Unit = 2
    MaxNorm = 3
    NaN = NaN
    SmallBatch = 3
    GpuMinBatch = 3
    GpuMinDim = 4
    LookupDim = 2
    Gpus = {TRUE}
    Initials <- MCInitials
    Samples <- MCSamples
    Policies = {"SplitHighestDistortion", "FailClosed"}
    Restarts = 2
    Iterations = 2
    Shapes <- MCShapes
    Tensors <- MCTensors
    KvProfiles <- MCKvProfiles
    KvPolicies <- MCKvPolicies
    NonFinite = NonFinite
    Loss = 100
    Thread = {t1, t2}
    Lookups <- MCLookups
    Wild = Wild
    Scalars <- MCScalars
    Unset = Unset
    CallFailed = CallFailed
    WithGpu = TRUE
    MinBatch = 2
    MinDim = 2
    WarpSize = 4
INVARIANT BatchEncodesLikeSingle
