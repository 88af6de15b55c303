INIT MCInit
NEXT MCNext
CONSTANTS
    p1 = p1
    p2 = p2
    p3 = p3
    NoFile = NoFile
    Absent = Absent
    s1 = s1
    s2 = s2
    s3 = s3
    l1 = l1
    l2 = l2
    mine = mine
    other = other
    NoParent = NoParent
    None = None
    a1 = a1
    StateId = {s1, s2, s3}
    LeaseId = {l1, l2}
    Page = {}
    Agent = {a1}
    MaxTime = 2
    Width = 4
    PageRefs <- MCPageRefs
    Grant <- MCGrant
    Caller <- MCCaller
    Policies <- MCPolicies
    Shapes <- MCShapes
    Seeds = {1, 2}
    AgentId = {"a", "b"}
    MaxTokens = 2
    Payload = {p1, p2, p3}
    Length <- MCLength
    HeaderArgs <- MCHeaderArgs
    Manifest <- MCManifest
    Layer = {0, 1}
    Kind = {"k"}
    Word = 16
    MaxPayload = 16
    Request <- MCRequest
    Words = {1, 2}
    States = {"s", "t"}
    Document <- MCDocument
    Flows = {"f", "g"}
    WindowSizes = {1, 2}
    MaxPushed = 4
    MaxSteps = 2
    Memory <- MCMemory
    Tolerance <- MCTolerance
SYMMETRY Symmetry
INVARIANTS
    PoolDecodesInPlace
    ShellDecodesOrFails
    OnlyListedPagesLeave
    AcceptedHeaderCountsItsBytes
    WindowsHoldEveryToken
    LeaseLivesItsTtl
    EveryForkHadItsLease
    ReplayFindsTheSession
    CollectedAreUnleased
