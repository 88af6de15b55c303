INIT MCInit
NEXT MCNext
CONSTANTS
    Configs <- MCConfigs
    Codes <- MCCodes
    RadiusCodecs = {"F32", "BlockLogU8"}
    MaxBatch = 2
    Scorers <- MCScorers
    Vectors <- MCVectors
    Ids = {1, 2}
    MaxEntries = 2
    Limits <- MCLimits
    Policies <- MCPolicies
    TokenPairs <- MCTokenPairs
    NaN = NaN
    None = None
    Error = Error
    MaxTokens = 4
    Underflow = 2
    Plans <- MCPlans
    Radii <- MCRadii
    Zero = Zero
    NotARadius = NotARadius
    LogOfTiny <- MCLogOfTiny
    Levels <- MCLevels
    Epsilon <- MCEpsilon
INVARIANTS
    DecodedIsSent
    OwnWireDecodes
    RadiiSurvive
    ScoreIsOfTheDecoded
    SearchIgnoresInsertionOrder
    CapCostsNoRecall
    AdaptiveKeepsItsBudget
