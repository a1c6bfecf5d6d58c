\* An import without a mapping and an explicit call, two workers: both end.
CONSTANTS
    None = None
    i1 = i1
    x1 = x1
    Requests = {i1, x1}
    Explicit = {x1}
    Broken = {i1}
    Players = {p1}
    Facts = {"week"}
    Versions = {1}
    FactsOf <- MCFactsOf
    PlayerOf <- MCPlayerOf
    PriceOf <- MCPriceOf
    Workers = {w1, w2}
SPECIFICATION FairSpec
CHECK_DEADLOCK FALSE
PROPERTIES
    RequestsEnd
