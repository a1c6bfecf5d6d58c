\* One import and one worker: a confirmed third attempt that does not report back.
CONSTANTS
    None = None
    i1 = i1
    x1 = x1
    Requests = {i1}
    Explicit = {}
    Broken = {}
    Players = {p1}
    Facts = {"week"}
    Versions = {1, 2}
    FactsOf <- MCFactsOf
    PlayerOf <- MCPlayerOf
    PriceOf <- MCPriceOf
    Workers = {w1}
SPECIFICATION Spec
CHECK_DEADLOCK FALSE
INVARIANTS
    ExhaustedHasNoQuote
