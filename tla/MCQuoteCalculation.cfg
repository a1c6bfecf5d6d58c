\* An import and an explicit call for the same facts, two workers.
CONSTANTS
    None = None
    i1 = i1
    x1 = x1
    Requests = {i1, x1}
    Explicit = {x1}
    Broken = {}
    Players = {p1}
    Facts = {"week"}
    Versions = {1, 2}
    FactsOf <- MCFactsOf
    PlayerOf <- MCPlayerOf
    PriceOf <- MCPriceOf
    Workers = {w1, w2}
SYMMETRY MCSymmetry
SPECIFICATION Spec
CHECK_DEADLOCK FALSE
INVARIANTS
    TypeOK
    OneQuotePerCalculation
    CalculationsBound
    OutcomeBacked
    AttemptsRecordedOnce
PROPERTIES
    TerminalStays
