\* Two sessions, accounts, players and keys: all locks interleaved, two confirmed quotes per player, the refinement of the atomic market, termination.
CONSTANTS
    None = None
    Users = {1, 2}
    Players = {p1, p2}
    Keys = {k1, k2}
    Quantities = {1}
    Prices = {2}
    Supply = 2
    OpeningCredit <- MCOpeningCredit
    MaxSequence = 2
    Sessions = {s1, s2}
    MaxTrades = 2
SPECIFICATION FairSpec
CHECK_DEADLOCK FALSE
INVARIANTS
    TypeOK
    HistoryExplainsHoldings
    RequestCompletesOnce
    NoDeadlock
    DecisionStands
    AnswerIsOwnTrade
PROPERTIES
    MarketSpec
    RequestsEnd
