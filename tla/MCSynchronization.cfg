\* One run, two attempts, two workers that overtake each other, one slot.
CONSTANTS
    None = None
    Dispatcher = Dispatcher
    q1 = q1
    q2 = q2
    q3 = q3
    q4 = q4
    Requests = {q1}
    InputOf <- MCInput
    Seasons = {"PL"}
    Players = {"p1", "p2"}
    AttemptLimit = 2
    Concurrency = 1
    Workers = {w1, w2}
SPECIFICATION FairSpec
CHECK_DEADLOCK FALSE
INVARIANTS
    TypeOK
    OneOpenDelivery
PROPERTIES
    PublishedByOpenAttempt
    HistoryStays
    RunsSpec
    RunsEnd
