\* One order, one worker and the facade, direct trades, an attempt that fails or a job
\* that is lost: the order is settled all the same, and at each point of that its
\* owner may read the row or the clock.
CONSTANTS
    None = None
    Users = {1, 2}
    Players = {p1}
    Keys = {1, 9}
    Quantities = {1}
    Prices = {1}
    Supply = 1
    OpeningCredit <- MCOneCredit
    MaxSequence = 1
    Orders = {1}
    Limits = {1}
    Lifetimes = {1}
    Workers = {w1}
    Budget = 1
    MaxClock = 1
    MaxFailures = 1
SPECIFICATION MCReadSpec
CHECK_DEADLOCK FALSE
PROPERTIES
    OrdersSettle
    ShownIsFinal
