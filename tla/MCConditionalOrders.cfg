\* Two orders for one player, one price that meets their limit, two workers:
\* every race of creation, cancellation, quotes, the clock and the pass.
CONSTANTS
    None = None
    Users = {1, 2}
    Players = {p1}
    Keys = {1, 2}
    Quantities = {1}
    Prices = {2}
    Supply = 2
    OpeningCredit <- MCOpeningCredit
    MaxSequence = 1
    Orders = {1, 2}
    Limits = {2}
    Lifetimes = {1}
    Workers = {w1, w2}
    Budget = 1
    MaxClock = 1
    MaxFailures = 0
SYMMETRY MCSymmetry
SPECIFICATION MCFoundedSpec
CHECK_DEADLOCK FALSE
INVARIANTS
    TypeOK
    OutcomeJustified
    NoLostWakeup
PROPERTIES
    OutcomeStands
    FirstComeFirstServed
