\* Requests of one season: equal ones, one that differs, one about another player.
CONSTANTS
    None = None
    Dispatcher = Dispatcher
    q1 = q1
    q2 = q2
    q3 = q3
    q4 = q4
    Requests = {q1, q2, q3, q4}
    InputOf <- MCInput
    Seasons = {"PL"}
    Players = {"p1", "p2"}
    AttemptLimit = 1
    Concurrency = 1
    Workers = {w1}
SYMMETRY MCTwins
SPECIFICATION Spec
CHECK_DEADLOCK FALSE
INVARIANTS
    OneActiveRun
