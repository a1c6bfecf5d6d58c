\* Three transactions of every kind, publications of known players only.
CONSTANTS
    Players = {0, 1}
    Accounts = {0, 1}
    Orders = {0, 1}
    Calculations = {0, 1}
    Bound = 2
    FreshPlayers = FALSE
    Sessions = {s1, s2, s3}
SYMMETRY MCSymmetry
SPECIFICATION Spec
INVARIANTS
    TypeOK
    NoWaitCycle
