\* Two transactions; a publication that brings a new player takes the issuance lock last.
CONSTANTS
    Players = {0, 1}
    Accounts = {0, 1}
    Orders = {0, 1}
    Calculations = {0, 1}
    Bound = 2
    FreshPlayers = TRUE
    Sessions = {s1, s2}
SYMMETRY MCSymmetry
SPECIFICATION Spec
INVARIANTS
    NoWaitCycle
