SPECIFICATION Spec
CONSTANTS
    Names = {a, b}
    Tried = {a}
    Setups = {r1, r2}
    Logins = {x1, x2}
    Plugins = {p, q}
    Limits = {1, 2}
    MaxFails = 4
    NoName = NoName
SYMMETRY AccessSymmetry
INVARIANTS TypeOK GuessBound OneSetup
PROPERTIES SetupJobSpec
