CONSTANTS
    Names = {n1, n2}
    Passwords = {p1, p2}
    Workers = {w1, w2, w3}
    none = none
SYMMETRY Symmetry
SPECIFICATION Spec
INVARIANTS
    OneOwner
    RegisteredCanLogIn
    WelcomeBacked
