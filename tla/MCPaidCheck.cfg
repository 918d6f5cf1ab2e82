CONSTANTS
    Request = {r1, r2}
    Account = {a1, a2}
    Policy = {p1, p2}
    N = 2
    Nobody = Nobody
    NoPolicy = NoPolicy
    NoPayment = NoPayment
    NoRequest = NoRequest
SYMMETRY Symmetry
SPECIFICATION Spec
INVARIANTS TypeOK ChecksAddUp
CHECK_DEADLOCK FALSE
