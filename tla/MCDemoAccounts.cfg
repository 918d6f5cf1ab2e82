CONSTANTS
    Account = {a1, a2}
    Request = {r1, r2}
    Terms = {deposit, bridge}
    Bridging = {bridge}
    Opening = Opening
    NoTerms = NoTerms
    Nobody = Nobody
SYMMETRY Symmetry
SPECIFICATION Spec
INVARIANTS TypeOK RequestsCostOnce 
PROPERTIES PaidOnce
CHECK_DEADLOCK FALSE
