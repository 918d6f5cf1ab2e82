CONSTANTS
    Wallet = {w1}
    Request = {r1, r2}
    Starter = {tokens}
    Approval = {approve}
    Main = main
    Sponsor = Sponsor
    Nobody = Nobody
    MaxSponsored = 3
SYMMETRY Symmetry
SPECIFICATION Spec
INVARIANTS TypeOK NoncesAreSettled
PROPERTIES SignedOnce
CONSTRAINT FewSponsored
CHECK_DEADLOCK FALSE
