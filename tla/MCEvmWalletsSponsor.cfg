CONSTANTS
    Wallet = {w1, w2}
    Request = {r1}
    Starter = {tokens}
    Approval = {}
    Main = main
    Sponsor = Sponsor
    Nobody = Nobody
    MaxSponsored = 3
SPECIFICATION Spec
INVARIANTS SponsorSerialized
CONSTRAINT FewSponsored
CHECK_DEADLOCK FALSE
