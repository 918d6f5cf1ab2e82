CONSTANTS
    Process = {p1, p2}
    Handler = {h1, h2, h3}
    Payment = {x1, x2}
    NoPayment = NoPayment
    NoProcess = NoProcess
SYMMETRY Symmetry
SPECIFICATION Spec
INVARIANTS TypeOK AnswersAreEarned
PROPERTIES KeepsPaidAnswer
CHECK_DEADLOCK FALSE
