CONSTANTS
    Seats = {s1}
    Users = {u1, u2}
    Bookings = {b1, b2}
    Sessions = {p1, p2}
    Nil = Nil
SPECIFICATION FairSpec
INVARIANTS
    TxTypeOK
    UniqueIndexNeverFires
    SeatHolderRuns
    AuditReplays
PROPERTIES
    LedgerSpec
    ImplementsSale
    BookingsOnlyMoveForward
    TransactionsEnd
