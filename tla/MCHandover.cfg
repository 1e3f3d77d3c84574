SPECIFICATION HSpec
CONSTANTS
    NConn = 1
    Client = {k1, k2}
    Account = {ann}
    Password = {p, q}
    Key = {x, y}
    Zero = zero
    None = none
    Lists = {"absent"}
    Minute = 0
    MaxTime = 2
    MaxKill = 1
    MaxFail = 1
SYMMETRY Symmetry
CHECK_DEADLOCK FALSE
INVARIANTS
    HalfMadeIsCut
    FaultCause
    AdmittedByPassword
PROPERTIES
    PasswordKept
    ImplementsTickets
