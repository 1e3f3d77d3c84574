CONSTANTS
    c1 = c1
    c2 = c2
    n1 = n1
    n2 = n2
    n3 = n3
    Conn <- MCConn
    Name <- MCName
    Unnamed = Unnamed
    Room = 2
    MaxKill = 1
    MaxFail = 1
SPECIFICATION CharSpec
SYMMETRY Symmetry
INVARIANTS
    EmptyCause
    ListOverrunCause
PROPERTIES
    ChoiceIsEntered
CHECK_DEADLOCK FALSE
