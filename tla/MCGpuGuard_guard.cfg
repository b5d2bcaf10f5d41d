SPECIFICATION FairSpec
CONSTANTS
    p1 = p1
    p2 = p2
    p3 = p3
    a = a
    b = b
    c = c
    d = d
    e = e
    NoLease = NoLease
    Jobs = {a, b, c, d, e}
    Pids = {p1, p2, p3}
    PidOf <- Processes
    Need <- Needs
    Threshold = 4
    Total = 9
    Budget = 8
    CanDie = {p1}
    CanTimeOut = {b}
    MaxStalls = 1
INVARIANTS
    TypeOK
    AtMostOneExclusive
    WithinBudget
    TicketsBacked
    TicketsFit
PROPERTIES
    EveryWaiterServed
CHECK_DEADLOCK FALSE
