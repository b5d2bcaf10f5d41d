SPECIFICATION Spec
CONSTANTS
    first = first
    second = second
    day1 = day1
    day2 = day2
    old = old
    new = new
    p = p
    e = e
    None = None
    Torn = Torn
    Error = Error
    IngestRequests = {first}
    Keys = {day1}
    KeyOf <- TheKey
    Files = {e}
    FileOf <- TheFile
    Procs = {p}
    Contents = {old, new}
    FirstInput <- OldInput
    MaxChanges = 1
PROPERTIES
    ReplaysExactBatch
