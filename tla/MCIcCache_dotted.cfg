SPECIFICATION Spec
CONSTANTS
    first = first
    second = second
    day1 = day1
    day2 = day2
    old = old
    new = new
    p = p
    e = e
    None = None
    Torn = Torn
    Error = Error
    IngestRequests = {first, second}
    Keys = {day1, day2}
    KeyOf <- KeyOfDay
    Files = {e}
    FileOf <- OneFileForAll
    Procs = {p}
    Contents = {old}
    FirstInput <- OldInputs
    MaxChanges = 0
PROPERTIES
    ReplaysExactBatch
