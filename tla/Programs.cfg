CONSTANTS
    MaxMail = 2
    MaxWritten = 1
    MaxCrashes = 1
    MaxChanges = 2
    Accounts = {1, 2}
    MaxStarts = 2
    MaxFailures = 1
    LastNames = {1, 2, 3}
    FirstNames = {0, 1}
    MaxEntries = 4
    Windows = {1, 2}
    Apps = {1}
    MaxWorkers = 1
    MaxEvents = 3
    KeysAnyTime = FALSE
    t1 = t1
    t2 = t2
    t3 = t3
    Thread <- ThreeThreads
    Preempt = FALSE
SPECIFICATION ProgramsSpec
INVARIANTS MailKept OwnSession SearchFinds NoCircle MutexSound
PROPERTIES SessionsEnd GetReturns
CHECK_DEADLOCK FALSE
