\* Login: two addresses, two attempts in three moments.  Bills: a statement of three payments to
\* two merchants, two uploads and two updates at a time, three requests, one error.  Caches: two
\* threads, at most two ETFs and one holding, caches of one result, ticks of four hours.
SPECIFICATION MCSpec
CONSTANTS
    IP = {ip1, ip2}
    MaxLoginAttempts = 2
    LoginBlockWindow = 3
    MaxTime = 7
    MaxAttempts = 7
    t1 = t1
    t2 = t2
    a = a
    b = b
    Threads = {t1, t2}
    Funds = {a, b}
    Functions <- AllFunctions
    Scenarios <- MCScenarios
    Room = 1
    HoursPerTick = 4
    LongTtl = 2
    MaxOutages = 1
    MaxRaces = 2
    MaxRestarts = 1
    m1 = m1
    m2 = m2
    Merchants = {m1, m2}
    Categories = {Dining, Transfer}
    Other = Other
    Transfer = Transfer
    NoAccount = NoAccount
    iban = iban
    Seed <- MCSeed
    Statement <- MCStatement
    Imports = {i1, i2}
    Updates = {u1, u2}
    MaxCalls = 3
    MaxErrors = 1
SYMMETRY Symmetries
INVARIANTS AtMostMaxPerWindow CachesAreBounded PaymentsFollowTheUsersRule
PROPERTIES RefusedOnlyWhenFull TheUserIsOverriddenByLateAnswersOnly AnswersAreNotOlderThanTheCachesAllow
CHECK_DEADLOCK FALSE
