SPECIFICATION FairAuth
CONSTANTS
    t1 = t1
    t2 = t2
    prod = prod
    s1 = s1
    s2 = s2
    s3 = s3
    x1 = x1
    x2 = x2
    x3 = x3
    token = token
    Callers = {t1, t2}
    Keys = {prod}
    Slots = {s1, s2, s3}
    Cells = {x1, x2, x3}
    Names <- OneToken
    Faults <- AllFaults
    MaxVersion = 1
INVARIANTS FreshCredentials ProbesCount
PROPERTIES KeptOnceGood EveryoneReturns
