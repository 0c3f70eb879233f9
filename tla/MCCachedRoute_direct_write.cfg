SPECIFICATION Spec
CONSTANTS
    p1 = p1
    p2 = p2
    azure = azure
    env = env
    myprovider = myprovider
    other = other
    local = local
    Procs = {p1}
    Sources = {azure}
    Aliases = {myprovider}
    ChainOf <- OneLink
    CacheStores = {local}
    CacheOf <- OneCache
    Declared = azure
    Overrides = {myprovider}
    MaxAge = 1
    Faults <- NoFaults
    OutOfBand = FALSE
    MaxVersion = 2
    MaxTime = 3
    MaxSkew = 0
    MaxIntrusions = 0
PROPERTIES DirectWriteInvalidates
