SPECIFICATION Spec
CONSTANTS
    p1 = p1
    p2 = p2
    azure = azure
    env = env
    myprovider = myprovider
    other = other
    local = local
    Procs = {p1}
    Sources = {azure, env}
    Aliases = {myprovider, other}
    ChainOf <- TwoChains
    CacheStores = {local}
    CacheOf <- SharedCache
    Declared = myprovider
    Overrides = {azure, env, other}
    MaxAge = 1
    Faults <- AllFaults
    OutOfBand = FALSE
    MaxVersion = 2
    MaxTime = 3
    MaxSkew = 1
    MaxIntrusions = 1
PROPERTIES HitIsCurrent OwnershipRespected
