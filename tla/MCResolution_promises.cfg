SPECIFICATION Spec
CONSTANTS
    p1 = p1
    p2 = p2
    vault = vault
    keyring = keyring
    host = host
    password = password
    dsn = dsn
    url = url
    Procs = {p1, p2}
    Stores = {vault, keyring}
    Names <- AllNames
    Profiles <- AllProfiles
    Ops <- OneMayPrompt
    ReadOnly = {}
    Unreliable = {vault}
INVARIANTS OnlyAllFailingIsError ScopesReadTheSame
