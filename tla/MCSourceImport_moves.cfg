SPECIFICATION Spec
CONSTANTS
    p1 = p1
    p2 = p2
    old = old
    older = older
    vault = vault
    pass = pass
    url = url
    key = key
    item = item
    item2 = item2
    v1 = v1
    v2 = v2
    Procs = {p1}
    Stores = {old, vault, pass}
    Names <- TwoNames
    Addrs = {item, item2}
    AddrOf <- OwnAddrs
    Target <- ToTwoStores
    FromStores = {old, pass}
    Deleting = {old, pass}
    Lossy = {vault}
    Values = {v1, v2}
    Faults <- AllFaults
INVARIANTS NothingLost SuccessIsComplete
PROPERTIES DestinationKept
