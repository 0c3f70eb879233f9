SPECIFICATION Spec
CONSTANTS
    p1 = p1
    p2 = p2
    old = old
    older = older
    vault = vault
    pass = pass
    url = url
    key = key
    item = item
    item2 = item2
    v1 = v1
    v2 = v2
    Procs = {p1, p2}
    Stores = {old, older, vault, pass}
    Names <- TwoNames
    Addrs = {item}
    AddrOf <- SharedRef
    Target <- ToTwoStores
    FromStores = {old, older}
    Deleting = {old, older}
    Lossy = {}
    Values = {v1, v2}
    Faults <- NoFaults
PROPERTIES DestinationKept DeletesOnlyCopied
