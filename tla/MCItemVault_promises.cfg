\* What is promised and not kept, see the README: TLC refutes each with -continue.
SPECIFICATION Spec
CONSTANTS
    n = n
    m = m
    v1 = v1
    v2 = v2
    ours = ours
    theirs = theirs
    team = team
    ops = ops
    unset = unset
    placeholder = placeholder
    app = app
    ci = ci
    Procs = {app, ci}
    Kinds = {"bw", "op"}
    Addrs <- MoreAddrs
    Vaults <- SomeVaults
    Ids = {1, 2, 3}
    Values = {v1, v2}
    Written = {v1}
    Collections <- SomeCollections
    Contains <- SomePartial
    Resembles <- BothSimilar
    Hidden = {n}
    Unset = unset
    Placeholder = placeholder
    NoItem = NoItem
    Gone = Gone
    MaxOps = 3
    MaxMeddling = 1
SYMMETRY TwoProcs
INVARIANTS ReadYourWrite BatchReadsTheSame SelectorIsExact UnreadIsNotAbsent
CHECK_DEADLOCK FALSE
