SPECIFICATION Spec
CONSTANTS
    n = n
    m = m
    v1 = v1
    v2 = v2
    ours = ours
    theirs = theirs
    team = team
    ops = ops
    unset = unset
    placeholder = placeholder
    app = app
    ci = ci
    Procs = {app, ci}
    Kinds = {"bw", "op"}
    Addrs <- SomeAddrs
    Vaults <- SomeVaults
    Ids = {1, 2, 3}
    Values = {v1, v2}
    Written = {v1}
    Collections <- SomeCollections
    Contains <- SomePartial
    Resembles <- SomeSimilar
    Hidden = {n}
    Unset = unset
    Placeholder = placeholder
    NoItem = NoItem
    Gone = Gone
    MaxOps = 3
    MaxMeddling = 1
SYMMETRY TwoProcs
INVARIANTS AnswersAreRight
PROPERTIES WritesStayInScope CopiesHaveACause OneFieldChanges
CHECK_DEADLOCK FALSE
