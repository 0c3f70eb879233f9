\* What is promised and not kept, see the README: TLC refutes each with -continue.
SPECIFICATION StoresSpec
CONSTANTS
    app = app
    ci = ci
    conv = conv
    refd = refd
    oldval = oldval
    paddedval = paddedval
    bareval = bareval
    firstval = firstval
    unknownval = unknownval
    Procs = {app, ci}
    Kinds = {"bws", "protonpass"}
    EntryNames = {conv, refd}
    Refs = {refd}
    Ids = {1, 2, 3}
    FirstId <- FirstIds
    Values = {oldval, paddedval, bareval, firstval}
    Written = {paddedval}
    Old = oldval
    Trimmed <- Trims
    FirstLine <- Cuts
    Unknown = unknownval
    Meddling <- SomeMeddling
    MaxTrouble = 1
SYMMETRY TwoProcs
INVARIANTS OwnWritesAreSeen BatchAbsenceIsReal ReplacingKeeps
