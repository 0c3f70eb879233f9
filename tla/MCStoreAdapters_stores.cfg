SPECIFICATION StoresSpec
CONSTANTS
    app = app
    ci = ci
    conv = conv
    refd = refd
    oldval = oldval
    paddedval = paddedval
    bareval = bareval
    firstval = firstval
    unknownval = unknownval
    Procs = {app, ci}
    Kinds = {"awssm", "awsps", "akv", "gcsm", "scaleway", "infisical", "bws", "keeper", "protonpass", "lastpass", "dashlane", "keyring", "pass", "gopass", "sops"}
    EntryNames = {conv, refd}
    Refs = {refd}
    Ids = {1, 2, 3}
    FirstId <- FirstIds
    Values = {oldval, paddedval, bareval, firstval}
    Written = {paddedval}
    Old = oldval
    Trimmed <- Trims
    FirstLine <- Cuts
    Unknown = unknownval
    Meddling <- SomeMeddling
    MaxTrouble = 1
SYMMETRY TwoProcs
INVARIANTS ReadYourWrite AbsenceIsReal NothingLost
PROPERTIES RetriesSucceed
