SPECIFICATION ManifestSpec
CONSTANTS
    app = app
    left = left
    right = right
    common = common
    default = default
    prod = prod
    url = url
    key = key
    grp = grp
    Docs = {app, left, right, common}
    Root = app
    Profiles = {default, prod}
    Default = default
    Names = {url, key}
    Groups = {grp}
    Worlds <- AllWorlds
    Unset = unset
INVARIANTS DocumentsMerge AcceptedComposes LoadsFit
CHECK_DEADLOCK FALSE
