SPECIFICATION Spec
CONSTANTS
    t1 = t1
    t2 = t2
    app = app
    ci = ci
    url = url
    token = token
    dashed = dashed
    v1 = v1
    v2 = v2
    none = none
    Procs = {app}
    Threads = {t1}
    Homes <- OnlyOne
    Kinds <- AllKinds
    Keys = {url, token, dashed}
    Odd = {dashed}
    Titles = {dashed}
    Ambiguous = {dashed}
    Values = {v1}
    NoValue = none
INVARIANTS SetMirrorsGet
