SPECIFICATION Spec
CONSTANTS
    a = a  b = b
    t1 = t1  t2 = t2  t3 = t3
    P = P  A = A  X = X  Y = Y
    Processes = {a, b}
    Threads = {t1, t2, t3}
    ProcessOf <- MCProcessOf
    Profiles = {"default", "dev"}
    Secrets = {X}
    Inherited <- MCInherited
    Aliases = {A}
    Providers = {P}
    Cap = 0
    DefaultCap = 4
    None = None
    NoFile = NoFile
    Torn = Torn
    Budgets <- MCBudgets
    MaxTrouble = 1
INVARIANTS
    FilesAsAsked
    LogKeeps
PROPERTIES
    QuietIsKept
CHECK_DEADLOCK FALSE
