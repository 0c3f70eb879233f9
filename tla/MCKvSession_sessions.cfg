SPECIFICATION Spec
CONSTANTS
    p1 = p1
    p2 = p2
    a = a
    b = b
    c = c
    d = d
    Main = Main
    Nobody = Nobody
    Paths = {p1, p2}
    Names = {a, b, c, d}
    PathOf <- ThePathOf
    Batches <- TheBatches
    Invalid = {d}
    Width = 2
    Attempts = 2
    Unlimited = 9
    Grants <- TheGrants
    MaxLogins = 3
    Second = 1
    MaxAge = 3
    Targets = {p1}
    Instants = {0, 9, 10}
INVARIANTS TokensAreShared ExpiryIsWhole NothingRecoverable BatchIsWhole
PROPERTIES ClaimsAreLive
