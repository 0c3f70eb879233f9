\* Every spec of a source, every spec of a destination or a cache, and every
\* address compared between them.  A comparison ends the plan, so the system
\* stops there.
SPECIFICATION AddressingSpec
CHECK_DEADLOCK FALSE
CONSTANTS
    Rejected = Rejected
    Nobody = Nobody
    Env <- MCEnv
    Base <- MCBase
    Home <- MCHome
    Inode <- MCInode
    Specs <- MCSpecs
    Addresses <- MCAddresses
    Declared <- MCDeclared
    Ambient <- MCAmbient
    Files <- MCFiles
INVARIANTS
    FingerprintsTell
    OwnEntryIsSpared
    NamesKeepApart
    OneIdentity
