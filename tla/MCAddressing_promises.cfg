\* What is promised and not kept, see the README: TLC refutes each with -continue.
SPECIFICATION AddressingSpec
CHECK_DEADLOCK FALSE
CONSTANTS
    Rejected = Rejected
    Nobody = Nobody
    Env <- MCEnv
    Base <- MCBase
    Home <- MCHome
    Inode <- MCInode
    Specs <- MCSpecs
    Addresses <- MCAddresses
    Declared <- MCDeclared
    Ambient <- MCAmbient
    Files <- MCFiles
INVARIANTS UrisTell MovesSpareOwnEntry CachesAreApart DeclaredDecides
