CONSTANTS
    ann = ann
    bob = bob
    left = left
    right = right
    far = far
    claude = claude
    codex = codex
    Clones <- MCClones
    Threads <- MCThreads
    Home <- MCHome
    Logins <- MCClones
    Login <- MCLogin
    Entries <- MCEntries
    Origin <- MCOrigin
    Mergeable <- MCMergeable
    Keep = 1
    MaxTurns = 1
    MaxOps <- MCMaxOps
    MaxEvents = 1
SPECIFICATION Spec
SYMMETRY MCSymmetry
CHECK_DEADLOCK FALSE
INVARIANTS
    PushedStays
    MenuHonest
PROPERTIES
    ImplementsShelf
    AutoDigestPushed
