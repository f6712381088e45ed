CONSTANTS
    Worlds <- MCWorlds
    ReadAs <- MCReadAs
    CannotRead <- MCCannotRead
    TextOf <- MCTextOf
SPECIFICATION Spec
INVARIANTS TypeOK GivesUpOnlyIfUnusable DocumentsAll
