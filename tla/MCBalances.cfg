\* Two accounts, one identifier of each kind; an existential deposit of two, so
\* that a balance of one is dust.
SPECIFICATION Spec
CONSTANTS
    a1 = a1
    a2 = a2
    Accounts = {a1, a2}
    ED = 2
    LockIds = {"lock"}
    FreezeIds = {"freeze"}
    HoldReasons = {"hold"}
    ReserveIds = {"named"}
    MaxReserves = 1
    LockAmounts = {3}
    MaxSupply = 6
    MaxPending = 2
    Rest = 2
SYMMETRY Interchangeable
INVARIANTS
    TypeOK
    ReferencesAgree
    IssuanceAgrees
    ReservesBacked
PROPERTIES
    LocksHold
