CONSTANTS
    Users = {"r", "b", "n"}
    OrgRoles = {"root", "standard", "extra"}
    SystemRoles = {"root", "standard"}
    AppRoles = {1, 2}
    MaxLevel = 2
    Catalogs <- MCCatalogs
    Epochs = {"e1"}
    EventIds = {"x", "y"}
    MaxNumber = 2
    MaxRevision = 3
    MaxChanges = 3
    No = No
    Inherit = Inherit
    Unknown = Unknown
    None = None
    Unsynced = Unsynced
    Unbound = Unbound
    Other = Other
    Keep = Keep
    MaxOps = 2
    MaxEdits = 1
    NoDraft = NoDraft
    Slots = {1, 2}
    Bodies <- MCBodies
    Fallback <- MCFallback
    MaxRequests <- MCMax
    Null = Null
    Absent = Absent
    MaxTyped = 2
    MaxBusy = 2
    MaxReads = 4
    MaxRotates = 2
    NoDoc = NoDoc
    BlankField = BlankField
SPECIFICATION Spec
INVARIANTS
    LedgerTrue
    
    OutcomeRemembered
    SettingsCoherent
    FreshOffer
PROPERTIES
    NoEscalation
    CatalogForward
    EditsKept
    NoBlindOverwrite
CHECK_DEADLOCK FALSE
