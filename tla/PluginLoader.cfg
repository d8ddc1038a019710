SPECIFICATION FairSpec
CONSTANTS
    NoName = NoName
    NoLoad = NoLoad
    Loads <- MCLoads
    Names <- MCNames
    NameOf <- MCNameOf
    Clients = {c1}
CHECK_DEADLOCK FALSE
INVARIANTS
    ReferencedIsUsable
    CodeOutlivesObject
    OpenIsOwned
PROPERTIES
    DeletedForGood
    UnusedIsClosed
    UnloadReturns
