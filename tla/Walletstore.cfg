CONSTANTS
    d1 = d1
    d2 = d2
    Deletes = {d1, d2}
    Faults = {"io", "result", "timeout", "crash"}
SPECIFICATION FairSpec
INVARIANTS
    TypeOK
    MetaMeansShare
    CompletedMeansStored
    StoreInv
    CleanDeletionLasts
PROPERTIES
    CreatedGetsShare
CHECK_DEADLOCK FALSE
