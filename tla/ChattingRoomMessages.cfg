\* Messages that cross entries, exits and questions, with commits and statements
\* that fail and sessions that are not logged in.
SPECIFICATION Spec
CONSTANTS
    Users = {u1, u2}
    MaxRoom = 1
    MaxRows = 1
    MaxMessage = 2
    Failing = {"SELECT", "INSERT", "DELETE"}
    Residue = {TRUE}
    Nobody = Nobody
INVARIANTS
    TypeOK
    
    ShownIsStored
    GroupHasRows
    RemovedIsGone
SYMMETRY UserSymmetry
CHECK_DEADLOCK FALSE
