\* Rooms with entries, exits and questions that cross, failed commits and lost
\* connections; and what holds of rooms served one packet at a time.
SPECIFICATION HSpec
CONSTANTS
    Users = {u1, u2, u3}
    MaxRoom = 1
    MaxRows = 2
    MaxMessage = 0
    Failing = {}
    Residue = {TRUE}
    Nobody = Nobody
INVARIANTS
    
    RoomsKnown
    GroupIsRows
PROPERTIES
    LastExitDestroys
SYMMETRY UserSymmetry
CHECK_DEADLOCK FALSE
