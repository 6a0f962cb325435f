\* Joins, logins and logouts that cross, and commits that fail.
SPECIFICATION Spec
CONSTANTS
    Sessions = {s1, s2}
    Letters = {a}
    MaxLength = 2
    MaxId = 3
INVARIANTS
    TypeOK
    UniqueNames
    JoinedIsStored
    SameIDIsTaken
    LoggedInIsMapped
SYMMETRY SessionSymmetry
\* Sessions are not reused, and the ids run out.
CHECK_DEADLOCK FALSE
