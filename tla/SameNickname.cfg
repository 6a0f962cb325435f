\* A JOIN refused for its nickname, which nobody has: the check is given the username.
SPECIFICATION Spec
CONSTANTS
    Sessions = {s1, s2}
    Letters = {a, b}
    MaxLength = 1
    MaxId = 3
INVARIANT
    SameNicknameIsTaken
CHECK_DEADLOCK FALSE
