\* GroupBroadcast against CloseSocket.
SPECIFICATION Spec
CONSTANTS
    MaxUser = 2
    Groups = {r1}
INVARIANT
    GroupSendUsesLiveSession
CHECK_DEADLOCK FALSE
