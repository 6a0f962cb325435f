\* Safety of the registry and the groups, and liveness (hence no symmetry).
SPECIFICATION FairSpec
CONSTANTS
    MaxUser = 2
    Groups = {r1}
INVARIANTS
    TypeOK
    GroupsHoldRegistered
    RegistryOwnsSockets
    UsesLiveSession
PROPERTIES
    OwnThreadChangesMembership
    LostPeersAreClosed
\* The bound on connections is reached and every peer is gone.
CHECK_DEADLOCK FALSE
