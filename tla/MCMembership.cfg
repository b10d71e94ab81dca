CONSTANTS
    owner = owner
    manager = manager
    newcomer = newcomer
    r1 = r1
    r2 = r2
    People = {owner, manager, newcomer}
    Founder = owner
    Newcomers = {newcomer}
    Requests = {r1, r2}
    Custom = {"MANAGER"}
    Rights <- RightsOf
    Cap = 3
    Given = {"OWNER", "MANAGER"}
    MaxRequests = 3
    MaxInvitations = 2
SPECIFICATION Spec
CHECK_DEADLOCK FALSE
SYMMETRY Symmetry
INVARIANTS TypeOK OwnerIsKept RemovedStaysOut
PROPERTY OwnersAnswerToOwners
