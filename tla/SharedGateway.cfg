\* One request at a time, two accounts, one workspace, every gateway mode that a form sends.
SPECIFICATION Spec
CONSTANTS
    Requests = {r1}
    MaxUsers = 2
    MaxWs = 1
    Privileged = {1}
    Modes = {"personal", "workspace_shared", "shared"}
    SentRoles = {"admin", "member"}
INVARIANTS SharedGatewayUsed
CHECK_DEADLOCK FALSE
