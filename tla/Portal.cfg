\* Workspaces, accounts, logins, templates, limiters and updates, one at a time.
SPECIFICATION PortalSpec
CONSTANTS
    r1 = r1
    r2 = r2
    Requests = {r1, r2}
    MaxUsers = 2
    MaxWs = 2
    Privileged = {1}
    Modes = {"personal"}
    SentRoles = {"admin"}
    MaxAccounts = 3
    ServerMode = FALSE
    LoginUsers = {"ann"}
    Sessions = {"s", "t"}
    Challenges = {"c"}
    None = "none"
    MaxKept = 1
    MaxTemplates = 2
    MaxVersions = 2
    Contents = {"text"}
    Seed = "text"
    Blank = "blank"
    Window = 2
    Limit = 2
    GlobalLimit = 3
    AssetLists <- SomeLists
    MaxOld = 2
    Tags <- SomeTags
SYMMETRY RequestSymmetry
INVARIANTS PortalTypeOK OwnerStays OneSuperadmin ChallengeOnce AuditTrail WorkingCopySurvives HonestAnswer
PROPERTIES LastStays SecondFactorAsked AlwaysAText ExactLimits FailureIsUndone
CHECK_DEADLOCK FALSE
