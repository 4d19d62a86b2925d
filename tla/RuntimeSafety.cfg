SPECIFICATION Spec
CONSTANTS
    None = None
    Bot = Bot
    Name <- MCName
    EnvVar <- MCEnvVar
    User <- MCUser
    Group <- MCGroup
    Pattern <- MCPattern
    ObjectiveId = {"x", "y"}
    Channel <- MCChannel
    ChannelName <- MCChannelName
    Private = {"secret"}
    Members <- MCMembers
    Posts <- MCPosts
    MaxRepeats = 2
    MaxDeliveries = 2
    File <- MCFile
    Env <- MCEnv
INVARIANTS
    RuntimeTypeOK
    OnlySelectedSecretsMatter
    TasksAreEntitled
PROPERTIES
    BuiltAsConfigured
    DeadLinkIsReplaced
CHECK_DEADLOCK FALSE
