SPECIFICATION Spec
CONSTANTS
    None = None
    Bot = Bot
    Name <- MCName
    EnvVar <- MCEnvVar
    User <- MCUser
    Group <- MCGroup
    Pattern <- MCPattern
    ObjectiveId = {"x", "y"}
    Channel <- MCChannel
    ChannelName <- MCChannelName
    Private = {"secret"}
    Members <- MCMembers
    Posts <- OnePost
    MaxRepeats = 1
    MaxDeliveries = 3
    File <- OneFile
    Env <- OneEnv
INVARIANTS
    HandledOnce
CHECK_DEADLOCK FALSE
