SPECIFICATION Spec
CONSTANTS
    Monitors = {"web"}
    Targets <- NtfyAlone
    Ntfy = "ntfy"
    Configurations <- Unnamed
    NoName = ""
    SuppressWindow = 1
    DigestEnabled = TRUE
    Nackable = TRUE
    DurableQueue = TRUE
    MaxTime = 0
    MaxAlerts <- TwoAlerts
    MaxFaults = 0
INVARIANT RecoveryFollowsDigest
CHECK_DEADLOCK FALSE
