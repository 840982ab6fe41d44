SPECIFICATION Spec
CONSTANTS
    Monitors = {"web"}
    Targets <- NtfyAlone
    Ntfy = "ntfy"
    Configurations <- Unnamed
    NoName = ""
    SuppressWindow = 1
    DigestEnabled = TRUE
    Nackable = TRUE
    DurableQueue = TRUE
    MaxTime = 1
    MaxAlerts <- TwoAlerts
    MaxFaults = 1
INVARIANT DownIsSent
CHECK_DEADLOCK FALSE
