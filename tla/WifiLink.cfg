\* Every order of saves, losses, connections and failed SoftAP starts.
SPECIFICATION Spec
CONSTANTS
    WRAP = 5
    RECONNECT_BASE_MS = 1
    RECONNECT_MAX_MS = 4
    WIFI_FALLBACK_AFTER_MS = 2
    Configured = {"", "home", "wrong"}
    Saves = {"", "home", "wrong"}
    MaxSaves = 2
    MaxApFailures = 1
    MaxWait = 1
    MaxTime = 8
INVARIANTS TypeOK RetryBounded NoForgottenAp
PROPERTIES NoNeedlessAp ApGivesWay FallbackComes SavedCredentialsUsed
