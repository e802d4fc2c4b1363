\* Wrong credentials saved from the fallback dashboard.
SPECIFICATION Spec
CONSTANTS
    WRAP = 64
    RECONNECT_BASE_MS = 1
    RECONNECT_MAX_MS = 4
    WIFI_FALLBACK_AFTER_MS = 2
    Configured = {"", "home"}
    Saves = {"wrong"}
    MaxSaves = 1
    MaxApFailures = 0
    MaxWait = 2
    MaxTime = 8
PROPERTY FallbackOnAir
