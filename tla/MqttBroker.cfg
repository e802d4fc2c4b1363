\* Two brokers, one retained value, saves, losses and a reset.
SPECIFICATION Spec
CONSTANTS
    MQTT_RETRY_START_MS = 1
    MQTT_RETRY_MAX_MS = 2
    Brokers = {b1, b2}
    NoBroker = NoBroker
    Names = {n1, n2}
    Topics = {"state"}
    MaxSaves = 1
    MaxMishaps = 1
INVARIANTS TypeOK AvailabilityBacked RememberedIsRetained
PROPERTIES RetainedConverges LeftBehindIsOffline ImplementsRetainedState
