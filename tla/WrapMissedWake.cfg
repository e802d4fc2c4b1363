\* The guard window half a lap of the counter later, by one tick.
SPECIFICATION HSpec
CONSTANTS
    WRAP = 12
    DEBOUNCE_MS = 1
    BOARD_OFF_DEBOUNCE_MS = 2
    LONG_PRESS_MS = 3
    FACTORY_HOLD_MS = 4
    BOOT_TIMEOUT_MS = 4
    BLE_PRESENCE_TIMEOUT_MS = 2
    BLE_WAKE_COOLDOWN_MS = 3
    MaxTime = 7
    MaxPass = 1
    MaxIdle = 2
    ButtonLevels = {FALSE}
    SenseBands = {"low"}
    Requests = {}
    BoundAtBoot = {TRUE}
    Resets = FALSE
PROPERTY WakeNotMissed
