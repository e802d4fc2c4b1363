\* The factory hold against others switching the machine on.
SPECIFICATION HSpec
CONSTANTS
    WRAP = 64
    DEBOUNCE_MS = 1
    BOARD_OFF_DEBOUNCE_MS = 2
    LONG_PRESS_MS = 3
    FACTORY_HOLD_MS = 4
    BOOT_TIMEOUT_MS = 4
    BLE_PRESENCE_TIMEOUT_MS = 2
    BLE_WAKE_COOLDOWN_MS = 3
    MaxTime = 6
    MaxPass = 1
    MaxIdle = 6
    ButtonLevels = {TRUE, FALSE}
    SenseBands = {"low"}
    Requests = {"on"}
    BoundAtBoot = {FALSE}
    Resets = FALSE
PROPERTY ResetOnlyWhileOff
