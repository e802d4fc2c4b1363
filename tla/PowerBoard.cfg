\* The board, the requests and the watchdog, with spontaneous resets.
SPECIFICATION HSpec
CONSTANTS
    WRAP = 64
    DEBOUNCE_MS = 1
    BOARD_OFF_DEBOUNCE_MS = 2
    LONG_PRESS_MS = 3
    FACTORY_HOLD_MS = 4
    BOOT_TIMEOUT_MS = 4
    BLE_PRESENCE_TIMEOUT_MS = 2
    BLE_WAKE_COOLDOWN_MS = 3
    MaxTime = 6
    MaxPass = 1
    MaxIdle = 6
    ButtonLevels = {FALSE}
    SenseBands = {"low", "mid", "high"}
    Requests = {"on", "off", "toggle"}
    BoundAtBoot = {FALSE}
    Resets = TRUE
INVARIANTS TypeOK PsuFollowsState OnHasBoardSense BootIsWatched
PROPERTIES ShutdownIsSustained ToggleInverts ImplementsPowerSwitch
