\* The button against power-ons requested by other tasks.
SPECIFICATION HSpec
CONSTANTS
    WRAP = 64
    DEBOUNCE_MS = 1
    BOARD_OFF_DEBOUNCE_MS = 2
    LONG_PRESS_MS = 2
    FACTORY_HOLD_MS = 3
    BOOT_TIMEOUT_MS = 3
    BLE_PRESENCE_TIMEOUT_MS = 2
    BLE_WAKE_COOLDOWN_MS = 1
    MaxTime = 5
    MaxPass = 0
    MaxIdle = 6
    ButtonLevels = {TRUE, FALSE}
    SenseBands = {"low", "high"}
    Requests = {"on"}
    BoundAtBoot = {FALSE}
    Resets = FALSE
INVARIANTS OneEffectPerPress
PROPERTIES TapBeganInThisBoot ImplementsPowerSwitch
