\* A bound controller on the first lap of the millisecond counter, and what a fair loop task brings about.
SPECIFICATION HFairSpec
CONSTANTS
    WRAP = 64
    DEBOUNCE_MS = 1
    BOARD_OFF_DEBOUNCE_MS = 2
    LONG_PRESS_MS = 3
    FACTORY_HOLD_MS = 4
    BOOT_TIMEOUT_MS = 3
    BLE_PRESENCE_TIMEOUT_MS = 2
    BLE_WAKE_COOLDOWN_MS = 3
    MaxTime = 4
    MaxPass = 1
    MaxIdle = 6
    ButtonLevels = {FALSE}
    SenseBands = {"low", "high"}
    Requests = {"on", "off"}
    BoundAtBoot = {TRUE}
    Resets = FALSE
PROPERTIES ImplementsPowerSwitch WatchdogNotEarly WakeNotMissed BootEnds OffRequestServed
