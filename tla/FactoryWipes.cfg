\* The button's factory reset against a handler that saves.
SPECIFICATION Spec
CONSTANTS
    WRAP = 16
    REBOOT_DELAY_MS = 1
    Settings = {"password", "mqtt"}
    Passwords = {"a"}
    Others = {"a"}
    Default = "default"
    MaxTime = 1
    MaxResets = 2
PROPERTIES FactoryWipes
