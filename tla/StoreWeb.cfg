\* Handlers, deferred actions, the button's reset and resets out of nowhere.
SPECIFICATION Spec
CONSTANTS
    WRAP = 16
    REBOOT_DELAY_MS = 1
    Settings = {"password", "wifi"}
    Passwords = {"a", "b"}
    Others = {"a", "default"}
    Default = "default"
    MaxTime = 1
    MaxResets = 2
INVARIANTS TypeOK SavedSurvives WebFactoryWipes SessionShowedPassword
PROPERTIES RebootComes
