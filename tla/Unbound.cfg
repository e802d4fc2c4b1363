\* What the machine listens for after a controller was removed.
SPECIFICATION Spec
CONSTANTS
    WRAP = 4
    PICKER_IDLE_MS = 1
    MAX_DEVS = 1
    Macs = {a, b}
    Spellings = {"upper", "other"}
    NL = NL
    MaxResets = 1
INVARIANT UnboundCannotWake
