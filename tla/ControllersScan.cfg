\* Two controllers, the picker and resets.
SPECIFICATION Spec
CONSTANTS
    WRAP = 4
    PICKER_IDLE_MS = 1
    MAX_DEVS = 1
    Macs = {a, b}
    Spellings = {"upper", "other"}
    NL = NL
    MaxResets = 1
INVARIANTS TypeOK WakeScanCovers BoundIsStored ListReadsAsSet
PROPERTIES WakeScanResumes PickerEnds
