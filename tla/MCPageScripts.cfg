\* Seven instants, two zones, one display (7) that no instant has.
SPECIFICATION PageSpec
CONSTANTS
    MaxInstant = 6
    MaxNow = 2
    Zones <- MCZones
    Displays = {0, 1, 2, 3, 4, 5, 6, 7}
    Presets = {1, 4}
    Far = 6
    None = None
    NoRow = NoRow
    Unparsable = Unparsable
    Languages = {"auto", "rust"}
    MaxEdits = 2
    MaxClicks = 2
INVARIANTS
    ShownIsSubmitted
    PreviewCatchesUp
    LabelComesBack
PROPERTIES
    SavesWhatWasMeant
