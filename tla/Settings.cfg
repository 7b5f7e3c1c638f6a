SPECIFICATION SettingsSpec
CONSTANTS
    Durations <- ManyDurations
    Groups <- AllGroups
    MaxCalls = 2
INVARIANTS Exact NoHalfAnswer
PROPERTIES DecodesWhatWasEncoded DoneAsAsked ReadsWhatIsKept
CHECK_DEADLOCK FALSE
