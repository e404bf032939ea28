SPECIFICATION VoiceSpec
CONSTANTS
    MaxFinals = 1
    MaxSessions = 3
    MaxPhrases = 2
    MaxPartials = 1
    MaxFaults = 1
CHECK_DEADLOCK FALSE
INVARIANTS DevicesHaveOwners PendingIsOutstanding
PROPERTIES TranscriptsAdvance SessionsEnd
