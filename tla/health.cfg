\* Two overlapping probes, with either store; a clock that outlives two entries.
CONSTANTS
    None = None
    Probes = {p1, p2}
    Ttl = 2
    MaxNow = 3
SPECIFICATION FairSpec
INVARIANTS HealthTypeOK EntryCleared
PROPERTIES DownHasCause ProbesEnd
