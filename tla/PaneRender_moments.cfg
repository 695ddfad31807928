\* Two panes of one radar out of the shared time, one of which navigates.
CONSTANTS
    Sites = {s1, s2}
    Home = s1
    MaxCut = 2
    MaxPanes = 2
    Slots = 2
    MaxPictures = 2
    CacheSize = 2
    None = None
    Hidden = Hidden
    Linked = FALSE
    Speculates = TRUE
    MaxActs = 1
SPECIFICATION Spec
INVARIANTS
    ParkedHoldsItsMoment
