\* Two panes that share their time, two radars and two tilts, through any two acts of the
\* user, the platform or the network.
CONSTANTS
    Sites = {s1, s2}
    Home = s1
    MaxCut = 2
    MaxPanes = 2
    Slots = 2
    MaxPictures = 2
    CacheSize = 2
    None = None
    Hidden = Hidden
    Linked = TRUE
    Speculates = TRUE
    MaxActs = 2
SPECIFICATION FairSpec
INVARIANTS
    TypeOK
    MarksAreAnswered
    WantedIsCurrent
    SettledIsPainted
PROPERTIES
    EveryPaneSettles
