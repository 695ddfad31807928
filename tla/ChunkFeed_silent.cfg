\* One round at a time, and a radar that stops after its second volume.
CONSTANTS
    t1 = t1
    t2 = t2
    None = None
    VolBound = 2
    Tasks = {t1}
    Room <- TwoThenOne
    MaxErrors = 2
SPECIFICATION FairFeedSpec
PROPERTIES
    SilentSiteRetires
