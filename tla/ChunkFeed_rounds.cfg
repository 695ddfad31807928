\* Three volumes, and a feed rebuilt while its predecessor's round is out.
CONSTANTS
    t1 = t1
    t2 = t2
    None = None
    VolBound = 3
    Tasks = {t1, t2}
    Room <- TwoThenOne
    MaxErrors = 2
SPECIFICATION FairFeedSpec
INVARIANTS
    TypeOK
    PollerComesHome
    OneRoundUnlessOvertaken
    ClosedVolumesQueue
PROPERTIES
    SiteIsPolledAgain
