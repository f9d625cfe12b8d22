\* A tab, and one that sends no origin; the cookie may be lost twice.
SPECIFICATION FairSpec
CONSTANTS
    t1 = t1  t2 = t2
    Tabs = {t1, t2}
    Silent = {t2}
    MaxClears = 2
    MaxFaults = 2
    Absent = Absent
    Empty = Empty
INVARIANT RefusalMeansOvertaken
PROPERTY SettledTokenStays
PROPERTY RetrySucceeds
