\* Two sources whose crawlers may hang for longer than their interval.
SPECIFICATION Spec
CONSTANTS
    s1 = s1
    s2 = s2
    Active <- TwoSources
    Interval = 4
    Timeout = 5
    Grace = 1
    Stagger = 1
    Windows = TRUE
    Naps = {2, 7}
    MaxNaps = 2
INVARIANTS
    OneCrawlPerSource
    GapBounded
