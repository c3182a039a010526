\* Two symbols that may change their key, three jobs of at most two passes, a backfill in windows of two slots, an interrupted job.
CONSTANTS
    a = a
    b = b
    crossed = crossed
    negative = negative
    unpriced = unpriced
    NoTime = NoTime
    None = None
    s1 = s1
    s2 = s2
    k1 = k1
    k2 = k2
    Symbols = {s1, s2}
    Keys = {k1, k2}
    Slots = {1, 2, 3}
    SessionSlots = {1, 2}
    SoundBars = {a, b}
    CrossedBars = {crossed}
    NegativeBars = {negative}
    UnpricedBars = {unpriced}
    Bodies <- MCBodies
    MaxWindow = 2
    MaxJobs = 3
    MaxPasses = 2
    MaxCrashes = 1
SPECIFICATION Spec
\* The jobs are bounded.
CHECK_DEADLOCK FALSE
INVARIANTS
    MappingTraceable
    RevisionAudited
    PassIsVisible
    BackfillCovers
