\* two events about one payment; every event may be over, so the system may stop
CONSTANTS
    Events = 2
    Attempts = 2
SPECIFICATION FairSpec
CHECK_DEADLOCK FALSE
INVARIANTS TypeOK ProcessedIsApplied AckedIsQueued
PROPERTIES EventSettles
