SPECIFICATION FairSpec
CONSTANTS
    Manual = {m1}
    Ticks = {t1}
    Gates = {"held", "missing", "elector"}
    NoCaller = NoCaller
INVARIANTS
    TypeOK
    ActiveRunIsOwned
    OkMeansOwnRun
    LeadershipIsReturned
    ScheduledRunHoldsLeadership
PROPERTIES
    EveryRequestAnswered
