SPECIFICATION Spec
CONSTANTS
    Manual = {}
    Ticks = {t1, t2}
    Gates = {"elector"}
    NoCaller = NoCaller
INVARIANTS
    ScheduledRunHoldsLeadership
