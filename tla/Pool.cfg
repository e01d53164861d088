SPECIFICATION FairSpec
CONSTANTS
    Thread = {t1, t2, t3}
    Connection = {k1, k2}
    MinSize = 1
    MaxSize = 2
    MaxIdle = 2
    None = None
INVARIANTS TypeOK NoSharing SizeCounts ProducerAwakeWhenShort
PROPERTIES SweepIsComplete SomebodyServed
