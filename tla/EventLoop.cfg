SPECIFICATION TFairSpec
CONSTANTS
    k1 = k1  k2 = k2  k3 = k3  t1 = t1  t2 = t2
    Thread = {t1, t2}
    Task = {k1, k2, k3}
    Timer = {k2, k3}
    Period <- Periods
    Delay = {2}
    MaxTime = 3
INVARIANTS TTypeOK NoLostWakeup NoLostQuit AlarmSet
PROPERTIES RunsInOrder EveryTaskRuns QuitEndsLoop OnTime EveryTimerRuns
CHECK_DEADLOCK FALSE
