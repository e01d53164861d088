SPECIFICATION FairSpec
CONSTANTS
    Thread = {t1, t2}
    Msg = {m1, m2, m3}
    Size = 2
    Space = 3
    MaxRequests = 2
    Nobody = Nobody
INVARIANTS NoUseAfterFree FreedIsForgotten
PROPERTIES InOrder PeerCloseFrees
CHECK_DEADLOCK FALSE
