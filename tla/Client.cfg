SPECIFICATION FairSpec
CONSTANTS
    User = {u1, u2, u3}
    Group = {g1, g2}
    Accounts = {u1, u2}
    Contacts <- SomeContacts
    MaxRequests = 3
    MaxPushes = 1
    NoUser = NoUser  u1 = u1  u2 = u2  u3 = u3  g1 = g1  g2 = g2
INVARIANTS
    AnswerMeetsWait
    SwallowedBehindCommand
    ListsAreOneAccounts
PROPERTIES
    WaitEnds
CHECK_DEADLOCK FALSE
