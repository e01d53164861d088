SPECIFICATION Spec
CONSTANTS
    s1 = s1  s2 = s2  c1 = c1  c2 = c2  c3 = c3  ann = ann  bob = bob  cat = cat  m1 = m1
    NoConn = NoConn  NoUser = NoUser  NoMsg = NoMsg
    Server = {s1, s2}
    Conn = {c1, c2, c3}
    User = {ann, bob}
    Msg = {}
    Groups = {}
    ServerOf <- TwoServers
    LoopOf <- OwnLoop
    Accounts <- AnyAccount
    GroupQueryParses = FALSE
    Disruptions = {}
    MaxStops = 0
INVARIANTS TypeOK SessionInv OnlineIsOwned SubscribedWhereMapped
PROPERTY SessionNotDisturbed
