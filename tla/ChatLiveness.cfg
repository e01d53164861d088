SPECIFICATION FairSpec
CONSTANTS
    s1 = s1  s2 = s2  c1 = c1  c2 = c2  c3 = c3  ann = ann  bob = bob  cat = cat
    m1 = m1
    NoConn = NoConn  NoUser = NoUser  NoMsg = NoMsg
    Server = {s1}
    Conn = {c1, c2}
    User = {ann, bob, cat}
    Msg = {m1}
    Groups = {{ann, bob, cat}}
    ServerOf <- PairServers
    LoopOf <- OwnLoop
    Accounts <- PairAccounts
    GroupQueryParses = TRUE
    Disruptions = {"loginout"}
    MaxStops = 0
PROPERTIES CloseFreesAccount HandlersReturn
