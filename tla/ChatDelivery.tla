---------------------------- MODULE ChatDelivery ----------------------------
(***************************************************************************)
(* What the chat service promises about a message: ChatService with two    *)
(* history variables.                                                      *)
(*                                                                         *)
(* A session is settled while nothing about it is under way: the client is *)
(* in mainMenu and the map, the database and the broker agree that it is,  *)
(* or all of them agree that the user is away.  calm[m] keeps the          *)
(* addressees of m whose session has stayed settled since the handler of m *)
(* began; grouped keeps the messages that went to a group.                 *)
(***************************************************************************)
EXTENDS ChatService

VARIABLES calm, grouped

SettledOn(u) ==
    /\ state[u] = "online"
    /\ BrokerQuiet(u)
    /\ \E c \in Conn :
         /\ Mapped(u, c) /\ client[c] = "in" /\ currentUser[c] = u
         /\ {s \in Server : u \in subscribed[s]} = {ServerOf[c]}

SettledOff(u) ==
    /\ state[u] = "offline"
    /\ BrokerQuiet(u)
    /\ \A c \in Conn : uid[c] # u
    /\ \A s \in Server : userConnMap[s][u] = NoConn /\ u \notin subscribed[s]

TrackCalm ==
    calm' = [m \in Msg |->
               {u \in (IF sentTo[m] = {} THEN sentTo'[m] ELSE calm[m]) :
                    \/ SettledOn(u) /\ SettledOn(u)'
                    \/ SettledOff(u) /\ SettledOff(u)'}]

TrackGrouped ==
    grouped' = grouped \cup {msg'[c] : c \in {d \in Conn : pc'[d] = "lock"}}

dvars == <<vars, calm, grouped>>

DInit == Init /\ calm = [m \in Msg |-> {}] /\ grouped = {}

DSpec == DInit /\ [][Next /\ TrackCalm /\ TrackGrouped]_dvars

-----------------------------------------------------------------------------
(* While the session of its addressee stays settled, the copy of a         *)
(* message to one user is neither lost nor doubled, and it does not wait   *)
(* in the offline table for a user who is online (oneChatHandler, PUBLISH, *)
(* observer), whatever group messages do meanwhile.                        *)
CalmDelivery ==
    \A m \in Msg \ grouped : \A u \in calm[m] :
       /\ Cardinality(Copies(u, m)) = 1
       /\ state[u] = "online" => offlineMsg[u][m] = 0

(* No addressee gets a message twice, whatever the sessions do meanwhile.  *)
AtMostOnce ==
    \A u \in User, m \in Msg : \A p, q \in Copies(u, m) : p = q

(* The complete list of windows in which the last copy of a message can    *)
(* vanish: the connection it is written to belongs to a client that left,  *)
(* it was published when nobody subscribed any more or yet (the state read *)
(* by oneChatHandler was stale), or it was stored between the read and the *)
(* delete of the offline table in loginHandler.                            *)
LossWindows ==
    [][\A u \in User, m \in Msg :
          Copies(u, m) # {} /\ Copies(u, m)' = {} =>
             \E c \in Conn :
                \/ /\ client[c] = "gone"
                   /\ Owns(c, u) \/ Positions(pending[c], <<u, m>>) # {}
                \/ /\ pc[c] \in {"publish", "groupPublish"} /\ pc'[c] # pc[c]
                   /\ \A s \in Server : u \notin subscribed[s]
                \/ /\ pc[c] = "removeOffline" /\ pc'[c] # pc[c] /\ uid[c] = u
                   /\ read[c][m] < offlineMsg[u][m]]_vars

=============================================================================
