--------------------------- MODULE MCChatService ---------------------------
(* Instances of ChatService for TLC: which client reaches which server.    *)
EXTENDS ChatService, TLC

CONSTANTS s1, s2, c1, c2, c3, ann, bob, cat, m1

(* Each connection on a loop of its own: a server has four of them.        *)
OwnLoop == [c \in Conn |-> c]

(* Two servers, and each account reachable through both. *)
TwoServers == (c1 :> s1) @@ (c2 :> s2) @@ (c3 :> s1)
AnyAccount == [c \in Conn |-> User \cup {NoUser}]

(* ann comes back through the same server, bob writes from the other one.  *)
StickyServers  == (c1 :> s1) @@ (c2 :> s1) @@ (c3 :> s2)
StickyAccounts == (c1 :> {ann}) @@ (c2 :> {ann}) @@ (c3 :> {bob, NoUser})

(* The smallest system in which handlers, close handlers and the observer  *)
(* of one server wait for each other; cat is a member who stays away.      *)
PairServers  == (c1 :> s1) @@ (c2 :> s1)
PairAccounts == (c1 :> {ann, bob}) @@ (c2 :> {bob, NoUser})
=============================================================================
