---------------------------- MODULE MCChatClient ----------------------------
(* An instance of ChatClient for TLC: u3 and g2 are still to be made.      *)
EXTENDS ChatClient

CONSTANTS u1, u2, u3, g1, g2

(* What earlier sessions left: two friends, one of them in a group.        *)
SomeContacts == {<<u1, u2>>, <<u2, u1>>, <<u1, g1>>}
=============================================================================
