--------------------------- MODULE MCChatDelivery ---------------------------
(* Instances of ChatDelivery for TLC, in the layouts of MCChatService.     *)
EXTENDS MCChatService, ChatDelivery
=============================================================================
