--------------------------- MODULE MCChatService ---------------------------
(* ChatService on small instances.                                          *)
EXTENDS ChatService

CONSTANTS c1, plain1, stream1

\* Everybody sends to the same conversation.
SameConversation == [q \in Requests |-> c1]

=============================================================================
