-------------------------- MODULE MCConversationQueue --------------------------
(* Instances of ConversationQueue for TLC. *)
EXTENDS ConversationQueue
=============================================================================
