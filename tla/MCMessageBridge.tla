--------------------------- MODULE MCMessageBridge ---------------------------
(* A contact and a group with the same number, and the login itself.       *)
EXTENDS MessageBridge
=============================================================================
