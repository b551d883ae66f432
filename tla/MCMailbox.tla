------------------------------ MODULE MCMailbox ------------------------------
(* Instances of Mailbox: the client's single producer and the server's two. *)
EXTENDS Mailbox
==============================================================================
