------------------------------- MODULE MCInbox -------------------------------
(* Instances of the inbox for TLC. *)
EXTENDS Inbox, TLC

CONSTANTS f1, f2, v1, v2
=============================================================================
