---------------------------- MODULE MCChatClient ----------------------------
(* Small instances of ChatClient, with the stream it reads, for TLC. *)
EXTENDS ChatClient
=============================================================================
