---------------------------- MODULE MCForwarding ----------------------------
(* Small instances of Forwarding for TLC; the bounds are in the .cfg files. *)
EXTENDS Forwarding
==============================================================================
