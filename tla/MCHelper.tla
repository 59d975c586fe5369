------------------------------ MODULE MCHelper ------------------------------
(* Small instances of Helper for TLC; the bounds are in the .cfg files. *)
EXTENDS Helper
==============================================================================
