-------------------------------- MODULE MCGui --------------------------------
(* Small instances of Gui; the bounds are in the .cfg files. *)
EXTENDS Gui
==============================================================================
