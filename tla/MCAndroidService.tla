-------------------------- MODULE MCAndroidService --------------------------
(* Small instances of AndroidService; the bounds are in the .cfg files. *)
EXTENDS AndroidService
==============================================================================
