-------------------------------- MODULE Names --------------------------------
(* The empty string, under a name: an identifier or a source not given.     *)

NoName == ""

=============================================================================
