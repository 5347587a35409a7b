---------------------------- MODULE MCRuntimeNode ----------------------------
(* RuntimeNode for TLC: no source name occurs in another.                   *)
EXTENDS RuntimeNode

NothingContained == {}

=============================================================================
