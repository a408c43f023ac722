---------------------------- MODULE MCSharedFlow ----------------------------
(***************************************************************************)
(* One open flow, two names, two bodies.                                   *)
(***************************************************************************)
EXTENDS SharedFlow

CONSTANTS f, g, b1, b2

=============================================================================
