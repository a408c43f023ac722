--------------------------- MODULE MCApplication ---------------------------
(***************************************************************************)
(* Two projects, either of them new, with room for two environments.       *)
(***************************************************************************)
EXTENDS Application

CONSTANTS here, there, app

=============================================================================
