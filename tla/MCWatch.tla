------------------------------ MODULE MCWatch ------------------------------
(***************************************************************************)
(* One or two flows, two bodies.                                           *)
(***************************************************************************)
EXTENDS Watch

CONSTANTS f, g, b1, b2

=============================================================================
