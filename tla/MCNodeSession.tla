--------------------------- MODULE MCNodeSession ---------------------------
(***************************************************************************)
(* A small instance of NodeSession.                                        *)
(***************************************************************************)
EXTENDS NodeSession

CONSTANTS p1, p2, p3
=============================================================================
