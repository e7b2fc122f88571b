------------------------- MODULE MCTroubleSnapshot -------------------------
(***************************************************************************)
(* An instance of TroubleSnapshot for TLC.                                 *)
(***************************************************************************)
EXTENDS TroubleSnapshot
=============================================================================
