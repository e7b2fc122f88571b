--------------------------- MODULE MCPanelControl ---------------------------
(***************************************************************************)
(* Instances of PanelControl for TLC: the actions are on one zone, so that *)
(* they can collapse and contradict each other.                            *)
(***************************************************************************)
EXTENDS PanelControl
=============================================================================
