--------------------------- MODULE MCZonePublish ---------------------------
(***************************************************************************)
(* Instances of ZonePublish for TLC.                                       *)
(***************************************************************************)
EXTENDS ZonePublish

\* Only open and closed lines: what fills the queue of transitions.
OnlyTransitions ==
  \A z \in Zones : ~zone[z].metadataKnown /\ ~zone[z].troubleKnown
=============================================================================
