-------------------------- MODULE MCChimeReadback --------------------------
(***************************************************************************)
(* An instance of ConsolePacing and ChimeReadback for TLC.                 *)
(***************************************************************************)
EXTENDS ChimeReadback

MCPolls == <<"zone_info", "trouble_memory">>
MCDelay == [k \in {"zone_info", "trouble_memory"} |->
              IF k = "zone_info" THEN 1 ELSE 2]
MCRefresh == [k \in {"zone_info", "trouble_memory"} |->
                IF k = "zone_info" THEN 6 ELSE 3]
=============================================================================
