---------------------------- MODULE MCBaudMirror ----------------------------
(***************************************************************************)
(* Instances of BaudMirror for TLC.                                        *)
(***************************************************************************)
EXTENDS BaudMirror

\* Two candidates: a first and a last one; "9600" can only be commanded.
TwoCandidates == <<"19200", "115200">>
=============================================================================
