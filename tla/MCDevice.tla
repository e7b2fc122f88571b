------------------------------ MODULE MCDevice ------------------------------
(***************************************************************************)
(* An instance of Device, Provisioning and TelnetSession for TLC: lines of *)
(* one key are the password and the words of processLocalCommand, lines of *)
(* two are console commands, and so is the password after the login.       *)
(***************************************************************************)
EXTENDS Device

MCKeys == {"on", "off", "monitor", "password"}
MCPassword == <<"password">>
MCListenOn == <<"on">>
MCListenOff == <<"off">>
MCMonitor == <<"monitor">>
MCMqttKeys == <<"mqEnabled", "mqHost">>
=============================================================================
