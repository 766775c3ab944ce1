------------------------------ MODULE MCSystem ------------------------------
(* Small instances of the five programs of System. *)
EXTENDS System

CONSTANTS damaged, good, file, other
MCBootScripts == <<"syslogd", "local">>
MCStopScripts == <<"random_seed", "downinterfaces", "local">>
MCPatches == <<"first", "second">>
=============================================================================
