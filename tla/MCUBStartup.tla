---------------------------- MODULE MCUBStartup ------------------------------
(* Three objects; their numbers need not be consecutive.                   *)
EXTENDS UBStartup
MCNames == <<1, 2, 250>>
=============================================================================
