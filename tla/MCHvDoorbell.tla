---------------------------- MODULE MCHvDoorbell ----------------------------
(* Instance of HvDoorbell for TLC.                                         *)
EXTENDS HvDoorbell
=============================================================================
