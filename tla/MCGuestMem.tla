----------------------------- MODULE MCGuestMem -----------------------------
(* Instances of GuestMem for TLC.                                          *)
EXTENDS GuestMem
=============================================================================
