----------------------------- MODULE MCGuestCv -----------------------------
(* Instances of GuestCv for TLC.                                            *)
EXTENDS GuestCv

CONSTANTS t1, t2, t3
=============================================================================
