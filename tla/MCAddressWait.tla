--------------------------- MODULE MCAddressWait ---------------------------
(* Instances of AddressWait for TLC.                                        *)
EXTENDS AddressWait

CONSTANTS t1, t2, t3

TwoThreads == {t1, t2}
ThreeThreads == {t1, t2, t3}
=============================================================================
