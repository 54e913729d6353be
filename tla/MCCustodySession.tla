------------------------- MODULE MCCustodySession -------------------------
(* Two sessions, one of them possibly of a DEV wallet.                     *)
EXTENDS CustodySession, TLC
CONSTANTS s1, s2, r1, r2
TwoSessions == {s1, s2}
OneSession == {s1}
TwoRequests == {r1, r2}
DevS2 == {s2}
NoDev == {}
=============================================================================
