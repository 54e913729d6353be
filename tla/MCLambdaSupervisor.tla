------------------------ MODULE MCLambdaSupervisor ------------------------
(* The constants are small numbers, given in the .cfg files.  BackoffMax   *)
(* is 3 so that doubling 1 reaches the ceiling within two deaths and does  *)
(* not hit it exactly.                                                     *)
EXTENDS LambdaSupervisor
=============================================================================
