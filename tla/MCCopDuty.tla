------------------------------- MODULE MCCopDuty -------------------------------
(* Small instances of CopDuty.                                                 *)
EXTENDS CopDuty

CONSTANTS cop1, cop2, suspect, car1
=============================================================================
