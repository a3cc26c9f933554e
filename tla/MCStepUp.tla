-------------------------------- MODULE MCStepUp --------------------------------
(* Instances of StepUp for TLC.                                            *)
EXTENDS StepUp

CONSTANTS h1, h2, t1, t2
=================================================================================
