-------------------------- MODULE MCNodeAttempts --------------------------
(***************************************************************************)
(* NodeAttempts with the default of InterruptibleFailureThreshold, which a *)
(* configuration file cannot write.                                        *)
(***************************************************************************)
EXTENDS NodeAttempts

LastAttemptOnly == 0 - 1
============================================================================
