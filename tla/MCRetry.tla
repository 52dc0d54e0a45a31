------------------------------- MODULE MCRetry -------------------------------
(* Values for Retry: a command, and a call that may be a guide mutation.   *)
EXTENDS Retry

CONSTANTS k1, k2
=============================================================================
