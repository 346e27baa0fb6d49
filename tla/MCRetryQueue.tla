---------------------------- MODULE MCRetryQueue ----------------------------
(***************************************************************************)
(* Instances of RetryQueue: two rows, a small threshold.                    *)
(***************************************************************************)
EXTENDS RetryQueue

CONSTANTS p1, p2, w1
=============================================================================
