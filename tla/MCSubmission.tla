---------------------------- MODULE MCSubmission ----------------------------
(* Submission on its own, for the requests of MCRequests.                  *)
EXTENDS Submission

CONSTANTS k1, k2, k3
INSTANCE MCRequests
=============================================================================
