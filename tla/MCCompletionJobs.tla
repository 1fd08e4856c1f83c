--------------------------- MODULE MCCompletionJobs ---------------------------
(* A small instance of CompletionJobs.                                       *)
EXTENDS CompletionJobs

CONSTANTS j1, p1
=============================================================================
