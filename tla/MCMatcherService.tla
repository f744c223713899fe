-------------------------- MODULE MCMatcherService --------------------------
(* More callers than the queue takes requests. *)
EXTENDS MatcherService
=============================================================================
