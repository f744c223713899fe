------------------------ MODULE MCScriptWorkerPool -------------------------
(* Two places, two callers and one dialog. *)
EXTENDS ScriptWorkerPool, TLC
=============================================================================
