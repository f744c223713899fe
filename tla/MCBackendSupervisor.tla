------------------------ MODULE MCBackendSupervisor ------------------------
(* Two requests and a few generations of the backend. *)
EXTENDS BackendSupervisor, TLC
=============================================================================
