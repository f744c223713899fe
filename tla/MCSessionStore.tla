--------------------------- MODULE MCSessionStore ---------------------------
(* The store by itself, for the question whether the UI ends up right.      *)
EXTENDS SessionStore
=============================================================================
