----------------------------- MODULE MCSession -----------------------------
(* Session for TLC: the configurations give every constant its value.       *)
EXTENDS Session
=============================================================================
