---------------------------- MODULE MCLspServer ----------------------------
(* LspServer on a small instance; the bounds are in the configuration.     *)
EXTENDS LspServer
=============================================================================
