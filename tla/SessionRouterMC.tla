--------------------------- MODULE SessionRouterMC ---------------------------
(* The instance of SessionRouter, and of SessionBridge in it, for TLC.      *)
EXTENDS SessionRouter
=============================================================================
