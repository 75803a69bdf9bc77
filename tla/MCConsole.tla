------------------------------ MODULE MCConsole ------------------------------
(* Console for TLC; the constants get their values in the cfg.             *)
EXTENDS Console
=============================================================================
