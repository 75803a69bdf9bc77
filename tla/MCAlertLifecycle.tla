--------------------------- MODULE MCAlertLifecycle ---------------------------
(* Instances of AlertLifecycle for TLC, and the mutants of its definitions. *)
EXTENDS AlertLifecycle
=============================================================================
