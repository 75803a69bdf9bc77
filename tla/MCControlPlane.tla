---------------------------- MODULE MCControlPlane ----------------------------
(* ControlPlane for TLC; the constants get their values in the cfgs.       *)
EXTENDS ControlPlane
=============================================================================
