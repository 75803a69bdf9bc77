-------------------------- MODULE MCDeviceGeneration --------------------------
(* Small bounds for DeviceGeneration are given by the configurations.      *)
EXTENDS DeviceGeneration
=============================================================================
