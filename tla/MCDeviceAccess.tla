-------------------------- MODULE MCDeviceAccess ---------------------------
(* DeviceAccess with a device that is known by its token and one by its    *)
(* signature.                                                              *)
EXTENDS DeviceAccess

CONSTANTS b1, d1, d2, s1, s2, c1, c2, undefined
=============================================================================
