------------------------- MODULE MCCloudflareTunnel -------------------------
(* CloudflareTunnel with two children at one time. *)
EXTENDS CloudflareTunnel

CONSTANTS c1, c2, undefined, fixed
=============================================================================
