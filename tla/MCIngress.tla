------------------------------ MODULE MCIngress ------------------------------
(***************************************************************************)
(* Instances of Ingress for TLC.                                           *)
(***************************************************************************)
EXTENDS IngressInvariants
=============================================================================
