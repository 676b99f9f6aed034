-------------------------------- MODULE MCHost --------------------------------
(***************************************************************************)
(* An instance of Host for TLC.                                            *)
(***************************************************************************)
EXTENDS Host

TwoBots == {"b1", "b2"}
TwoClients == {"k1", "k2"}
=============================================================================
