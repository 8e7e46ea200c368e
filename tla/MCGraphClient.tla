--------------------------- MODULE MCGraphClient ----------------------------
(* GraphClient on the instances of MCGraphClient.cfg and                     *)
(* MCClientReconnect.cfg.                                                    *)
EXTENDS GraphClientProofs
=============================================================================
