------------------------------ MODULE MCBridge ------------------------------
(***************************************************************************)
(* A gateway and a processor with two e-mails, for TLC.                    *)
(***************************************************************************)
EXTENDS Bridge, TLC

CONSTANTS x, y
=============================================================================
