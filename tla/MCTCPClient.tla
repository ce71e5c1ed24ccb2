---------------------------- MODULE MCTCPClient -----------------------------
(***************************************************************************)
(* Instances of TCPClient for TLC; the cfg files give the bounds.          *)
(***************************************************************************)
EXTENDS TCPClient, TLC
=============================================================================
