------------------------------ MODULE MCTunnel ------------------------------
(* A small instance of Tunnel for TLC: one tunnel, two windows and two     *)
(* incarnations of its forwarder.                                          *)
EXTENDS Tunnel, TLC
=============================================================================
