---------------------------- MODULE MCEchoServer ----------------------------
(* EchoServer on small instances: the values of its constants for TLC.     *)
EXTENDS EchoServer

CONSTANTS a, b

TwoPeers == {a, b}

=============================================================================
