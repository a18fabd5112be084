---------------------------- MODULE MCForwarding ----------------------------
(* Two forwarder pairs for model checking Forwarding.                      *)
EXTENDS Forwarding

FourImages == 1 .. 4
=============================================================================
