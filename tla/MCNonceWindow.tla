---------------------------- MODULE MCNonceWindow ----------------------------
(* Three slots and five nonces, the all-zero one among them.                *)
EXTENDS NonceWindow, TLC

CONSTANTS zero, n1, n2, n3, n4

MCNonces == {zero, n1, n2, n3, n4}
=============================================================================
