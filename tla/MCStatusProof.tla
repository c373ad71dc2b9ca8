---------------------------- MODULE MCStatusProof ----------------------------
(* Two devices, one grant to have and to lose, two nonces; a firmware that  *)
(* serves no other field, or a health field and one named like the          *)
(* contract's.                                                              *)
EXTENDS StatusProof, TLC

CONSTANTS cam, bell, ann, a1, n1, n2

MCDevices == {cam, bell}
MCNonces == {n1, n2}
MCGrants == {[owner |-> ann, kind |-> "mata-statement-v1", bytes |-> a1]}
MCExtras == {{}, {"rssi", "owner_did"}}

Symmetry == Permutations(MCDevices) \cup Permutations(MCNonces)
=============================================================================
