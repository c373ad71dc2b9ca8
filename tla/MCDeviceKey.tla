----------------------------- MODULE MCDeviceKey -----------------------------
(* Two secrets, one name for the manifest's signature, two manifests, three *)
(* draws.                                                                   *)
EXTENDS DeviceKey, TLC

CONSTANTS s1, s2, manifest, h1, h2

MCSecrets == {s1, s2}
MCNames == {manifest}
MCPrehashes == {h1, h2}

Symmetry == Permutations(MCSecrets) \cup Permutations(MCPrehashes)
=============================================================================
