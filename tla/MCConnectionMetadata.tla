------------------------ MODULE MCConnectionMetadata ------------------------
(* Two clients, three keys, vectors of up to three entries.                 *)
EXTENDS ConnectionMetadata, TLC

CONSTANTS c1, c2, k1, k2, k3

MCClient == {c1, c2}
MCKey == {k1, k2, k3}
MCSymmetry == Permutations(MCClient) \cup Permutations(MCKey)
=============================================================================
