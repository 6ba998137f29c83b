-------------------------------- MODULE MCKeys ------------------------------
(* Two public keys with the same beginning: one with a "/" in the middle and  *)
(* before the end, one that spells a word of ListPeers.                       *)
EXTENDS PeerKeys

CONSTANTS x, ip1, l1, n1, a1, a2

MCKey == {<<x, "/", x, "/", "=">>, <<x, "/", "ip", "=">>}

\* A public key that begins with "/", and one that has two in a row.
MCSlashes == {<<"/", x, "=">>, <<x, "/", "/", x, "=">>}

MCSelf == CHOOSE k \in MCKey : TRUE
MCSlashSelf == CHOOSE k \in MCSlashes : TRUE
=============================================================================
