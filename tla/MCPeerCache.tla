---------------------------- MODULE MCPeerCache -----------------------------
(* Two peers, entries that differ in one string or in the flag, and enough   *)
(* objects for every pointer to lead elsewhere.                              *)
EXTENDS PeerCache

CONSTANTS self, k1, ip0, l1

MCKey == {self, k1}

Entry(lan, dirty) ==
    [addr |-> [f \in Field |-> CASE f = "wg" -> ip0 [] f = "lan" -> lan [] f = "nat" -> Empty],
     dirty |-> dirty]

MCInfos == {Entry(Empty, FALSE), Entry(l1, TRUE)}
=============================================================================
