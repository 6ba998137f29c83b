-------------------------------- MODULE MCDns -------------------------------
(* Two peers, aliases of every spelling, and entries that lack one field or  *)
(* another.                                                                  *)
EXTENDS DnsHandler

CONSTANTS self, k1, ip0, ip1, l1, l2, n1, a1, a2

MCKey == {self, k1}

Entry(wg, lan, nat) ==
    [addr |-> [f \in Field |-> CASE f = "wg" -> wg [] f = "lan" -> lan [] f = "nat" -> nat],
     dirty |-> TRUE]

\* Discovery's own entry has an address only.
MCInfos ==
    [k \in MCKey |-> IF k = self THEN {Entry(ip0, Empty, Empty)}
                     ELSE {Entry(ip1, l1, n1), Entry(ip1, l2, Empty), Entry(Empty, Empty, n1)}]
=============================================================================
