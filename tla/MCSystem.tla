------------------------------ MODULE MCSystem ------------------------------
(* One peer, added and removed by one administrator while the plugin runs.   *)
(* The peer is added with an address (--wg-ip), so as not to be given          *)
(* Discovery's before Discovery registers it.                                 *)
EXTENDS ValonSystem

CONSTANTS self, k1, a1

MCKey == {self, k1}
MCNetwork == [ip |-> <<1, 0, 0>>, ones |-> 1]
MCIP == {<<1, 0, 1>>, <<1, 1, 0>>}
MCSelfIP == <<1, 0, 1>>
MCAdds == {[key |-> k1, ip |-> <<1, 1, 0>>, alias |-> a1]}
MCAssignments == MCAdds
MCTargets == {a1}
MCPuts == [key : Key, ops : [Field -> Text \cup {None}]]
=============================================================================
