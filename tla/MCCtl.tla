-------------------------------- MODULE MCCtl -------------------------------
(* Two peers to add, an alias and one that a peer announces itself, and a  *)
(* network with two host addresses, the first of which is Discovery's.        *)
EXTENDS ValonCtl

CONSTANTS self, k1, k2, a1, b1, n1

MCKey == {self, k1, k2}
MCNetwork == [ip |-> <<1, 0, 0>>, ones |-> 1]
MCIP == {<<1, 0, 1>>, <<1, 1, 0>>}
MCSelfIP == <<1, 0, 1>>

\* Addresses are allocated, except that the peer with the announced alias may be
\* added with one, which may be Discovery's or another peer's.
MCAdds ==
    [key : {k1, k2}, ip : {None}, alias : {a1}]
        \cup {[key |-> k1, ip |-> <<1, 1, 0>>, alias |-> b1]}

MCTargets == {k1, k2} \cup Alias

\* Discovery's row, and whichever address the device shows for the one peer.
MCPuts ==
    {[key |-> self, ops |-> [NoFields EXCEPT !["wg"] = SelfIP]]}
        \cup {[key |-> k1, ops |-> [NoFields EXCEPT !["wg"] = ip]] : ip \in IP}

MCAliasPuts == {[key |-> k1, alias |-> b1]}
=============================================================================
