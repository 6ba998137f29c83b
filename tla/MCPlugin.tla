------------------------------ MODULE MCPlugin ------------------------------
(* Instances of the plugin: Discovery and one peer, whose requests are what  *)
(* each configuration needs.                                                 *)
EXTENDS PluginClaims, PluginInv

CONSTANTS self, k1, ip0, ip1, l1, l2, n1, a1

MCKey == {self, k1}
MCIP == {ip0, ip1}

MCAssignments == {[key |-> k1, ip |-> ip1, alias |-> a1]}

\* The peer announces an endpoint or goes offline.
MCAnnouncements ==
    [from : {ip1}, key : {k1}, lan : LanEp \cup {Empty}, alias : {None}]

\* Two requests about the peer may overlap: it announces an endpoint and names
\* itself, then moves to another endpoint; Discovery takes it offline.
MCOverlap ==
    {[from |-> ip1, key |-> k1, lan |-> l1, alias |-> a1],
     [from |-> ip1, key |-> k1, lan |-> l2, alias |-> None],
     [from |-> ip0, key |-> k1, lan |-> Empty, alias |-> None]}
=============================================================================
