------------------------------ MODULE WireGuard -----------------------------
(* The kernel's WireGuard device of the Discovery host, as wgctrl shows it.  *)
EXTENDS PeerData

VARIABLE wg     \* key -> [allowed, ep] for a configured peer, or None

WgPeer == [allowed : SUBSET IP, ep : NatEp \cup {Empty}]

WgTypeOK == wg \in [Key -> WgPeer \cup {None}]

WgInit == wg = [k \in Key |-> None]

\* Cryptokey routing: an address belongs to one peer, the last one given it.
Without(peer, ip) ==
    IF peer = None THEN None ELSE [peer EXCEPT !.allowed = @ \ {ip}]

WithAddress(peer, ip, replace) ==
    IF peer = None THEN [allowed |-> {ip}, ep |-> Empty]
    ELSE [peer EXCEPT !.allowed = (IF replace THEN {} ELSE @) \cup {ip}]

\* ConfigureDevice with one peer; a device ignores a peer with its own key.
Configure(k, ip, replace) ==
    wg' = IF k = SelfKey THEN wg
          ELSE [j \in Key |-> IF j = k THEN WithAddress(wg[k], ip, replace)
                              ELSE Without(wg[j], ip)]

Unconfigure(k) == wg' = [wg EXCEPT ![k] = None]

\* A handshake from a new endpoint: the peer roamed.
Roam(k, ep) ==
    /\ wg[k] # None
    /\ wg' = [wg EXCEPT ![k].ep = ep]

\* Which address extractWgIP finds first among the allowed ones.
WgIPs(peer) == IF peer.allowed = {} THEN {Empty} ELSE peer.allowed
=============================================================================
