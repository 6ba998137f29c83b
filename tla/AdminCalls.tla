----------------------------- MODULE AdminCalls -----------------------------
(* The calls by which valonctl changes the device and etcd.  Each is one     *)
(* atomic step of its server; ValonCtl puts them in the order of its         *)
(* commands, ValonPlugin lets them come in any order.                        *)
EXTENDS Etcd, WireGuard

\* WireGuardClient.AddPeer: the address replaces those the peer had.
DeviceAdd(k, ip) == Configure(k, ip, TRUE)

\* WireGuardClient.RemovePeer
DeviceRemove(k) == Unconfigure(k)

\* A transaction without its comparison.
RegisterAlways(a) == TRUE

\* The transaction of EtcdClient.AddPeer, guarded by the alias alone ...
RegisterFree(a) == aliases[a] = None

\* ... and its three Puts.
Register(k, ip, a) ==
    /\ store' = [store EXCEPT ![k]["wg"] = ip]
    /\ peerAlias' = [peerAlias EXCEPT ![k] = a]
    /\ aliases' = [aliases EXCEPT ![a] = k]

\* The two Deletes of EtcdClient.RemovePeer.
Deregister(k) == DeletePrefix(k)

Unalias(a) ==
    /\ aliases' = [aliases EXCEPT ![a] = None]
    /\ UNCHANGED <<store, peerAlias>>
=============================================================================
