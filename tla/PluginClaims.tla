---------------------------- MODULE PluginClaims ----------------------------
(* What a comment of the plugin says of it and its code does not do.         *)
EXTENDS ValonPlugin

\* ddns.go:95: "Offline: remove LAN endpoint".  A peer that stays offline loses
\* its LAN endpoint in etcd too, as any other change of the cache gets there.
OfflineReachesEtcd ==
    \A k \in Key :
        <>[](Running /\ wg[k] # None /\ cache[k] # None /\ cache[k].addr["lan"] = Empty)
            => <>[](store[k]["lan"] \in {None, Empty})
=============================================================================
