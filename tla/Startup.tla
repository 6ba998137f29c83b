------------------------------- MODULE Startup ------------------------------
(* Valon.Init, run when CoreDNS starts and before anything else of the       *)
(* plugin: load the cache from etcd, put the missing peers back into         *)
(* WireGuard, register Discovery itself.                                     *)
EXTENDS PeerMap, Etcd, WireGuard

VARIABLES
    phase,      \* how far Init is; "run" once the goroutines are started
    restore     \* the peers restoreWireGuardPeers has still to add

bootVars == <<phase, restore>>

BootTypeOK ==
    /\ phase \in {"load", "device", "restore", "self", "run"}
    /\ restore \subseteq Key

BootInit ==
    /\ phase = "load"
    /\ restore = {}

\* loadFromEtcd; when etcd does not answer, Init only logs it and goes on.
BootLoad ==
    /\ phase = "load"
    /\ Unlocked
    /\ cache' = [k \in Key |-> IF HasKeys(k) THEN Loaded(k, Empty) ELSE None]
    /\ phase' = "device"
    /\ UNCHANGED <<restore, copy, writing, etcdVars, wg>>

BootNoLoad ==
    /\ phase = "load"
    /\ phase' = "device"
    /\ UNCHANGED <<restore, mapVars, etcdVars, wg>>

\* restoreWireGuardPeers reads the device once, for the peers it lacks.
BootDevice ==
    /\ phase = "device"
    /\ restore' = {k \in Key : cache[k] # None /\ wg[k] = None}
    /\ phase' = "restore"
    /\ UNCHANGED <<mapVars, etcdVars, wg>>

\* The device cannot be read: Init goes on without restoring.
BootNoDevice ==
    /\ phase = "device"
    /\ phase' = "self"
    /\ UNCHANGED <<restore, mapVars, etcdVars, wg>>

\* One missing peer is added, keeping whatever addresses it already has.
BootRestore(k) ==
    /\ phase = "restore"
    /\ k \in restore
    /\ cache[k].addr["wg"] \in IP
    /\ Configure(k, cache[k].addr["wg"], FALSE)
    /\ restore' = restore \ {k}
    /\ UNCHANGED <<phase, mapVars, etcdVars>>

\* Its address does not parse, or ConfigureDevice fails: it is passed over.
BootNoRestore(k) ==
    /\ phase = "restore"
    /\ k \in restore
    /\ restore' = restore \ {k}
    /\ UNCHANGED <<phase, mapVars, etcdVars, wg>>

BootRestored ==
    /\ phase = "restore"
    /\ restore = {}
    /\ phase' = "self"
    /\ UNCHANGED <<restore, mapVars, etcdVars, wg>>

\* registerSelf replaces what was loaded for Discovery's own key.
SelfInfo ==
    [addr |-> [f \in Field |-> IF f = "wg" THEN SelfIP ELSE Empty], dirty |-> TRUE]

BootSelf ==
    /\ phase = "self"
    /\ Set(SelfKey, SelfInfo)
    /\ phase' = "run"
    /\ UNCHANGED <<restore, etcdVars, wg>>

BootStep ==
    \/ BootLoad \/ BootNoLoad \/ BootDevice \/ BootNoDevice
    \/ BootRestored \/ BootSelf
    \/ \E k \in Key : BootRestore(k) \/ BootNoRestore(k)
=============================================================================
