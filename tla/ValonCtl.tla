------------------------------ MODULE ValonCtl ------------------------------
(* The commands valonctl peer add and valonctl peer remove, call by call.    *)
(* Several administrators may run them at once, each call may fail, and a     *)
(* command may be interrupted between any two of them.  The plugin, which     *)
(* writes to the same device and the same keys of etcd meanwhile, is their    *)
(* environment.                                                              *)
EXTENDS AdminCalls, IPAlloc

CONSTANTS
    Cmd,        \* terminals a command may be running on
    Adds,       \* what peer add is called with: [key, ip, alias], ip None to allocate
    Targets,    \* what peer remove is called with: keys and aliases
    Network,    \* wireguard.network of valonctl's configuration: [ip, ones]
    Puts,       \* what the plugin may write of a peer: [key, ops], fields or None
    AliasPuts   \* the aliases peers announce over the DDNS API: [key, alias]

ASSUME CommandAssumption ==
    /\ Adds \subseteq [key : Key, ip : IP \cup {None}, alias : Alias]
    /\ Targets \subseteq Key \cup Alias
    /\ Network.ip \in Seq(0 .. Size - 1) /\ Network.ones \in 1 .. Bits * Len(Network.ip)
    /\ Key \cap Alias = {}
    /\ Puts \subseteq [key : Key, ops : [Field -> Text \cup {None}]]
    /\ AliasPuts \subseteq [key : Key, alias : Alias]

VARIABLE ctl    \* terminal -> where its command is and what it found out

ctlVars == <<ctl, store, peerAlias, aliases, wg>>

CtlPC == {"idle", "allocate", "device", "register", "rollback",
          "lookup", "undevice", "resolve", "call", "wait", "keys", "alias", "removed"}

\* target is what remove was called with, victim the peer ListPeers found for
\* it, key and alias what RemovePeer found for it (or what add was called with);
\* acked tells whether the plugin answered the DELETE request.
CtlRecord ==
    [pc : CtlPC, target : Key \cup Alias \cup {None}, victim : Key \cup {None},
     key : Key \cup {None}, ip : IP \cup {None}, alias : Alias \cup {None}, acked : BOOLEAN]

\* The commands keep types: no lookup hands None on as a peer, address or alias.
CtlTypeOK == EtcdTypeOK /\ WgTypeOK /\ ctl \in [Cmd -> CtlRecord]

CtlIdle == [pc |-> "idle", target |-> None, victim |-> None, key |-> None,
            ip |-> None, alias |-> None, acked |-> FALSE]

CtlInit == ctl = [c \in Cmd |-> CtlIdle]

Ready(c) == ctl[c].pc \in {"idle", "removed"}

At(c, pc) == ctl[c].pc = pc

To(c, pc) == ctl' = [ctl EXCEPT ![c].pc = pc]

Exit(c) == ctl' = [ctl EXCEPT ![c] = CtlIdle]

-----------------------------------------------------------------------------
(* runPeerAdd *)

\* peer add without an address, had it not allocated one.
AddStartUnallocated(c) ==
    /\ Ready(c)
    /\ \E n \in Adds :
         ctl' = [ctl EXCEPT ![c] =
                   [CtlIdle EXCEPT !.pc = "device", !.key = n.key, !.ip = n.ip, !.alias = n.alias]]
    /\ UNCHANGED <<etcdVars, wg>>

AddStart(c) ==
    /\ Ready(c)
    /\ \E n \in Adds :
         ctl' = [ctl EXCEPT ![c] =
                   [CtlIdle EXCEPT !.pc = IF n.ip = None THEN "allocate" ELSE "device",
                                   !.key = n.key, !.ip = n.ip, !.alias = n.alias]]
    /\ UNCHANGED <<etcdVars, wg>>

\* getAllUsedIPs
UsedIPs == {store[k]["wg"] : k \in Key} \ {None}

AddAllocate(c) ==
    /\ At(c, "allocate")
    /\ \E ip \in IP :
         /\ Allocated(Network, UsedIPs, ip)
         /\ ctl' = [ctl EXCEPT ![c].pc = "device", ![c].ip = ip]
    /\ UNCHANGED <<etcdVars, wg>>

AddDevice(c) ==
    /\ At(c, "device")
    /\ DeviceAdd(ctl[c].key, ctl[c].ip)
    /\ To(c, "register")
    /\ UNCHANGED etcdVars

AddRegister(c) ==
    /\ At(c, "register")
    /\ RegisterFree(ctl[c].alias)
    /\ Register(ctl[c].key, ctl[c].ip, ctl[c].alias)
    /\ Exit(c)
    /\ UNCHANGED wg

\* The three Puts one by one, the first of them done.
AddRefusedHalfway(c) ==
    /\ At(c, "register")
    /\ RegisterFree(ctl[c].alias)
    /\ aliases' = [aliases EXCEPT ![ctl[c].alias] = ctl[c].key]
    /\ To(c, "rollback")
    /\ UNCHANGED <<store, peerAlias, wg>>

\* The alias is taken, or the transaction is reported as failed: it may have
\* been applied all the same.
AddRefused(c) ==
    /\ At(c, "register")
    /\ \/ UNCHANGED etcdVars
       \/ RegisterFree(ctl[c].alias) /\ Register(ctl[c].key, ctl[c].ip, ctl[c].alias)
    /\ To(c, "rollback")
    /\ UNCHANGED wg

\* _ = wgClient.RemovePeer(...): whether the peer was there before is not asked.
AddRollback(c) ==
    /\ At(c, "rollback")
    /\ DeviceRemove(ctl[c].key)
    /\ Exit(c)
    /\ UNCHANGED etcdVars

-----------------------------------------------------------------------------
(* runPeerRemove and EtcdClient.RemovePeer *)

RemoveStart(c) ==
    /\ Ready(c)
    /\ \E t \in Targets :
         ctl' = [ctl EXCEPT ![c] = [CtlIdle EXCEPT !.pc = "lookup", !.target = t]]
    /\ UNCHANGED <<etcdVars, wg>>

\* ListPeers comes in map order: any peer that matches may be the first.
RemoveLookup(c) ==
    /\ At(c, "lookup")
    /\ \E k \in Key :
         /\ HasKeys(k)
         /\ ctl[c].target \in {k, peerAlias[k]}
         /\ ctl' = [ctl EXCEPT ![c].pc = "undevice", ![c].victim = k]
    /\ UNCHANGED <<etcdVars, wg>>

\* A failure is only a warning.
RemoveDevice(c) ==
    /\ At(c, "undevice")
    /\ DeviceRemove(ctl[c].victim) \/ UNCHANGED wg
    /\ To(c, "resolve")
    /\ UNCHANGED etcdVars

\* RemovePeer looks the target up again, its own way.
RemoveResolve(c) ==
    /\ At(c, "resolve")
    /\ \/ /\ ctl[c].target \in Key
          /\ peerAlias[ctl[c].target] # None
          /\ ctl' = [ctl EXCEPT ![c].pc = "call", ![c].key = ctl[c].target,
                                ![c].alias = peerAlias[ctl[c].target]]
       \/ /\ ctl[c].target \in Alias
          /\ aliases[ctl[c].target] # None
          /\ ctl' = [ctl EXCEPT ![c].pc = "call", ![c].key = aliases[ctl[c].target],
                                ![c].alias = ctl[c].target]
    /\ UNCHANGED <<etcdVars, wg>>

\* callDDNSDelete: the request is sent ...
RemoveCall(c) ==
    /\ At(c, "call")
    /\ To(c, "wait")
    /\ UNCHANGED <<etcdVars, wg>>

\* ... and answered; or it is not delivered, its connection breaks, or 5 s pass.
\* Either way RemovePeer goes on.
RemoveAnswered(c) ==
    /\ At(c, "wait")
    /\ ctl' = [ctl EXCEPT ![c].pc = "keys", ![c].acked = TRUE]
    /\ UNCHANGED <<etcdVars, wg>>

RemoveUnanswered(c) ==
    /\ ctl[c].pc \in {"call", "wait"}
    /\ To(c, "keys")
    /\ UNCHANGED <<etcdVars, wg>>

\* The alias deleted first.
RemoveAliasFirst(c) ==
    /\ At(c, "keys")
    /\ Unalias(ctl[c].alias)
    /\ To(c, "alias")
    /\ UNCHANGED wg

RemoveKeys(c) ==
    /\ At(c, "keys")
    /\ Deregister(ctl[c].key)
    /\ To(c, "alias")
    /\ UNCHANGED wg

RemoveAlias(c) ==
    /\ At(c, "alias")
    /\ Unalias(ctl[c].alias)
    /\ To(c, "removed")
    /\ UNCHANGED wg

-----------------------------------------------------------------------------

\* A call fails, a lookup finds nothing or the user interrupts: the command ends
\* where it is.
Abort(c) ==
    /\ ~Ready(c)
    /\ Exit(c)
    /\ UNCHANGED <<etcdVars, wg>>

CtlStep(c) ==
    \/ AddStart(c) \/ AddAllocate(c) \/ AddDevice(c)
    \/ AddRegister(c) \/ AddRefused(c) \/ AddRollback(c)
    \/ RemoveStart(c) \/ RemoveLookup(c) \/ RemoveDevice(c) \/ RemoveResolve(c)
    \/ RemoveUnanswered(c) \/ RemoveKeys(c) \/ RemoveAlias(c)
    \/ Abort(c)

-----------------------------------------------------------------------------
(* The plugin and the peers, as the commands see them.  What the plugin writes *)
(* is bounded by Puts and AliasPuts; when it writes is left open, and so is    *)
(* what for.                                                                  *)

\* The sync puts what the cache has of a peer: Discovery's own row, an address
\* seen on the device, or what it had in a snapshot from before a removal.
PluginPuts ==
    /\ \E n \in Puts : PutFields(n.key, n.ops)
    /\ UNCHANGED <<peerAlias, aliases, wg, ctl>>

\* Init puts a peer back on the device, with the address etcd had of it.
PluginRestores ==
    /\ \E n \in Puts : n.ops["wg"] \in IP /\ Configure(n.key, n.ops["wg"], FALSE)
    /\ UNCHANGED <<etcdVars, ctl>>

\* The DDNS handler puts an alias and the way back, one after the other; the
\* second may come long after, and without, the first.
PluginAnnounces ==
    /\ \E n \in AliasPuts :
         \/ aliases' = [aliases EXCEPT ![n.alias] = n.key] /\ UNCHANGED peerAlias
         \/ peerAlias' = [peerAlias EXCEPT ![n.key] = n.alias] /\ UNCHANGED aliases
    /\ UNCHANGED <<store, wg, ctl>>

PeerRoams ==
    /\ \E k \in Key, ep \in NatEp : Roam(k, ep)
    /\ UNCHANGED <<etcdVars, ctl>>

\* With the plugin the connections to its server end.
Disconnect ==
    ctl' = [c \in Cmd |-> IF At(c, "wait") THEN [ctl[c] EXCEPT !.pc = "keys"] ELSE ctl[c]]

\* CoreDNS stops, or the host does and its device loses its peers.
ServerStops ==
    /\ UNCHANGED wg \/ wg' = [k \in Key |-> None]
    /\ Disconnect
    /\ UNCHANGED etcdVars

PluginActs ==
    PluginPuts \/ PluginRestores \/ PluginAnnounces \/ PeerRoams \/ ServerStops

CtlNext ==
    \/ \E c \in Cmd : CtlStep(c) \/ RemoveCall(c) \/ RemoveAnswered(c)
    \/ PluginActs

CommandsInit == EtcdInit /\ WgInit /\ CtlInit

CtlSpec == CommandsInit /\ [][CtlNext]_ctlVars

-----------------------------------------------------------------------------

\* The aliases that come to etcd without a command.
DdnsAliases == {n.alias : n \in AliasPuts}

\* The alias a peer lists under leads to that peer, however the commands that ran
\* before were cut short and whatever the plugin wrote between their calls.  Only
\* an alias that is announced over the DDNS API may lead nowhere: its two Puts
\* are separate and may come between the two deletions of a removal.
ListedAliasResolves ==
    \A k \in Key :
        peerAlias[k] # None =>
            \/ aliases[peerAlias[k]] = k
            \/ peerAlias[k] \in DdnsAliases /\ aliases[peerAlias[k]] = None

\* remove takes off the device the peer it deletes from etcd, although it looks
\* the alias up twice, in two different places, between which the plugin may put
\* aliases and write peers back.
SameVictim ==
    \A c \in Cmd :
        ctl[c].pc \in {"call", "wait", "keys", "alias"} => ctl[c].key = ctl[c].victim

\* Whichever addresses are in use when a command allocates one, AllocateIP returns
\* the lowest free host address of the network, or fails if there is none: of every
\* network of that length of address, down to those of two addresses and of one.
AllocationExact ==
    LET Address == [DOMAIN Network.ip -> 0 .. Size - 1]
        width == Bits * Len(Network.ip)
        Net == {n \in [ip : Address, ones : 1 .. width] : Number(n.ip) % Two[width - n.ones] = 0}
    IN (\E c \in Cmd : At(c, "allocate")) =>
         \A net \in Net, ip \in Address : Allocated(net, UsedIPs, ip) <=> Lowest(net, UsedIPs, ip)
=============================================================================
