----------------------------- MODULE ValonPlugin ----------------------------
(* The CoreDNS plugin: Init, the two monitor goroutines and the DDNS         *)
(* handlers over one cache, between etcd and WireGuard, which valonctl        *)
(* changes behind the plugin's back.                                         *)
EXTENDS EtcdSync, WgMonitor, DdnsApi, Startup, AdminCalls

CONSTANTS
    Requests,       \* update requests that are sent: [from, key, lan, alias]
    Assignments,    \* what valonctl peer add is called with: [key, ip, alias]
    Removals        \* the peers valonctl peer remove is called with

ASSUME ScopeAssumption ==
    /\ Requests \subseteq [from : IP, key : Key, lan : LanEp \cup {Empty},
                           alias : Alias \cup {None}]
    /\ Assignments \subseteq [key : Key, ip : IP, alias : Alias]
    /\ Removals \subseteq Key

vars == <<cache, copy, writing, store, peerAlias, aliases, wg,
          sync, poll, seen, ddns, phase, restore>>

\* No handler or loop puts into a server or the cache what it found absent.
TypeOK ==
    /\ MapTypeOK /\ EtcdTypeOK /\ WgTypeOK
    /\ SyncTypeOK /\ PollTypeOK /\ DdnsTypeOK /\ BootTypeOK

Init ==
    /\ MapInit /\ EtcdInit /\ WgInit
    /\ SyncInit /\ PollInit /\ DdnsInit /\ BootInit

Running == phase = "run"

Starting ==
    BootStep /\ UNCHANGED <<sync, poll, seen, ddns>>

Syncing ==
    Running /\ SyncStep /\ UNCHANGED <<wg, poll, seen, ddns, phase, restore>>

Polling ==
    Running /\ PollStep /\ UNCHANGED <<sync, ddns, phase, restore>>

Serving(r) ==
    Running /\ DdnsStep(r) /\ UNCHANGED <<wg, sync, poll, seen, phase, restore>>

\* Peers send their requests, and valonctl its deletions, at any time.
Requesting(r) ==
    /\ Running
    /\ \E q \in Requests : UpdateRequest(r, q.from, q.key, q.lan, q.alias)
    /\ UNCHANGED <<wg, sync, poll, seen, phase, restore>>

Deleting(r, k) ==
    /\ Running
    /\ DeleteRequest(r, SelfIP, k)
    /\ UNCHANGED <<wg, sync, poll, seen, phase, restore>>

\* CoreDNS stops, at any point, and is started again: what was in memory is
\* lost, with the requests in progress.
Crash ==
    /\ phase' = "load"
    /\ restore' = {}
    /\ cache' = [k \in Key |-> None]
    /\ copy' = [k \in Key |-> None]
    /\ writing' = None
    /\ sync' = SyncIdle
    /\ poll' = PollIdle
    /\ seen' = [k \in Key |-> None]
    /\ ddns' = [r \in Req |-> DdnsIdle]
    /\ UNCHANGED etcdVars

Restart == Crash /\ UNCHANGED wg

\* The host restarts: the device comes back without its peers.
Reboot == Crash /\ wg' = [k \in Key |-> None]

pluginVars == <<cache, copy, writing, sync, poll, seen, ddns, phase, restore>>

\* valonctl, one call at a time, and the peers' movements.
AdminDevice ==
    /\ \/ \E n \in Assignments : DeviceAdd(n.key, n.ip)
       \/ \E k \in Removals : DeviceRemove(k)
    /\ UNCHANGED <<pluginVars, etcdVars>>

AdminEtcd ==
    /\ \/ \E n \in Assignments : RegisterFree(n.alias) /\ Register(n.key, n.ip, n.alias)
       \/ \E k \in Removals : Deregister(k)
       \/ Removals # {} /\ \E a \in Alias : Unalias(a)
    /\ UNCHANGED <<pluginVars, wg>>

PeerMoves ==
    /\ \E k \in Key, ep \in NatEp : Roam(k, ep)
    /\ UNCHANGED <<pluginVars, etcdVars>>

Next ==
    \/ Starting \/ Syncing \/ Polling
    \/ \E r \in Req : Serving(r) \/ Requesting(r) \/ \E k \in Removals : Deleting(r, k)
    \/ Restart \/ Reboot
    \/ AdminDevice \/ AdminEtcd \/ PeerMoves

Spec == Init /\ [][Next]_vars

-----------------------------------------------------------------------------
(* Fairness.  Goroutines are scheduled and a ticker keeps ticking; a step     *)
(* that waits for the cache lock is only enabled now and then, and gets it    *)
(* because Go's RWMutex starves nobody: hence strong fairness.  etcd answers  *)
(* a request that is repeated for ever; nothing is assumed of valonctl, of    *)
(* the peers, or of crashes.                                                  *)

SyncProgress ==
    \/ SyncTick \/ SyncCollect \/ SyncClear \/ SyncDone
    \/ \E k \in Key : SyncSkip(k) \/ SyncBegin(k)

PollProgress ==
    \/ PollTick \/ PollSet \/ PollUpdate \/ PollWrite \/ PollGone \/ PollDone
    \/ PollMiss /\ ~HasKeys(poll.key)
    \/ \E k \in Key : PollLookup(k)

Fairness ==
    /\ WF_vars(Starting)
    /\ SF_vars(Syncing /\ SyncProgress)
    /\ \A k \in Key : SF_vars(Syncing /\ sync.key = k /\ SyncCommit)
    /\ SF_vars(Polling /\ PollProgress)
    /\ \A k \in Key : SF_vars(Polling /\ poll.key = k /\ PollFetch)
    /\ \A r \in Req : SF_vars(Serving(r))

FairSpec == Spec /\ Fairness

-----------------------------------------------------------------------------
(* Safety *)

Endpoints == {"lan", "nat"}

\* No call is about to set the dirty flag of k: neither an Update in progress
\* nor the one with which processPeer follows its load of k.
Settled(k) == ~Racing(k) /\ ~(poll.pc = "update" /\ poll.key = k)

\* The dirty flag may be trusted: an endpoint a clean entry holds is the one
\* etcd has, or was deleted there with the rest of a peer that is removed.  A
\* clean entry that differed would never be written (syncToEtcd skips it), so
\* what the peer announced would be lost at the next restart.
CleanMeansStored ==
    \A k \in Key, f \in Endpoints :
        cache[k] # None /\ ~cache[k].dirty /\ cache[k].addr[f] # Empty /\ Settled(k)
            => \/ store[k][f] = cache[k].addr[f]
               \/ k \in Removals /\ store[k][f] = None

\* The monitor only fills holes: from the moment it found k missing to the Set
\* of what it loaded, nobody else created the entry, so no announcement is
\* overwritten by an older value from etcd.
LoadFillsHole == poll.pc \in {"fetch", "set"} => cache[poll.key] = None

LanFromRequest(k) ==
    Running /\ Running' /\ cache[k] # None /\ cache'[k] # None
    /\ cache'[k].addr["lan"] # cache[k].addr["lan"]
        => \E r \in Req : /\ ddns[r].pc = "write" /\ ddns[r].key = k
                         /\ ddns[r].lan = cache'[k].addr["lan"]

\* While the plugin runs, the LAN endpoint of an entry that stays in the cache
\* changes only to what a request for that very peer announced: the monitor's
\* own Update, which rewrites the same entry, never brings an old one back.
LanOnlyAnnounced == [][\A k \in Key : LanFromRequest(k)]_vars

\* Nothing anywhere still knows k: neither server, the cache, nor any step in
\* progress that holds a copy or the name of it.
Gone(k) ==
    /\ wg[k] = None /\ cache[k] = None /\ ~HasKeys(k)
    /\ \A a \in Alias : aliases[a] # k
    /\ copy[k] = None /\ seen[k] = None
    /\ \A r \in Req : ddns[r].key = k => ddns[r].alias = None

\* valonctl adds k, or Discovery itself sends a request about k.
Readmitted(k) ==
    \/ \E n \in Assignments :
         n.key = k /\ (DeviceAdd(k, n.ip) \/ Register(k, n.ip, n.alias))
    \/ \E r \in Req : ddns[r].pc = "idle" /\ ddns'[r].pc = "update" /\ ddns'[r].key = k

\* A peer that is gone stays gone until an administrator brings it back: no
\* monitor, request or restart recreates it out of something else.
GoneStaysGone ==
    [][\A k \in Key \ {SelfKey} : Gone(k) => Gone(k)' \/ Readmitted(k)]_vars

-----------------------------------------------------------------------------
(* Liveness *)

\* The endpoint a peer announced, or WireGuard observed, reaches etcd once it
\* stays the same, and comes back whenever valonctl deletes it there, as long as
\* the peer is on the device.
EndpointReachesEtcd ==
    \A k \in Key, f \in Endpoints, v \in LanEp \cup NatEp :
        <>[](Running /\ wg[k] # None /\ cache[k] # None /\ cache[k].addr[f] = v)
            => []<>(store[k][f] = v)

\* A peer that valonctl added, to the device and to etcd, while the plugin runs
\* is learned by the monitor without a restart.
AddedPeerIsLearned ==
    \A k \in Key :
        <>[](Running /\ wg[k] # None /\ HasKeys(k)) => <>(cache[k] # None)
=============================================================================
