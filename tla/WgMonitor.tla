------------------------------ MODULE WgMonitor -----------------------------
(* The goroutine startWgMonitor: every WgPollInterval it reads the device    *)
(* and carries each peer's address and endpoint into the cache, loading      *)
(* peers the cache does not know from etcd.                                  *)
EXTENDS PeerMap, Etcd, WireGuard

VARIABLES
    poll,   \* [pc, key, ip, info]: where processPeer is, its peer, the address
            \* it extracted and the entry it loaded
    seen    \* the peers of the device read by this poll still to process

pollVars == <<poll, seen>>

PollPC == {"idle", "scan", "fetch", "set", "update", "write"}

PollTypeOK ==
    /\ poll \in [pc : PollPC, key : Key, ip : IP \cup {Empty}, info : PeerInfo \cup {None}]
    /\ seen \in [Key -> WgPeer \cup {None}]

PollIdle == [pc |-> "idle", key |-> SelfKey, ip |-> Empty, info |-> None]

PollInit ==
    /\ poll = PollIdle
    /\ seen = [k \in Key |-> None]

PollTick ==
    /\ poll.pc = "idle"
    /\ seen' = wg
    /\ poll' = [poll EXCEPT !.pc = "scan"]
    /\ UNCHANGED <<mapVars, etcdVars, wg>>

PollNextPeer(k) ==
    /\ poll' = [PollIdle EXCEPT !.pc = "scan"]
    /\ seen' = [seen EXCEPT ![k] = None]

\* processPeer without the load from etcd.
PollKnownOnly(k) ==
    /\ poll.pc = "scan"
    /\ seen[k] # None
    /\ Unlocked
    /\ \E ip \in WgIPs(seen[k]) : poll' = [poll EXCEPT !.pc = "update", !.key = k, !.ip = ip]
    /\ UNCHANGED <<seen, mapVars, etcdVars, wg>>

\* processPeer begins: is the peer in the cache?
PollLookup(k) ==
    /\ poll.pc = "scan"
    /\ seen[k] # None
    /\ Unlocked
    /\ \E ip \in WgIPs(seen[k]) :
         poll' = [poll EXCEPT !.pc = IF cache[k] = None THEN "fetch" ELSE "update",
                              !.key = k, !.ip = ip]
    /\ UNCHANGED <<seen, mapVars, etcdVars, wg>>

\* loadPeerFromEtcd finds the peer ...
PollFetch ==
    /\ poll.pc = "fetch"
    /\ HasKeys(poll.key)
    /\ poll' = [poll EXCEPT !.pc = "set", !.info = Loaded(poll.key, poll.ip)]
    /\ UNCHANGED <<seen, mapVars, etcdVars, wg>>

\* ... or it does not, or etcd does not answer: the peer waits for the next poll.
PollMiss ==
    /\ poll.pc = "fetch"
    /\ PollNextPeer(poll.key)
    /\ UNCHANGED <<mapVars, etcdVars, wg>>

PollSet ==
    /\ poll.pc = "set"
    /\ Set(poll.key, poll.info)
    /\ poll' = [poll EXCEPT !.pc = "update", !.info = None]
    /\ UNCHANGED <<seen, etcdVars, wg>>

\* The entry with what WireGuard shows: an absent endpoint or address keeps the
\* old one.
Observed(info, ip, ep) ==
    [info EXCEPT !.addr = [f \in Field |->
        CASE f = "wg" /\ ip # Empty -> ip
          [] f = "nat" /\ ep # Empty -> ep
          [] OTHER -> @[f]]]

\* Starting from what etcd holds instead of the entry.
PollReload ==
    /\ poll.pc = "update"
    /\ BeginUpdate(poll.key, Observed(Loaded(poll.key, poll.ip), poll.ip, seen[poll.key].ep))
    /\ poll' = [poll EXCEPT !.pc = "write"]
    /\ UNCHANGED <<seen, etcdVars, wg>>

PollUpdate ==
    /\ poll.pc = "update"
    /\ BeginUpdate(poll.key, Observed(cache[poll.key], poll.ip, seen[poll.key].ep))
    /\ poll' = [poll EXCEPT !.pc = "write"]
    /\ UNCHANGED <<seen, etcdVars, wg>>

PollWrite ==
    /\ poll.pc = "write"
    /\ EndUpdate(poll.key)
    /\ PollNextPeer(poll.key)
    /\ UNCHANGED <<etcdVars, wg>>

\* Update finds the peer deleted meanwhile and does nothing.
PollGone ==
    /\ poll.pc = "update"
    /\ Unlocked
    /\ cache[poll.key] = None
    /\ PollNextPeer(poll.key)
    /\ UNCHANGED <<mapVars, etcdVars, wg>>

PollDone ==
    /\ poll.pc = "scan"
    /\ \A k \in Key : seen[k] = None
    /\ poll' = PollIdle
    /\ UNCHANGED <<seen, mapVars, etcdVars, wg>>

PollStep ==
    \/ PollTick \/ PollFetch \/ PollMiss \/ PollSet
    \/ PollUpdate \/ PollWrite \/ PollGone \/ PollDone
    \/ \E k \in Key : PollLookup(k)
=============================================================================
