------------------------------ MODULE EtcdSync ------------------------------
(* The goroutine startEtcdSync: every EtcdSyncInterval it takes a snapshot   *)
(* of the cache and writes the dirty peers to etcd.  The keys it has still   *)
(* to handle are those left in copy.                                         *)
EXTENDS PeerMap, Etcd

VARIABLE sync   \* [pc, key, ops]: where the loop is, its peer, its transaction

syncVars == <<sync, mapVars, etcdVars>>

SyncPC == {"idle", "scan", "wg", "lan", "nat", "commit", "clear"}

SyncTypeOK ==
    sync \in [pc : SyncPC, key : Key, ops : [Field -> Text \cup {None}]]

SyncIdle == [pc |-> "idle", key |-> SelfKey, ops |-> NoFields]

SyncInit == sync = SyncIdle

\* The iteration for k ends: the loop goes on with the rest of the snapshot.
SyncNextPeer(k) ==
    /\ sync' = [SyncIdle EXCEPT !.pc = "scan"]
    /\ copy' = [copy EXCEPT ![k] = None]

SyncTick ==
    /\ sync.pc = "idle"
    /\ GetAll
    /\ sync' = [sync EXCEPT !.pc = "scan"]
    /\ UNCHANGED etcdVars

\* if !peerInfo.dirty { continue }
SyncSkip(k) ==
    /\ sync.pc = "scan"
    /\ copy[k] # None
    /\ FALSE \in DirtyReads(k)
    /\ SyncNextPeer(k)
    /\ UNCHANGED <<cache, writing, etcdVars>>

SyncBegin(k) ==
    /\ sync.pc = "scan"
    /\ copy[k] # None
    /\ TRUE \in DirtyReads(k)
    /\ sync' = [sync EXCEPT !.pc = "wg", !.key = k]
    /\ UNCHANGED <<mapVars, etcdVars>>

After(pc) == CASE pc = "wg" -> "lan" [] pc = "lan" -> "nat" [] pc = "nat" -> "commit"

\* The LAN endpoint put under both endpoint keys.
SyncCollectLan ==
    /\ sync.pc \in Field
    /\ \E text \in Reads(sync.key, IF sync.pc = "nat" THEN "lan" ELSE sync.pc) :
         sync' = [sync EXCEPT !.pc = After(@), !.ops[sync.pc] = IF text = Empty THEN None ELSE text]
    /\ UNCHANGED <<mapVars, etcdVars>>

\* writePeerToEtcd reads each field twice, without the lock: once to compare it
\* with "", once to put it.
SyncCollect ==
    /\ sync.pc \in Field
    /\ \E seen, put \in Reads(sync.key, sync.pc) :
         sync' = [sync EXCEPT !.pc = After(@),
                              !.ops[sync.pc] = IF seen = Empty THEN None ELSE put]
    /\ UNCHANGED <<mapVars, etcdVars>>

\* The transaction succeeds, or there was nothing to put.
SyncCommit ==
    /\ sync.pc = "commit"
    /\ PutFields(sync.key, sync.ops)
    /\ sync' = [sync EXCEPT !.pc = "clear", !.ops = NoFields]
    /\ UNCHANGED <<mapVars, peerAlias, aliases>>

\* The transaction is reported as failed, which does not say that it was not
\* applied: the 5 s deadline may pass after etcd committed it.
SyncFail ==
    /\ sync.pc = "commit"
    /\ sync.ops # NoFields
    /\ UNCHANGED store \/ PutFields(sync.key, sync.ops)
    /\ SyncNextPeer(sync.key)
    /\ UNCHANGED <<cache, writing, peerAlias, aliases>>

\* The dirty flag is cleared inside Update, which then sets it again.
SyncClear ==
    /\ sync.pc = "clear"
    /\ Unlocked
    /\ cache' = Cleared(sync.key)
    /\ SyncNextPeer(sync.key)
    /\ UNCHANGED <<writing, etcdVars>>

SyncDone ==
    /\ sync.pc = "scan"
    /\ \A k \in Key : copy[k] = None
    /\ sync' = SyncIdle
    /\ UNCHANGED <<mapVars, etcdVars>>

SyncStep ==
    \/ SyncTick \/ SyncCollect \/ SyncCommit \/ SyncFail \/ SyncClear \/ SyncDone
    \/ \E k \in Key : SyncSkip(k) \/ SyncBegin(k)
=============================================================================
