------------------------------ MODULE PluginInv -----------------------------
(* The inductive invariants behind the safety properties of ValonPlugin.     *)
EXTENDS ValonPlugin

\* Before the goroutines are started nothing of theirs is under way.
Quiet ==
    /\ writing = None
    /\ copy = [k \in Key |-> None]
    /\ sync = SyncIdle
    /\ poll = PollIdle
    /\ seen = [k \in Key |-> None]
    /\ ddns = [r \in Req |-> DdnsIdle]

QuietBeforeRun == ~Running => Quiet

\* A snapshot's Live pointer leads to an entry of the cache; the loops work on
\* keys of their snapshots, and processPeer sets what it has loaded.
SnapshotInv ==
    /\ \A k \in Key : copy[k] = Live => cache[k] # None
    /\ sync.pc \notin {"idle", "scan"} => copy[sync.key] # None
    /\ poll.pc \notin {"idle", "scan"} => seen[poll.key] # None
    /\ poll.pc = "set" => poll.info # None

Inv1 == TypeOK /\ QuietBeforeRun /\ SnapshotInv

\* The lock: an Update in progress is on an entry that stays in the cache and
\* belongs to the one caller that is in its critical section.
Holds(k) == writing # None /\ writing.key = k

LockInv ==
    /\ writing # None => cache[writing.key] # None /\ writing.info.dirty
    /\ poll.pc = "write" => /\ Holds(poll.key)
                            /\ writing.info.addr["lan"] = cache[poll.key].addr["lan"]
                            /\ \A r \in Req : ddns[r].pc # "write"
    /\ \A r \in Req : ddns[r].pc = "write" =>
         /\ Holds(ddns[r].key)
         /\ writing.info.addr["lan"] = ddns[r].lan
         /\ \A s \in Req : s # r => ddns[s].pc # "write"

\* A clean entry that no call is about to make dirty.
Clean(k) == cache[k] # None /\ ~cache[k].dirty /\ Settled(k)

\* The entry syncToEtcd is writing, or would write from a frozen copy, is not
\* clean: what it puts cannot come to differ from a clean entry.
WriteInv ==
    /\ sync.pc \in Field \cup {"commit"} => ~Clean(sync.key)
    /\ \A k \in Key : copy[k] \notin {None, Live} => ~Clean(k)

\* Init restores peers it has loaded, and a request that is not in progress has no
\* alias to put.
RestInv ==
    /\ phase = "restore" => \A k \in restore : cache[k] # None
    /\ \A r \in Req : ddns[r].pc = "idle" => ddns[r].alias = None

IInv == Inv1 /\ LockInv /\ LoadFillsHole /\ WriteInv /\ CleanMeansStored
=============================================================================
