---------------------------- MODULE PluginProofs ----------------------------
(* Proofs that the invariants of PluginInv hold of ValonPlugin for every     *)
(* value of its constants.                                                   *)
EXTENDS PluginInv, MapProofs

-----------------------------------------------------------------------------
(* What the updates of the cache and the calls of the device preserve.       *)

LEMMA ObservedType ==
    ASSUME NEW info \in PeerInfo, NEW ip \in IP \cup {Empty}, NEW ep \in NatEp \cup {Empty}
    PROVE  /\ Observed(info, ip, ep) \in PeerInfo
           /\ Observed(info, ip, ep).addr["lan"] = info.addr["lan"]
  BY DEF Observed, PeerInfo, Text, Field

LEMMA AnnouncedType ==
    ASSUME NEW info \in PeerInfo, NEW lan \in LanEp \cup {Empty}
    PROVE  Announced(info, lan) \in PeerInfo /\ Announced(info, lan).addr["lan"] = lan
  BY DEF Announced, PeerInfo, Text, Field

LEMMA ConfigureType ==
    ASSUME WgTypeOK, NEW k \in Key, NEW ip \in IP, NEW replace \in BOOLEAN,
           Configure(k, ip, replace)
    PROVE  WgTypeOK'
  BY SentinelAssumption DEF WgTypeOK, Configure, WithAddress, Without, WgPeer

-----------------------------------------------------------------------------
(* Types, and what the loops hold on to.                                     *)

LEMMA InitInv1 == Init => Inv1
  <1>. SUFFICES ASSUME Init PROVE Inv1
    OBVIOUS
  <1>. USE SelfAssumption DEF Init
  <1>1. MapTypeOK /\ EtcdTypeOK /\ WgTypeOK
    BY DEF MapInit, EtcdInit, WgInit, MapTypeOK, EtcdTypeOK, WgTypeOK, NoFields
  <1>2. SyncTypeOK /\ PollTypeOK /\ DdnsTypeOK /\ BootTypeOK
    BY DEF SyncInit, PollInit, DdnsInit, BootInit, SyncTypeOK, PollTypeOK, DdnsTypeOK,
           BootTypeOK, SyncIdle, PollIdle, DdnsIdle, NoFields, SyncPC, PollPC, DdnsPC
  <1>3. QuietBeforeRun
    BY DEF MapInit, SyncInit, PollInit, DdnsInit, QuietBeforeRun, Quiet
  <1>4. SnapshotInv
    BY SentinelAssumption DEF MapInit, SyncInit, PollInit, SnapshotInv, SyncIdle, PollIdle
  <1>. QED BY <1>1, <1>2, <1>3, <1>4 DEF Inv1, TypeOK

LEMMA StartingInv1 == Inv1 /\ Starting => Inv1'
  <1>. SUFFICES ASSUME Inv1, Starting PROVE Inv1'
    OBVIOUS
  <1>. USE DEF Inv1, TypeOK, Starting
  <1>1. CASE BootLoad
    <2>1. \A k \in Key : Loaded(k, Empty) \in PeerInfo
      BY LoadedType
    <2>2. TypeOK'
      BY <1>1, <2>1 DEF BootLoad, MapTypeOK, EtcdTypeOK, WgTypeOK, SyncTypeOK, PollTypeOK,
         DdnsTypeOK, BootTypeOK, etcdVars
    <2>3. QuietBeforeRun' /\ SnapshotInv'
      BY <1>1, SentinelAssumption
         DEF BootLoad, QuietBeforeRun, Quiet, SnapshotInv, Running, SyncIdle, PollIdle
    <2>. QED BY <2>2, <2>3
  <1>2. CASE BootSelf
    <2>1. SelfInfo \in PeerInfo
      BY SelfAssumption DEF SelfInfo, PeerInfo, Text, Field
    <2>2. MapTypeOK'
      BY <1>2, <2>1, SetType, SelfAssumption DEF BootSelf
    <2>3. TypeOK'
      BY <1>2, <2>2 DEF BootSelf, EtcdTypeOK, WgTypeOK, SyncTypeOK, PollTypeOK,
         DdnsTypeOK, BootTypeOK, etcdVars
    <2>4. QuietBeforeRun' /\ SnapshotInv'
      BY <1>2, SentinelAssumption, SelfAssumption
         DEF BootSelf, Set, Detached, QuietBeforeRun, Quiet, SnapshotInv, Running, SyncIdle, PollIdle
    <2>. QED BY <2>3, <2>4
  <1>3. ASSUME NEW k \in Key, BootRestore(k) PROVE Inv1'
    <2>1. WgTypeOK'
      BY <1>3, ConfigureType DEF BootRestore
    <2>2. TypeOK'
      BY <1>3, <2>1 DEF BootRestore, MapTypeOK, EtcdTypeOK, SyncTypeOK, PollTypeOK,
         DdnsTypeOK, BootTypeOK, etcdVars, mapVars
    <2>3. QuietBeforeRun' /\ SnapshotInv'
      BY <1>3 DEF BootRestore, QuietBeforeRun, Quiet, SnapshotInv, Running, mapVars
    <2>. QED BY <2>2, <2>3
  <1>4. CASE BootNoLoad \/ BootDevice \/ BootNoDevice \/ BootRestored
             \/ \E k \in Key : BootNoRestore(k)
    <2>1. TypeOK'
      BY <1>4 DEF BootNoLoad, BootDevice, BootNoDevice, BootRestored, BootNoRestore,
         MapTypeOK, EtcdTypeOK, WgTypeOK, SyncTypeOK, PollTypeOK, DdnsTypeOK, BootTypeOK,
         etcdVars, mapVars
    <2>2. QuietBeforeRun' /\ SnapshotInv'
      BY <1>4 DEF BootNoLoad, BootDevice, BootNoDevice, BootRestored, BootNoRestore,
         QuietBeforeRun, Quiet, SnapshotInv, Running, mapVars
    <2>. QED BY <2>1, <2>2
  <1>. QED BY <1>1, <1>2, <1>3, <1>4 DEF BootStep

LEMMA SyncingInv1 == Inv1 /\ Syncing => Inv1'
  <1>. SUFFICES ASSUME Inv1, Syncing PROVE Inv1'
    OBVIOUS
  <1>1. WgTypeOK' /\ PollTypeOK' /\ DdnsTypeOK' /\ BootTypeOK' /\ QuietBeforeRun'
    BY DEF Inv1, TypeOK, Syncing, WgTypeOK, PollTypeOK, DdnsTypeOK, BootTypeOK,
       QuietBeforeRun, Running
  <1>2. /\ MapTypeOK /\ EtcdTypeOK /\ SyncTypeOK /\ SnapshotInv
        /\ UNCHANGED <<poll, seen>>
    BY DEF Inv1, TypeOK, Syncing
  <1>3. SUFFICES MapTypeOK' /\ EtcdTypeOK' /\ SyncTypeOK' /\ SnapshotInv'
    BY <1>1 DEF Inv1, TypeOK
  <1>. USE SentinelAssumption
  <1>4. CASE SyncTick
    BY <1>2, <1>4, GetAllType DEF SyncTick, GetAll, etcdVars, EtcdTypeOK, SyncTypeOK, SyncPC,
       SnapshotInv, MapTypeOK
  <1>5. ASSUME NEW k \in Key, SyncSkip(k) PROVE MapTypeOK' /\ EtcdTypeOK' /\ SyncTypeOK' /\ SnapshotInv'
    BY <1>2, <1>5, SelfAssumption DEF SyncSkip, SyncNextPeer, MapTypeOK, etcdVars, EtcdTypeOK,
       SyncTypeOK, SyncPC, SnapshotInv, SyncIdle, NoFields
  <1>6. ASSUME NEW k \in Key, SyncBegin(k) PROVE MapTypeOK' /\ EtcdTypeOK' /\ SyncTypeOK' /\ SnapshotInv'
    BY <1>2, <1>6 DEF SyncBegin, mapVars, MapTypeOK, etcdVars, EtcdTypeOK,
       SyncTypeOK, SyncPC, SnapshotInv
  <1>7. CASE SyncCollect
    <2>1. sync.pc \in Field /\ sync.key \in Key /\ copy[sync.key] # None
      BY <1>2, <1>7 DEF SyncCollect, SyncTypeOK, SnapshotInv, Field
    <2>2. Reads(sync.key, sync.pc) \subseteq Text
      BY <1>2, <2>1 DEF Reads, CacheReads, Racing, MapTypeOK, Writing, PeerInfo, Text, SnapshotInv
    <2>3. After(sync.pc) \in SyncPC \ {"idle", "scan"}
      BY <2>1 DEF After, Field, SyncPC
    <2>4. PICK seen1, put1 \in Reads(sync.key, sync.pc) :
            sync' = [sync EXCEPT !.pc = After(@),
                                 !.ops[sync.pc] = IF seen1 = Empty THEN None ELSE put1]
      BY <1>7 DEF SyncCollect
    <2>5. SyncTypeOK'
      BY <1>2, <2>1, <2>2, <2>3, <2>4 DEF SyncTypeOK
    <2>6. sync'.key = sync.key
      BY <1>2, <2>4 DEF SyncTypeOK
    <2>. QED BY <1>2, <1>7, <2>1, <2>5, <2>6 DEF SyncCollect, mapVars, MapTypeOK, etcdVars,
              EtcdTypeOK, SnapshotInv
  <1>8. CASE SyncCommit
    <2>1. store' \in [Key -> [Field -> Text \cup {None}]]
      BY <1>2, <1>8, PutFieldsType DEF SyncCommit, SyncTypeOK
    <2>. QED BY <1>2, <1>8, <2>1 DEF SyncCommit, mapVars, MapTypeOK, EtcdTypeOK,
              SyncTypeOK, SyncPC, SnapshotInv, NoFields
  <1>9. CASE SyncFail
    <2>1. store' \in [Key -> [Field -> Text \cup {None}]]
      BY <1>2, <1>9, PutFieldsType DEF SyncFail, SyncTypeOK, EtcdTypeOK
    <2>. QED BY <1>2, <1>9, <2>1, SelfAssumption DEF SyncFail, SyncNextPeer, MapTypeOK,
              EtcdTypeOK, SyncTypeOK, SyncPC, SnapshotInv, NoFields, SyncIdle
  <1>10. CASE SyncClear
    <2>1. sync.key \in Key /\ Cleared(sync.key) \in [Key -> PeerInfo \cup {None}]
      BY <1>2, ClearedType DEF SyncTypeOK
    <2>2. MapTypeOK' /\ EtcdTypeOK' /\ SyncTypeOK'
      BY <1>2, <1>10, <2>1, SelfAssumption DEF SyncClear, SyncNextPeer, MapTypeOK, etcdVars,
         EtcdTypeOK, SyncTypeOK, SyncPC, SyncIdle, NoFields
    <2>3. \A k \in Key : cache[k] # None => cache'[k] # None
      BY <1>2, <1>10, <2>1, <2>2 DEF SyncClear, Cleared, MapTypeOK, AfterUpdate, PeerInfo
    <2>4. SnapshotInv'
      BY <1>2, <1>10, <2>1, <2>3 DEF SyncClear, SyncNextPeer, SnapshotInv, SyncIdle, MapTypeOK
    <2>. QED BY <2>2, <2>4
  <1>11. CASE SyncDone
    BY <1>2, <1>11, SelfAssumption DEF SyncDone, mapVars, MapTypeOK, etcdVars, EtcdTypeOK,
       SyncTypeOK, SyncPC, SyncIdle, NoFields, SnapshotInv
  <1>. QED BY <1>4, <1>5, <1>6, <1>7, <1>8, <1>9, <1>10, <1>11 DEF Syncing, SyncStep

LEMMA PollingInv1 == Inv1 /\ Polling => Inv1'
  <1>. SUFFICES ASSUME Inv1, Polling PROVE Inv1'
    OBVIOUS
  <1>1. SyncTypeOK' /\ DdnsTypeOK' /\ BootTypeOK' /\ QuietBeforeRun'
    BY DEF Inv1, TypeOK, Polling, SyncTypeOK, DdnsTypeOK, BootTypeOK, QuietBeforeRun, Running
  <1>2. /\ MapTypeOK /\ EtcdTypeOK /\ WgTypeOK /\ PollTypeOK /\ SnapshotInv
        /\ UNCHANGED sync
    BY DEF Inv1, TypeOK, Polling
  <1>. DEFINE Goal == MapTypeOK' /\ EtcdTypeOK' /\ WgTypeOK' /\ PollTypeOK' /\ SnapshotInv'
  <1>3. SUFFICES Goal
    BY <1>1 DEF Inv1, TypeOK
  <1>. USE SentinelAssumption
  <1>4. CASE PollTick
    BY <1>2, <1>4 DEF PollTick, mapVars, MapTypeOK, etcdVars, EtcdTypeOK, WgTypeOK, PollTypeOK,
       PollPC, SnapshotInv
  <1>5. ASSUME NEW k \in Key, PollLookup(k) PROVE Goal
    <2>1. PICK ip \in WgIPs(seen[k]) :
            poll' = [poll EXCEPT !.pc = IF cache[k] = None THEN "fetch" ELSE "update",
                                 !.key = k, !.ip = ip]
      BY <1>5 DEF PollLookup
    <2>2. ip \in IP \cup {Empty}
      BY <1>2, <1>5, <2>1 DEF PollLookup, PollTypeOK, WgPeer, WgIPs
    <2>. QED BY <1>2, <1>5, <2>1, <2>2 DEF PollLookup, mapVars, MapTypeOK, etcdVars, EtcdTypeOK,
              WgTypeOK, PollTypeOK, PollPC, SnapshotInv
  <1>6. CASE PollFetch
    <2>1. Loaded(poll.key, poll.ip) \in PeerInfo
      BY <1>2, LoadedType DEF PollTypeOK
    <2>. QED BY <1>2, <1>6, <2>1 DEF PollFetch, mapVars, MapTypeOK, etcdVars, EtcdTypeOK,
              WgTypeOK, PollTypeOK, PollPC, SnapshotInv
  <1>7. CASE PollMiss \/ PollGone
    <2>1. PollNextPeer(poll.key) /\ UNCHANGED <<mapVars, etcdVars, wg>>
      BY <1>7 DEF PollMiss, PollGone
    <2>2. PollTypeOK'
      BY <1>2, <2>1, SelfAssumption DEF PollNextPeer, PollIdle, PollTypeOK, PollPC
    <2>3. SnapshotInv'
      BY <1>2, <2>1 DEF PollNextPeer, PollIdle, SnapshotInv, mapVars
    <2>. QED BY <1>2, <2>1, <2>2, <2>3 DEF mapVars, MapTypeOK, etcdVars, EtcdTypeOK, WgTypeOK
  <1>8. CASE PollSet
    <2>1. poll.key \in Key /\ poll.info \in PeerInfo
      BY <1>2, <1>8 DEF PollSet, PollTypeOK, SnapshotInv
    <2>2. MapTypeOK'
      BY <1>2, <1>8, <2>1, SetType DEF PollSet
    <2>3. SnapshotInv'
      BY <1>2, <1>8, <2>1 DEF PollSet, Set, Detached, SnapshotInv, MapTypeOK, PollTypeOK
    <2>. QED BY <1>2, <1>8, <2>2, <2>3 DEF PollSet, etcdVars, EtcdTypeOK, WgTypeOK,
              PollTypeOK, PollPC
  <1>9. CASE PollUpdate
    <2>1. /\ poll.key \in Key /\ cache[poll.key] \in PeerInfo
          /\ poll.ip \in IP \cup {Empty} /\ seen[poll.key].ep \in NatEp \cup {Empty}
      BY <1>2, <1>9 DEF PollUpdate, BeginUpdate, MapTypeOK, PollTypeOK, SnapshotInv, WgPeer
    <2>2. Observed(cache[poll.key], poll.ip, seen[poll.key].ep) \in PeerInfo
      BY <2>1, ObservedType
    <2>3. MapTypeOK'
      BY <1>2, <1>9, <2>1, <2>2, BeginUpdateType DEF PollUpdate
    <2>. QED BY <1>2, <1>9, <2>3 DEF PollUpdate, BeginUpdate, etcdVars, EtcdTypeOK, WgTypeOK,
              PollTypeOK, PollPC, SnapshotInv
  <1>10. CASE PollWrite
    <2>1. poll.key \in Key
      BY <1>2 DEF PollTypeOK
    <2>2. MapTypeOK'
      BY <1>2, <1>10, <2>1, EndUpdateType DEF PollWrite
    <2>3. SnapshotInv'
      BY <1>2, <1>10, <2>1 DEF PollWrite, PollNextPeer, PollIdle, EndUpdate, SnapshotInv,
         MapTypeOK, Writing
    <2>. QED BY <1>2, <1>10, <2>2, <2>3, SelfAssumption DEF PollWrite, PollNextPeer, PollIdle,
              etcdVars, EtcdTypeOK, WgTypeOK, PollTypeOK, PollPC
  <1>11. CASE PollDone
    BY <1>2, <1>11, SelfAssumption DEF PollDone, PollIdle, mapVars, MapTypeOK, etcdVars, EtcdTypeOK,
       WgTypeOK, PollTypeOK, PollPC, SnapshotInv
  <1>. QED BY <1>4, <1>5, <1>6, <1>7, <1>8, <1>9, <1>10, <1>11 DEF Polling, PollStep

LEMMA ServingInv1 == ASSUME NEW r \in Req PROVE Inv1 /\ Serving(r) => Inv1'
  <1>. SUFFICES ASSUME Inv1, Serving(r) PROVE Inv1'
    OBVIOUS
  <1>1. SyncTypeOK' /\ PollTypeOK' /\ BootTypeOK' /\ WgTypeOK' /\ QuietBeforeRun'
    BY DEF Inv1, TypeOK, Serving, SyncTypeOK, PollTypeOK, BootTypeOK, WgTypeOK,
       QuietBeforeRun, Running
  <1>2. /\ MapTypeOK /\ EtcdTypeOK /\ DdnsTypeOK /\ SnapshotInv
        /\ UNCHANGED <<sync, poll, seen>>
    BY DEF Inv1, TypeOK, Serving
  <1>. DEFINE Goal == MapTypeOK' /\ EtcdTypeOK' /\ DdnsTypeOK' /\ SnapshotInv'
  <1>3. SUFFICES Goal
    BY <1>1 DEF Inv1, TypeOK
  <1>. USE SentinelAssumption
  <1>4. /\ ddns[r].key \in Key /\ ddns[r].lan \in LanEp \cup {Empty}
        /\ ddns[r].alias \in Alias \cup {None}
    BY <1>2 DEF DdnsTypeOK
  <1>5. CASE DdnsUpdate(r)
    <2>1. Announced(cache[ddns[r].key], ddns[r].lan) \in PeerInfo
      BY <1>2, <1>4, <1>5, AnnouncedType DEF DdnsUpdate, BeginUpdate, MapTypeOK
    <2>2. MapTypeOK'
      BY <1>2, <1>4, <1>5, <2>1, BeginUpdateType DEF DdnsUpdate
    <2>. QED BY <1>2, <1>5, <2>2, ZenonT(40) DEF DdnsUpdate, BeginUpdate, Goto, etcdVars, EtcdTypeOK,
              DdnsTypeOK, DdnsPC, SnapshotInv
  <1>6. CASE DdnsWrite(r)
    <2>1. MapTypeOK'
      BY <1>2, <1>4, <1>6, EndUpdateType DEF DdnsWrite
    <2>2. SnapshotInv'
      BY <1>2, <1>4, <1>6 DEF DdnsWrite, EndUpdate, SnapshotInv, MapTypeOK, Writing
    <2>. QED BY <1>2, <1>6, <2>1, <2>2, ZenonT(40) DEF DdnsWrite, Goto, etcdVars, EtcdTypeOK,
              DdnsTypeOK, DdnsPC
  <1>7. CASE DdnsDelete(r)
    <2>1. MapTypeOK'
      BY <1>2, <1>4, <1>7, DeleteType DEF DdnsDelete
    <2>2. SnapshotInv'
      BY <1>2, <1>4, <1>7 DEF DdnsDelete, Delete, Detached, SnapshotInv, MapTypeOK
    <2>. QED BY <1>2, <1>7, <2>1, <2>2, ZenonT(40) DEF DdnsDelete, Goto, etcdVars, EtcdTypeOK,
              DdnsTypeOK, DdnsPC
  <1>8. CASE DdnsGone(r) \/ DdnsNoAlias(r) \/ DdnsPutAlias(r) \/ DdnsPutReverse(r) \/ DdnsUnalias(r)
    <2>1. UNCHANGED mapVars
      BY <1>8 DEF DdnsGone, DdnsNoAlias, DdnsPutAlias, DdnsPutReverse, DdnsUnalias
    <2>2. MapTypeOK' /\ SnapshotInv'
      BY <1>2, <2>1 DEF mapVars, MapTypeOK, SnapshotInv
    <2>3. DdnsTypeOK'
      BY <1>2, <1>8, SelfAssumption DEF DdnsGone, DdnsNoAlias, DdnsPutAlias, DdnsPutReverse,
         DdnsUnalias, Goto, Finish, DdnsIdle, DdnsTypeOK, DdnsPC
    <2>4. EtcdTypeOK'
      BY <1>2, <1>4, <1>8 DEF DdnsGone, DdnsNoAlias, DdnsPutAlias, DdnsPutReverse, DdnsUnalias,
         etcdVars, EtcdTypeOK
    <2>. QED BY <2>2, <2>3, <2>4
  <1>. QED BY <1>5, <1>6, <1>7, <1>8 DEF Serving, DdnsStep

LEMMA RequestingInv1 ==
    ASSUME NEW r \in Req
    PROVE  Inv1 /\ (Requesting(r) \/ \E k \in Removals : Deleting(r, k)) => Inv1'
  <1>. SUFFICES ASSUME Inv1, Requesting(r) \/ \E k \in Removals : Deleting(r, k) PROVE Inv1'
    OBVIOUS
  <1>1. UNCHANGED <<mapVars, etcdVars, wg, sync, poll, seen, phase, restore>> /\ Running
    BY DEF Requesting, Deleting, UpdateRequest, DeleteRequest
  <1>2. DdnsTypeOK'
    BY ScopeAssumption DEF Inv1, TypeOK, Requesting, Deleting, UpdateRequest, DeleteRequest,
       DdnsTypeOK, DdnsPC
  <1>3. TypeOK'
    BY <1>1, <1>2 DEF Inv1, TypeOK, MapTypeOK, EtcdTypeOK, WgTypeOK, SyncTypeOK, PollTypeOK,
       BootTypeOK, mapVars, etcdVars
  <1>. QED BY <1>1, <1>3 DEF Inv1, QuietBeforeRun, Running, SnapshotInv, mapVars

LEMMA CrashInv1 == Inv1 /\ (Restart \/ Reboot) => Inv1'
  <1>. SUFFICES ASSUME Inv1, Restart \/ Reboot PROVE Inv1'
    OBVIOUS
  <1>1. Crash /\ (UNCHANGED wg \/ wg' = [k \in Key |-> None])
    BY DEF Restart, Reboot
  <1>2. TypeOK'
    BY <1>1, SelfAssumption DEF Inv1, TypeOK, Crash, MapTypeOK, EtcdTypeOK, etcdVars, WgTypeOK,
       SyncTypeOK, PollTypeOK, DdnsTypeOK, BootTypeOK, SyncIdle, PollIdle, DdnsIdle, NoFields,
       SyncPC, PollPC, DdnsPC
  <1>3. QuietBeforeRun' /\ SnapshotInv'
    BY <1>1, SentinelAssumption DEF Crash, QuietBeforeRun, Quiet, SnapshotInv, SyncIdle, PollIdle
  <1>. QED BY <1>2, <1>3 DEF Inv1

LEMMA OutsideInv1 == Inv1 /\ (AdminDevice \/ AdminEtcd \/ PeerMoves) => Inv1'
  <1>. SUFFICES ASSUME Inv1, AdminDevice \/ AdminEtcd \/ PeerMoves PROVE Inv1'
    OBVIOUS
  <1>1. UNCHANGED pluginVars
    BY DEF AdminDevice, AdminEtcd, PeerMoves
  <1>2. WgTypeOK'
    <2>1. CASE AdminDevice
      <3>1. CASE \E n \in Assignments : DeviceAdd(n.key, n.ip)
        BY <3>1, ConfigureType, ScopeAssumption DEF Inv1, TypeOK, DeviceAdd
      <3>2. CASE \E k \in Removals : DeviceRemove(k)
        BY <3>2 DEF Inv1, TypeOK, DeviceRemove, Unconfigure, WgTypeOK
      <3>. QED BY <2>1, <3>1, <3>2 DEF AdminDevice
    <2>2. CASE PeerMoves
      <3>1. PICK k \in Key, ep \in NatEp : Roam(k, ep)
        BY <2>2 DEF PeerMoves
      <3>2. wg[k] \in WgPeer
        BY <3>1 DEF Inv1, TypeOK, Roam, WgTypeOK
      <3>3. [wg[k] EXCEPT !.ep = ep] \in WgPeer
        BY <3>2 DEF WgPeer
      <3>. QED BY <3>1, <3>3 DEF Inv1, TypeOK, Roam, WgTypeOK
    <2>3. CASE AdminEtcd
      BY <2>3 DEF Inv1, TypeOK, AdminEtcd, WgTypeOK
    <2>. QED BY <2>1, <2>2, <2>3
  <1>3. EtcdTypeOK'
    <2>1. CASE AdminEtcd
      <3>1. EtcdTypeOK
        BY DEF Inv1, TypeOK
      <3>2. ASSUME NEW n \in Assignments, Register(n.key, n.ip, n.alias) PROVE EtcdTypeOK'
        <4>1. n.key \in Key /\ n.ip \in Text /\ n.alias \in Alias /\ "wg" \in Field
          BY ScopeAssumption DEF Text, Field
        <4>2. [store[n.key] EXCEPT !["wg"] = n.ip] \in [Field -> Text \cup {None}]
          BY <3>1, <4>1 DEF EtcdTypeOK
        <4>. QED BY <3>1, <3>2, <4>1, <4>2 DEF Register, EtcdTypeOK
      <3>3. ASSUME NEW k \in Key, Deregister(k) PROVE EtcdTypeOK'
        BY <3>1, <3>3 DEF Deregister, DeletePrefix, EtcdTypeOK, NoFields
      <3>4. ASSUME NEW a \in Alias, Unalias(a) PROVE EtcdTypeOK'
        BY <3>1, <3>4 DEF Unalias, EtcdTypeOK
      <3>. QED BY <2>1, <3>2, <3>3, <3>4, ScopeAssumption DEF AdminEtcd
    <2>2. CASE AdminDevice \/ PeerMoves
      BY <2>2 DEF Inv1, TypeOK, AdminDevice, PeerMoves, etcdVars, EtcdTypeOK
    <2>. QED BY <2>1, <2>2
  <1>4. TypeOK'
    BY <1>1, <1>2, <1>3 DEF Inv1, TypeOK, pluginVars, MapTypeOK, SyncTypeOK, PollTypeOK,
       DdnsTypeOK, BootTypeOK
  <1>. QED BY <1>1, <1>4 DEF Inv1, pluginVars, QuietBeforeRun, Quiet, Running, SnapshotInv

LEMMA NextInv1 == Inv1 /\ [Next]_vars => Inv1'
  <1>. SUFFICES ASSUME Inv1, [Next]_vars PROVE Inv1'
    OBVIOUS
  <1>1. CASE UNCHANGED vars
    BY <1>1 DEF vars, Inv1, TypeOK, MapTypeOK, EtcdTypeOK, WgTypeOK, SyncTypeOK, PollTypeOK,
       DdnsTypeOK, BootTypeOK, QuietBeforeRun, Quiet, Running, SnapshotInv
  <1>. QED BY <1>1, StartingInv1, SyncingInv1, PollingInv1, ServingInv1, RequestingInv1,
            CrashInv1, OutsideInv1 DEF Next

THEOREM Inv1Holds == Spec => []Inv1
  BY InitInv1, NextInv1, PTL DEF Spec

\* Every variable keeps its type, whatever the keys, endpoints, requests and
\* administrators: in particular no handler dereferences an entry that is gone.
THEOREM TypeCorrect == Spec => []TypeOK
  <1>1. Inv1 => TypeOK
    BY DEF Inv1
  <1>. QED BY <1>1, Inv1Holds, PTL

-----------------------------------------------------------------------------
(* The lock, and the hole processPeer fills. *)

Inv2 == LockInv /\ LoadFillsHole

LEMMA InitInv2 == Init => Inv2
  BY SentinelAssumption DEF Init, MapInit, PollInit, DdnsInit, PollIdle, DdnsIdle, Inv2, LockInv,
     LoadFillsHole

LEMMA StartingInv2 == Inv1 /\ Starting => Inv2'
  <1>. SUFFICES ASSUME Inv1, Starting PROVE Inv2'
    OBVIOUS
  <1>1. Quiet /\ UNCHANGED <<writing, poll, ddns>>
    BY DEF Inv1, QuietBeforeRun, Running, Starting, BootStep, BootLoad, BootNoLoad, BootDevice,
       BootNoDevice, BootRestore, BootNoRestore, BootRestored, BootSelf, Set, mapVars
  <1>. QED BY <1>1 DEF Quiet, PollIdle, DdnsIdle, Inv2, LockInv, LoadFillsHole

LEMMA SyncingInv2 == Inv1 /\ Inv2 /\ Syncing => Inv2'
  <1>. SUFFICES ASSUME Inv1, Inv2, Syncing PROVE Inv2'
    OBVIOUS
  <1>1. UNCHANGED <<writing, poll, ddns>>
    BY DEF Syncing, SyncStep, SyncTick, GetAll, SyncSkip, SyncBegin, SyncCollect, SyncCommit,
       SyncFail, SyncClear, SyncDone, mapVars
  <1>2. CASE UNCHANGED cache
    BY <1>1, <1>2 DEF Inv2, LockInv, LoadFillsHole, Holds
  <1>3. CASE SyncClear
    <2>1. \A k \in Key : cache[k] = None => cache'[k] = None
      BY <1>3 DEF SyncClear, Cleared, Inv1, TypeOK, MapTypeOK, SyncTypeOK
    <2>2. poll.key \in Key
      BY DEF Inv1, TypeOK, PollTypeOK
    <2>. QED BY <1>1, <1>3, <2>1, <2>2 DEF SyncClear, Unlocked, Inv2, LockInv, LoadFillsHole, Holds
  <1>. QED BY <1>2, <1>3 DEF Syncing, SyncStep, SyncTick, GetAll, SyncSkip, SyncBegin,
            SyncCollect, SyncCommit, SyncFail, SyncDone, mapVars

LEMMA PollingInv2 == Inv1 /\ Inv2 /\ Polling => Inv2'
  <1>. SUFFICES ASSUME Inv1, Inv2, Polling PROVE Inv2'
    OBVIOUS
  <1>1. MapTypeOK /\ PollTypeOK /\ SnapshotInv /\ UNCHANGED ddns
    BY DEF Inv1, TypeOK, Polling
  <1>2. CASE PollTick \/ PollMiss \/ PollGone \/ PollDone
    <2>1. UNCHANGED <<cache, writing>> /\ poll'.pc \in {"idle", "scan"}
      BY <1>1, <1>2 DEF PollTick, PollMiss, PollGone, PollDone, PollNextPeer, PollIdle, mapVars,
         PollTypeOK
    <2>. QED BY <1>1, <2>1 DEF Inv2, LockInv, LoadFillsHole, Holds
  <1>3. ASSUME NEW k \in Key, PollLookup(k) PROVE Inv2'
    <2>1. /\ UNCHANGED <<cache, writing>> /\ poll'.key = k
          /\ poll'.pc = IF cache[k] = None THEN "fetch" ELSE "update"
      BY <1>1, <1>3 DEF PollLookup, PollTypeOK, mapVars
    <2>. QED BY <1>1, <2>1 DEF Inv2, LockInv, LoadFillsHole, Holds
  <1>4. CASE PollFetch
    BY <1>1, <1>4 DEF PollFetch, mapVars, PollTypeOK, Inv2, LockInv, LoadFillsHole, Holds
  <1>5. CASE PollSet
    BY <1>1, <1>5 DEF PollSet, Set, Unlocked, PollTypeOK, Inv2, LockInv, LoadFillsHole, Holds
  <1>6. CASE PollUpdate
    <2>. DEFINE new == Observed(cache[poll.key], poll.ip, seen[poll.key].ep)
    <2>1. poll.key \in Key /\ cache[poll.key] \in PeerInfo /\ cache[poll.key] # None
      BY <1>1, <1>6 DEF PollUpdate, BeginUpdate, MapTypeOK, PollTypeOK
    <2>2. /\ UNCHANGED cache
          /\ writing' = [key |-> poll.key, info |-> AfterUpdate(new)]
          /\ poll'.pc = "write" /\ poll'.key = poll.key
      BY <1>1, <1>6 DEF PollUpdate, BeginUpdate, PollTypeOK
    <2>3. AfterUpdate(new).dirty /\ AfterUpdate(new).addr["lan"] = cache[poll.key].addr["lan"]
      BY <2>1 DEF AfterUpdate, Observed, PeerInfo, Field
    <2>4. writing' # None /\ writing = None
      <3>1. AfterUpdate(new) \in PeerInfo
        BY <1>1, <2>1, <1>6, ObservedType, AfterUpdateType DEF PollUpdate, PollTypeOK, SnapshotInv,
           WgPeer
      <3>. QED BY <1>6, <2>1, <2>2, <3>1, SentinelAssumption DEF PollUpdate, BeginUpdate, Unlocked
    <2>. QED BY <1>1, <2>1, <2>2, <2>3, <2>4 DEF Inv2, LockInv, LoadFillsHole, Holds
  <1>7. CASE PollWrite
    <2>1. writing' = None /\ poll'.pc = "scan"
      BY <1>7 DEF PollWrite, EndUpdate, PollNextPeer, PollIdle
    <2>. QED BY <1>1, <1>7, <2>1 DEF PollWrite, Inv2, LockInv, LoadFillsHole
  <1>. QED BY <1>2, <1>3, <1>4, <1>5, <1>6, <1>7 DEF Polling, PollStep

LEMMA ServingInv2 == ASSUME Inv1, Inv2, NEW r \in Req, Serving(r) PROVE Inv2'
  <1>1. /\ MapTypeOK /\ PollTypeOK /\ DdnsTypeOK /\ UNCHANGED poll
        /\ poll.pc \notin {"idle", "scan"} => seen[poll.key] # None
    BY DEF Inv1, TypeOK, SnapshotInv, Serving
  <1>2. CASE DdnsUpdate(r)
    <2>. DEFINE k == ddns[r].key
                new == Announced(cache[k], ddns[r].lan)
    <2>1. k \in Key /\ cache[k] \in PeerInfo /\ ddns[r].lan \in LanEp \cup {Empty}
      BY <1>1, <1>2 DEF DdnsUpdate, BeginUpdate, MapTypeOK, DdnsTypeOK
    <2>2. /\ UNCHANGED cache
          /\ writing' = [key |-> k, info |-> AfterUpdate(new)]
          /\ writing' # None /\ writing = None /\ cache[k] # None
      BY <1>2, <2>1, AnnouncedType, AfterUpdateType, SentinelAssumption
         DEF DdnsUpdate, BeginUpdate, Unlocked
    <2>3. AfterUpdate(new).dirty /\ AfterUpdate(new).addr["lan"] = ddns[r].lan
      BY <2>1, AnnouncedType, AfterUpdateType
    <2>4. /\ ddns'[r].pc = "write" /\ ddns'[r].key = k /\ ddns'[r].lan = ddns[r].lan
          /\ \A s \in Req : s # r => ddns'[s] = ddns[s]
      BY <1>1, <1>2 DEF DdnsUpdate, Goto, DdnsTypeOK
    <2>5. poll.pc # "write" /\ \A s \in Req : ddns[s].pc # "write"
      BY <2>2 DEF Inv2, LockInv, Holds
    <2>. QED BY <1>1, <2>2, <2>3, <2>4, <2>5 DEF Inv2, LockInv, LoadFillsHole, Holds
  <1>3. CASE DdnsWrite(r)
    <2>1. ddns[r].pc = "write" /\ writing' = None
      BY <1>3 DEF DdnsWrite, EndUpdate
    <2>2. poll.pc # "write" /\ \A s \in Req : ddns'[s].pc # "write"
      BY <1>1, <1>3, <2>1 DEF DdnsWrite, Goto, DdnsTypeOK, Inv2, LockInv
    <2>3. \A k \in Key : cache[k] = None => cache'[k] = None
      BY <1>1, <1>3, <2>1 DEF DdnsWrite, EndUpdate, MapTypeOK, DdnsTypeOK, Inv2, LockInv, Holds
    <2>. QED BY <1>1, <2>1, <2>2, <2>3 DEF Inv2, LockInv, LoadFillsHole, PollTypeOK
  <1>4. CASE DdnsDelete(r)
    <2>1. writing = None /\ writing' = None
      BY <1>4 DEF DdnsDelete, Delete, Unlocked
    <2>2. poll.pc # "write" /\ \A s \in Req : ddns'[s].pc # "write"
      BY <1>1, <1>4, <2>1 DEF DdnsDelete, Goto, DdnsTypeOK, Inv2, LockInv, Holds
    <2>3. \A k \in Key : cache[k] = None => cache'[k] = None
      BY <1>1, <1>4 DEF DdnsDelete, Delete, MapTypeOK, DdnsTypeOK
    <2>. QED BY <1>1, <2>1, <2>2, <2>3 DEF Inv2, LockInv, LoadFillsHole, PollTypeOK
  <1>5. CASE DdnsGone(r) \/ DdnsNoAlias(r) \/ DdnsPutAlias(r) \/ DdnsPutReverse(r) \/ DdnsUnalias(r)
    <2>1. UNCHANGED <<cache, writing>>
      BY <1>5 DEF DdnsGone, DdnsNoAlias, DdnsPutAlias, DdnsPutReverse, DdnsUnalias, mapVars
    <2>2. ddns[r].pc # "write" /\ ddns'[r].pc # "write" /\ \A s \in Req : s # r => ddns'[s] = ddns[s]
      BY <1>1, <1>5 DEF DdnsGone, DdnsNoAlias, DdnsPutAlias, DdnsPutReverse, DdnsUnalias, Goto,
         Finish, DdnsIdle, DdnsTypeOK
    <2>. QED BY <1>1, <2>1, <2>2 DEF Inv2, LockInv, LoadFillsHole, Holds
  <1>. QED BY <1>2, <1>3, <1>4, <1>5 DEF Serving, DdnsStep

LEMMA RequestingInv2 ==
    ASSUME Inv1, Inv2, NEW r \in Req, Requesting(r) \/ \E k \in Removals : Deleting(r, k)
    PROVE  Inv2'
  <1>1. UNCHANGED <<cache, writing, poll>> /\ DdnsTypeOK
    BY DEF Inv1, TypeOK, Requesting, Deleting, UpdateRequest, DeleteRequest, mapVars
  <1>2. ddns[r].pc # "write" /\ ddns'[r].pc # "write" /\ \A s \in Req : s # r => ddns'[s] = ddns[s]
    BY <1>1 DEF Requesting, Deleting, UpdateRequest, DeleteRequest, DdnsTypeOK
  <1>. QED BY <1>1, <1>2 DEF Inv2, LockInv, LoadFillsHole, Holds

LEMMA NextInv2 == Inv1 /\ Inv2 /\ [Next]_vars => Inv2'
  <1>. SUFFICES ASSUME Inv1, Inv2, [Next]_vars PROVE Inv2'
    OBVIOUS
  <1>1. CASE UNCHANGED <<cache, writing, poll, ddns>>
    BY <1>1 DEF Inv2, LockInv, LoadFillsHole, Holds
  <1>2. CASE Restart \/ Reboot
    BY <1>2 DEF Restart, Reboot, Crash, PollIdle, DdnsIdle, Inv2, LockInv, LoadFillsHole
  <1>. QED BY <1>1, <1>2, StartingInv2, SyncingInv2, PollingInv2, ServingInv2, RequestingInv2
            DEF Next, AdminDevice, AdminEtcd, PeerMoves, pluginVars, vars

\* The monitor never overwrites an entry somebody else made while it was asking
\* etcd: the single fact that keeps a reload from undoing an announcement.
THEOREM LoadsOnlyFillHoles == Spec => []LoadFillsHole
  <1>1. Spec => []Inv2
    BY InitInv1, InitInv2, NextInv1, NextInv2, Inv1Holds, PTL DEF Spec
  <1>2. Inv2 => LoadFillsHole
    BY DEF Inv2
  <1>. QED BY <1>1, <1>2, PTL

-----------------------------------------------------------------------------
(* The dirty flag.  A step keeps CleanMeansStored when it makes no entry      *)
(* clean, changes no clean entry, and writes no endpoint of one to etcd.      *)

Inv3 == WriteInv /\ CleanMeansStored

KeepsClean == \A k \in Key : Clean(k)' => Clean(k) /\ cache'[k] = cache[k]

KeepsStore ==
    \A k \in Key, f \in Endpoints :
        Clean(k)' => store'[k][f] = store[k][f] \/ (k \in Removals /\ store'[k][f] = None)

LEMMA KeptIsStored ==
    ASSUME CleanMeansStored, KeepsClean, KeepsStore
    PROVE  CleanMeansStored'
  BY DEF CleanMeansStored, KeepsClean, KeepsStore, Clean

LEMMA KeptIsNotWritten ==
    ASSUME WriteInv, KeepsClean, UNCHANGED sync, SyncTypeOK,
           \A k \in Key : copy'[k] \notin {None, Live} => copy'[k] = copy[k] \/ ~Clean(k)'
    PROVE  WriteInv'
  BY DEF WriteInv, KeepsClean, SyncTypeOK

LEMMA InitInv3 == Init => Inv3
  BY DEF Init, MapInit, SyncInit, SyncIdle, Inv3, WriteInv, CleanMeansStored, Clean, Field

LEMMA StartingInv3 == Inv1 /\ Inv3 /\ Starting => Inv3'
  <1>. SUFFICES ASSUME Inv1, Inv3, Starting PROVE Inv3'
    OBVIOUS
  <1>1. Quiet /\ UNCHANGED <<sync, writing, poll, store>>
    BY DEF Inv1, QuietBeforeRun, Running, Starting, BootStep, BootLoad, BootNoLoad, BootDevice,
       BootNoDevice, BootRestore, BootNoRestore, BootRestored, BootSelf, Set, mapVars, etcdVars
  <1>2. UNCHANGED copy
    BY <1>1, SentinelAssumption DEF Quiet, Starting, BootStep, BootLoad, BootNoLoad, BootDevice,
       BootNoDevice, BootRestore, BootNoRestore, BootRestored, BootSelf, Set, Detached, mapVars
  <1>3. WriteInv'
    BY <1>1, <1>2 DEF Quiet, SyncIdle, WriteInv, Field
  <1>4. CASE UNCHANGED cache
    BY <1>1, <1>3, <1>4 DEF Inv3, CleanMeansStored, Settled, Racing
  <1>5. CASE BootLoad
    BY <1>1, <1>3, <1>5 DEF BootLoad, Loaded, Inv3, CleanMeansStored, Endpoints, Field
  <1>6. CASE BootSelf
    <2>1. KeepsClean
      BY <1>1, <1>6, SelfAssumption DEF BootSelf, Set, SelfInfo, KeepsClean, Clean, Settled,
         Racing, Inv1, TypeOK, MapTypeOK
    <2>. QED BY <1>1, <1>3, <2>1, KeptIsStored DEF Inv3, KeepsStore
  <1>. QED BY <1>4, <1>5, <1>6 DEF Starting, BootStep, BootNoLoad, BootDevice, BootNoDevice,
            BootRestore, BootNoRestore, BootRestored, mapVars

LEMMA SyncingInv3 == Inv1 /\ Inv3 /\ Syncing => Inv3'
  <1>. SUFFICES ASSUME Inv1, Inv3, Syncing PROVE Inv3'
    OBVIOUS
  <1>1. MapTypeOK /\ EtcdTypeOK /\ SyncTypeOK /\ SnapshotInv /\ UNCHANGED <<writing, poll>>
    BY DEF Inv1, TypeOK, Syncing, SyncStep, SyncTick, GetAll, SyncSkip, SyncBegin, SyncCollect,
       SyncCommit, SyncFail, SyncClear, SyncDone, mapVars
  <1>2. CASE UNCHANGED <<cache, store>>
    <2>1. CleanMeansStored' /\ \A k \in Key : Clean(k)' <=> Clean(k)
      BY <1>1, <1>2 DEF Inv3, CleanMeansStored, Clean, Settled, Racing
    <2>2. CASE SyncTick
      BY <2>1, <2>2 DEF Inv3, SyncTick, GetAll, WriteInv, SyncTypeOK, Field
    <2>3. ASSUME NEW k \in Key, SyncSkip(k) PROVE WriteInv'
      BY <1>1, <2>1, <2>3 DEF Inv3, SyncSkip, SyncNextPeer, SyncIdle, WriteInv, MapTypeOK, Field
    <2>4. ASSUME NEW k \in Key, SyncBegin(k) PROVE WriteInv'
      <3>1. ~Clean(k)
        BY <2>4 DEF Inv3, SyncBegin, DirtyReads, WriteInv, Clean, Settled
      <3>. QED BY <1>1, <2>1, <2>4, <3>1 DEF Inv3, SyncBegin, mapVars, WriteInv, SyncTypeOK
    <2>5. CASE SyncCollect
      BY <1>1, <2>1, <2>5 DEF Inv3, SyncCollect, mapVars, WriteInv, SyncTypeOK
    <2>6. CASE SyncFail \/ SyncClear
      <3>1. sync'.pc = "scan" /\ \A k \in Key : copy'[k] \in {copy[k], None}
        BY <1>1, <2>6 DEF SyncFail, SyncClear, SyncNextPeer, SyncIdle, MapTypeOK
      <3>. QED BY <2>1, <3>1 DEF Inv3, WriteInv, Field
    <2>7. CASE SyncCommit
      <3>1. sync'.pc = "clear" /\ UNCHANGED copy
        BY <1>1, <2>7 DEF SyncCommit, mapVars, SyncTypeOK
      <3>. QED BY <2>1, <3>1 DEF Inv3, WriteInv, Field
    <2>8. CASE SyncDone
      <3>1. sync'.pc = "idle" /\ UNCHANGED copy
        BY <2>8 DEF SyncDone, SyncIdle, mapVars
      <3>. QED BY <2>1, <3>1 DEF Inv3, WriteInv, Field
    <2>. QED BY <2>1, <2>2, <2>3, <2>4, <2>5, <2>6, <2>7, <2>8 DEF Inv3, Syncing, SyncStep
  <1>3. CASE (SyncCommit \/ SyncFail) /\ PutFields(sync.key, sync.ops)
    <2>1. /\ UNCHANGED cache /\ sync'.pc \in {"clear", "scan"}
          /\ \A k \in Key : copy'[k] \in {copy[k], None}
      BY <1>1, <1>3 DEF SyncCommit, SyncFail, SyncNextPeer, SyncIdle, mapVars, MapTypeOK, SyncTypeOK
    <2>2. KeepsClean /\ \A k \in Key : Clean(k)' <=> Clean(k)
      BY <1>1, <2>1 DEF KeepsClean, Clean, Settled, Racing
    <2>3. ~Clean(sync.key) /\ \A k \in Key : k # sync.key => store'[k] = store[k]
      BY <1>1, <1>3 DEF SyncCommit, SyncFail, PutFields, EtcdTypeOK, SyncTypeOK, Inv3, WriteInv
    <2>4. CleanMeansStored'
      BY <2>2, <2>3, KeptIsStored DEF Inv3, KeepsStore
    <2>. QED BY <2>1, <2>2, <2>4 DEF Inv3, WriteInv, Field
  <1>4. CASE SyncClear
    <2>1. KeepsClean
      BY <1>1, <1>4 DEF SyncClear, Cleared, AfterUpdate, KeepsClean, Clean, Settled, Racing,
         MapTypeOK, SyncTypeOK, PeerInfo
    <2>2. sync'.pc = "scan" /\ UNCHANGED store /\ \A k \in Key : copy'[k] \in {copy[k], None}
      BY <1>1, <1>4 DEF SyncClear, SyncNextPeer, SyncIdle, etcdVars, MapTypeOK
    <2>. QED BY <2>1, <2>2, KeptIsStored DEF Inv3, KeepsStore, WriteInv, KeepsClean, Field
  <1>. QED BY <1>2, <1>3, <1>4 DEF Syncing, SyncStep, SyncTick, GetAll, SyncSkip, SyncBegin,
            SyncCollect, SyncCommit, SyncFail, SyncDone, mapVars, etcdVars

LEMMA PollingInv3 == Inv1 /\ Inv2 /\ Inv3 /\ Polling => Inv3'
  <1>. SUFFICES ASSUME Inv1, Inv2, Inv3, Polling PROVE Inv3'
    OBVIOUS
  <1>1. MapTypeOK /\ SyncTypeOK /\ PollTypeOK /\ SnapshotInv /\ UNCHANGED <<sync, store>>
    BY DEF Inv1, TypeOK, Polling, PollStep, PollTick, PollLookup, PollFetch, PollMiss, PollSet,
       PollUpdate, PollWrite, PollGone, PollDone, etcdVars
  <1>2. CASE \/ PollTick \/ PollFetch \/ PollMiss \/ PollUpdate \/ PollGone \/ PollDone
             \/ \E k \in Key : PollLookup(k)
    <2>1. UNCHANGED <<cache, copy>>
      BY <1>2 DEF PollTick, PollFetch, PollMiss, PollUpdate, BeginUpdate, PollGone, PollDone,
         PollLookup, mapVars
    <2>2. KeepsClean
      <3>1. CASE PollUpdate
        <4>1. writing = None /\ writing'.key = poll.key /\ writing' # None
          BY <1>1, <3>1, PollingInv2 DEF PollUpdate, BeginUpdate, Unlocked, Inv2, LockInv, Holds,
             PollTypeOK
        <4>. QED BY <2>1, <3>1, <4>1 DEF PollUpdate, KeepsClean, Clean, Settled, Racing
      <3>2. CASE PollGone
        BY <2>1, <3>2 DEF PollGone, mapVars, KeepsClean, Clean, Settled, Racing
      <3>3. CASE PollTick \/ PollFetch \/ PollMiss \/ PollDone \/ \E k \in Key : PollLookup(k)
        BY <2>1, <3>3 DEF PollTick, PollFetch, PollMiss, PollDone, PollLookup, mapVars,
           KeepsClean, Clean, Settled, Racing
      <3>. QED BY <1>2, <3>1, <3>2, <3>3
    <2>. QED BY <1>1, <2>1, <2>2, KeptIsStored, KeptIsNotWritten DEF Inv3, KeepsStore
  <1>3. CASE PollSet
    <2>1. /\ cache' = [cache EXCEPT ![poll.key] = poll.info] /\ UNCHANGED writing
          /\ poll'.pc = "update" /\ poll'.key = poll.key
          /\ poll.key \in Key /\ poll.pc = "set"
      BY <1>1, <1>3 DEF PollSet, Set, PollTypeOK
    <2>2. UNCHANGED copy
      BY <1>1, <1>3, <2>1 DEF PollSet, Set, Detached, MapTypeOK, Inv2, LoadFillsHole, SnapshotInv
    <2>3. KeepsClean
      BY <1>1, <2>1 DEF KeepsClean, Clean, Settled, Racing, MapTypeOK
    <2>. QED BY <1>1, <2>2, <2>3, KeptIsStored, KeptIsNotWritten DEF Inv3, KeepsStore
  <1>4. CASE PollWrite
    <2>1. /\ cache' = [cache EXCEPT ![poll.key] = writing.info] /\ writing' = None
          /\ writing.key = poll.key /\ writing.info.dirty /\ poll.key \in Key
          /\ poll'.pc = "scan" /\ poll.pc = "write" /\ UNCHANGED copy
      BY <1>1, <1>4 DEF PollWrite, EndUpdate, PollNextPeer, PollIdle, PollTypeOK, Inv2, LockInv, Holds
    <2>2. KeepsClean
      BY <1>1, <2>1 DEF KeepsClean, Clean, Settled, Racing, MapTypeOK
    <2>. QED BY <1>1, <2>1, <2>2, KeptIsStored, KeptIsNotWritten DEF Inv3, KeepsStore
  <1>. QED BY <1>2, <1>3, <1>4 DEF Polling, PollStep

LEMMA ServingInv3 == ASSUME Inv1, Inv2, Inv3, NEW r \in Req, Serving(r) PROVE Inv3'
  <1>1. MapTypeOK /\ SyncTypeOK /\ DdnsTypeOK /\ UNCHANGED <<sync, poll, store>>
    BY DEF Inv1, TypeOK, Serving, DdnsStep, DdnsUpdate, DdnsWrite, DdnsGone, DdnsNoAlias,
       DdnsPutAlias, DdnsPutReverse, DdnsDelete, DdnsUnalias, etcdVars
  <1>k. PICK k \in Key : k = ddns[r].key
    BY <1>1 DEF DdnsTypeOK
  <1>2. CASE DdnsUpdate(r)
    <2>1. UNCHANGED <<cache, copy>> /\ writing = None
      BY <1>2 DEF DdnsUpdate, BeginUpdate, Unlocked
    <2>2. KeepsClean
      BY <1>1, <2>1 DEF KeepsClean, Clean, Settled, Racing
    <2>. QED BY <1>1, <2>1, <2>2, KeptIsStored, KeptIsNotWritten DEF Inv3, KeepsStore
  <1>3. CASE DdnsWrite(r)
    <2>1. /\ cache' = [cache EXCEPT ![k] = writing.info] /\ writing' = None /\ UNCHANGED copy
          /\ writing.key = k /\ writing.info.dirty
      BY <1>1, <1>k, <1>3 DEF DdnsWrite, EndUpdate, DdnsTypeOK, Inv2, LockInv, Holds
    <2>2. KeepsClean
      BY <1>1, <2>1 DEF KeepsClean, Clean, Settled, Racing, MapTypeOK
    <2>. QED BY <1>1, <2>1, <2>2, KeptIsStored, KeptIsNotWritten DEF Inv3, KeepsStore
  <1>4. CASE DdnsDelete(r)
    <2>1. /\ cache' = [cache EXCEPT ![k] = None] /\ UNCHANGED writing
          /\ \A j \in Key : j # k => copy'[j] = copy[j]
      BY <1>1, <1>k, <1>4 DEF DdnsDelete, Delete, Detached, MapTypeOK, DdnsTypeOK
    <2>2. KeepsClean /\ ~Clean(k)'
      BY <1>1, <2>1 DEF KeepsClean, Clean, Settled, Racing, MapTypeOK
    <2>. QED BY <1>1, <2>1, <2>2, KeptIsStored, KeptIsNotWritten DEF Inv3, KeepsStore
  <1>5. CASE DdnsGone(r) \/ DdnsNoAlias(r) \/ DdnsPutAlias(r) \/ DdnsPutReverse(r) \/ DdnsUnalias(r)
    <2>1. UNCHANGED <<cache, copy, writing>>
      BY <1>5 DEF DdnsGone, DdnsNoAlias, DdnsPutAlias, DdnsPutReverse, DdnsUnalias, mapVars
    <2>2. KeepsClean
      BY <1>1, <2>1 DEF KeepsClean, Clean, Settled, Racing
    <2>. QED BY <1>1, <2>1, <2>2, KeptIsStored, KeptIsNotWritten DEF Inv3, KeepsStore
  <1>. QED BY <1>2, <1>3, <1>4, <1>5 DEF Serving, DdnsStep

LEMMA CrashInv3 == Restart \/ Reboot => Inv3'
  BY DEF Restart, Reboot, Crash, SyncIdle, Inv3, WriteInv, CleanMeansStored, Clean, Field

\* valonctl deletes endpoints, or writes addresses, and never an endpoint.
LEMMA OutsideInv3 ==
    ASSUME Inv1, Inv3, UNCHANGED <<cache, copy, writing, sync, poll>>, UNCHANGED store \/ AdminEtcd
    PROVE  Inv3'
  <1>1. EtcdTypeOK /\ SyncTypeOK
    BY DEF Inv1, TypeOK
  <1>3. KeepsClean
    BY DEF KeepsClean, Clean, Settled, Racing
  <1>2. KeepsStore
    <2>1. CASE AdminEtcd
      <3>1. ASSUME NEW n \in Assignments, Register(n.key, n.ip, n.alias) PROVE KeepsStore
        <4>1. \A k \in Key, f \in Field \ {"wg"} : store'[k][f] = store[k][f]
          BY <1>1, <3>1, ScopeAssumption DEF Register, EtcdTypeOK
        <4>. QED BY <4>1 DEF KeepsStore, Endpoints, Field
      <3>2. ASSUME NEW k \in Removals, Deregister(k) PROVE KeepsStore
        BY <1>1, <3>2 DEF Deregister, DeletePrefix, NoFields, KeepsStore, EtcdTypeOK, Endpoints, Field
      <3>. QED BY <2>1, <3>1, <3>2 DEF AdminEtcd, Unalias, KeepsStore
    <2>. QED BY <2>1 DEF KeepsStore
  <1>. QED BY <1>1, <1>2, <1>3, KeptIsStored, KeptIsNotWritten DEF Inv3

LEMMA NextInv3 == Inv1 /\ Inv2 /\ Inv3 /\ [Next]_vars => Inv3'
  <1>. SUFFICES ASSUME Inv1, Inv2, Inv3, [Next]_vars PROVE Inv3'
    OBVIOUS
  <1>1. CASE \E r \in Req : Requesting(r) \/ \E k \in Removals : Deleting(r, k)
    BY <1>1, OutsideInv3 DEF Requesting, UpdateRequest, Deleting, DeleteRequest, mapVars, etcdVars
  <1>2. CASE AdminDevice \/ AdminEtcd \/ PeerMoves \/ UNCHANGED vars
    BY <1>2, OutsideInv3 DEF AdminDevice, AdminEtcd, PeerMoves, pluginVars, etcdVars, vars
  <1>. QED BY <1>1, <1>2, StartingInv3, SyncingInv3, PollingInv3, ServingInv3, CrashInv3 DEF Next

THEOREM InvHolds == Spec => []IInv
  <1>1. Init => Inv2 /\ Inv3
    BY InitInv2, InitInv3
  <1>2. Spec => [](Inv1 /\ Inv2 /\ Inv3)
    BY <1>1, InitInv1, NextInv1, NextInv2, NextInv3, PTL DEF Spec
  <1>3. Inv1 /\ Inv2 /\ Inv3 => IInv
    BY DEF Inv2, Inv3, IInv
  <1>. QED BY <1>2, <1>3, PTL

\* A clean entry of the cache never holds an endpoint that etcd lacks, so that
\* syncToEtcd, which passes clean entries over, loses none: for any peers, any
\* requests, and valonctl and crashes at any time.
THEOREM CleanIsStored == Spec => []CleanMeansStored
  <1>1. IInv => CleanMeansStored
    BY DEF IInv
  <1>. QED BY <1>1, InvHolds, PTL

-----------------------------------------------------------------------------
(* The LAN endpoint. *)

LEMMA NextLan == ASSUME Inv1, Inv2, [Next]_vars, NEW k \in Key PROVE LanFromRequest(k)
  <1>1. MapTypeOK /\ SyncTypeOK /\ PollTypeOK /\ DdnsTypeOK
    BY DEF Inv1, TypeOK
  <1>2. CASE UNCHANGED cache
    BY <1>2 DEF LanFromRequest
  <1>3. CASE Starting \/ Restart \/ Reboot
    BY <1>3 DEF LanFromRequest, Running, Starting, BootStep, BootLoad, BootNoLoad, BootDevice,
       BootNoDevice, BootRestore, BootNoRestore, BootRestored, BootSelf, Restart, Reboot, Crash
  <1>4. CASE SyncClear
    BY <1>1, <1>4 DEF SyncClear, Cleared, AfterUpdate, LanFromRequest, MapTypeOK, SyncTypeOK, PeerInfo
  <1>5. CASE PollSet
    BY <1>1, <1>5 DEF PollSet, Set, LanFromRequest, MapTypeOK, PollTypeOK, Inv2, LoadFillsHole
  <1>6. CASE PollWrite
    BY <1>1, <1>6 DEF PollWrite, EndUpdate, LanFromRequest, MapTypeOK, PollTypeOK, Inv2, LockInv
  <1>7. ASSUME NEW r \in Req, DdnsWrite(r) PROVE LanFromRequest(k)
    BY <1>1, <1>7 DEF DdnsWrite, EndUpdate, LanFromRequest, MapTypeOK, DdnsTypeOK, Inv2, LockInv
  <1>8. ASSUME NEW r \in Req, DdnsDelete(r) PROVE LanFromRequest(k)
    BY <1>1, <1>8 DEF DdnsDelete, Delete, LanFromRequest, MapTypeOK, DdnsTypeOK
  <1>9. CASE Syncing
    BY <1>2, <1>4, <1>9 DEF Syncing, SyncStep, SyncTick, GetAll, SyncSkip, SyncBegin, SyncCollect,
       SyncCommit, SyncFail, SyncDone, mapVars
  <1>10. CASE Polling
    BY <1>2, <1>5, <1>6, <1>10 DEF Polling, PollStep, PollTick, PollLookup, PollFetch, PollMiss,
       PollUpdate, BeginUpdate, PollGone, PollDone, mapVars
  <1>11. ASSUME NEW r \in Req, Serving(r) PROVE LanFromRequest(k)
    BY <1>2, <1>7, <1>8, <1>11 DEF Serving, DdnsStep, DdnsUpdate, BeginUpdate, DdnsGone,
       DdnsNoAlias, DdnsPutAlias, DdnsPutReverse, DdnsUnalias, mapVars
  <1>12. CASE \E r \in Req : Requesting(r) \/ \E j \in Removals : Deleting(r, j)
    BY <1>2, <1>12 DEF Requesting, Deleting, UpdateRequest, DeleteRequest, mapVars
  <1>. QED BY <1>2, <1>3, <1>9, <1>10, <1>11, <1>12 DEF Next, AdminDevice, AdminEtcd, PeerMoves,
            pluginVars, vars

\* Whatever the monitor, the sync and overlapping requests do, the LAN endpoint of
\* a peer that stays cached is the one of the last request about that peer.
THEOREM LanIsAnnounced == Spec => LanOnlyAnnounced
  <1>1. Spec => [](Inv1 /\ Inv2)
    BY InvHolds, PTL DEF IInv, Inv2
  <1>2. Inv1 /\ Inv2 /\ [Next]_vars => [\A k \in Key : LanFromRequest(k)]_vars
    BY NextLan
  <1>. QED BY <1>1, <1>2, PTL DEF Spec, LanOnlyAnnounced

-----------------------------------------------------------------------------
(* A peer no part of the system knows any more stays gone                     *)

LEMMA NextRestInv == Inv1 /\ RestInv /\ [Next]_vars => RestInv'
  <1>. SUFFICES ASSUME Inv1, RestInv, [Next]_vars PROVE RestInv'
    OBVIOUS
  <1>1. DdnsTypeOK /\ BootTypeOK
    BY DEF Inv1, TypeOK
  <1>2. CASE Starting
    <2>1. UNCHANGED ddns
      BY <1>2 DEF Starting
    <2>2. CASE BootLoad \/ BootNoLoad \/ BootNoDevice \/ BootRestored \/ BootSelf
      BY <2>1, <2>2 DEF RestInv, BootLoad, BootNoLoad, BootNoDevice, BootRestored, BootSelf
    <2>3. CASE BootDevice
      BY <2>1, <2>3 DEF RestInv, BootDevice, mapVars
    <2>4. ASSUME NEW k \in Key, BootRestore(k) \/ BootNoRestore(k) PROVE RestInv'
      BY <2>1, <2>4 DEF RestInv, BootRestore, BootNoRestore, mapVars
    <2>. QED BY <1>2, <2>2, <2>3, <2>4 DEF Starting, BootStep
  <1>3. CASE Syncing \/ Polling
    BY <1>3 DEF Syncing, Polling, Running, RestInv
  <1>4. ASSUME NEW r \in Req, Serving(r) PROVE RestInv'
    <2>1. phase' = "run" /\ \A s \in Req \ {r} : ddns'[s] = ddns[s]
      BY <1>1, <1>4 DEF Serving, Running, DdnsStep, DdnsUpdate, DdnsWrite, DdnsGone, DdnsNoAlias,
         DdnsPutAlias, DdnsPutReverse, DdnsDelete, DdnsUnalias, Goto, Finish, DdnsTypeOK
    <2>2. ddns'[r].pc = "idle" => ddns'[r].alias = None
      BY <1>1, <1>4 DEF Serving, DdnsStep, DdnsUpdate, DdnsWrite, DdnsGone, DdnsNoAlias,
         DdnsPutAlias, DdnsPutReverse, DdnsDelete, DdnsUnalias, Goto, Finish, DdnsIdle, DdnsTypeOK
    <2>. QED BY <2>1, <2>2 DEF RestInv
  <1>5. ASSUME NEW r \in Req, Requesting(r) \/ \E k \in Removals : Deleting(r, k) PROVE RestInv'
    BY <1>1, <1>5 DEF Requesting, Deleting, Running, UpdateRequest, DeleteRequest, DdnsTypeOK, RestInv
  <1>6. CASE Restart \/ Reboot
    BY <1>6 DEF Restart, Reboot, Crash, DdnsIdle, RestInv
  <1>7. CASE AdminDevice \/ AdminEtcd \/ PeerMoves \/ UNCHANGED vars
    BY <1>7 DEF AdminDevice, AdminEtcd, PeerMoves, pluginVars, vars, RestInv
  <1>. QED BY <1>2, <1>3, <1>4, <1>5, <1>6, <1>7 DEF Next

-----------------------------------------------------------------------------
(* One step of each part of the system.  What a loop or a request is working *)
(* on is not gone, so its step is about another peer.                        *)

LEMMA StartingGone ==
    ASSUME Inv1, RestInv, Starting, NEW k \in Key \ {SelfKey}, Gone(k)
    PROVE  Gone(k)'
  <1>1. MapTypeOK /\ WgTypeOK
    BY DEF Inv1, TypeOK
  <1>2. UNCHANGED <<store, peerAlias, aliases, seen, ddns>>
    BY DEF Starting, BootStep, BootLoad, BootNoLoad, BootDevice, BootNoDevice, BootRestore,
       BootNoRestore, BootRestored, BootSelf, etcdVars
  <1>3. cache'[k] = None /\ copy'[k] = None
    <2>1. CASE BootLoad
      BY <2>1 DEF BootLoad, Gone, HasKeys
    <2>2. CASE BootSelf
      BY <1>1, <2>2 DEF BootSelf, Set, Detached, Gone, MapTypeOK
    <2>. QED BY <2>1, <2>2 DEF Starting, BootStep, BootNoLoad, BootDevice, BootNoDevice,
              BootRestore, BootNoRestore, BootRestored, mapVars, Gone
  <1>4. wg'[k] = None
    <2>1. ASSUME NEW j \in Key, BootRestore(j) PROVE wg'[k] = None
      <3>1. j # k
        BY <2>1 DEF BootRestore, RestInv, Gone
      <3>. QED BY <1>1, <2>1, <3>1 DEF BootRestore, Configure, Without, WgTypeOK, Gone
    <2>. QED BY <2>1 DEF Starting, BootStep, BootLoad, BootNoLoad, BootDevice, BootNoDevice,
              BootNoRestore, BootRestored, BootSelf, Gone
  <1>. QED BY <1>2, <1>3, <1>4 DEF Gone, HasKeys

LEMMA SyncingGone ==
    ASSUME Inv1, Syncing, NEW k \in Key \ {SelfKey}, Gone(k)
    PROVE  Gone(k)'
  <1>1. MapTypeOK /\ EtcdTypeOK /\ SyncTypeOK /\ SnapshotInv /\ UNCHANGED <<wg, seen, ddns>>
    BY DEF Inv1, TypeOK, Syncing
  <1>2. UNCHANGED <<peerAlias, aliases>>
    BY DEF Syncing, SyncStep, SyncTick, SyncSkip, SyncBegin, SyncCollect, SyncCommit, SyncFail,
       SyncClear, SyncDone, etcdVars
  <1>3. cache'[k] = None
    <2>1. CASE SyncClear
      BY <1>1, <2>1 DEF SyncClear, Cleared, MapTypeOK, SyncTypeOK, Gone
    <2>. QED BY <2>1 DEF Syncing, SyncStep, SyncTick, GetAll, SyncSkip, SyncBegin, SyncCollect,
              SyncCommit, SyncFail, SyncDone, mapVars, Gone
  <1>4. copy'[k] = None
    BY <1>1 DEF Syncing, SyncStep, SyncTick, GetAll, SyncSkip, SyncBegin, SyncCollect, SyncCommit,
       SyncFail, SyncClear, SyncDone, SyncNextPeer, mapVars, MapTypeOK, Gone
  <1>5. store'[k] = store[k]
    <2>1. CASE (SyncCommit \/ SyncFail) /\ PutFields(sync.key, sync.ops)
      <3>1. sync.key # k
        BY <1>1, <2>1 DEF SyncCommit, SyncFail, SnapshotInv, Gone
      <3>. QED BY <1>1, <2>1, <3>1 DEF PutFields, EtcdTypeOK, SyncTypeOK
    <2>. QED BY <2>1 DEF Syncing, SyncStep, SyncTick, SyncSkip, SyncBegin, SyncCollect, SyncCommit,
              SyncFail, SyncClear, SyncDone, etcdVars
  <1>. QED BY <1>1, <1>2, <1>3, <1>4, <1>5 DEF Gone, HasKeys

LEMMA PollingGone ==
    ASSUME Inv1, Polling, NEW k \in Key \ {SelfKey}, Gone(k)
    PROVE  Gone(k)'
  <1>1. MapTypeOK /\ PollTypeOK /\ SnapshotInv /\ UNCHANGED ddns
    BY DEF Inv1, TypeOK, Polling
  <1>2. UNCHANGED <<store, peerAlias, aliases, wg>>
    BY DEF Polling, PollStep, PollTick, PollLookup, PollFetch, PollMiss, PollSet, PollUpdate,
       PollWrite, PollGone, PollDone, etcdVars
  <1>3. seen'[k] = None
    BY <1>1 DEF Polling, PollStep, PollTick, PollLookup, PollFetch, PollMiss, PollSet, PollUpdate,
       PollWrite, PollGone, PollDone, PollNextPeer, PollTypeOK, Gone
  <1>4. cache'[k] = None /\ copy'[k] = None
    <2>1. CASE PollSet \/ PollWrite
      <3>1. poll.key # k
        BY <1>1, <2>1 DEF PollSet, PollWrite, SnapshotInv, Gone
      <3>. QED BY <1>1, <2>1, <3>1 DEF PollSet, Set, Detached, PollWrite, EndUpdate, MapTypeOK,
                PollTypeOK, Gone
    <2>. QED BY <2>1 DEF Polling, PollStep, PollTick, PollLookup, PollFetch, PollMiss, PollUpdate,
              BeginUpdate, PollGone, PollDone, mapVars, Gone
  <1>. QED BY <1>1, <1>2, <1>3, <1>4 DEF Gone, HasKeys

LEMMA ServingGone ==
    ASSUME Inv1, Inv2, NEW r \in Req, Serving(r), NEW k \in Key \ {SelfKey}, Gone(k)
    PROVE  Gone(k)'
  <1>1. MapTypeOK /\ EtcdTypeOK /\ DdnsTypeOK /\ UNCHANGED <<wg, seen>>
    BY DEF Inv1, TypeOK, Serving
  <1>2. \A s \in Req : ddns'[s].key = k => ddns'[s].alias = None
    BY <1>1 DEF Serving, DdnsStep, DdnsUpdate, DdnsWrite, DdnsGone, DdnsNoAlias, DdnsPutAlias,
       DdnsPutReverse, DdnsDelete, DdnsUnalias, Goto, Finish, DdnsIdle, DdnsTypeOK, Gone
  <1>3. cache'[k] = None /\ copy'[k] = None
    <2>1. CASE DdnsWrite(r)
      <3>1. ddns[r].key # k
        BY <2>1 DEF DdnsWrite, Inv2, LockInv, Holds, Gone
      <3>. QED BY <1>1, <2>1, <3>1 DEF DdnsWrite, EndUpdate, MapTypeOK, DdnsTypeOK, Gone
    <2>2. CASE DdnsDelete(r)
      BY <1>1, <2>2 DEF DdnsDelete, Delete, Detached, MapTypeOK, DdnsTypeOK, Gone
    <2>. QED BY <2>1, <2>2 DEF Serving, DdnsStep, DdnsUpdate, BeginUpdate, DdnsGone, DdnsNoAlias,
              DdnsPutAlias, DdnsPutReverse, DdnsUnalias, mapVars, Gone
  <1>4. UNCHANGED store /\ peerAlias'[k] = None
    BY <1>1 DEF Serving, DdnsStep, DdnsUpdate, DdnsWrite, DdnsGone, DdnsNoAlias, DdnsPutAlias,
       DdnsPutReverse, DdnsDelete, DdnsUnalias, etcdVars, EtcdTypeOK, DdnsTypeOK, Gone, HasKeys
  <1>5. \A a \in Alias : aliases'[a] # k
    <2>1. CASE DdnsPutAlias(r)
      BY <1>1, <2>1 DEF DdnsPutAlias, EtcdTypeOK, DdnsTypeOK, Gone
    <2>2. CASE DdnsUnalias(r)
      BY <1>1, <2>2, SentinelAssumption DEF DdnsUnalias, EtcdTypeOK, Gone
    <2>. QED BY <2>1, <2>2 DEF Serving, DdnsStep, DdnsUpdate, DdnsWrite, DdnsGone, DdnsNoAlias,
              DdnsPutReverse, DdnsDelete, etcdVars, Gone
  <1>. QED BY <1>1, <1>2, <1>3, <1>4, <1>5 DEF Gone, HasKeys

LEMMA RequestingGone ==
    ASSUME Inv1, RestInv, NEW r \in Req, Requesting(r) \/ \E j \in Removals : Deleting(r, j),
           NEW k \in Key \ {SelfKey}, Gone(k)
    PROVE  Gone(k)' \/ Readmitted(k)
  <1>1. DdnsTypeOK /\ UNCHANGED <<cache, copy, store, peerAlias, aliases, wg, seen>>
    BY DEF Inv1, TypeOK, Requesting, Deleting, UpdateRequest, DeleteRequest, mapVars, etcdVars
  <1>2. CASE Requesting(r)
    <2>1. /\ ddns[r].pc = "idle" /\ ddns'[r].pc = "update"
          /\ \A s \in Req \ {r} : ddns'[s] = ddns[s]
      BY <1>1, <1>2 DEF Requesting, UpdateRequest, DdnsTypeOK
    <2>2. CASE ddns'[r].key = k
      BY <2>1, <2>2 DEF Readmitted
    <2>. QED BY <1>1, <2>1, <2>2 DEF Gone, HasKeys
  <1>3. CASE \E j \in Removals : Deleting(r, j)
    <2>1. ddns'[r].alias = None /\ \A s \in Req \ {r} : ddns'[s] = ddns[s]
      BY <1>1, <1>3, ZenonT(40) DEF Deleting, DeleteRequest, DdnsTypeOK, RestInv
    <2>. QED BY <1>1, <2>1 DEF Gone, HasKeys
  <1>. QED BY <1>2, <1>3

LEMMA CrashGone ==
    ASSUME Inv1, Restart \/ Reboot, NEW k \in Key \ {SelfKey}, Gone(k)
    PROVE  Gone(k)'
  BY DEF Restart, Reboot, Crash, DdnsIdle, etcdVars, Gone, HasKeys

LEMMA AdminDeviceGone ==
    ASSUME Inv1, AdminDevice, NEW k \in Key \ {SelfKey}, Gone(k)
    PROVE  Gone(k)' \/ Readmitted(k)
  <1>1. WgTypeOK /\ UNCHANGED <<cache, copy, store, peerAlias, aliases, seen, ddns>>
    BY DEF Inv1, TypeOK, AdminDevice, pluginVars, etcdVars
  <1>2. ASSUME NEW n \in Assignments, DeviceAdd(n.key, n.ip) PROVE Gone(k)' \/ Readmitted(k)
    <2>1. CASE n.key = k
      BY <1>2, <2>1 DEF Readmitted
    <2>2. CASE n.key # k
      <3>1. wg'[k] = None
        BY <1>1, <1>2, <2>2 DEF DeviceAdd, Configure, Without, WgTypeOK, Gone
      <3>. QED BY <1>1, <3>1 DEF Gone, HasKeys
    <2>. QED BY <2>1, <2>2
  <1>3. ASSUME NEW j \in Removals, DeviceRemove(j) PROVE Gone(k)'
    <2>1. wg'[k] = None
      BY <1>1, <1>3 DEF DeviceRemove, Unconfigure, WgTypeOK, Gone
    <2>. QED BY <1>1, <2>1 DEF Gone, HasKeys
  <1>. QED BY <1>2, <1>3 DEF AdminDevice

LEMMA AdminEtcdGone ==
    ASSUME Inv1, AdminEtcd, NEW k \in Key \ {SelfKey}, Gone(k)
    PROVE  Gone(k)' \/ Readmitted(k)
  <1>1. EtcdTypeOK /\ UNCHANGED <<cache, copy, wg, seen, ddns>>
    BY DEF Inv1, TypeOK, AdminEtcd, pluginVars
  <1>2. ASSUME NEW n \in Assignments, Register(n.key, n.ip, n.alias) PROVE Gone(k)' \/ Readmitted(k)
    <2>1. CASE n.key = k
      BY <1>2, <2>1 DEF Readmitted
    <2>2. CASE n.key # k
      <3>1. store'[k] = store[k] /\ peerAlias'[k] = peerAlias[k]
        BY <1>1, <1>2, <2>2 DEF Register, EtcdTypeOK
      <3>2. \A a \in Alias : aliases'[a] # k
        BY <1>1, <1>2, <2>2 DEF Register, EtcdTypeOK, Gone
      <3>. QED BY <1>1, <3>1, <3>2 DEF Gone, HasKeys
    <2>. QED BY <2>1, <2>2
  <1>3. ASSUME NEW j \in Removals, Deregister(j) PROVE Gone(k)'
    <2>1. store'[k] = NoFields /\ peerAlias'[k] = None /\ UNCHANGED aliases
      BY <1>1, <1>3 DEF Deregister, DeletePrefix, EtcdTypeOK, Gone, HasKeys
    <2>. QED BY <1>1, <2>1 DEF Gone, HasKeys, NoFields
  <1>4. ASSUME NEW a \in Alias, Unalias(a) PROVE Gone(k)'
    <2>1. \A b \in Alias : aliases'[b] # k
      BY <1>1, <1>4, SentinelAssumption DEF Unalias, EtcdTypeOK, Gone
    <2>. QED BY <1>1, <1>4, <2>1 DEF Unalias, Gone, HasKeys
  <1>. QED BY <1>2, <1>3, <1>4 DEF AdminEtcd

LEMMA PeerMovesGone ==
    ASSUME Inv1, PeerMoves, NEW k \in Key \ {SelfKey}, Gone(k)
    PROVE  Gone(k)'
  <1>1. WgTypeOK /\ UNCHANGED <<cache, copy, store, peerAlias, aliases, seen, ddns>>
    BY DEF Inv1, TypeOK, PeerMoves, pluginVars, etcdVars
  <1>2. wg'[k] = None
    BY <1>1 DEF PeerMoves, Roam, WgTypeOK, Gone
  <1>. QED BY <1>1, <1>2 DEF Gone, HasKeys

LEMMA NextGone ==
    ASSUME Inv1, Inv2, RestInv, Next, NEW k \in Key \ {SelfKey}, Gone(k)
    PROVE  Gone(k)' \/ Readmitted(k)
  BY StartingGone, SyncingGone, PollingGone, ServingGone, RequestingGone, CrashGone,
     AdminDeviceGone, AdminEtcdGone, PeerMovesGone DEF Next

\* Once neither the device, etcd, the cache nor anything in progress knows a
\* peer, no loop, request, restart or reboot brings it back: only valonctl's add
\* or a request of Discovery's about that peer does.
THEOREM GoneForGood == Spec => GoneStaysGone
  <1>1. Init => RestInv
    BY DEF Init, DdnsInit, DdnsIdle, BootInit, RestInv
  <1>2. Spec => [](Inv1 /\ Inv2 /\ RestInv)
    BY <1>1, InitInv1, InitInv2, NextInv1, NextInv2, NextRestInv, PTL DEF Spec
  <1>3. Inv1 /\ Inv2 /\ RestInv /\ [Next]_vars
          => [\A k \in Key \ {SelfKey} : Gone(k) => Gone(k)' \/ Readmitted(k)]_vars
    BY NextGone
  <1>. QED BY <1>2, <1>3, PTL DEF Spec, GoneStaysGone
=============================================================================
