----------------------------- MODULE SystemProofs ---------------------------
(* Proof that the plugin, with any number of administrators running commands   *)
(* beside it, does what ValonPlugin says, and that the commands, with the plugin *)
(* beside them, do what ValonCtl says: what is proved there holds here.        *)
EXTENDS ValonSystem, PluginProofs, CtlProofs

\* The administrators of ValonPlugin may make any call.
WholeScope ==
    /\ Assignments = [key : Key, ip : IP, alias : Alias]
    /\ Removals = Key

SysInv == Inv1 /\ CtlTypeOK /\ CarriesInv

LEMMA CommandIsAdmin ==
    ASSUME WholeScope, SysInv, NEW c \in Cmd, CommandStep(c)
    PROVE  [Next]_vars
  <1>1. Carries(ctl[c]) /\ UNCHANGED pluginVars /\ CtlStep(c)
    BY DEF SysInv, CarriesInv, CommandStep
  <1>2. CASE UNCHANGED <<etcdVars, wg>>
    BY <1>1, <1>2 DEF vars, pluginVars, etcdVars
  <1>3. CASE AddDevice(c)
    <2>1. [key |-> ctl[c].key, ip |-> ctl[c].ip, alias |-> ctl[c].alias] \in Assignments
      BY <1>1, <1>3 DEF AddDevice, At, Carries, WholeScope
    <2>2. \E n \in Assignments : DeviceAdd(n.key, n.ip)
      BY <1>3, <2>1 DEF AddDevice
    <2>3. AdminDevice
      BY <1>1, <1>3, <2>2 DEF AdminDevice, AddDevice, etcdVars, pluginVars
    <2>. QED
      BY <2>3 DEF Next
  <1>4. CASE /\ At(c, "register") /\ UNCHANGED wg
             /\ RegisterFree(ctl[c].alias) /\ Register(ctl[c].key, ctl[c].ip, ctl[c].alias)
    <2>1. [key |-> ctl[c].key, ip |-> ctl[c].ip, alias |-> ctl[c].alias] \in Assignments
      BY <1>1, <1>4 DEF At, Carries, WholeScope
    <2>2. \E n \in Assignments : RegisterFree(n.alias) /\ Register(n.key, n.ip, n.alias)
      BY <1>4, <2>1
    <2>3. AdminEtcd
      BY <1>1, <1>4, <2>2 DEF AdminEtcd, pluginVars
    <2>. QED
      BY <2>3 DEF Next
  <1>5. ASSUME NEW k \in Key, DeviceRemove(k), UNCHANGED etcdVars PROVE [Next]_vars
    <2>1. AdminDevice
      BY <1>1, <1>5 DEF AdminDevice, WholeScope, etcdVars, pluginVars
    <2>. QED
      BY <2>1 DEF Next
  <1>6. CASE AddRollback(c) \/ RemoveDevice(c)
    BY <1>1, <1>2, <1>5, <1>6 DEF AddRollback, RemoveDevice, At, Carries
  <1>7. CASE RemoveKeys(c)
    <2>1. AdminEtcd
      BY <1>1, <1>7 DEF RemoveKeys, At, Carries, AdminEtcd, WholeScope, pluginVars
    <2>. QED
      BY <2>1 DEF Next
  <1>8. CASE RemoveAlias(c)
    <2>1. AdminEtcd
      BY <1>1, <1>8, SelfAssumption DEF RemoveAlias, At, Carries, AdminEtcd, WholeScope, pluginVars
    <2>. QED
      BY <2>1 DEF Next
  <1>9. CASE AddRegister(c) \/ AddRefused(c)
    BY <1>2, <1>4, <1>9 DEF AddRegister, AddRefused, At
  <1>10. CASE AddStart(c) \/ AddAllocate(c) \/ RemoveStart(c) \/ RemoveLookup(c)
              \/ RemoveResolve(c) \/ RemoveUnanswered(c) \/ Abort(c)
    <2>1. UNCHANGED <<etcdVars, wg>>
      BY <1>10 DEF AddStart, AddAllocate, RemoveStart, RemoveLookup, RemoveResolve,
         RemoveUnanswered, Abort
    <2>. QED
      BY <1>2, <2>1
  <1>. QED
    BY <1>1, <1>3, <1>6, <1>7, <1>8, <1>9, <1>10 DEF CtlStep

LEMMA SysStep == ASSUME WholeScope, SysInv, [SysNext]_sysVars PROVE [Next]_vars
  <1>1. CASE PluginStep
    BY <1>1 DEF PluginStep, Next
  <1>2. CASE PluginStop
    BY <1>2 DEF PluginStop, Next
  <1>3. ASSUME NEW c \in Cmd, CallDdns(c) PROVE Next
    <2>1. ctl[c].key \in Removals
      BY <1>3 DEF CallDdns, RemoveCall, At, SysInv, CarriesInv, Carries, WholeScope
    <2>. QED
      BY <1>3, <2>1 DEF CallDdns, Next
  <1>4. ASSUME NEW c \in Cmd, AnswerDdns(c) PROVE UNCHANGED vars
    BY <1>4 DEF AnswerDdns, RemoveAnswered, pluginVars, etcdVars, vars
  <1>5. ASSUME NEW c \in Cmd, CommandStep(c) PROVE [Next]_vars
    BY <1>5, CommandIsAdmin
  <1>6. CASE UNCHANGED sysVars
    BY <1>6 DEF sysVars
  <1>. QED
    BY <1>1, <1>2, <1>3, <1>4, <1>5, <1>6 DEF SysNext

LEMMA PluginStops == PluginStop => ServerStops
  BY DEF PluginStop, Restart, Reboot, Crash, ServerStops

LEMMA SysNextInv == ASSUME WholeScope, SysInv, [SysNext]_sysVars PROVE SysInv'
  <1>1. Inv1'
    BY SysStep, NextInv1 DEF SysInv
  <1>2. EtcdTypeOK' /\ WgTypeOK'
    BY <1>1 DEF Inv1, TypeOK
  <1>3. ctl \in [Cmd -> CtlRecord] /\ CarriesInv /\ CtlTypeOK
    BY DEF SysInv, CtlTypeOK
  <1>4. ASSUME UNCHANGED ctl PROVE CtlTypeOK' /\ CarriesInv'
    BY <1>2, <1>3, <1>4 DEF CtlTypeOK, CarriesInv
  <1>5. ASSUME PluginStop PROVE CtlTypeOK' /\ CarriesInv'
    <2>1. ServerStops
      BY <1>5, PluginStops
    <2>. QED
      BY <1>3, <2>1, PluginTypes DEF PluginActs
  <1>6. ASSUME NEW c \in Cmd, CallDdns(c) \/ AnswerDdns(c) \/ CommandStep(c)
        PROVE  CtlTypeOK' /\ CarriesInv'
    BY <1>3, <1>6, StepTypes DEF CallDdns, AnswerDdns, CommandStep
  <1>7. PluginStep \/ UNCHANGED sysVars => UNCHANGED ctl
    BY DEF PluginStep, sysVars
  <1>. QED
    BY <1>1, <1>4, <1>5, <1>6, <1>7 DEF SysInv, SysNext

LEMMA SysInitInv == SysInit => SysInv /\ Init
  <1>. SUFFICES ASSUME SysInit PROVE SysInv /\ Init
    OBVIOUS
  <1>1. Init /\ CtlInit /\ EtcdInit /\ WgInit
    BY DEF SysInit, Init
  <1>2. Inv1
    BY <1>1, InitInv1
  <1>3. CtlTypeOK /\ CarriesInv
    BY <1>1, InitTypes DEF CommandsInit
  <1>. QED
    BY <1>1, <1>2, <1>3 DEF SysInv

\* Whatever commands administrators run, interrupt and repeat beside the plugin, and
\* whichever DELETE requests they send it, is what ValonPlugin allows them.
THEOREM SystemIsPlugin == ASSUME WholeScope PROVE SysSpec => ImplementsPlugin
  <1>1. SysInv /\ [SysNext]_sysVars => SysInv'
    BY SysNextInv
  <1>2. SysInv /\ [SysNext]_sysVars => [Next]_vars
    BY SysStep
  <1>. QED
    BY <1>1, <1>2, SysInitInv, PTL DEF SysSpec, ImplementsPlugin, Spec

\* With commands call by call, too, the dirty flag may be trusted.
THEOREM CleanIsStoredInSystem == ASSUME WholeScope PROVE SysSpec => []CleanMeansStored
  BY SystemIsPlugin, CleanIsStored, PTL DEF ImplementsPlugin

\* With commands call by call, too, what the monitor loads overwrites no entry that
\* somebody created while it was loading.
THEOREM LoadsOnlyFillHolesInSystem == ASSUME WholeScope PROVE SysSpec => []LoadFillsHole
  BY SystemIsPlugin, LoadsOnlyFillHoles, PTL DEF ImplementsPlugin

\* With commands call by call, too, LAN endpoints are those that were announced.
THEOREM LanIsAnnouncedInSystem == ASSUME WholeScope PROVE SysSpec => LanOnlyAnnounced
  BY SystemIsPlugin, LanIsAnnounced, PTL DEF ImplementsPlugin

\* A peer remove that breaks off, and whatever is left of it in a command, leaves
\* nothing that could bring a peer back that is gone.
THEOREM GoneForGoodInSystem == ASSUME WholeScope PROVE SysSpec => GoneStaysGone
  BY SystemIsPlugin, GoneForGood, PTL DEF ImplementsPlugin

-----------------------------------------------------------------------------
(* The commands' view                                                         *)

\* The environment of ValonCtl may write any fields, and announce the aliases of the
\* requests that are sent.
WholeEnvironment ==
    /\ Puts = [key : Key, ops : [Field -> Text \cup {None}]]
    /\ \A q \in Requests : q.alias # None => [key |-> q.key, alias |-> q.alias] \in AliasPuts

\* The alias a request has still to put is one of those, and the second Put is of
\* an alias that was there for the first.
Requested(d) ==
    /\ d.alias # None => [key |-> d.key, alias |-> d.alias] \in AliasPuts
    /\ d.pc = "reverse" => d.alias # None

RequestedInv == \A r \in Req : Requested(ddns[r])

CommandsInv == SysInv /\ RestInv /\ RequestedInv

LEMMA NextRequested ==
    ASSUME WholeEnvironment, Inv1, RestInv, RequestedInv, [Next]_vars PROVE RequestedInv'
  <1>1. DdnsTypeOK
    BY DEF Inv1, TypeOK
  <1>2. ASSUME NEW r \in Req, NEW d, ddns' = [ddns EXCEPT ![r] = d], Requested(d)
        PROVE  RequestedInv'
    BY <1>1, <1>2 DEF DdnsTypeOK, RequestedInv, Requested
  <1>3. Requested(DdnsIdle)
    BY DEF Requested, DdnsIdle
  <1>4. ASSUME NEW r \in Req, Serving(r) PROVE RequestedInv'
    <2>1. PICK pc \in DdnsPC :
            /\ pc = "reverse" => ddns[r].alias # None
            /\ ddns' = [ddns EXCEPT ![r].pc = pc] \/ ddns' = [ddns EXCEPT ![r] = DdnsIdle]
      BY <1>4 DEF Serving, DdnsStep, DdnsUpdate, DdnsWrite, DdnsGone, DdnsNoAlias,
         DdnsPutAlias, DdnsPutReverse, DdnsDelete, DdnsUnalias, Goto, Finish, DdnsPC
    <2>2. CASE ddns' = [ddns EXCEPT ![r].pc = pc]
      <3>. DEFINE d == [ddns[r] EXCEPT !.pc = pc]
      <3>1. d.pc = pc /\ d.key = ddns[r].key /\ d.alias = ddns[r].alias
        BY <1>1 DEF DdnsTypeOK
      <3>2. Requested(d)
        BY <2>1, <3>1 DEF Requested, RequestedInv
      <3>3. ddns' = [ddns EXCEPT ![r] = d]
        BY <1>1, <2>2 DEF DdnsTypeOK
      <3>. QED
        BY <1>2, <3>2, <3>3
    <2>. QED
      BY <1>2, <1>3, <2>1, <2>2
  <1>5. ASSUME NEW r \in Req, Requesting(r) PROVE RequestedInv'
    <2>1. PICK q \in Requests :
            ddns' = [ddns EXCEPT ![r] = [pc |-> "update", key |-> q.key, lan |-> q.lan,
                                         alias |-> q.alias]]
      BY <1>5 DEF Requesting, UpdateRequest
    <2>2. Requested([pc |-> "update", key |-> q.key, lan |-> q.lan, alias |-> q.alias])
      BY DEF Requested, WholeEnvironment
    <2>. QED
      BY <1>2, <2>1, <2>2
  <1>6. ASSUME NEW r \in Req, NEW k \in Removals, Deleting(r, k) PROVE RequestedInv'
    <2>1. ddns[r].pc = "idle" /\ ddns' = [ddns EXCEPT ![r].pc = "delete", ![r].key = k]
      BY <1>6 DEF Deleting, DeleteRequest
    <2>. DEFINE d == [ddns[r] EXCEPT !.pc = "delete", !.key = k]
    <2>2. d.pc = "delete" /\ d.alias = None
      BY <1>1, <2>1 DEF DdnsTypeOK, RestInv
    <2>3. ddns' = [ddns EXCEPT ![r] = d]
      BY <1>1, <2>1 DEF DdnsTypeOK
    <2>. QED
      BY <1>2, <2>2, <2>3 DEF Requested
  <1>7. CASE Restart \/ Reboot
    BY <1>3, <1>7 DEF Restart, Reboot, Crash, RequestedInv
  <1>8. CASE Starting \/ Syncing \/ Polling \/ AdminDevice \/ AdminEtcd \/ PeerMoves \/ UNCHANGED vars
    <2>1. UNCHANGED ddns
      BY <1>8 DEF Starting, Syncing, Polling, AdminDevice, AdminEtcd, PeerMoves, pluginVars, vars
    <2>. QED
      BY <2>1 DEF RequestedInv
  <1>. QED
    BY <1>4, <1>5, <1>6, <1>7, <1>8 DEF Next

\* What the sync puts.
LEMMA SyncingActs ==
    ASSUME WholeEnvironment, Inv1, Syncing, UNCHANGED ctl
    PROVE  PluginActs \/ UNCHANGED ctlVars
  <1>1. sync.key \in Key /\ sync.ops \in [Field -> Text \cup {None}]
    BY DEF Inv1, TypeOK, SyncTypeOK
  <1>2. UNCHANGED <<peerAlias, aliases, wg>>
    BY DEF Syncing, SyncStep, SyncTick, SyncCollect, SyncCommit, SyncFail, SyncClear, SyncDone,
       SyncSkip, SyncBegin, etcdVars
  <1>3. UNCHANGED store \/ PutFields(sync.key, sync.ops)
    BY DEF Syncing, SyncStep, SyncTick, SyncCollect, SyncCommit, SyncFail, SyncClear, SyncDone,
       SyncSkip, SyncBegin, etcdVars
  <1>4. PutFields(sync.key, sync.ops) => \E n \in Puts : PutFields(n.key, n.ops)
    <2>1. [key |-> sync.key, ops |-> sync.ops] \in Puts
      BY <1>1 DEF WholeEnvironment
    <2>. QED
      BY <2>1
  <1>. QED
    BY <1>2, <1>3, <1>4 DEF PluginActs, PluginPuts, ctlVars

\* What Init restores.
LEMMA StartingActs ==
    ASSUME WholeEnvironment, Inv1, Starting, UNCHANGED ctl
    PROVE  PluginActs \/ UNCHANGED ctlVars
  <1>1. UNCHANGED etcdVars
    BY DEF Starting, BootStep, BootLoad, BootNoLoad, BootDevice, BootNoDevice, BootRestored,
       BootSelf, BootRestore, BootNoRestore
  <1>2. CASE UNCHANGED wg
    BY <1>1, <1>2 DEF ctlVars, etcdVars
  <1>3. ASSUME NEW k \in Key, BootRestore(k) PROVE PluginActs
    <2>1. cache[k].addr["wg"] \in IP /\ Configure(k, cache[k].addr["wg"], FALSE)
      BY <1>3 DEF BootRestore
    <2>2. PICK n : n = [key |-> k, ops |-> [f \in Field |-> IF f = "wg" THEN cache[k].addr["wg"] ELSE None]]
      OBVIOUS
    <2>3. n \in Puts /\ n.key = k /\ n.ops["wg"] = cache[k].addr["wg"]
      BY <2>1, <2>2 DEF WholeEnvironment, Field, Text
    <2>. QED
      BY <1>1, <2>1, <2>3 DEF PluginActs, PluginRestores
  <1>4. UNCHANGED wg \/ \E k \in Key : BootRestore(k)
    BY DEF Starting, BootStep, BootLoad, BootNoLoad, BootDevice, BootNoDevice, BootRestored,
       BootSelf, BootNoRestore
  <1>. QED
    BY <1>2, <1>3, <1>4

\* What the DDNS handlers put, and that they delete nothing.
LEMMA ServingActs ==
    ASSUME Inv1, RequestedInv, NEW r \in Req, Serving(r), UNCHANGED ctl
    PROVE  PluginActs \/ UNCHANGED ctlVars
  <1>1. EtcdTypeOK /\ ddns[r].key \in Key /\ UNCHANGED <<store, wg>>
    BY DEF Inv1, TypeOK, DdnsTypeOK, Serving, DdnsStep, DdnsUpdate, DdnsWrite, DdnsGone,
       DdnsNoAlias, DdnsPutAlias, DdnsPutReverse, DdnsDelete, DdnsUnalias, etcdVars
  <1>2. CASE UNCHANGED etcdVars
    BY <1>1, <1>2 DEF ctlVars, etcdVars
  <1>3. PICK n : n = [key |-> ddns[r].key, alias |-> ddns[r].alias]
    OBVIOUS
  <1>4. CASE /\ ddns[r].alias # None /\ UNCHANGED peerAlias
             /\ aliases' = [aliases EXCEPT ![ddns[r].alias] = ddns[r].key]
    <2>1. n \in AliasPuts /\ n.key = ddns[r].key /\ n.alias = ddns[r].alias
      BY <1>3, <1>4 DEF RequestedInv, Requested
    <2>. QED
      BY <1>1, <1>4, <2>1 DEF PluginActs, PluginAnnounces
  <1>5. CASE /\ ddns[r].alias # None /\ UNCHANGED aliases
             /\ peerAlias' = [peerAlias EXCEPT ![ddns[r].key] = ddns[r].alias]
    <2>1. n \in AliasPuts /\ n.key = ddns[r].key /\ n.alias = ddns[r].alias
      BY <1>3, <1>5 DEF RequestedInv, Requested
    <2>. QED
      BY <1>1, <1>5, <2>1 DEF PluginActs, PluginAnnounces
  <1>6. CASE DdnsUnalias(r)
    <2>1. ddns[r].key \notin Alias
      BY <1>1, CommandAssumption
    <2>2. UNCHANGED etcdVars
      BY <1>1, <1>6, <2>1 DEF DdnsUnalias, EtcdTypeOK, etcdVars
    <2>. QED
      BY <1>2, <2>2
  <1>7. CASE DdnsPutReverse(r)
    <2>1. ddns[r].alias # None
      BY <1>7 DEF DdnsPutReverse, RequestedInv, Requested
    <2>. QED
      BY <1>1, <1>2, <1>5, <1>7, <2>1 DEF DdnsPutReverse, etcdVars
  <1>8. CASE DdnsPutAlias(r)
    BY <1>1, <1>2, <1>4, <1>8 DEF DdnsPutAlias, etcdVars
  <1>. QED
    BY <1>2, <1>6, <1>7, <1>8
       DEF Serving, DdnsStep, DdnsUpdate, DdnsWrite, DdnsGone, DdnsNoAlias, DdnsDelete

LEMMA SysStepOfCommands ==
    ASSUME WholeEnvironment, CommandsInv, [SysNext]_sysVars PROVE [CtlNext]_ctlVars
  <1>1. Inv1 /\ RequestedInv
    BY DEF CommandsInv, SysInv
  <1>2. CASE PluginStep
    <2>1. UNCHANGED ctl
      BY <1>2 DEF PluginStep
    <2>2. CASE Polling
      <3>1. UNCHANGED <<etcdVars, wg>>
        BY <2>2 DEF Polling, PollStep, PollTick, PollFetch, PollMiss, PollSet, PollUpdate, PollWrite,
           PollGone, PollDone, PollLookup
      <3>. QED
        BY <2>1, <3>1 DEF ctlVars, etcdVars
    <2>3. ASSUME NEW r \in Req, Requesting(r) PROVE UNCHANGED ctlVars
      BY <2>1, <2>3 DEF Requesting, UpdateRequest, ctlVars, etcdVars
    <2>4. CASE PeerMoves
      BY <2>1, <2>4 DEF PeerMoves, PeerRoams, CtlNext, PluginActs
    <2>. QED
      BY <1>1, <1>2, <2>1, <2>2, <2>3, <2>4, StartingActs, SyncingActs, ServingActs
         DEF PluginStep, CtlNext
  <1>3. CASE PluginStop
    BY <1>3, PluginStops DEF CtlNext, PluginActs
  <1>4. ASSUME NEW c \in Cmd, CallDdns(c) \/ AnswerDdns(c) \/ CommandStep(c) PROVE CtlNext
    BY <1>4 DEF CallDdns, AnswerDdns, CommandStep, CtlNext
  <1>5. CASE UNCHANGED sysVars
    BY <1>5 DEF sysVars, vars, ctlVars
  <1>. QED
    BY <1>2, <1>3, <1>4, <1>5 DEF SysNext

\* Whatever the plugin writes while commands run, interrupted and repeated, is what
\* ValonCtl lets its environment write.
THEOREM SystemIsCommands ==
    ASSUME WholeScope, WholeEnvironment PROVE SysSpec => ImplementsCommands
  <1>1. SysInit => CommandsInv /\ CommandsInit
    <2>1. SysInit => SysInv /\ Init
      BY SysInitInv
    <2>2. Init => RestInv /\ RequestedInv
      BY DEF Init, BootInit, DdnsInit, DdnsIdle, RestInv, RequestedInv, Requested
    <2>3. SysInit => CommandsInit
      BY DEF SysInit, Init, CommandsInit
    <2>. QED
      BY <2>1, <2>2, <2>3 DEF CommandsInv
  <1>2. CommandsInv /\ [SysNext]_sysVars => CommandsInv'
    <2>1. SUFFICES ASSUME CommandsInv, [SysNext]_sysVars PROVE CommandsInv'
      OBVIOUS
    <2>2. SysInv /\ Inv1 /\ RestInv /\ RequestedInv
      BY <2>1 DEF CommandsInv, SysInv
    <2>3. SysInv' /\ [Next]_vars
      BY <2>1, <2>2, SysNextInv, SysStep
    <2>. QED
      BY <2>2, <2>3, NextRestInv, NextRequested DEF CommandsInv
  <1>3. CommandsInv /\ [SysNext]_sysVars => [CtlNext]_ctlVars
    BY SysStepOfCommands
  <1>. QED
    BY <1>1, <1>2, <1>3, PTL DEF SysSpec, ImplementsCommands, CtlSpec

\* Beside the running plugin, too, remove takes off the device the peer that it
\* deletes from etcd.
THEOREM RemovesOneVictimInSystem ==
    ASSUME WholeScope, WholeEnvironment, OneTerminal, OwnAliases PROVE SysSpec => []SameVictim
  BY SystemIsCommands, RemovesOneVictim, PTL DEF ImplementsCommands

\* Beside the running plugin, too, commands cut short leave no peer listed under an
\* alias that leads elsewhere.
THEOREM AliasesResolveInSystem ==
    ASSUME WholeScope, WholeEnvironment, OneTerminal, OwnAliases
    PROVE  SysSpec => []ListedAliasResolves
  BY SystemIsCommands, AliasesResolve, PTL DEF ImplementsCommands

\* Beside the running plugin, too, peer add is given the lowest address that etcd does
\* not know to be in use.
THEOREM AllocatesTheLowestFreeInSystem ==
    ASSUME WholeScope, WholeEnvironment PROVE SysSpec => []AllocationExact
  BY SystemIsCommands, AllocatesTheLowestFree, PTL DEF ImplementsCommands
=============================================================================
